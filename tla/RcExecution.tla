------------------------------ MODULE RcExecution ------------------------------
(***************************************************************************)
(* The code RcCodegen generates for a function, run instruction by         *)
(* instruction over reference-counted objects.  Each branch may go either  *)
(* way.  Properties: nothing is touched after its last reference was given *)
(* back, and on every way out of the function all references are.          *)
(***************************************************************************)
EXTENDS Naturals, Sequences, TLC, SequencesExt

CONSTANT Functions
    \* generated functions, as RcCodegen!Function makes them: records of the blocks,
    \* the slots that own what they hold, those of variables for the rest of a
    \* list, and the slots of the parameters

VARIABLES
    blocks,   \* the code
    owners,   \* the slots that own what they hold (rc_scope_stack)
    rests,    \* the slots of variables for the rest of a list
    lent,     \* the arguments: the caller holds a reference to each
    needed,   \* the values and slots that are read in a later block, if at all
    at, pc,   \* the next instruction; at = 0: the function has returned
    slots,    \* what the slots hold, an absent one is null
    values,   \* the values computed so far
    count,    \* the reference count of each live object
    unowned,  \* history: the live objects that were stored in a slot of rests
    result    \* the value returned

vars == << blocks, owners, rests, lent, needed, at, pc, slots, values, count, unowned, result >>
code == << blocks, owners, rests, lent, needed >>

Null == 0

\* What an instruction reads, and the values read in another block than the one
\* that computes them.
ValuesRead(i) ==
    CASE i.op \in {"new", "use"} -> Range(i.uses)
      [] i.op \in {"store", "copy", "clone", "retain", "ret"} -> {i.from}
      [] OTHER -> {}
SlotsRead(b) == {i.slot : i \in {j \in Range(b) : j.op \in {"load", "release"}}}
ValuesMade(b) == {i.to : i \in {j \in Range(b) : j.op \in {"new", "load", "clone", "null"}}}
Needed(bs) ==
    [values |-> UNION {UNION {ValuesRead(i) : i \in Range(b)} \ ValuesMade(b) : b \in Range(bs)},
     slots |-> UNION {SlotsRead(b) : b \in Range(bs)}]

\* The caller's object that a parameter's slot is given.
Argument(slot) == slot

Init ==
    \E function \in Functions :
        /\ blocks = function.blocks
        /\ owners = function.owners
        /\ rests = function.rests
        /\ lent = {Argument(s) : s \in function.params}
        /\ needed = Needed(function.blocks)
        /\ at = 1 /\ pc = 1
        /\ slots = [s \in function.params |-> Argument(s)]
        /\ values = << >>
        /\ count = [o \in lent |-> 1]
        /\ unowned = {}
        /\ result = Null

Running == at # 0
Current == blocks[at][pc]
Held(slot) == IF slot \in DOMAIN slots THEN slots[slot] ELSE Null
LiveObjects == DOMAIN count

\* A new object is none that is live or still pointed to.
Unused ==
    LET taken == LiveObjects \cup Range(slots) \cup Range(values)
    IN  CHOOSE o \in 1 .. Cardinality(taken) + 1 :
            o \notin taken /\ \A p \in 1 .. o - 1 : p \in taken

\* The objects an instruction reads or counts; null is let pass by the runtime's
\* mux_rc_inc, mux_rc_dec and mux_value_deep_clone.
Reads(i) ==
    CASE i.op \in {"new", "use"} -> {values[v] : v \in Range(i.uses)}
      [] OTHER -> {}
Counts(i) ==
    CASE i.op \in {"clone", "retain"} -> {values[i.from]} \ {Null}
      [] i.op = "release" -> {Held(i.slot)} \ {Null}
      [] OTHER -> {}

Instruction(op) ==
    /\ Running
    /\ Current.op = op
    /\ Reads(Current) \cup Counts(Current) \subseteq LiveObjects
    /\ UNCHANGED code

Step == pc' = pc + 1 /\ UNCHANGED << at, result >>

Make ==
    /\ Instruction("new") /\ Step
    /\ values' = Current.to :> Unused @@ values
    /\ count' = Unused :> 1 @@ count
    /\ UNCHANGED << slots, unowned >>

Use == Instruction("use") /\ Step /\ UNCHANGED << slots, values, count, unowned >>

Load ==
    /\ Instruction("load") /\ Step
    /\ values' = Current.to :> Held(Current.slot) @@ values
    /\ UNCHANGED << slots, count, unowned >>

Copy ==
    /\ Instruction("copy") /\ Step
    /\ values' = Current.to :> values[Current.from] @@ values
    /\ UNCHANGED << slots, count, unowned >>

SetNull ==
    /\ Instruction("null") /\ Step
    /\ values' = Current.to :> Null @@ values
    /\ UNCHANGED << slots, count, unowned >>

\* mux_value_deep_clone
Clone ==
    /\ Instruction("clone") /\ Step
    /\ IF values[Current.from] = Null
       THEN values' = Current.to :> Null @@ values /\ count' = count
       ELSE values' = Current.to :> Unused @@ values /\ count' = Unused :> 1 @@ count
    /\ UNCHANGED << slots, unowned >>

Store ==
    /\ Instruction("store") /\ Step
    /\ slots' = Current.slot :> values[Current.from] @@ slots
    /\ unowned' = unowned \cup {o \in {values[Current.from]} \ {Null} : Current.slot \in rests}
    /\ UNCHANGED << values, count >>

Clear ==
    /\ Instruction("clear") /\ Step
    /\ slots' = [s \in DOMAIN slots \ {Current.slot} |-> slots[s]]
    /\ UNCHANGED << values, count, unowned >>

\* mux_rc_inc
Retain ==
    /\ Instruction("retain") /\ Step
    /\ count' = [o \in LiveObjects |-> count[o] + IF o = values[Current.from] THEN 1 ELSE 0]
    /\ UNCHANGED << slots, values, unowned >>

\* mux_rc_dec: the object goes with its last reference.
Release ==
    /\ Instruction("release") /\ Step
    /\ LET o == Held(Current.slot)
           left == [p \in LiveObjects |-> count[p] - IF p = o THEN 1 ELSE 0]
       IN  count' = [p \in {p \in LiveObjects : left[p] > 0} |-> left[p]]
    /\ unowned' = unowned \cap DOMAIN count'
    /\ UNCHANGED << slots, values >>

\* What no later block reads is forgotten, for fewer states.
Enter(b) ==
    /\ at' = b /\ pc' = 1
    /\ values' = Restrict(values, DOMAIN values \cap needed.values)
    /\ slots' = Restrict(slots, DOMAIN slots \cap needed.slots)
    /\ UNCHANGED << count, unowned, result >>

Follow == Instruction("goto") /\ Enter(Current.to)

Decide == Instruction("branch") /\ \E b \in {Current.yes, Current.no} : Enter(b)

ReturnToCaller ==
    /\ Instruction("ret")
    /\ at' = 0 /\ pc' = 1
    /\ result' = IF Current.from = 0 THEN Null ELSE values[Current.from]
    /\ UNCHANGED << slots, values, count, unowned >>

Next ==
    \/ Make \/ Use \/ Load \/ Copy \/ SetNull \/ Clone \/ Store \/ Clear
    \/ Retain \/ Release \/ Follow \/ Decide \/ ReturnToCaller

Spec == Init /\ [][Next]_vars

-------------------------------------------------------------------------------
(***************************************************************************)
(* Nothing is read, copied, retained or released whose last reference has  *)
(* been given back: on no path does a temporary's or a variable's slot     *)
(* give back the same reference twice, and no value that was not retained  *)
(* outlives its owner.                                                     *)
(***************************************************************************)
NoUseAfterRelease ==
    Running => Reads(Current) \cup Counts(Current) \subseteq LiveObjects

(***************************************************************************)
(* Whichever way the function is left, the only references that remain are *)
(* those its caller holds, one to each argument and one to the result, and *)
(* one to what a variable for the rest of a list holds: the slice is       *)
(* neither registered as a temporary nor is its slot tracked               *)
(* (bind_list_pattern_variables).                                          *)
(***************************************************************************)
NothingLeaked ==
    ~Running =>
        LET held == lent \cup ({result} \ {Null}) \cup unowned
            One(objects, o) == IF o \in objects THEN 1 ELSE 0
        IN  count = [o \in held |-> One(lent, o) + One({result}, o) + One(unowned, o)]

(***************************************************************************)
(* All references are given back.  They are not: the list that `r` stands  *)
(* for in a pattern `[a, ..r]` is lost at each match.                      *)
(***************************************************************************)
EverythingGivenBack == NothingLeaked /\ (~Running => unowned = {})

(***************************************************************************)
(* Values are copied, not shared: no two variables, and no variable and    *)
(* argument, hold the same object, so that writing through one never shows *)
(* in another and each slot may give back its reference.                   *)
(***************************************************************************)
VariablesDoNotShare ==
    /\ \A s, t \in owners : s # t /\ Held(s) \in LiveObjects => Held(s) # Held(t)
    /\ \A s \in owners : Held(s) \notin lent

===============================================================================
