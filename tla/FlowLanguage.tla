----------------------------- MODULE FlowLanguage -----------------------------
(***************************************************************************)
(* The statements of a function body, as far as the two flow analyses of   *)
(* the compiler (Narrowing, DefiniteAssignment) tell them apart.           *)
(*                                                                         *)
(* A block is a sequence of statements, records whose field k is one of    *)
(*   "set"      x, v      x = ok(..) / err(..) / a copy of x2 / a call     *)
(*   "save"     b, c      a boolean variable takes the value of c          *)
(*   "pass"     x         a call that is given the reference &x            *)
(*   "call"               a call, or a write through a reference           *)
(*   "extract"  x, v      x.value() (v = "present"), x.error() ("absent")  *)
(*   "break", "continue", "return"                                         *)
(*   "if"       c, yes, no                                                 *)
(*   "while"    c, body                                                    *)
(*   "for"      iter, body                                                 *)
(*   "match"    x, arms   each arm with a pattern v, a guard and a body    *)
(*   "block"    body                                                       *)
(*   "decl"     t         `Type t`, a declaration without a value          *)
(*   "assign", "read"  t                                                   *)
(* A condition is a record whose field op is "opaque" (any value), "is"    *)
(* (x, v: is_ok, is_some, is_err, is_none), "flag" (b), "not" (c), "and",  *)
(* "or" (l, r), "pass" (x: a call given &x) or "read" (t: any value        *)
(* computed from the variable t).                                          *)
(***************************************************************************)
EXTENDS Naturals, Sequences

CONSTANTS
    Wrappers,    \* variables of type optional or result
    Flags,       \* boolean variables
    Globals,     \* the wrappers declared outside of functions
    References,  \* the wrappers whose type is a reference
    Slots,       \* variables declared without a value
    Conditions,  \* conditions, and those they are made of
    Statements,  \* statements
    Blocks,      \* the blocks inside of statements
    Nesting,     \* how deep other blocks are nested in a block
    Families     \* of function bodies: a body of a family consists of one of
                 \* the blocks in its field before, one of those in its field
                 \* middle, and one of those in its field after

Variants == {"present", "absent"}

Opposite(v) == CHOOSE w \in Variants : w # v

Elements(ss) == {ss[i] : i \in DOMAIN ss}

\* The blocks directly inside a statement.
Inner(s) ==
    CASE s.k = "if" -> {s.yes, s.no}
      [] s.k \in {"while", "for", "block"} -> {s.body}
      [] s.k = "match" -> {s.arms[i].body : i \in DOMAIN s.arms}
      [] OTHER -> {}

InnerBlocks(ss) == UNION {Inner(s) : s \in Elements(ss)}

\* The conditions directly in a statement, and directly in a condition.
ConditionsOf(s) ==
    CASE s.k \in {"if", "while", "save"} -> {s.c}
      [] s.k = "for" -> {s.iter}
      [] s.k = "match" -> {s.arms[i].guard : i \in DOMAIN s.arms}
      [] OTHER -> {}

Parts(c) ==
    CASE c.op = "not" -> {c.c}
      [] c.op \in {"and", "or"} -> {c.l, c.r}
      [] OTHER -> {}

ASSUME KindsOfWrappers ==
    /\ Globals \subseteq Wrappers
    /\ References \subseteq Wrappers
    /\ Wrappers \cap Flags = {}

\* A body is finite, so the blocks in it have a depth; a match is exhaustive,
\* which is checked elsewhere, so it has an arm.
ASSUME BlocksAreNested ==
    /\ \A family \in Families :
         family.before \cup family.middle \cup family.after \subseteq Seq(Statements)
    /\ Nesting \in [Blocks -> Nat]
    /\ \A ss \in Blocks :
         /\ ss \in Seq(Statements)
         /\ \A inner \in InnerBlocks(ss) : Nesting[inner] < Nesting[ss]
    /\ \A s \in Statements : Inner(s) \subseteq Blocks

ASSUME PartsAreKnown ==
    /\ \A s \in Statements :
         /\ s.k \in {"decl", "assign", "read"} => s.t \in Slots
         /\ s.k = "match" => DOMAIN s.arms # {}
         /\ ConditionsOf(s) \subseteq Conditions
    /\ \A c \in Conditions : Parts(c) \subseteq Conditions

\* A block and all the blocks inside it.
BlocksIn[ss \in Blocks] ==
    {ss} \cup UNION {BlocksIn[inner] : inner \in InnerBlocks(ss)}

\* All the blocks inside a body, and all the statements inside a statement,
\* the body and the statement included.
BlocksOf(body) == {body} \cup UNION {BlocksIn[inner] : inner \in InnerBlocks(body)}

Within(s) ==
    {s} \cup UNION {Elements(b) : b \in UNION {BlocksIn[inner] : inner \in Inner(s)}}

===============================================================================
