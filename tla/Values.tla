-------------------------------- MODULE Values --------------------------------
(* The values a Python program finds in JSON, for the two places that read them *)
(* by rules of their own: the predicates of policies and the evaluators.        *)
EXTENDS Integers, Sequences, FiniteSets, SequencesExt

CONSTANT Methods       \* the attributes Python's own texts have

(* A value is [type, v]: booleans and numbers carry an integer, texts a         *)
(* sequence of letters, lists a sequence of values, maps a function from texts. *)
Nothing   == [type |-> "none", v |-> 0]
Error     == [type |-> "error", v |-> 0]
Bool(b)   == [type |-> "bool", v |-> IF b THEN 1 ELSE 0]
Method    == [type |-> "method", v |-> 0]
IsError(x) == x.type = "error"
Missing(x) == x.type = "none"
Numeric(x) == x.type \in {"bool", "number"}
Sized(x)  == x.type \in {"text", "list", "map"}

Truthy(x) ==
    CASE x.type = "none" -> FALSE
      [] Numeric(x) -> x.v # 0
      [] Sized(x) -> DOMAIN x.v # {}
      [] OTHER -> TRUE

RECURSIVE Same(_, _)
Same(x, y) ==
    \/ Numeric(x) /\ Numeric(y) /\ x.v = y.v
    \/ /\ x.type = y.type /\ Sized(x)
       /\ DOMAIN x.v = DOMAIN y.v
       /\ \A i \in DOMAIN x.v : IF x.type = "text" THEN x.v[i] = y.v[i] ELSE Same(x.v[i], y.v[i])
    \/ Missing(x) /\ Missing(y)

(* Texts are compared letter by letter.                                         *)
Less(x, y) ==
    IF Numeric(x) THEN x.v < y.v
    ELSE \E k \in DOMAIN y.v : /\ k - 1 <= Len(x.v)
                               /\ SubSeq(x.v, 1, k - 1) = SubSeq(y.v, 1, k - 1)
                               /\ Len(x.v) = k - 1 \/ x.v[k] < y.v[k]

Contained(item, container) ==
    CASE container.type = "list" -> \E i \in DOMAIN container.v : Same(item, container.v[i])
      [] container.type = "map"  -> item.type = "text" /\ item.v \in DOMAIN container.v
      [] container.type = "text" /\ item.type = "text" ->
            \E i \in 0 .. Len(container.v) - Len(item.v) : item.v = SubSeq(container.v, i + 1, i + Len(item.v))
      [] OTHER -> FALSE
=============================================================================
