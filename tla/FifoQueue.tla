----------------------------- MODULE FifoQueue -----------------------------
(***************************************************************************)
(* What the multi-producer single-consumer queue promises: values leave in *)
(* the order in which they took effect, none lost and none twice.          *)
(***************************************************************************)
EXTENDS Sequences

CONSTANTS Values, NoValue

VARIABLES
  contents,   \* the values put and not yet taken, oldest first
  result      \* the value handed out last

vars == <<contents, result>>

Init ==
  /\ contents = <<>>
  /\ result = NoValue

Put(v) ==
  /\ contents' = Append(contents, v)
  /\ UNCHANGED result

Take ==
  /\ contents # <<>>
  /\ result' = Head(contents)
  /\ contents' = Tail(contents)

Next == Take \/ \E v \in Values : Put(v)

Spec == Init /\ [][Next]_vars
=============================================================================
