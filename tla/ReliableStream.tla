--------------------------- MODULE ReliableStream ---------------------------
(***************************************************************************)
(* What a Session promises one direction of its clients (swp.go): what the *)
(* reader obtains is what the writer pushed, in that order, nothing left   *)
(* out and nothing twice.  How far the reader has got is not promised.     *)
(***************************************************************************)
EXTENDS Sequences, Naturals

CONSTANT Payload

VARIABLES pushed, delivered

Push(d) == /\ pushed' = Append(pushed, d)
           /\ UNCHANGED delivered

Deliver ==
  /\ \E n \in Len(delivered) + 1 .. Len(pushed) : delivered' = SubSeq(pushed, 1, n)
  /\ UNCHANGED pushed

Init == pushed = <<>> /\ delivered = <<>>
Next == (\E d \in Payload : Push(d)) \/ Deliver
Spec == Init /\ [][Next]_<<pushed, delivered>>
=============================================================================
