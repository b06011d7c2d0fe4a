------------------------------- MODULE Sponge -------------------------------
(***************************************************************************)
(* What a Keccak hash promises, whatever its block length is buffered in:  *)
(* the digest is that of the whole message fed since the last digest,      *)
(* padded once.  The permutation is left out: a digest stands for the      *)
(* blocks it absorbed.                                                     *)
(***************************************************************************)
EXTENDS Integers, Sequences

CONSTANTS BlockLen, InputByte

VARIABLES
  message,   \* bytes absorbed since the last digest
  input,     \* bytes handed over and not absorbed yet
  output     \* blocks of the last digest
vars == <<message, input, output>>

Zeros(n) == [i \in 1..n |-> 0]

\* Padding of a message that is r bytes past its last whole block: a first
\* bit, zeros, and a last bit that ends the block; one byte may hold both.
Padding(r) ==
  IF r + 1 = BlockLen THEN <<129>>
  ELSE <<1>> \o Zeros(BlockLen - r - 2) \o <<128>>

Padded(m) == m \o Padding(Len(m) % BlockLen)

Init == message = <<>> /\ input = <<>> /\ output = <<>>

HandOver ==
  /\ input = <<>>
  /\ input' \in Seq(InputByte)
  /\ UNCHANGED <<message, output>>

Absorb ==
  /\ \E n \in 1..Len(input) :
       /\ message' = message \o SubSeq(input, 1, n)
       /\ input' = SubSeq(input, n + 1, Len(input))
  /\ UNCHANGED output

AbsorbByte ==
  /\ input = <<>>
  /\ \E byte \in InputByte : message' = Append(message, byte)
  /\ UNCHANGED <<input, output>>

Digest ==
  /\ input = <<>>
  /\ output' = Padded(message)
  /\ message' = <<>>
  /\ UNCHANGED input

Next == HandOver \/ Absorb \/ AbsorbByte \/ Digest
Spec == Init /\ [][Next]_vars
=============================================================================
