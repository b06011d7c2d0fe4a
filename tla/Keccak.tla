------------------------------- MODULE Keccak -------------------------------
(***************************************************************************)
(* class Keccak of src/utils/keccak: a block buffer in front of a sponge.  *)
(* addData fills the buffer and absorbs it whenever it is full; digest     *)
(* pads what the buffer holds, absorbs it and resets.  The permutation     *)
(* keccakf is left out: the state A is the sequence of the bytes absorbed. *)
(***************************************************************************)
EXTENDS Integers, Sequences

CONSTANTS
  BlockLen,    \* 200 - 2 * (length / 8) in the code
  InputByte,   \* bytes of messages
  MaxMessage   \* bound on the bytes fed between digests

ASSUME BlockAssumption == BlockLen \in Nat \ {0}
ASSUME InputAssumption == InputByte \subseteq 0..255
ASSUME MessageAssumption == MaxMessage \in Nat

VARIABLES
  A,           \* bytes absorbed
  buffer,      \* [1..BlockLen -> byte]
  bufferLen,   \* bytes of the buffer in use
  input,       \* what addData has still to copy
  output       \* the digest returned last
keccakVars == <<A, buffer, bufferLen, input, output>>

\* Keccak::Keccak.
KeccakInit ==
  /\ A = <<>>
  /\ buffer = [i \in 1..BlockLen |-> 0]
  /\ bufferLen = 0
  /\ input = <<>>
  /\ output = <<>>

\* The buffer with bytes written behind those in use.
Written(bytes) ==
  [i \in 1..BlockLen |->
     IF i \in bufferLen + 1..bufferLen + Len(bytes)
     THEN bytes[i - bufferLen] ELSE buffer[i]]

\* Bug: a full buffer is absorbed but stays full.
StaysFull(b, n) ==
  /\ buffer' = b
  /\ IF n = BlockLen THEN A' = A \o b ELSE A' = A
  /\ bufferLen' = n

\* Copying ends with n bytes in use: processBuffer absorbs a full buffer.
Filled(b, n) ==
  /\ buffer' = b
  /\ IF n = BlockLen THEN A' = A \o b /\ bufferLen' = 0
     ELSE A' = A /\ bufferLen' = n

\* addData(uint8_t).
AddByte ==
  /\ input = <<>> /\ Len(A) + bufferLen < MaxMessage
  /\ \E byte \in InputByte : Filled(Written(<<byte>>), bufferLen + 1)
  /\ UNCHANGED <<input, output>>

\* addData(const uint8_t *, off, len) is called.
AddData ==
  /\ input = <<>>
  /\ \E n \in 0..MaxMessage - Len(A) - bufferLen :
       input' \in [1..n -> InputByte]
  /\ UNCHANGED <<A, buffer, bufferLen, output>>

\* Bug: the last byte of the buffer is never used.
LeavesLastFree ==
  IF BlockLen - bufferLen - 1 > Len(input) THEN Len(input)
  ELSE BlockLen - bufferLen - 1

\* cpLen.
CopyLen ==
  IF BlockLen - bufferLen > Len(input) THEN Len(input)
  ELSE BlockLen - bufferLen

\* One turn of its loop.
CopyTurn ==
  /\ input # <<>>
  /\ Filled(Written(SubSeq(input, 1, CopyLen)), bufferLen + CopyLen)
  /\ input' = SubSeq(input, CopyLen + 1, Len(input))
  /\ UNCHANGED output

\* Bug: bytes of an earlier block stay between message and end of block.
StalePadding ==
  [i \in 1..BlockLen |->
     IF i <= bufferLen THEN buffer[i]
     ELSE IF bufferLen + 1 = BlockLen THEN 129
     ELSE IF i = bufferLen + 1 THEN 1
     ELSE IF i = BlockLen THEN 128 ELSE buffer[i]]

\* addPadding.
WithPadding ==
  [i \in 1..BlockLen |->
     IF i <= bufferLen THEN buffer[i]
     ELSE IF bufferLen + 1 = BlockLen THEN 129
     ELSE IF i = bufferLen + 1 THEN 1
     ELSE IF i = BlockLen THEN 128 ELSE 0]

\* digest: addPadding, processBuffer, and reset after the digest is read;
\* the buffer keeps its content.
Digest ==
  /\ input = <<>>
  /\ buffer' = WithPadding
  /\ output' = A \o WithPadding
  /\ A' = <<>>
  /\ bufferLen' = 0
  /\ UNCHANGED input

KeccakNext == AddByte \/ AddData \/ CopyTurn \/ Digest

KeccakSpec == KeccakInit /\ [][KeccakNext]_keccakVars

-----------------------------------------------------------------------------
(* Properties.                                                             *)

\* Whole blocks are absorbed, and the buffer always has room for a byte:
\* addData and addPadding write buffer[bufferLen] before they look.
BufferHasRoom ==
  /\ A \in Seq(0..255)
  /\ Len(A) % BlockLen = 0
  /\ buffer \in [1..BlockLen -> 0..255]
  /\ bufferLen \in 0..BlockLen - 1
  /\ input \in Seq(InputByte)

\* However a message is cut into calls of addData, and whatever the buffer
\* still holds of earlier messages, the digest is that of the message padded
\* by the standard's rule; the next message starts from nothing.
Abstract == INSTANCE Sponge WITH
  message <- A \o SubSeq(buffer, 1, bufferLen)
DigestsWholeMessage == Abstract!Spec

\* Every turn of addData's loop copies something: the loop ends.
LoopEnds == []<>(input = <<>>)
=============================================================================
