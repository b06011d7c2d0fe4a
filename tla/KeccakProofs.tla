---------------------------- MODULE KeccakProofs ----------------------------
(***************************************************************************)
(* The Keccak object implements the sponge for every block length, every   *)
(* message and every way a message is cut into calls.                      *)
(***************************************************************************)
EXTENDS Keccak, SequenceTheorems, TLAPS

-----------------------------------------------------------------------------
(* Remainders.                                                             *)

\* Division with remainder, as the provers know it.
LEMMA DivisionOf ==
  ASSUME NEW r \in Nat \ {0}, NEW n \in Nat
  PROVE  /\ n \div r \in Nat
         /\ n = (n \div r) * r + (n % r)
         /\ n % r \in 0..r-1
<1>1. n % r \in 0..r-1 /\ n \div r \in Int
  BY SMT
<1>2. n = (n \div r) * r + (n % r)
  BY SMT
<1>3. n \div r \in Nat
  BY SMT
<1> QED
  BY <1>1, <1>2, <1>3

\* A product is at least the factor it repeats.
LEMMA ProductOf ==
  ASSUME NEW r \in Nat \ {0}, NEW k \in Int, k >= 1
  PROVE  k * r >= r /\ (-k) * r <= -r
  BY SMT

\* The remainder of a multiple and a bit is the bit.
LEMMA Remainder ==
  ASSUME NEW r \in Nat \ {0}, NEW q \in Nat, NEW b \in 0..r-1
  PROVE  (q * r + b) % r = b
<1> DEFINE n == q * r + b
           p == n \div r
           c == n % r
<1>1. n \in Nat
  BY SMT
<1>2. p \in Nat /\ n = p * r + c /\ c \in 0..r-1
  BY <1>1, DivisionOf
<1> HIDE DEF p, c
<1>3. (p - q) * r = b - c
  BY <1>1, <1>2, SMT
<1>4. ~(p - q >= 1)
  BY <1>2, <1>3, ProductOf, SMT
<1>5. ~(q - p >= 1)
  <2>1. SUFFICES ASSUME q - p >= 1 PROVE FALSE
    OBVIOUS
  <2>2. (-(q - p)) * r <= -r
    BY <1>2, <2>1, ProductOf, SMT
  <2>3. (-(q-p)) = p - q
    BY <1>2, SMT
  <2> QED
    BY <1>2, <1>3, <2>2, <2>3, SMT
<1>6. p = q
  BY <1>2, <1>4, <1>5, SMT
<1>7. c = b
  BY <1>2, <1>6, SMT
<1> QED
  BY <1>7 DEF c
\* Whole blocks and a bit: the remainder is the bit, and one more block
\* leaves none.
LEMMA WholeBlocks ==
  ASSUME NEW r \in Nat \ {0}, NEW n \in Nat, n % r = 0, NEW b \in 0..r-1
  PROVE  /\ (n + b) % r = b
         /\ (n + r) % r = 0
<1> DEFINE q == n \div r
<1>1. q \in Nat /\ n = q * r
  BY DivisionOf, SMT
<1> HIDE DEF q
<1>2. (n + b) % r = b
  BY <1>1, Remainder
<1>3. n + r = (q + 1) * r + 0
  BY <1>1, SMT
<1>4. q + 1 \in Nat /\ 0 \in 0..r-1
  BY <1>1, SMT
<1>5. ((q + 1) * r + 0) % r = 0
  BY <1>4, Remainder
<1> QED
  BY <1>2, <1>3, <1>5

-----------------------------------------------------------------------------
(* The buffer.                                                             *)

\* Bytes of the state and the buffer.
AnyByte == 0..255

\* The message the object holds.
Held == A \o SubSeq(buffer, 1, bufferLen)

\* A full block is a sequence.
LEMMA BlockIsSeq ==
  ASSUME NEW f \in [1..BlockLen -> AnyByte]
  PROVE  f \in Seq(AnyByte) /\ Len(f) = BlockLen
  BY BlockAssumption, SMT DEF AnyByte

\* What is held is a sequence of bytes.
LEMMA HeldIsSeq ==
  ASSUME BufferHasRoom
  PROVE  /\ SubSeq(buffer, 1, bufferLen) \in Seq(AnyByte)
         /\ Len(SubSeq(buffer, 1, bufferLen)) = bufferLen
         /\ A \in Seq(AnyByte)
         /\ Held \in Seq(AnyByte)
         /\ Len(Held) = Len(A) + bufferLen
         /\ Len(Held) % BlockLen = bufferLen
<1>1. /\ A \in Seq(AnyByte) /\ bufferLen \in Nat /\ bufferLen < BlockLen
      /\ Len(A) % BlockLen = 0 /\ bufferLen \in 0..BlockLen - 1
  BY BlockAssumption, SMT DEF BufferHasRoom, AnyByte
<1>2. \A i \in 1..bufferLen : buffer[i] \in AnyByte
  BY BlockAssumption, SMT DEF BufferHasRoom, AnyByte
<1>3. /\ SubSeq(buffer, 1, bufferLen) \in Seq(AnyByte)
      /\ Len(SubSeq(buffer, 1, bufferLen)) = bufferLen
  BY <1>1, <1>2, SubSeqProperties, SMT
<1>4. Held \in Seq(AnyByte) /\ Len(Held) = Len(A) + bufferLen
  BY <1>1, <1>3, ConcatProperties DEF Held
<1>5. (Len(A) + bufferLen) % BlockLen = bufferLen
  BY <1>1, BlockAssumption, LenProperties, WholeBlocks
<1> QED
  BY <1>1, <1>3, <1>4, <1>5

\* Bytes written behind those in use follow them.
LEMMA WrittenFollows ==
  ASSUME BufferHasRoom, NEW bytes \in Seq(AnyByte),
         bufferLen + Len(bytes) <= BlockLen
  PROVE  /\ Written(bytes) \in [1..BlockLen -> AnyByte]
         /\ SubSeq(Written(bytes), 1, bufferLen + Len(bytes))
              = SubSeq(buffer, 1, bufferLen) \o bytes
<1> DEFINE n == bufferLen + Len(bytes)
           s == SubSeq(Written(bytes), 1, n)
           t == SubSeq(buffer, 1, bufferLen)
<1>1. /\ bufferLen \in Nat /\ Len(bytes) \in Nat
      /\ buffer \in [1..BlockLen -> AnyByte] /\ BlockLen \in Nat
      /\ \A i \in 1..Len(bytes) : bytes[i] \in AnyByte
  <2>1. Len(bytes) \in Nat /\ \A i \in 1..Len(bytes) : bytes[i] \in AnyByte
    BY LenProperties, ElementOfSeq
  <2> QED
    BY <2>1, BlockAssumption, SMT DEF BufferHasRoom, AnyByte
<1>2. Written(bytes) \in [1..BlockLen -> AnyByte]
  BY <1>1, SMT DEF Written
<1>3. t \in Seq(AnyByte) /\ Len(t) = bufferLen
  BY HeldIsSeq
<1>4. s \in Seq(AnyByte) /\ Len(s) = n
  <2>1. \A i \in 1..n : Written(bytes)[i] \in AnyByte
    BY <1>1, <1>2, SMT
  <2>2. n \in Int
    BY <1>1, SMT
  <2> HIDE DEF n
  <2>3. s \in Seq(AnyByte) /\ Len(s) = IF 1 <= n THEN n - 1 + 1 ELSE 0
    BY <2>1, <2>2, SubSeqProperties
  <2> QED
    BY <1>1, <2>2, <2>3, SMT DEF n
<1>5. /\ t \o bytes \in Seq(AnyByte) /\ Len(t \o bytes) = n
      /\ \A i \in 1..n : (t \o bytes)[i] =
            IF i <= Len(t) THEN t[i] ELSE bytes[i - Len(t)]
  BY <1>3, ConcatProperties
<1>6. ASSUME NEW i \in 1..n PROVE s[i] = (t \o bytes)[i]
  <2>1. s[i] = Written(bytes)[i]
    BY <1>1, <1>2, SMT
  <2>2. i <= bufferLen => t[i] = buffer[i]
    BY <1>1, SMT
  <2>3. i \in 1..BlockLen
    BY <1>1, SMT
  <2>4. Written(bytes)[i] = IF i <= bufferLen THEN buffer[i]
                            ELSE bytes[i - bufferLen]
    BY <1>1, <2>3, SMT DEF Written
  <2> QED
    BY <1>3, <1>5, <2>1, <2>2, <2>4, SMT
<1>7. s = t \o bytes
  <2> HIDE DEF s, t, n
  <2> QED
    BY <1>4, <1>5, <1>6, SeqEqual
<1> QED
  BY <1>2, <1>7

\* Filling the buffer appends to what is held, and leaves room.
LEMMA FilledAppends ==
  ASSUME BufferHasRoom, NEW bytes \in Seq(AnyByte),
         bufferLen + Len(bytes) <= BlockLen,
         Filled(Written(bytes), bufferLen + Len(bytes))
  PROVE  /\ Held' = Held \o bytes
         /\ A' \in Seq(AnyByte) /\ Len(A') % BlockLen = 0
         /\ buffer' \in [1..BlockLen -> AnyByte]
         /\ bufferLen' \in 0..BlockLen - 1
<1> DEFINE n == bufferLen + Len(bytes)
           w == Written(bytes)
           t == SubSeq(buffer, 1, bufferLen)
<1>1. /\ w \in [1..BlockLen -> AnyByte]
      /\ SubSeq(w, 1, n) = t \o bytes
  BY WrittenFollows
<1>2. /\ A \in Seq(AnyByte) /\ t \in Seq(AnyByte)
      /\ Len(A) \in Nat /\ Len(A) % BlockLen = 0
  BY HeldIsSeq, LenProperties DEF BufferHasRoom
<1>3. A \o (t \o bytes) = Held \o bytes
  <2>1. Held = A \o t
    BY DEF Held
  <2> HIDE DEF t
  <2>2. (A \o t) \o bytes = A \o (t \o bytes)
    BY <1>2, ConcatAssociative
  <2> QED
    BY <2>1, <2>2
<1>4. n \in Nat /\ BlockLen \in Nat \ {0}
  BY BlockAssumption, LenProperties, SMT DEF BufferHasRoom
<1>5. CASE n = BlockLen
  <2>1. A' = A \o w /\ bufferLen' = 0 /\ buffer' = w
    BY <1>5 DEF Filled
  <2>2. w \in Seq(AnyByte) /\ Len(w) = BlockLen
    BY <1>1, BlockIsSeq
  <2>3. SubSeq(w, 1, n) = w
    BY <1>5, <2>2, SubSeqFull
  <2>4. A' = Held \o bytes
    BY <1>1, <1>3, <2>1, <2>3
  <2>5. A' \in Seq(AnyByte) /\ Len(A') = Len(A) + BlockLen
    BY <1>2, <2>1, <2>2, ConcatProperties
  <2>6. SubSeq(buffer', 1, bufferLen') = <<>>
    BY <2>1, SubSeqEmpty
  <2>7. Held' = A'
    BY <2>5, <2>6, ConcatEmptySeq DEF Held
  <2>8. (Len(A) + BlockLen) % BlockLen = 0
    BY <1>2, <1>4, WholeBlocks, 0 \in 0..BlockLen - 1
  <2> QED
    BY <1>1, <1>4, <2>1, <2>4, <2>5, <2>7, <2>8, SMT
<1>6. CASE n # BlockLen
  <2>1. A' = A /\ bufferLen' = n /\ buffer' = w
    BY <1>6 DEF Filled
  <2>2. Held' = Held \o bytes
    BY <1>1, <1>3, <2>1 DEF Held
  <2> QED
    BY <1>1, <1>2, <1>4, <1>6, <2>1, <2>2, SMT
<1> QED
  BY <1>5, <1>6

-----------------------------------------------------------------------------
(* Padding.                                                                *)

\* The padding of what is held fills the last block.
LEMMA PaddingShape ==
  ASSUME NEW r \in 0..BlockLen - 1
  PROVE  /\ Abstract!Padding(r) \in Seq(AnyByte)
         /\ Len(Abstract!Padding(r)) = BlockLen - r
         /\ \A i \in 1..BlockLen - r :
              Abstract!Padding(r)[i] =
                IF r + 1 = BlockLen THEN 129
                ELSE IF i = 1 THEN 1
                ELSE IF i = BlockLen - r THEN 128 ELSE 0
<1> DEFINE z == Abstract!Zeros(BlockLen - r - 2)
<1>1. BlockLen \in Nat /\ r \in Nat /\ r < BlockLen
  BY BlockAssumption, SMT
<1>2. CASE r + 1 = BlockLen
  <2>1. Abstract!Padding(r) = <<129>>
    BY <1>2 DEF Abstract!Padding
  <2> QED
    BY <1>1, <1>2, <2>1, SMT DEF AnyByte
<1>3. CASE r + 1 # BlockLen
  <2>1. Abstract!Padding(r) = <<1>> \o z \o <<128>>
    BY <1>3 DEF Abstract!Padding
  <2>2. /\ z \in Seq(AnyByte) /\ Len(z) = BlockLen - r - 2
        /\ \A i \in 1..BlockLen - r - 2 : z[i] = 0
    BY <1>1, <1>3, SMT DEF Abstract!Zeros, AnyByte
  <2> HIDE DEF z
  <2>3. /\ <<1>> \in Seq(AnyByte) /\ Len(<<1>>) = 1 /\ <<1>>[1] = 1
        /\ <<128>> \in Seq(AnyByte) /\ Len(<<128>>) = 1 /\ <<128>>[1] = 128
    BY SMT DEF AnyByte
  <2> DEFINE y == <<1>> \o z
  <2>4. /\ y \in Seq(AnyByte) /\ Len(y) = BlockLen - r - 1
        /\ \A i \in 1..BlockLen - r - 1 :
             y[i] = IF i <= 1 THEN <<1>>[i] ELSE z[i - 1]
    <3>1. /\ y \in Seq(AnyByte) /\ Len(y) = 1 + Len(z)
          /\ \A i \in 1..1 + Len(z) :
               y[i] = IF i <= 1 THEN <<1>>[i] ELSE z[i - 1]
      BY <2>2, <2>3, ConcatProperties
    <3> HIDE DEF y
    <3> QED
      BY <1>1, <2>2, <3>1, SMT
  <2> HIDE DEF y
  <2>5. /\ y \o <<128>> \in Seq(AnyByte)
        /\ Len(y \o <<128>>) = Len(y) + 1
        /\ \A i \in 1..Len(y) + 1 :
             (y \o <<128>>)[i] = IF i <= Len(y) THEN y[i] ELSE <<128>>[i - Len(y)]
    BY <2>3, <2>4, ConcatProperties
  <2>6. Abstract!Padding(r) = y \o <<128>>
    BY <2>1 DEF y
  <2> DEFINE p == y \o <<128>>
  <2> HIDE DEF p
  <2>7. ASSUME NEW i \in 1..BlockLen - r
        PROVE  p[i] = IF i = 1 THEN 1 ELSE IF i = BlockLen - r THEN 128 ELSE 0
    <3>1. CASE i = BlockLen - r
      BY <1>1, <1>3, <2>3, <2>4, <2>5, <3>1, SMT DEF p
    <3>2. CASE i = 1
      BY <1>1, <1>3, <2>3, <2>4, <2>5, <3>2, SMT DEF p
    <3>3. CASE i # 1 /\ i # BlockLen - r
      <4>1. i \in 1..BlockLen - r - 1 /\ i - 1 \in 1..BlockLen - r - 2
        BY <1>1, <3>3, SMT
      <4>2. p[i] = y[i] /\ y[i] = z[i - 1] /\ z[i - 1] = 0
        BY <1>1, <2>2, <2>4, <2>5, <3>3, <4>1, SMT DEF p
      <4> QED
        BY <3>3, <4>2
    <3> QED
      BY <3>1, <3>2, <3>3
  <2>8. Len(p) = BlockLen - r /\ p \in Seq(AnyByte)
    BY <1>1, <2>4, <2>5, SMT DEF p
  <2> QED
    BY <1>3, <2>6, <2>7, <2>8 DEF p
<1> QED
  BY <1>2, <1>3

\* The last block is what the buffer holds and its padding.
LEMMA LastBlock ==
  ASSUME BufferHasRoom
  PROVE  /\ WithPadding \in [1..BlockLen -> AnyByte]
         /\ WithPadding =
              SubSeq(buffer, 1, bufferLen) \o Abstract!Padding(bufferLen)
<1> DEFINE t == SubSeq(buffer, 1, bufferLen)
           p == Abstract!Padding(bufferLen)
<1>1. /\ BlockLen \in Nat /\ bufferLen \in Nat /\ bufferLen < BlockLen
      /\ bufferLen \in 0..BlockLen - 1
      /\ buffer \in [1..BlockLen -> AnyByte]
  BY BlockAssumption, SMT DEF BufferHasRoom, AnyByte
<1>2. t \in Seq(AnyByte) /\ Len(t) = bufferLen
  BY HeldIsSeq
<1>3. /\ p \in Seq(AnyByte) /\ Len(p) = BlockLen - bufferLen
      /\ \A i \in 1..BlockLen - bufferLen :
           p[i] = IF bufferLen + 1 = BlockLen THEN 129
                  ELSE IF i = 1 THEN 1
                  ELSE IF i = BlockLen - bufferLen THEN 128 ELSE 0
  BY <1>1, PaddingShape
<1>4. WithPadding \in [1..BlockLen -> AnyByte]
  BY <1>1, SMT DEF WithPadding, AnyByte
<1>5. WithPadding \in Seq(AnyByte) /\ Len(WithPadding) = BlockLen
  BY <1>4, BlockIsSeq
<1>6. \A i \in 1..bufferLen : t[i] = buffer[i]
  BY <1>1, SMT
<1> HIDE DEF t, p
<1>7. /\ t \o p \in Seq(AnyByte) /\ Len(t \o p) = BlockLen
      /\ \A i \in 1..BlockLen :
           (t \o p)[i] = IF i <= bufferLen THEN t[i] ELSE p[i - bufferLen]
  <2>1. /\ t \o p \in Seq(AnyByte) /\ Len(t \o p) = Len(t) + Len(p)
        /\ \A i \in 1..Len(t) + Len(p) :
             (t \o p)[i] = IF i <= Len(t) THEN t[i] ELSE p[i - Len(t)]
    BY <1>2, <1>3, ConcatProperties
  <2>2. Len(t) + Len(p) = BlockLen
    BY <1>1, <1>2, <1>3, SMT
  <2> QED
    BY <1>2, <2>1, <2>2
<1>8. ASSUME NEW i \in 1..BlockLen PROVE WithPadding[i] = (t \o p)[i]
  <2>1. CASE i <= bufferLen
    BY <1>1, <1>6, <1>7, <2>1, SMT DEF WithPadding
  <2>2. CASE ~(i <= bufferLen)
    <3>1. i - bufferLen \in 1..BlockLen - bufferLen
      BY <1>1, <2>2, SMT
    <3>2. (t \o p)[i] = p[i - bufferLen]
      BY <1>1, <1>7, <2>2, SMT
    <3> QED
      <4>1. WithPadding[i] =
              IF bufferLen + 1 = BlockLen THEN 129
              ELSE IF i = bufferLen + 1 THEN 1
              ELSE IF i = BlockLen THEN 128 ELSE 0
        BY <1>1, <2>2, SMT DEF WithPadding
      <4>2. /\ i - bufferLen = 1 <=> i = bufferLen + 1
            /\ i - bufferLen = BlockLen - bufferLen <=> i = BlockLen
        BY <1>1, SMT
      <4> QED
        BY <1>3, <3>1, <3>2, <4>1, <4>2
  <2> QED
    BY <2>1, <2>2
<1>9. WithPadding = t \o p
  BY <1>5, <1>7, <1>8, SeqEqual
<1> QED
  BY <1>4, <1>9 DEF t, p

-----------------------------------------------------------------------------
(* The invariant and the refinement.                                       *)

\* A new object has room in its buffer.
LEMMA InvInit == KeccakInit => BufferHasRoom
<1>1. SUFFICES ASSUME KeccakInit PROVE BufferHasRoom
  OBVIOUS
<1>2. /\ <<>> \in Seq(0..255) /\ Len(<<>>) = 0 /\ <<>> \in Seq(InputByte)
  BY EmptySeq
<1>3. 0 % BlockLen = 0 /\ 0 \in 0..BlockLen - 1
  BY BlockAssumption, SMT
<1>4. [i \in 1..BlockLen |-> 0] \in [1..BlockLen -> 0..255]
  BY SMT
<1> QED
  BY <1>1, <1>2, <1>3, <1>4 DEF KeccakInit, BufferHasRoom

\* Bytes handed over are bytes.
LEMMA InputIsBytes ==
  ASSUME NEW s \in Seq(InputByte)
  PROVE  s \in Seq(AnyByte)
  BY InputAssumption, SeqMonotonic DEF AnyByte

\* addData of one byte.
LEMMA AddByteStep ==
  ASSUME BufferHasRoom, AddByte
  PROVE  BufferHasRoom' /\ Abstract!AbsorbByte
<1>1. PICK byte \in InputByte : Filled(Written(<<byte>>), bufferLen + 1)
  BY DEF AddByte
<1>2. <<byte>> \in Seq(AnyByte) /\ Len(<<byte>>) = 1
  BY InputAssumption, SMT DEF AnyByte
<1>3. bufferLen + 1 <= BlockLen
  BY BlockAssumption, SMT DEF BufferHasRoom
<1>4. /\ Held' = Held \o <<byte>>
      /\ A' \in Seq(AnyByte) /\ Len(A') % BlockLen = 0
      /\ buffer' \in [1..BlockLen -> AnyByte]
      /\ bufferLen' \in 0..BlockLen - 1
  BY <1>1, <1>2, <1>3, FilledAppends
<1>5. Held' = Append(Held, byte)
  <2>1. Held \in Seq(AnyByte) /\ byte \in AnyByte
    BY HeldIsSeq, InputAssumption DEF AnyByte
  <2> QED
    BY <1>4, <2>1, AppendIsConcat
<1>6. BufferHasRoom'
  BY <1>4 DEF BufferHasRoom, AddByte, AnyByte
<1> QED
  BY <1>5, <1>6 DEF AddByte, Abstract!AbsorbByte, Held

\* addData of a buffer is called.
LEMMA AddDataStep ==
  ASSUME BufferHasRoom, AddData
  PROVE  BufferHasRoom' /\ Abstract!HandOver
<1>1. PICK n \in 0..MaxMessage - Len(A) - bufferLen :
        input' \in [1..n -> InputByte]
  BY DEF AddData
<1>2. n \in Nat
  BY HeldIsSeq, LenProperties, MessageAssumption, SMT DEF BufferHasRoom
<1>3. input' \in Seq(InputByte)
  BY <1>1, <1>2, SMT
<1> QED
  BY <1>3 DEF AddData, BufferHasRoom, Abstract!HandOver

\* One turn of its loop.
LEMMA CopyTurnStep ==
  ASSUME BufferHasRoom, CopyTurn
  PROVE  BufferHasRoom' /\ Abstract!Absorb
<1> DEFINE c == CopyLen
           s == SubSeq(input, 1, c)
<1>1. input \in Seq(InputByte) /\ input # <<>> /\ Len(input) \in Nat \ {0}
  BY EmptySeq DEF BufferHasRoom, CopyTurn
<1>2. c \in 1..Len(input) /\ bufferLen + c <= BlockLen
  BY <1>1, BlockAssumption, SMT DEF BufferHasRoom, CopyLen
<1> HIDE DEF c
<1>3. \A i \in 1..c : input[i] \in InputByte
  BY <1>1, <1>2, ElementOfSeq, SMT
<1>4. s \in Seq(InputByte) /\ Len(s) = c
  BY <1>2, <1>3, SubSeqProperties, SMT
<1>5. s \in Seq(AnyByte)
  BY <1>4, InputIsBytes
<1>6. Filled(Written(s), bufferLen + Len(s))
  BY <1>4 DEF CopyTurn, c
<1>7. /\ Held' = Held \o s
      /\ A' \in Seq(AnyByte) /\ Len(A') % BlockLen = 0
      /\ buffer' \in [1..BlockLen -> AnyByte]
      /\ bufferLen' \in 0..BlockLen - 1
  BY <1>2, <1>4, <1>5, <1>6, FilledAppends
<1>8. input' = SubSeq(input, c + 1, Len(input))
  BY DEF CopyTurn, c
<1>9. input' \in Seq(InputByte)
  <2>1. \A i \in c + 1..Len(input) : input[i] \in InputByte
    BY <1>1, <1>2, ElementOfSeq, SMT
  <2> QED
    BY <1>1, <1>2, <1>8, <2>1, SubSeqProperties, SMT
<1>10. BufferHasRoom'
  BY <1>7, <1>9 DEF BufferHasRoom, AnyByte
<1> QED
  BY <1>2, <1>7, <1>8, <1>10 DEF CopyTurn, Abstract!Absorb, Held

\* digest.
LEMMA DigestStep ==
  ASSUME BufferHasRoom, Digest
  PROVE  BufferHasRoom' /\ Abstract!Digest
<1> DEFINE t == SubSeq(buffer, 1, bufferLen)
           p == Abstract!Padding(bufferLen)
<1>1. /\ WithPadding \in [1..BlockLen -> AnyByte]
      /\ WithPadding = t \o p
  BY LastBlock
<1>2. /\ A \in Seq(AnyByte) /\ t \in Seq(AnyByte)
      /\ Len(Held) % BlockLen = bufferLen
  BY HeldIsSeq
<1>3. p \in Seq(AnyByte)
  BY PaddingShape DEF BufferHasRoom
<1>4. Held = A \o t
  BY DEF Held
<1>5. Abstract!Padded(Held) = Held \o p
  BY <1>2 DEF Abstract!Padded
<1> HIDE DEF t, p
<1>6. output' = Abstract!Padded(Held)
  <2>1. output' = A \o (t \o p)
    BY <1>1 DEF Digest
  <2>2. (A \o t) \o p = A \o (t \o p)
    BY <1>2, <1>3, ConcatAssociative
  <2> QED
    BY <1>4, <1>5, <2>1, <2>2
<1>7. A' \o SubSeq(buffer', 1, bufferLen') = <<>>
  <2>1. A' = <<>> /\ bufferLen' = 0
    BY DEF Digest
  <2>2. SubSeq(buffer', 1, bufferLen') = <<>>
    BY <2>1, SubSeqEmpty
  <2>3. <<>> \o <<>> = <<>>
    BY EmptySeq, ConcatEmptySeq
  <2> QED
    BY <2>1, <2>2, <2>3
<1>8. BufferHasRoom'
  <2>1. <<>> \in Seq(0..255) /\ Len(<<>>) = 0
    BY EmptySeq
  <2>2. 0 % BlockLen = 0 /\ 0 \in 0..BlockLen - 1
    BY BlockAssumption, SMT
  <2> QED
    BY <1>1, <2>1, <2>2 DEF BufferHasRoom, Digest, AnyByte
<1> QED
  BY <1>6, <1>7, <1>8 DEF Digest, Abstract!Digest, Held

\* Every step keeps the invariant and is a step of the sponge.
LEMMA StepRefines ==
  ASSUME BufferHasRoom, [KeccakNext]_keccakVars
  PROVE  BufferHasRoom' /\ [Abstract!Next]_(Abstract!vars)
<1>1. CASE AddByte
  BY <1>1, AddByteStep DEF Abstract!Next
<1>2. CASE AddData
  BY <1>2, AddDataStep DEF Abstract!Next
<1>3. CASE CopyTurn
  BY <1>3, CopyTurnStep DEF Abstract!Next
<1>4. CASE Digest
  BY <1>4, DigestStep DEF Abstract!Next
<1>5. CASE UNCHANGED keccakVars
  BY <1>5 DEF keccakVars, BufferHasRoom, Abstract!vars
<1> QED
  BY <1>1, <1>2, <1>3, <1>4, <1>5 DEF KeccakNext

\* A new object holds the empty message.
LEMMA InitRefines == KeccakInit => Abstract!Init
<1>1. SUFFICES ASSUME KeccakInit PROVE A \o SubSeq(buffer, 1, bufferLen) = <<>>
  BY DEF KeccakInit, Abstract!Init
<1>2. A = <<>> /\ SubSeq(buffer, 1, bufferLen) = <<>>
  BY <1>1, SubSeqEmpty DEF KeccakInit
<1>3. <<>> \o <<>> = <<>>
  BY EmptySeq, ConcatEmptySeq
<1> QED
  BY <1>2, <1>3

\* The buffer always has room for the byte addData and addPadding write
\* before they look, and only whole blocks are absorbed.
THEOREM RoomInvariant == KeccakSpec => []BufferHasRoom
<1>1. KeccakInit => BufferHasRoom
  BY InvInit
<1>2. BufferHasRoom /\ [KeccakNext]_keccakVars => BufferHasRoom'
  BY StepRefines
<1> QED
  BY <1>1, <1>2, PTL DEF KeccakSpec

\* class Keccak implements the sponge: for every block length, message and
\* way of cutting it, the digest is that of the padded message.
THEOREM KeccakIsSponge == KeccakSpec => DigestsWholeMessage
<1>1. KeccakInit => Abstract!Init
  BY InitRefines
<1>2. BufferHasRoom /\ [KeccakNext]_keccakVars
        => [Abstract!Next]_(Abstract!vars)
  BY StepRefines
<1> QED
  BY <1>1, <1>2, RoomInvariant, PTL
  DEF KeccakSpec, DigestsWholeMessage, Abstract!Spec

\* While input is left cpLen has a place to copy to and something to copy.
LEMMA SomethingToCopy ==
  ASSUME BufferHasRoom, input # <<>>
  PROVE  CopyLen \in 1..Len(input)
<1>1. input \in Seq(InputByte) /\ Len(input) \in Nat \ {0}
  BY EmptySeq DEF BufferHasRoom
<1> QED
  BY <1>1, BlockAssumption, SMT DEF BufferHasRoom, CopyLen

\* No turn of addData's loop copies nothing, and until it has copied all of
\* the input every step of the object shortens what is left: the loop has at
\* most as many turns as the input has bytes.
THEOREM EveryTurnCopies ==
  KeccakSpec => /\ [](input # <<>> => CopyLen \in 1..Len(input))
                /\ [][input # <<>> => Len(input') < Len(input)]_keccakVars
<1>1. BufferHasRoom => (input # <<>> => CopyLen \in 1..Len(input))
  BY SomethingToCopy
<1>2. ASSUME BufferHasRoom, KeccakNext, input # <<>>
      PROVE  Len(input') < Len(input)
  <2>1. CopyTurn
    BY <1>2 DEF KeccakNext, AddByte, AddData, Digest
  <2>2. PICK c \in 1..Len(input) : input' = SubSeq(input, c + 1, Len(input))
    BY <1>2, <2>1, SomethingToCopy DEF CopyTurn
  <2>3. input \in Seq(InputByte) /\ Len(input) \in Nat
    BY <1>2, LenProperties DEF BufferHasRoom
  <2>4. \A i \in c + 1..Len(input) : input[i] \in InputByte
    BY <2>2, <2>3, ElementOfSeq, SMT
  <2>5. c + 1 \in Int /\ Len(input) \in Int
    BY <2>2, <2>3
  <2>6. Len(input') = IF c + 1 <= Len(input)
                      THEN Len(input) - (c + 1) + 1 ELSE 0
    BY <2>2, <2>4, <2>5, SubSeqProperties
  <2> QED
    BY <2>2, <2>3, <2>6
<1>3. BufferHasRoom /\ [KeccakNext]_keccakVars
        => [input # <<>> => Len(input') < Len(input)]_keccakVars
  BY <1>2
<1> QED
  BY <1>1, <1>3, RoomInvariant, PTL DEF KeccakSpec
=============================================================================
