-------------------------------- MODULE Sha256 --------------------------------
(***************************************************************************)
(* The streaming of src/sha256.c: how the message is cut into blocks and    *)
(* padded.  The compression function is left abstract: the state is the     *)
(* sequence of the blocks it has been given, which tells apart all that two *)
(* different compressions would.                                           *)
(***************************************************************************)
EXTENDS Integers, Sequences, SequencesExt

CONSTANTS
  BlockBytes,  \* 64
  LenBytes     \* bytes of the length at the end of the padding: 8

ASSUME ShaAssumption ==
  /\ BlockBytes \in Nat /\ LenBytes \in Nat \ {0} /\ LenBytes < BlockBytes

sha256_transform(c) == [c EXCEPT !.state = Append(@, c.buffer)]

sha256_init ==
  [buflen |-> 0, bitlen |-> 0, state |-> <<>>, buffer |-> [i \in 1..BlockBytes |-> 0]]

Put(c, byte) ==
  LET p == [c EXCEPT !.buffer[c.buflen + 1] = byte, !.buflen = @ + 1]
  IN  IF p.buflen = BlockBytes
      THEN [sha256_transform(p) EXCEPT !.bitlen = @ + 8 * BlockBytes, !.buflen = 0]
      ELSE p

sha256_update(c, bytes) ==
  LET after[n \in 0..Len(bytes)] == IF n = 0 THEN c ELSE Put(after[n - 1], bytes[n])
  IN  after[Len(bytes)]

\* The k-th byte of the length from the right.
LenByte(bits, k) == (bits \div 2 ^ (8 * k)) % 256

\* Is there room for the length after n bytes?  Mutant: one byte less.
HasRoomStrictly(n) == n < BlockBytes - LenBytes
HasRoom(n) == n <= BlockBytes - LenBytes

\* What is compressed last: the 0x80, zeros, and the length, after a block of its own for
\* the 0x80 when there is no room.
sha256_final(c) ==
  LET bits  == c.bitlen + 8 * c.buflen
      n     == c.buflen + 1
      zeros(b, from) == [i \in 1..BlockBytes |-> IF i > from THEN 0 ELSE b[i]]
      one   == [c.buffer EXCEPT ![n] = 128]
      first == IF HasRoom(n) THEN c ELSE sha256_transform([c EXCEPT !.buffer = zeros(one, n)])
      rest  == IF HasRoom(n) THEN zeros(one, n) ELSE [i \in 1..BlockBytes |-> 0]
      last  == [i \in 1..BlockBytes |->
                  IF i > BlockBytes - LenBytes THEN LenByte(bits, BlockBytes - i) ELSE rest[i]]
  IN  sha256_transform([first EXCEPT !.buffer = last]).state

(***************************************************************************)
(* The definition (FIPS 180-4): the message, a 1 bit, as few zeros as fill  *)
(* the last block, and the length; then block by block.                    *)
(***************************************************************************)

Padded(msg) ==
  LET used  == Len(msg) + 1 + LenBytes
      zeros == (BlockBytes - (used % BlockBytes)) % BlockBytes
  IN  msg \o <<128>> \o [i \in 1..zeros |-> 0]
          \o [i \in 1..LenBytes |-> LenByte(8 * Len(msg), LenBytes - i)]

Digest(msg) ==
  LET m == Padded(msg)
  IN  [b \in 1..(Len(m) \div BlockBytes) |-> SubSeq(m, BlockBytes * (b - 1) + 1, BlockBytes * b)]
=============================================================================
