---------------------------- MODULE DumpFilesProofs ----------------------------
(***************************************************************************)
(* The files of a dump and the hash of a file, for every size of a record, *)
(* a page, a block, a chunk and a range, every failing write and every     *)
(* moment of a cancel.                                                     *)
(*                                                                         *)
(* The loops over bytes and records are recursive functions: Recursion     *)
(* says that they exist, and one element more is one step more             *)
(* (UpdateAbsorbs, DecodedAppend, FeedAllInOrder).  Absorbed relates a hash *)
(* context to the message so far and FinalIsDigest its end to the padded   *)
(* message; Streams relates a writer to the .hex so far, with the invariant *)
(* that each record starts where the last one ended.  FilesInv and HashInv *)
(* are the inductive invariant of the state machine.                       *)
(***************************************************************************)
EXTENDS DumpFiles, Recursion, SequenceTheorems

-----------------------------------------------------------------------------
(* Sequences.                                                              *)

\* A function on 1 .. n is a sequence of length n.
LEMMA FunctionIsSeq ==
  ASSUME NEW S, NEW n \in Nat, NEW f \in [1 .. n -> S]
  PROVE  f \in Seq(S) /\ Len(f) = n
<1>1. f \in Seq(S)
  BY SeqDef
<1>2. DOMAIN f = 1 .. n /\ DOMAIN f = 1 .. Len(f) /\ Len(f) \in Nat
  BY <1>1, LenProperties
<1> QED  BY <1>1, <1>2

\* Two sequences with the same elements.
LEMMA SameSeq ==
  ASSUME NEW S, NEW n \in Nat, NEW s \in Seq(S), NEW t \in Seq(S), Len(s) = n, Len(t) = n,
         \A k \in 1 .. n : s[k] = t[k]
  PROVE  s = t
BY SeqEqual

\* The values in the files and buffers.  (A name of its own keeps the provers from taking
\* them for numbers.)
Byte == Nat

LEMMA AppendConcatBytes ==
  ASSUME NEW s \in Seq(Byte), NEW t \in Seq(Byte), NEW e \in Byte
  PROVE  Append(s \o t, e) = s \o Append(t, e)
OBVIOUS

LEMMA AppendConcat ==
  ASSUME NEW s \in Seq(Nat), NEW t \in Seq(Nat), NEW e \in Nat
  PROVE  Append(s \o t, e) = s \o Append(t, e)
BY AppendConcatBytes DEF Byte

LEMMA PrefixGrows ==
  ASSUME NEW S, NEW s \in Seq(S), NEW k \in 0 .. Len(s) - 1
  PROVE  /\ k + 1 \in 1 .. Len(s) /\ s[k + 1] \in S /\ SubSeq(s, 1, k) \in Seq(S)
         /\ SubSeq(s, 1, k + 1) = Append(SubSeq(s, 1, k), s[k + 1])
OBVIOUS

\* A piece of a sequence.
LEMMA Piece ==
  ASSUME NEW S, NEW s \in Seq(S), NEW lo \in Nat, NEW n \in Nat, lo + n <= Len(s)
  PROVE  /\ SubSeq(s, lo + 1, lo + n) \in Seq(S)
         /\ Len(SubSeq(s, lo + 1, lo + n)) = n
         /\ \A k \in 1 .. n : SubSeq(s, lo + 1, lo + n)[k] = s[lo + k]
<1> DEFINE p == SubSeq(s, lo + 1, lo + n)
<1>1. \A k \in lo + 1 .. lo + n : s[k] \in S
  OBVIOUS
<1>2. /\ p \in Seq(S) /\ Len(p) = IF lo + 1 <= lo + n THEN (lo + n) - (lo + 1) + 1 ELSE 0
      /\ \A k \in 1 .. (lo + n) - (lo + 1) + 1 : p[k] = s[(lo + 1) + k - 1]
  BY <1>1, SubSeqProperties
<1> HIDE DEF p
<1>3. Len(p) = n
  BY <1>2
<1>4. ASSUME NEW k \in 1 .. n PROVE p[k] = s[lo + k]
  <2>1. k \in 1 .. (lo + n) - (lo + 1) + 1 /\ (lo + 1) + k - 1 = lo + k
    OBVIOUS
  <2> QED  BY <1>2, <2>1
<1> QED  BY <1>2, <1>3, <1>4 DEF p

\* m is s, of length n, and then t, of length k.
Joined(V, m, s, n, t, k) ==
  /\ m \in Seq(V) /\ Len(m) = n + k
  /\ \A j \in 1 .. n : m[j] = s[j]
  /\ \A j \in 1 .. k : m[n + j] = t[j]

LEMMA Join ==
  ASSUME NEW V, NEW s \in Seq(V), NEW t \in Seq(V), NEW n \in Nat, NEW k \in Nat,
         Len(s) = n, Len(t) = k
  PROVE  Joined(V, s \o t, s, n, t, k)
<1> DEFINE m == s \o t
<1>1. /\ m \in Seq(V) /\ Len(m) = n + k
      /\ \A j \in 1 .. n + k : m[j] = IF j <= n THEN s[j] ELSE t[j - n]
  BY ConcatProperties
<1> HIDE DEF m
<1>2. ASSUME NEW j \in 1 .. n PROVE m[j] = s[j]
  <2>1. j \in 1 .. n + k /\ j <= n
    OBVIOUS
  <2> QED  BY <1>1, <2>1
<1>3. ASSUME NEW j \in 1 .. k PROVE m[n + j] = t[j]
  <2>1. n + j \in 1 .. n + k /\ ~(n + j <= n) /\ (n + j) - n = j
    OBVIOUS
  <2> QED  BY <1>1, <2>1
<1> QED  BY <1>1, <1>2, <1>3 DEF Joined, m

\* Three sequences one after the other, and an element between the first two.
Joined3(V, m, a, la, x, lx, z, lz, l, ly, ll) ==
  /\ m \in Seq(V) /\ Len(m) = ly + ll
  /\ \A j \in 1 .. la : m[j] = a[j]
  /\ m[lx] = x
  /\ \A j \in 1 .. lz : m[lx + j] = z[j]
  /\ \A j \in 1 .. ll : m[ly + j] = l[j]

LEMMA Join3 ==
  ASSUME NEW V, NEW a \in Seq(V), NEW x \in V, NEW z \in Seq(V), NEW l \in Seq(V),
         NEW la \in Nat, NEW lz \in Nat, NEW ll \in Nat, NEW lx \in Nat, NEW ly \in Nat,
         Len(a) = la, Len(z) = lz, Len(l) = ll, lx = la + 1, ly = lx + lz,
         NEW m, m = a \o <<x>> \o z \o l
  PROVE  Joined3(V, m, a, la, x, lx, z, lz, l, ly, ll)
<1> DEFINE b == a \o <<x>>
           d == b \o z
<1>1. <<x>> \in Seq(V) /\ Len(<<x>>) = 1 /\ <<x>>[1] = x
  OBVIOUS
<1>2. Joined(V, b, a, la, <<x>>, 1)
  BY <1>1, Join
<1> HIDE DEF b
<1>3. b[lx] = x /\ Len(b) = lx /\ b \in Seq(V) /\ \A j \in 1 .. la : b[j] = a[j]
  BY <1>1, <1>2 DEF Joined
<1>4. Joined(V, d, b, lx, z, lz)
  BY <1>3, Join
<1> HIDE DEF d
<1>5. Len(d) = ly /\ d \in Seq(V)
  BY <1>4 DEF Joined
<1>6. Joined(V, m, d, ly, l, ll)
  BY <1>5, Join DEF d, b
<1>8. /\ \A j \in 1 .. la : j \in 1 .. lx /\ j \in 1 .. ly
      /\ lx \in 1 .. lx /\ lx \in 1 .. ly
      /\ \A j \in 1 .. lz : lx + j \in 1 .. ly
  OBVIOUS
<1>9. \A j \in 1 .. la : m[j] = a[j]
  BY <1>3, <1>4, <1>6, <1>8 DEF Joined
<1>10. m[lx] = x
  BY <1>3, <1>4, <1>6, <1>8 DEF Joined
<1>11. \A j \in 1 .. lz : m[lx + j] = z[j]
  BY <1>4, <1>6, <1>8 DEF Joined
<1> QED  BY <1>6, <1>9, <1>10, <1>11 DEF Joined, Joined3

-----------------------------------------------------------------------------
(* Division.                                                               *)

\* n divided by b is q, remainder r.
Divided(n, b, q, r) == n % b = r /\ n \div b = q

LEMMA Division ==
  ASSUME NEW q \in Nat, NEW b \in Nat, NEW r \in 0 .. b - 1, NEW n, n = b * q + r
  PROVE  Divided(n, b, q, r)
BY DEF Divided

LEMMA Remainder ==
  ASSUME NEW b \in Nat, NEW r \in 0 .. b - 1
  PROVE  r % b = r
OBVIOUS

-----------------------------------------------------------------------------
(* The hash.                                                               *)

\* n blocks, in bytes.
Blocks(n) == BlockBytes * n

LEMMA BlocksAdd ==
  /\ Blocks(0) = 0
  /\ \A n \in Nat : Blocks(n) \in Nat /\ Blocks(n + 1) = Blocks(n) + BlockBytes
<1>1. Blocks(0) = 0
  BY ShaAssumption DEF Blocks
<1>2. ASSUME NEW n \in Nat PROVE Blocks(n) \in Nat /\ Blocks(n + 1) = Blocks(n) + BlockBytes
  BY ShaAssumption DEF Blocks
<1> QED  BY <1>1, <1>2

LEMMA BlocksGrow ==
  ASSUME NEW n \in Nat, NEW b \in 1 .. n
  PROVE  /\ b - 1 \in Nat /\ Blocks(b - 1) \in Nat
         /\ Blocks(b) = Blocks(b - 1) + BlockBytes /\ Blocks(b) <= Blocks(n)
<1>1. b - 1 \in Nat /\ (b - 1) + 1 = b
  OBVIOUS
<1>2. Blocks(b - 1) \in Nat /\ Blocks(b) = Blocks(b - 1) + BlockBytes
  BY <1>1, BlocksAdd
<1>3. Blocks(b) <= Blocks(n)
  <2> DEFINE T == {m \in Nat : Blocks(b) <= Blocks(b + m)}
  <2>1. 0 \in T
    BY <1>2, BlocksAdd, ShaAssumption
  <2>2. ASSUME NEW m \in Nat, m \in T PROVE m + 1 \in T
    <3>1. b + m \in Nat /\ b + (m + 1) = (b + m) + 1 /\ b \in Nat
      OBVIOUS
    <3>2. Blocks(b + (m + 1)) = Blocks(b + m) + BlockBytes /\ Blocks(b + m) \in Nat /\ Blocks(b) \in Nat
      BY <3>1, BlocksAdd
    <3> QED  BY <2>2, <3>2, ShaAssumption
  <2> HIDE DEF T
  <2>3. Nat \subseteq T
    BY <2>1, <2>2, InductionOnSet
  <2>4. n - b \in Nat /\ b + (n - b) = n
    OBVIOUS
  <2>5. n - b \in T
    BY <2>3, <2>4
  <2> QED  BY <2>4, <2>5 DEF T
<1> QED  BY <1>1, <1>2, <1>3

Contexts == [buflen : 0 .. BlockBytes - 1, bitlen : Nat, state : Seq(Seq(Nat)),
             buffer : [1 .. BlockBytes -> Nat]]

\* The b-th block of a message.
BlockOf(msg, b) == SubSeq(msg, Blocks(b - 1) + 1, Blocks(b))

\* The context after a message: its whole blocks are compressed, the rest is in the buffer.
Absorbed(c, msg) ==
  /\ c \in Contexts /\ msg \in Seq(Nat)
  /\ Len(msg) = Blocks(Len(c.state)) + c.buflen
  /\ c.bitlen = 8 * Blocks(Len(c.state))
  /\ \A b \in 1 .. Len(c.state) : c.state[b] = BlockOf(msg, b)
  /\ \A k \in 1 .. c.buflen : c.buffer[k] = msg[Blocks(Len(c.state)) + k]

LEMMA NothingAbsorbed == Absorbed(sha256_init, <<>>)
<1>1. sha256_init \in Contexts
  BY ShaAssumption DEF sha256_init, Contexts
<1>2. Len(sha256_init.state) = 0 /\ sha256_init.buflen = 0 /\ sha256_init.bitlen = 0
  BY DEF sha256_init
<1> DEFINE c == sha256_init
           msg == <<>>
<1>3. Len(msg) = 0 /\ msg \in Seq(Nat)
  OBVIOUS
<1> HIDE DEF c, msg
<1>4. Len(msg) = Blocks(Len(c.state)) + c.buflen /\ c.bitlen = 8 * Blocks(Len(c.state))
  <2>1. Len(c.state) = 0 /\ c.buflen = 0 /\ c.bitlen = 0
    BY <1>2 DEF c
  <2>2. Blocks(Len(c.state)) = 0
    BY <2>1, BlocksAdd
  <2> QED  BY <1>3, <2>1, <2>2
<1>5. \A b : b \notin 1 .. 0
  OBVIOUS
<1>6. Absorbed(c, msg)
  BY <1>1, <1>2, <1>3, <1>4, <1>5 DEF Absorbed, c
<1> QED  BY <1>6 DEF c, msg

\* A block that lies within a message is the same in a longer one.
LEMMA BlockStays ==
  ASSUME NEW msg \in Seq(Nat), NEW byte \in Nat, NEW n \in Nat, Blocks(n) <= Len(msg),
         NEW b \in 1 .. n
  PROVE  BlockOf(Append(msg, byte), b) = BlockOf(msg, b)
<1> DEFINE lo == Blocks(b - 1)
           hi == Blocks(b)
<1>1. lo \in Nat /\ hi \in Nat /\ hi <= Len(msg)
  <2>1. lo \in Nat /\ hi = lo + BlockBytes /\ hi <= Blocks(n)
    BY BlocksGrow
  <2>2. Blocks(n) \in Nat /\ Len(msg) \in Nat
    BY BlocksAdd
  <2> HIDE DEF lo, hi
  <2> QED  BY <2>1, <2>2, ShaAssumption
<1> HIDE DEF lo, hi
<1>2. SubSeq(Append(msg, byte), lo + 1, hi) = SubSeq(msg, lo + 1, hi)
  BY <1>1
<1> QED  BY <1>2 DEF BlockOf, lo, hi

LEMMA NextBlock ==
  ASSUME NEW msg, NEW s \in Nat
  PROVE  BlockOf(msg, s + 1) = SubSeq(msg, Blocks(s) + 1, Blocks(s) + BlockBytes)
<1>1. (s + 1) - 1 = s /\ Blocks(s + 1) = Blocks(s) + BlockBytes
  BY BlocksAdd
<1>2. BlockOf(msg, s + 1) = SubSeq(msg, Blocks((s + 1) - 1) + 1, Blocks(s + 1))
  BY DEF BlockOf
<1> QED  BY <1>1, <1>2

\* One byte more.
LEMMA PutAbsorbs ==
  ASSUME NEW c, NEW msg, Absorbed(c, msg), NEW byte \in Nat
  PROVE  Absorbed(Put(c, byte), Append(msg, byte))
<1> DEFINE more == Append(msg, byte)
           p == [c EXCEPT !.buffer[c.buflen + 1] = byte, !.buflen = @ + 1]
           s == Len(c.state)
           done == Blocks(s)
<1>1. c \in Contexts /\ msg \in Seq(Nat) /\ s \in Nat /\ c.buflen \in 0 .. BlockBytes - 1
  BY DEF Absorbed, Contexts
<1>2. done \in Nat /\ Blocks(s + 1) = done + BlockBytes
  BY <1>1, BlocksAdd
<1>3. more \in Seq(Nat) /\ Len(more) = Len(msg) + 1
  BY <1>1
<1>4. c.buflen + 1 \in 1 .. BlockBytes
  BY <1>1, ShaAssumption
<1>5. /\ p.buffer = [c.buffer EXCEPT ![c.buflen + 1] = byte]
      /\ p.buflen = c.buflen + 1 /\ p.state = c.state /\ p.bitlen = c.bitlen
  BY <1>1 DEF Contexts
<1>6. p.buffer \in [1 .. BlockBytes -> Nat]
  BY <1>1, <1>5 DEF Contexts
<1>7. Len(msg) = done + c.buflen /\ more[Len(msg) + 1] = byte
  BY <1>1 DEF Absorbed
<1>8. ASSUME NEW k \in 1 .. c.buflen + 1 PROVE p.buffer[k] = more[done + k]
  <2>1. CASE k = c.buflen + 1
    <3>1. p.buffer[k] = byte
      BY <1>1, <1>4, <1>5, <2>1 DEF Contexts
    <3>2. done + k = Len(msg) + 1
      BY <1>1, <1>2, <1>7, <2>1
    <3> QED  BY <1>7, <3>1, <3>2
  <2>2. CASE k # c.buflen + 1
    <3>1. k \in 1 .. c.buflen /\ k \in 1 .. BlockBytes
      BY <1>1, <2>2, ShaAssumption
    <3>2. done + k \in 1 .. Len(msg)
      <4>1. PICK n \in Nat, m \in Nat : n = done /\ m = c.buflen
        BY <1>1, <1>2
      <4>2. n + k \in 1 .. n + m
        BY <3>1, <4>1
      <4> QED  BY <1>7, <4>1, <4>2
    <3>3. more[done + k] = msg[done + k]
      BY <1>1, <3>2
    <3>4. p.buffer[k] = c.buffer[k]
      BY <1>1, <1>5, <2>2, <3>1 DEF Contexts
    <3> QED  BY <3>1, <3>3, <3>4 DEF Absorbed
  <2> QED  BY <2>1, <2>2
<1>9. ASSUME NEW b \in 1 .. s PROVE c.state[b] = BlockOf(more, b)
  <2>1. done <= Len(msg)
    BY <1>1, <1>2, <1>7
  <2>2. BlockOf(more, b) = BlockOf(msg, b)
    BY <1>1, <2>1, BlockStays
  <2> QED  BY <2>2 DEF Absorbed
<1>10. CASE c.buflen + 1 # BlockBytes
  <2>1. Put(c, byte) = p
    BY <1>5, <1>10 DEF Put
  <2>2. p.buflen \in 0 .. BlockBytes - 1
    BY <1>1, <1>5, <1>10, ShaAssumption
  <2>3. p \in Contexts
    BY <1>1, <1>5, <1>6, <2>2 DEF Contexts
  <2>4. Len(more) = Blocks(Len(p.state)) + p.buflen
    BY <1>1, <1>2, <1>3, <1>5, <1>7
  <2>5. p.bitlen = 8 * Blocks(Len(p.state))
    BY <1>5 DEF Absorbed
  <2>6. /\ \A k \in 1 .. p.buflen : p.buffer[k] = more[Blocks(Len(p.state)) + k]
        /\ \A b \in 1 .. Len(p.state) : p.state[b] = BlockOf(more, b)
    BY <1>5, <1>8, <1>9
  <2> HIDE DEF p, more
  <2>7. Absorbed(p, more)
    BY <1>3, <2>3, <2>4, <2>5, <2>6 DEF Absorbed
  <2> QED  BY <2>1, <2>7 DEF more
<1>11. CASE c.buflen + 1 = BlockBytes
  <2> DEFINE q == Put(c, byte)
  <2>1. q = [[p EXCEPT !.state = Append(p.state, p.buffer)] EXCEPT
               !.bitlen = p.bitlen + 8 * BlockBytes, !.buflen = 0]
    BY <1>1, <1>5, <1>11 DEF Put, sha256_transform, Contexts
  <2>2. p.buffer \in Seq(Nat) /\ Len(p.buffer) = BlockBytes
    BY <1>6, FunctionIsSeq, ShaAssumption
  <2>3. /\ q.buflen = 0 /\ q.state = Append(c.state, p.buffer)
        /\ q.bitlen = c.bitlen + 8 * BlockBytes /\ q.buffer = p.buffer
    BY <1>1, <1>5, <2>1 DEF Contexts
  <2>4. q.state \in Seq(Seq(Nat)) /\ Len(q.state) = s + 1
    BY <1>1, <2>2, <2>3 DEF Contexts
  <2>5. q.bitlen = 8 * Blocks(s + 1) /\ q.bitlen \in Nat
    BY <1>2, <2>3, ShaAssumption DEF Absorbed
  <2>6. q \in Contexts
    <3>1. q.buflen \in 0 .. BlockBytes - 1
      BY <2>3, ShaAssumption
    <3>2. q = [buflen |-> q.buflen, bitlen |-> q.bitlen, state |-> q.state, buffer |-> q.buffer]
      BY <1>1, <2>1 DEF Contexts
    <3> HIDE DEF q
    <3> QED  BY <1>6, <2>3, <2>4, <2>5, <3>1, <3>2 DEF Contexts
  <2>7. Len(more) = Blocks(s + 1) + q.buflen
    <3>1. Len(msg) + 1 = done + BlockBytes
      BY <1>1, <1>2, <1>7, <1>11, ShaAssumption
    <3>2. done + BlockBytes = (done + BlockBytes) + 0
      BY <1>2, ShaAssumption
    <3> QED  BY <1>2, <1>3, <2>3, <3>1, <3>2
  <2>8. p.buffer = BlockOf(more, s + 1)
    <3> DEFINE block == SubSeq(more, done + 1, done + BlockBytes)
    <3>1. BlockOf(more, s + 1) = block
      BY <1>1, NextBlock
    <3>2. Len(more) = done + BlockBytes
      BY <1>1, <1>2, <1>3, <1>7, <1>11, ShaAssumption
    <3>3. /\ block \in Seq(Nat) /\ Len(block) = BlockBytes
          /\ \A k \in 1 .. BlockBytes : block[k] = more[done + k]
      <4> HIDE DEF done, more
      <4>1. done + BlockBytes <= Len(more)
        BY <1>2, <1>3, <3>2, ShaAssumption
      <4> QED  BY <1>2, <1>3, <4>1, Piece, ShaAssumption
    <3>4. \A k \in 1 .. BlockBytes : p.buffer[k] = block[k]
      BY <1>8, <1>11, <3>3
    <3>5. p.buffer = block
      BY <2>2, <3>3, <3>4, SameSeq, ShaAssumption
    <3> QED  BY <3>1, <3>5
  <2>9. ASSUME NEW b \in 1 .. s + 1 PROVE q.state[b] = BlockOf(more, b)
    <3>1. c.state \in Seq(Seq(Nat))
      BY <1>1 DEF Contexts
    <3>2. CASE b = s + 1
      BY <2>2, <2>3, <2>8, <3>1, <3>2
    <3>3. CASE b # s + 1
      <4>1. b \in 1 .. s
        BY <1>1, <3>3
      <4>2. q.state[b] = c.state[b]
        BY <2>2, <2>3, <3>1, <4>1
      <4> QED  BY <1>9, <4>1, <4>2
    <3> QED  BY <3>2, <3>3
  <2>10. \A k \in 1 .. q.buflen : q.buffer[k] = more[Blocks(Len(q.state)) + k]
    BY <2>3
  <2> HIDE DEF q, more
  <2>11. Absorbed(q, more)
    BY <1>3, <2>4, <2>5, <2>6, <2>7, <2>9, <2>10 DEF Absorbed
  <2> QED  BY <2>11 DEF q, more
<1> QED  BY <1>10, <1>11

\* What sha256_update computes: g[k] is the context after k bytes.
Updates(g, c, bytes) ==
  /\ g[0] = c /\ \A k \in 1 .. Len(bytes) : g[k] = Put(g[k - 1], bytes[k])
  /\ sha256_update(c, bytes) = g[Len(bytes)]

Absorbing == {d \in Contexts : \E m \in Seq(Nat) : Absorbed(d, m)}

LEMMA PutAbsorbing ==
  ASSUME NEW c \in Absorbing, NEW byte \in Nat
  PROVE  Put(c, byte) \in Absorbing
<1>1. PICK m \in Seq(Nat) : Absorbed(c, m)
  BY DEF Absorbing
<1>2. Absorbed(Put(c, byte), Append(m, byte))
  BY <1>1, PutAbsorbs
<1>3. Append(m, byte) \in Seq(Nat) /\ Put(c, byte) \in Contexts
  BY <1>2 DEF Absorbed
<1> QED  BY <1>2, <1>3 DEF Absorbing

UpdateLoop(f, c, bytes, n) ==
  f = [k \in 0 .. n |-> IF k = 0 THEN c ELSE Put(f[k - 1], bytes[k])]

LEMMA UpdateExists ==
  ASSUME NEW c \in Absorbing, NEW n \in Nat, NEW bytes,
         \A k \in 1 .. n : bytes[k] \in Nat
  PROVE  \E f : UpdateLoop(f, c, bytes, n)
<1> DEFINE step == [p \in Absorbing \X (1 .. n) |-> Put(p[1], bytes[p[2]])]
<1>1. step \in [Absorbing \X (1 .. n) -> Absorbing]
  BY PutAbsorbing
<1>2. \A d \in Absorbing, k \in 1 .. n : step[<<d, k>>] = Put(d, bytes[k])
  OBVIOUS
<1> HIDE DEF step
<1>6. PICK f : Recursive(f, Absorbing, c, n, step)
  BY <1>1, RecursionExists
<1>3. /\ f \in [0 .. n -> Absorbing]
      /\ f = [k \in 0 .. n |-> IF k = 0 THEN c ELSE step[<<f[k - 1], k>>]]
  BY <1>6 DEF Recursive
<1>4. ASSUME NEW k \in 0 .. n, k # 0 PROVE step[<<f[k - 1], k>>] = Put(f[k - 1], bytes[k])
  <2>1. k \in 1 .. n /\ k - 1 \in 0 .. n
    BY <1>4
  <2> QED  BY <1>2, <1>3, <2>1
<1>5. \A k \in 0 .. n : f[k] = IF k = 0 THEN c ELSE Put(f[k - 1], bytes[k])
  BY <1>3, <1>4
<1> QED  BY <1>3, <1>5 DEF UpdateLoop

LEMMA UpdateIs ==
  ASSUME NEW c, NEW msg, Absorbed(c, msg), NEW bytes \in Seq(Nat)
  PROVE  \E g : Updates(g, c, bytes)
<1> DEFINE n == Len(bytes)
           g == CHOOSE f : UpdateLoop(f, c, bytes, n)
<1>1. n \in Nat /\ (\A k \in 1 .. n : bytes[k] \in Nat) /\ c \in Absorbing
  <2>1. n \in Nat /\ \A k \in 1 .. n : bytes[k] \in Nat
    OBVIOUS
  <2>2. c \in Contexts /\ msg \in Seq(Nat)
    BY DEF Absorbed
  <2>3. c \in Absorbing
    BY <2>2 DEF Absorbing
  <2> QED  BY <2>1, <2>3
<1>2. \E f : UpdateLoop(f, c, bytes, n)
  <2> HIDE DEF n
  <2> QED  BY <1>1, UpdateExists
<1>3. UpdateLoop(g, c, bytes, n)
  BY <1>2
<1>4. sha256_update(c, bytes) = g[n]
  BY DEF sha256_update, UpdateLoop
<1> HIDE DEF g, n
<1>5. g[0] = c /\ \A k \in 1 .. n : g[k] = Put(g[k - 1], bytes[k])
  <2>1. 0 \in 0 .. n /\ \A k \in 1 .. n : k \in 0 .. n /\ k # 0
    BY <1>1
  <2> QED  BY <1>3, <2>1 DEF UpdateLoop
<1> QED  BY <1>4, <1>5 DEF Updates, n

\* A whole read.
LEMMA UpdateAbsorbs ==
  ASSUME NEW c, NEW msg, Absorbed(c, msg), NEW bytes \in Seq(Nat)
  PROVE  Absorbed(sha256_update(c, bytes), msg \o bytes)
<1> DEFINE n == Len(bytes)
           upto(k) == msg \o SubSeq(bytes, 1, k)
<1>1. PICK g : Updates(g, c, bytes)
  BY UpdateIs
<1> DEFINE T == {k \in 0 .. n : Absorbed(g[k], upto(k))}
<1>2. n \in Nat /\ msg \in Seq(Nat)
  BY DEF Absorbed
<1>3. 0 \in T
  <2>1. upto(0) = msg
    <3>1. SubSeq(bytes, 1, 0) = <<>>
      OBVIOUS
    <3> QED  BY <1>2, <3>1, ConcatEmptySeq
  <2>2. g[0] = c /\ 0 \in 0 .. n
    BY <1>1, <1>2 DEF Updates
  <2> QED  BY <2>1, <2>2
<1>4. ASSUME NEW k \in 0 .. n - 1, k \in T PROVE k + 1 \in T
  <2>1. k \in Nat /\ k + 1 \in 1 .. n /\ k + 1 \in 0 .. n /\ (k + 1) - 1 = k
    BY <1>2
  <2>2. g[k + 1] = Put(g[k], bytes[k + 1])
    BY <1>1, <2>1 DEF Updates
  <2>3. bytes[k + 1] \in Nat
    BY <2>1
  <2>4. Append(upto(k), bytes[k + 1]) = upto(k + 1)
    <3> DEFINE t == SubSeq(bytes, 1, k)
               e == bytes[k + 1]
    <3>1. t \in Seq(Nat) /\ e \in Nat /\ SubSeq(bytes, 1, k + 1) = Append(t, e)
      BY PrefixGrows
    <3> HIDE DEF t, e
    <3>2. Append(msg \o t, e) = msg \o Append(t, e)
      BY <1>2, <3>1, AppendConcat
    <3> QED  BY <3>1, <3>2 DEF t, e
  <2>5. Absorbed(Put(g[k], bytes[k + 1]), Append(upto(k), bytes[k + 1]))
    BY <1>4, <2>3, PutAbsorbs
  <2> QED  BY <2>1, <2>2, <2>4, <2>5
<1> HIDE DEF T, n
<1>5. n \in T
  <2>1. 0 .. n \subseteq T
    BY <1>2, <1>3, <1>4, InductionUpTo
  <2> QED  BY <1>2, <2>1
<1>6. Absorbed(g[n], upto(n))
  BY <1>5 DEF T
<1>7. upto(n) = msg \o bytes
  BY SubSeqFull DEF n
<1> QED  BY <1>1, <1>6, <1>7 DEF Updates, n

-----------------------------------------------------------------------------
(* The padding.                                                            *)

\* The zeros after used bytes.
Fill(used, b, k, u) ==
  (b - (used % b)) % b = IF u + 1 + k <= b THEN b - (u + 1 + k) ELSE (b - (u + 1 + k)) + b

LEMMA PaddingOf ==
  ASSUME NEW b \in Nat, NEW k \in Nat, 0 < k, k < b, NEW q \in Nat, NEW u \in 0 .. b - 1,
         NEW used \in Nat, used = b * q + (u + 1 + k)
  PROVE  Fill(used, b, k, u)
<1> USE DEF Fill
<1>1. CASE u + 1 + k < b
  <2>1. used % b = u + 1 + k
    <3>1. Divided(used, b, q, u + 1 + k)
      BY <1>1, Division
    <3> QED  BY <3>1 DEF Divided
  <2>2. b - (u + 1 + k) \in 0 .. b - 1
    BY <1>1
  <2> QED  BY <1>1, <2>1, <2>2, Remainder
<1>2. CASE u + 1 + k >= b
  <2>1. PICK r \in Nat : r = (u + 1 + k) - b
    BY <1>2
  <2>2. PICK p \in Nat : p = q + 1
    OBVIOUS
  <2>3. used = b * p + r /\ r \in 0 .. b - 1
    BY <1>2, <2>1, <2>2
  <2>4. Divided(used, b, p, r)
    BY <2>3, Division
  <2>5. CASE r = 0
    BY <1>2, <2>1, <2>4, <2>5 DEF Divided
  <2>6. CASE r # 0
    <3>1. b - r \in 0 .. b - 1
      BY <2>3, <2>6
    <3>2. (b - r) % b = b - r
      BY <3>1, Remainder
    <3> QED  BY <1>2, <2>1, <2>4, <2>6, <3>2 DEF Divided
  <2> QED  BY <2>5, <2>6
<1> QED  BY <1>1, <1>2

\* What remains is at most a block, or one more.
LEMMA Padding ==
  ASSUME NEW q \in Nat, NEW u \in 0 .. BlockBytes - 1, NEW n \in Nat, n = Blocks(q) + u
  PROVE  (BlockBytes - ((n + 1 + LenBytes) % BlockBytes)) % BlockBytes =
           IF HasRoom(u + 1) THEN BlockBytes - (u + 1 + LenBytes)
           ELSE (BlockBytes - (u + 1 + LenBytes)) + BlockBytes
<1> DEFINE used == n + 1 + LenBytes
<1>1. BlockBytes \in Nat /\ LenBytes \in Nat /\ 0 < LenBytes /\ LenBytes < BlockBytes
  BY ShaAssumption
<1>2. used \in Nat /\ used = BlockBytes * q + (u + 1 + LenBytes)
  BY <1>1 DEF Blocks
<1>3. HasRoom(u + 1) <=> u + 1 + LenBytes <= BlockBytes
  BY <1>1 DEF HasRoom
<1> HIDE DEF used
<1>4. Fill(used, BlockBytes, LenBytes, u)
  BY <1>1, <1>2, PaddingOf
<1> QED  BY <1>3, <1>4 DEF used, Fill

Values == Nat \cup {LenByte(x, k) : x \in Nat, k \in Int}

\* The padded message, piece by piece.
PaddedParts(msg, n, x, zeros, y) ==
  /\ Padded(msg) \in Seq(Values) /\ Len(Padded(msg)) = y + LenBytes
  /\ \A j \in 1 .. n : Padded(msg)[j] = msg[j]
  /\ Padded(msg)[x] = 128
  /\ \A j \in 1 .. zeros : Padded(msg)[x + j] = 0
  /\ \A j \in 1 .. LenBytes : Padded(msg)[y + j] = LenByte(8 * n, LenBytes - j)

LEMMA PaddedIs ==
  ASSUME NEW msg \in Seq(Values), NEW n \in Nat, n = Len(msg), NEW x \in Nat, x = n + 1,
         NEW zeros \in Nat, zeros = (BlockBytes - ((n + 1 + LenBytes) % BlockBytes)) % BlockBytes,
         NEW y \in Nat, y = x + zeros
  PROVE  PaddedParts(msg, n, x, zeros, y)
<1> DEFINE z == [k \in 1 .. zeros |-> 0]
           l == [k \in 1 .. LenBytes |-> LenByte(8 * n, LenBytes - k)]
           m == Padded(msg)
<1>1. LenBytes \in Nat
  BY ShaAssumption
<1>2. z \in [1 .. zeros -> Values] /\ l \in [1 .. LenBytes -> Values] /\ 128 \in Values
  BY <1>1 DEF Values
<1>3. m = msg \o <<128>> \o z \o l
  BY DEF Padded
<1>4. /\ \A j \in 1 .. zeros : z[j] = 0
      /\ \A j \in 1 .. LenBytes : l[j] = LenByte(8 * n, LenBytes - j)
  OBVIOUS
<1> HIDE DEF z, l, m
<1>5. z \in Seq(Values) /\ Len(z) = zeros
  BY <1>2, FunctionIsSeq
<1>6. l \in Seq(Values) /\ Len(l) = LenBytes
  BY <1>1, <1>2, FunctionIsSeq
<1>7. Joined3(Values, m, msg, n, 128, x, z, zeros, l, y, LenBytes)
  <2>1. /\ 128 \in Values /\ LenBytes \in Nat /\ Len(msg) = n /\ x = n + 1 /\ y = x + zeros
        /\ n \in Nat /\ x \in Nat /\ y \in Nat /\ zeros \in Nat /\ msg \in Seq(Values)
    BY <1>1, <1>2
  <2> QED  BY ONLY <1>3, <1>5, <1>6, <2>1, Join3
<1>8. /\ m \in Seq(Values) /\ Len(m) = y + LenBytes
      /\ \A j \in 1 .. n : m[j] = msg[j]
      /\ m[x] = 128
      /\ \A j \in 1 .. zeros : m[x + j] = 0
      /\ \A j \in 1 .. LenBytes : m[y + j] = LenByte(8 * n, LenBytes - j)
  <2>1. /\ m \in Seq(Values) /\ Len(m) = y + LenBytes
        /\ \A j \in 1 .. n : m[j] = msg[j]
        /\ m[x] = 128
        /\ \A j \in 1 .. zeros : m[x + j] = z[j]
        /\ \A j \in 1 .. LenBytes : m[y + j] = l[j]
    BY <1>7 DEF Joined3
  <2>2. ASSUME NEW j \in 1 .. LenBytes PROVE m[y + j] = LenByte(8 * n, LenBytes - j)
    BY <1>4, <2>1
  <2>3. ASSUME NEW j \in 1 .. zeros PROVE m[x + j] = 0
    BY <1>4, <2>1
  <2> QED  BY <2>1, <2>2, <2>3
<1> QED  BY <1>8 DEF m, PaddedParts

\* A sequence of blocks is the digest if they hold the padded message in its order.
LEMMA DigestIs ==
  ASSUME NEW msg, NEW k \in Nat, NEW blocks \in Seq(Seq(Values)), Len(blocks) = k,
         Padded(msg) \in Seq(Values), Len(Padded(msg)) = Blocks(k),
         \A b \in 1 .. k : /\ Len(blocks[b]) = BlockBytes
                           /\ \A j \in 1 .. BlockBytes :
                                blocks[b][j] = Padded(msg)[Blocks(b - 1) + j]
  PROVE  blocks = Digest(msg)
<1> DEFINE m == Padded(msg)
           d == [b \in 1 .. k |-> BlockOf(m, b)]
<1>1. Digest(msg) = d
  <2>1. Len(m) \div BlockBytes = k
    <3>1. Len(m) = BlockBytes * k + 0 /\ BlockBytes \in Nat /\ 0 \in 0 .. BlockBytes - 1
      BY ShaAssumption DEF Blocks
    <3>2. PICK n \in Nat : n = Len(m)
      BY <3>1
    <3>3. n \div BlockBytes = k
      BY <3>1, <3>2
    <3> QED  BY <3>2, <3>3
  <2> QED  BY <2>1 DEF Digest, BlockOf, Blocks
<1> HIDE DEF m
<1>2. ASSUME NEW b \in 1 .. k PROVE BlockOf(m, b) \in Seq(Values) /\ blocks[b] = BlockOf(m, b)
  <2>1. PICK lo \in Nat : lo = Blocks(b - 1)
    BY BlocksGrow
  <2>2. Blocks(b) = lo + BlockBytes /\ Blocks(b) <= Blocks(k) /\ BlockBytes \in Nat
    BY <2>1, BlocksGrow, ShaAssumption
  <2>3. m \in Seq(Values) /\ lo + BlockBytes <= Len(m)
    BY <2>2 DEF m
  <2>4. BlockOf(m, b) = SubSeq(m, lo + 1, lo + BlockBytes)
    BY <2>1, <2>2 DEF BlockOf
  <2>5. /\ BlockOf(m, b) \in Seq(Values) /\ Len(BlockOf(m, b)) = BlockBytes
        /\ \A j \in 1 .. BlockBytes : BlockOf(m, b)[j] = m[lo + j]
    BY <2>2, <2>3, <2>4, Piece
  <2>6. blocks[b] \in Seq(Values)
    BY ElementOfSeq
  <2>7. /\ Len(blocks[b]) = BlockBytes
        /\ \A j \in 1 .. BlockBytes : blocks[b][j] = m[lo + j]
    BY <2>1 DEF m
  <2>8. \A j \in 1 .. BlockBytes : blocks[b][j] = BlockOf(m, b)[j]
    BY <2>5, <2>7
  <2>9. blocks[b] = BlockOf(m, b)
    BY <2>2, <2>5, <2>6, <2>7, <2>8, SameSeq
  <2> QED  BY <2>5, <2>9
<1>3. d \in [1 .. k -> Seq(Values)] /\ \A b \in 1 .. k : blocks[b] = d[b]
  BY <1>2
<1> HIDE DEF d
<1>4. d \in Seq(Seq(Values)) /\ Len(d) = k
  BY <1>3, FunctionIsSeq
<1>5. blocks = d
  BY <1>3, <1>4, SameSeq
<1> QED  BY <1>1, <1>5

\* The blocks of the message that were compressed on the way.
LEMMA DoneBlocks ==
  ASSUME NEW c, NEW msg, Absorbed(c, msg)
  PROVE  /\ msg \in Seq(Values) /\ c.state \in Seq(Seq(Values))
         /\ \A b \in 1 .. Len(c.state) :
              /\ Len(c.state[b]) = BlockBytes
              /\ \A j \in 1 .. BlockBytes :
                   /\ Blocks(b - 1) + j \in 1 .. Len(msg)
                   /\ c.state[b][j] = msg[Blocks(b - 1) + j]
<1> DEFINE s == Len(c.state)
<1>1. Nat \subseteq Values
  BY DEF Values
<1>2. msg \in Seq(Nat) /\ c.state \in Seq(Seq(Nat)) /\ s \in Nat /\ c.buflen \in Nat
  BY DEF Absorbed, Contexts
<1>3. msg \in Seq(Values)
  BY <1>1, <1>2, SeqMonotonic
<1>4. c.state \in Seq(Seq(Values))
  <2>1. Seq(Nat) \subseteq Seq(Values)
    BY <1>1, SeqMonotonic
  <2> QED  BY <1>2, <2>1, SeqMonotonic
<1>5. ASSUME NEW b \in 1 .. s
      PROVE  /\ Len(c.state[b]) = BlockBytes
             /\ \A j \in 1 .. BlockBytes : /\ Blocks(b - 1) + j \in 1 .. Len(msg)
                                           /\ c.state[b][j] = msg[Blocks(b - 1) + j]
  <2>1. PICK lo \in Nat : lo = Blocks(b - 1)
    BY <1>2, BlocksGrow
  <2>2. Blocks(b) = lo + BlockBytes /\ Blocks(b) <= Blocks(s) /\ BlockBytes \in Nat
    BY <1>2, <2>1, BlocksGrow, ShaAssumption
  <2>3. Blocks(s) \in Nat /\ Len(msg) = Blocks(s) + c.buflen
    BY <1>2, BlocksAdd DEF Absorbed
  <2>4. lo + BlockBytes <= Len(msg) /\ Len(msg) \in Nat
    BY <1>2, <2>2, <2>3
  <2>5. c.state[b] = SubSeq(msg, lo + 1, lo + BlockBytes)
    BY <2>1, <2>2 DEF Absorbed, BlockOf
  <2>6. /\ Len(c.state[b]) = BlockBytes
        /\ \A j \in 1 .. BlockBytes : c.state[b][j] = msg[lo + j]
    BY <1>3, <2>2, <2>4, <2>5, Piece
  <2>7. \A j \in 1 .. BlockBytes : lo + j \in 1 .. Len(msg)
    BY <2>2, <2>4
  <2> QED  BY <2>1, <2>6, <2>7
<1> QED  BY <1>3, <1>4, <1>5

\* What follows the whole blocks: e bytes, that is one block or two.
Tailed(c, msg, e) ==
  /\ Len(Padded(msg)) = Blocks(Len(c.state)) + e
  /\ \A j \in 1 .. Len(msg) : Padded(msg)[j] = msg[j]
  /\ \A h \in 1 .. e : Padded(msg)[Blocks(Len(c.state)) + h] =
       IF h <= c.buflen THEN c.buffer[h]
       ELSE IF h = c.buflen + 1 THEN 128
       ELSE IF h <= e - LenBytes THEN 0
       ELSE LenByte(8 * Len(msg), e - h)

LEMMA TailIs ==
  ASSUME NEW c, NEW msg, Absorbed(c, msg),
         NEW e \in Nat, e = IF HasRoom(c.buflen + 1) THEN BlockBytes ELSE BlockBytes + BlockBytes
  PROVE  Padded(msg) \in Seq(Values) /\ Tailed(c, msg, e)
<1>1. PICK u \in 0 .. BlockBytes - 1 : u = c.buflen
  BY DEF Absorbed, Contexts
<1>2. PICK n \in Nat : n = Len(msg)
  BY DEF Absorbed
<1>3. PICK q \in Nat : q = Len(c.state)
  BY DEF Absorbed, Contexts
<1>4. PICK done \in Nat : done = Blocks(q)
  BY BlocksAdd
<1>5. n = done + u
  BY <1>1, <1>2, <1>3, <1>4 DEF Absorbed
<1>6. BlockBytes \in Nat /\ LenBytes \in Nat /\ LenBytes > 0 /\ LenBytes < BlockBytes
  BY ShaAssumption
<1>7. HasRoom(u + 1) <=> u + 1 + LenBytes <= BlockBytes
  BY <1>6 DEF HasRoom
<1>8. PICK zeros \in Nat : zeros = e - (u + 1 + LenBytes)
  BY <1>1, <1>6, <1>7
<1>9. zeros = (BlockBytes - ((n + 1 + LenBytes) % BlockBytes)) % BlockBytes
  <2>1. (BlockBytes - ((n + 1 + LenBytes) % BlockBytes)) % BlockBytes =
           IF HasRoom(u + 1) THEN BlockBytes - (u + 1 + LenBytes)
           ELSE (BlockBytes - (u + 1 + LenBytes)) + BlockBytes
    BY <1>4, <1>5, Padding
  <2> QED  BY <1>1, <1>6, <1>8, <2>1
<1>10. PICK x \in Nat : x = n + 1
  OBVIOUS
<1>11. PICK y \in Nat : y = x + zeros
  OBVIOUS
<1>12. msg \in Seq(Values)
  BY DoneBlocks
<1>13. PaddedParts(msg, n, x, zeros, y)
  BY <1>2, <1>9, <1>10, <1>11, <1>12, PaddedIs
<1>14. y + LenBytes = done + e
  BY <1>5, <1>6, <1>8, <1>10, <1>11
<1>15. ASSUME NEW h \in 1 .. e
       PROVE  Padded(msg)[done + h] = IF h <= u THEN c.buffer[h]
                                      ELSE IF h = u + 1 THEN 128
                                      ELSE IF h <= e - LenBytes THEN 0
                                      ELSE LenByte(8 * n, e - h)
  <2>1. CASE h <= u
    <3>1. PICK j \in 1 .. n : j = done + h
      BY <1>5, <2>1
    <3>2. \A k \in 1 .. u : c.buffer[k] = msg[done + k]
      BY <1>1, <1>3, <1>4 DEF Absorbed
    <3>3. h \in 1 .. u
      BY <2>1
    <3>4. Padded(msg)[j] = msg[j]
      BY <1>13 DEF PaddedParts
    <3> QED  BY <2>1, <3>1, <3>2, <3>3, <3>4
  <2>2. CASE h = u + 1
    <3>1. done + h = x
      BY <1>5, <1>10, <2>2
    <3> QED  BY <1>13, <2>2, <3>1 DEF PaddedParts
  <2>3. CASE h > u + 1 /\ h <= e - LenBytes
    <3>1. PICK j \in 1 .. zeros : j = h - (u + 1)
      BY <1>6, <1>8, <2>3
    <3>2. x + j = done + h
      BY <1>5, <1>10, <2>3, <3>1
    <3>3. Padded(msg)[x + j] = 0
      BY <1>13 DEF PaddedParts
    <3> QED  BY <1>6, <2>3, <3>2, <3>3
  <2>4. CASE h > u + 1 /\ h > e - LenBytes
    <3>1. PICK j \in 1 .. LenBytes : j = h - (e - LenBytes)
      BY <1>6, <2>4
    <3>2. y + j = done + h /\ LenBytes - j = e - h
      BY <1>6, <1>14, <3>1
    <3>3. Padded(msg)[y + j] = LenByte(8 * n, LenBytes - j)
      BY <1>13 DEF PaddedParts
    <3>4. Padded(msg)[done + h] = LenByte(8 * n, e - h)
      BY <3>2, <3>3
    <3>5. ~(h <= u) /\ h # u + 1 /\ ~(h <= e - LenBytes)
      BY <1>6, <2>4
    <3> QED  BY <3>4, <3>5
  <2>5. \/ h <= u \/ h = u + 1
        \/ h > u + 1 /\ h <= e - LenBytes
        \/ h > u + 1 /\ h > e - LenBytes
    BY <1>6
  <2> QED  BY <2>1, <2>2, <2>3, <2>4, <2>5
<1>16. /\ Padded(msg) \in Seq(Values) /\ Len(Padded(msg)) = done + e
       /\ \A j \in 1 .. n : Padded(msg)[j] = msg[j]
  BY <1>13, <1>14 DEF PaddedParts
<1> QED  BY <1>1, <1>2, <1>3, <1>4, <1>15, <1>16 DEF Tailed

\* k blocks, of which the first q were compressed on the way and the others make the tail.
Digested(c, msg, q, e, k, blocks) ==
  /\ q = Len(c.state)
  /\ e = IF HasRoom(c.buflen + 1) THEN BlockBytes ELSE BlockBytes + BlockBytes
  /\ Blocks(k) = Blocks(q) + e
  /\ blocks \in Seq(Seq(Values)) /\ Len(blocks) = k
  /\ \A b \in 1 .. q : blocks[b] = c.state[b]
  /\ \A b \in q + 1 .. k :
       /\ Len(blocks[b]) = BlockBytes
       /\ \A j \in 1 .. BlockBytes : blocks[b][j] = Padded(msg)[Blocks(b - 1) + j]

LEMMA TailedDigest ==
  ASSUME NEW c, NEW msg, Absorbed(c, msg), NEW q \in Nat, NEW e \in Nat, NEW k \in Nat,
         NEW blocks, Digested(c, msg, q, e, k, blocks)
  PROVE  blocks = Digest(msg)
<1>1. Padded(msg) \in Seq(Values) /\ Tailed(c, msg, e)
  BY TailIs DEF Digested
<1>2. Len(Padded(msg)) = Blocks(k)
  BY <1>1 DEF Tailed, Digested
<1>3. ASSUME NEW b \in 1 .. k
      PROVE  /\ Len(blocks[b]) = BlockBytes
             /\ \A j \in 1 .. BlockBytes : blocks[b][j] = Padded(msg)[Blocks(b - 1) + j]
  <2>1. CASE b \in 1 .. q
    <3>1. PICK lo : lo = Blocks(b - 1)
      OBVIOUS
    <3>2. /\ Len(c.state[b]) = BlockBytes
          /\ \A j \in 1 .. BlockBytes : lo + j \in 1 .. Len(msg) /\ c.state[b][j] = msg[lo + j]
      BY <2>1, <3>1, DoneBlocks DEF Digested
    <3>3. \A j \in 1 .. BlockBytes : Padded(msg)[lo + j] = msg[lo + j]
      BY <1>1, <3>2 DEF Tailed
    <3>4. blocks[b] = c.state[b]
      BY <2>1 DEF Digested
    <3> QED  BY <3>1, <3>2, <3>3, <3>4
  <2>2. CASE b \notin 1 .. q
    <3>1. b \in q + 1 .. k
      BY <2>2
    <3> QED  BY <3>1 DEF Digested
  <2> QED  BY <2>1, <2>2
<1>4. blocks \in Seq(Seq(Values)) /\ Len(blocks) = k
  BY DEF Digested
<1> QED  BY <1>1, <1>2, <1>3, <1>4, DigestIs

\* The digest of a message is what sha256_final makes of the context after it.
LEMMA FinalIsDigest ==
  ASSUME NEW c, NEW msg, Absorbed(c, msg)
  PROVE  sha256_final(c) = Digest(msg)
<1>1. PICK u \in 0 .. BlockBytes - 1 : u = c.buflen
  BY DEF Absorbed, Contexts
<1>2. PICK q \in Nat : q = Len(c.state)
  BY DEF Absorbed, Contexts
<1>3. PICK done \in Nat : done = Blocks(q)
  BY BlocksAdd
<1>4. BlockBytes \in Nat /\ LenBytes \in Nat /\ LenBytes > 0 /\ LenBytes < BlockBytes
  BY ShaAssumption
<1>5. HasRoom(u + 1) <=> u + 1 + LenBytes <= BlockBytes
  BY <1>4 DEF HasRoom
<1> DEFINE bits == c.bitlen + 8 * c.buflen
           one == [c.buffer EXCEPT ![u + 1] = 128]
           cut == [h \in 1 .. BlockBytes |-> IF h > u + 1 THEN 0 ELSE one[h]]
           none == [h \in 1 .. BlockBytes |-> 0]
           last(rest) == [h \in 1 .. BlockBytes |->
                            IF h > BlockBytes - LenBytes THEN LenByte(bits, BlockBytes - h)
                            ELSE rest[h]]
<1>6. bits = 8 * Len(msg) /\ bits \in Nat
  <2>1. c.bitlen = 8 * done /\ Len(msg) = done + u
    BY <1>1, <1>2, <1>3 DEF Absorbed
  <2> QED  BY <1>1, <2>1
<1>7. c \in Contexts /\ c.buffer \in [1 .. BlockBytes -> Nat]
  BY DEF Absorbed, Contexts
<1>8. \A h \in 1 .. BlockBytes :
        cut[h] = IF h <= u THEN c.buffer[h] ELSE IF h = u + 1 THEN 128 ELSE 0
  BY <1>1, <1>4, <1>7
<1>9. cut \in [1 .. BlockBytes -> Values] /\ none \in [1 .. BlockBytes -> Values]
  <2>1. Nat \subseteq Values /\ 0 \in Values /\ 128 \in Values
    BY DEF Values
  <2>2. \A h \in 1 .. BlockBytes : c.buffer[h] \in Values
    BY <1>7, <2>1
  <2> QED  BY <1>8, <2>1, <2>2
<1>10. ASSUME NEW rest \in [1 .. BlockBytes -> Values]
       PROVE  last(rest) \in Seq(Values) /\ Len(last(rest)) = BlockBytes
  <2>1. last(rest) \in [1 .. BlockBytes -> Values]
    BY <1>4, <1>6 DEF Values
  <2> QED  BY <1>4, <2>1, FunctionIsSeq
<1>11. c.state \in Seq(Seq(Values)) /\ msg \in Seq(Values)
  BY DoneBlocks
<1>12. last(cut) \in Seq(Values) /\ last(none) \in Seq(Values) /\ cut \in Seq(Values)
  BY <1>4, <1>9, <1>10, FunctionIsSeq
<1>13. /\ Len(last(cut)) = BlockBytes /\ Len(last(none)) = BlockBytes /\ Len(cut) = BlockBytes
  BY <1>4, <1>9, <1>10, FunctionIsSeq
<1>14. /\ \A h \in 1 .. BlockBytes :
            last(cut)[h] = IF h > BlockBytes - LenBytes THEN LenByte(8 * Len(msg), BlockBytes - h)
                           ELSE cut[h]
       /\ \A h \in 1 .. BlockBytes :
            last(none)[h] = IF h > BlockBytes - LenBytes THEN LenByte(8 * Len(msg), BlockBytes - h)
                            ELSE 0
  BY <1>6
<1> DEFINE l1 == last(cut)
           l2 == last(none)
<1>15. HasRoom(u + 1) => sha256_final(c) = Append(c.state, l1)
  BY <1>1, <1>7 DEF sha256_final, sha256_transform, Contexts
<1>16. ~HasRoom(u + 1) => sha256_final(c) = Append(Append(c.state, cut), l2)
  BY <1>1, <1>7 DEF sha256_final, sha256_transform, Contexts
<1> HIDE DEF l1, l2, cut
<1>17. /\ l1 \in Seq(Values) /\ l2 \in Seq(Values) /\ Len(l1) = BlockBytes /\ Len(l2) = BlockBytes
       /\ \A h \in 1 .. BlockBytes :
            l1[h] = IF h > BlockBytes - LenBytes THEN LenByte(8 * Len(msg), BlockBytes - h)
                    ELSE cut[h]
       /\ \A h \in 1 .. BlockBytes :
            l2[h] = IF h > BlockBytes - LenBytes THEN LenByte(8 * Len(msg), BlockBytes - h)
                    ELSE 0
  BY <1>12, <1>13, <1>14 DEF l1, l2
<1>18. CASE HasRoom(u + 1)
  <2> DEFINE blocks == Append(c.state, l1)
  <2>1. PICK k \in Nat : k = q + 1
    OBVIOUS
  <2>2. Blocks(k) = Blocks(q) + BlockBytes /\ Blocks(k - 1) = done /\ k - 1 = q
    BY <1>3, <2>1, BlocksAdd
  <2>3. /\ blocks \in Seq(Seq(Values)) /\ Len(blocks) = k /\ blocks[k] = l1
        /\ \A b \in 1 .. q : blocks[b] = c.state[b]
    BY <1>2, <1>11, <1>17, <2>1
  <2>4. ASSUME NEW j \in 1 .. BlockBytes PROVE l1[j] = Padded(msg)[done + j]
    <3>1. Tailed(c, msg, BlockBytes)
      BY <1>1, <1>4, <1>18, TailIs
    <3>2. Padded(msg)[done + j] = IF j <= u THEN c.buffer[j]
                                  ELSE IF j = u + 1 THEN 128
                                  ELSE IF j <= BlockBytes - LenBytes THEN 0
                                  ELSE LenByte(8 * Len(msg), BlockBytes - j)
      BY <1>1, <1>2, <1>3, <3>1 DEF Tailed
    <3>3. j > BlockBytes - LenBytes => j > u + 1
      BY <1>4, <1>5, <1>18
    <3> QED  BY <1>4, <1>8, <1>17, <3>2, <3>3
  <2> HIDE DEF blocks
  <2>5. \A b \in q + 1 .. k : b = k
    BY <2>1
  <2>6. \A b \in q + 1 .. k :
          /\ Len(blocks[b]) = BlockBytes
          /\ \A j \in 1 .. BlockBytes : blocks[b][j] = Padded(msg)[Blocks(b - 1) + j]
    BY <1>17, <2>2, <2>3, <2>4, <2>5
  <2>7. Digested(c, msg, q, BlockBytes, k, blocks)
    BY <1>1, <1>2, <1>18, <2>2, <2>3, <2>6 DEF Digested
  <2>8. blocks = Digest(msg)
    BY <1>4, <2>7, TailedDigest
  <2> QED  BY <1>15, <1>18, <2>8 DEF blocks
<1>19. CASE ~HasRoom(u + 1)
  <2> DEFINE blocks == Append(Append(c.state, cut), l2)
  <2>1. PICK p \in Nat : p = q + 1
    OBVIOUS
  <2>2. PICK k \in Nat : k = p + 1
    OBVIOUS
  <2>3. PICK e \in Nat : e = BlockBytes + BlockBytes
    BY <1>4
  <2>4. /\ Blocks(k) = Blocks(q) + e /\ Blocks(k - 1) = done + BlockBytes
        /\ Blocks(p - 1) = done
    <3>1. Blocks(p) = Blocks(q) + BlockBytes /\ Blocks(k) = Blocks(p) + BlockBytes
      BY <2>1, <2>2, BlocksAdd
    <3>2. k - 1 = p /\ p - 1 = q
      BY <2>1, <2>2
    <3> QED  BY <1>3, <1>4, <2>3, <3>1, <3>2
  <2>5. /\ blocks \in Seq(Seq(Values)) /\ Len(blocks) = k /\ blocks[k] = l2 /\ blocks[p] = cut
        /\ \A b \in 1 .. q : blocks[b] = c.state[b]
    BY <1>2, <1>11, <1>12, <1>17, <2>1, <2>2
  <2>6. \A h \in 1 .. e : Padded(msg)[done + h] = IF h <= u THEN c.buffer[h]
                                                 ELSE IF h = u + 1 THEN 128
                                                 ELSE IF h <= e - LenBytes THEN 0
                                                 ELSE LenByte(8 * Len(msg), e - h)
    <3>1. Tailed(c, msg, e)
      BY <1>1, <1>19, <2>3, TailIs
    <3> QED  BY <1>1, <1>2, <1>3, <3>1 DEF Tailed
  <2>7. ASSUME NEW j \in 1 .. BlockBytes PROVE cut[j] = Padded(msg)[done + j]
    <3>1. j \in 1 .. e /\ j <= e - LenBytes
      BY <1>4, <2>3
    <3> QED  BY <1>8, <2>6, <3>1
  <2>8. ASSUME NEW j \in 1 .. BlockBytes PROVE l2[j] = Padded(msg)[done + BlockBytes + j]
    <3>1. PICK h \in 1 .. e : h = BlockBytes + j
      BY <1>4, <2>3
    <3>2. ~(h <= u) /\ h # u + 1 /\ e - h = BlockBytes - j /\ done + h = done + BlockBytes + j
      BY <1>4, <2>3, <3>1
    <3>3. h <= e - LenBytes <=> ~(j > BlockBytes - LenBytes)
      BY <1>4, <2>3, <3>1
    <3>4. Padded(msg)[done + h] = IF j > BlockBytes - LenBytes
                                  THEN LenByte(8 * Len(msg), BlockBytes - j) ELSE 0
      BY <2>6, <3>2, <3>3
    <3> QED  BY <1>17, <3>2, <3>4
  <2> HIDE DEF blocks
  <2>9. \A b \in q + 1 .. k : b = p \/ b = k
    BY <2>1, <2>2
  <2>10. \A b \in q + 1 .. k :
          /\ Len(blocks[b]) = BlockBytes
          /\ \A j \in 1 .. BlockBytes : blocks[b][j] = Padded(msg)[Blocks(b - 1) + j]
    <3>1. /\ Len(blocks[p]) = BlockBytes
          /\ \A j \in 1 .. BlockBytes : blocks[p][j] = Padded(msg)[Blocks(p - 1) + j]
      BY <1>13, <2>4, <2>5, <2>7
    <3>2. /\ Len(blocks[k]) = BlockBytes
          /\ \A j \in 1 .. BlockBytes : blocks[k][j] = Padded(msg)[Blocks(k - 1) + j]
      BY <1>17, <2>4, <2>5, <2>8
    <3> QED  BY <2>9, <3>1, <3>2
  <2>11. Digested(c, msg, q, e, k, blocks)
    BY <1>1, <1>2, <1>19, <2>3, <2>4, <2>5, <2>10 DEF Digested
  <2>12. blocks = Digest(msg)
    BY <2>11, TailedDigest
  <2> QED  BY <1>16, <1>19, <2>12 DEF blocks
<1> QED  BY <1>18, <1>19

-----------------------------------------------------------------------------
(* A reader of a .hex file.                                                *)

Bytes == Seq(Nat)
Records ==
  [type : {"upper"}, page : Nat] \cup [type : {"data"}, addr : Nat, bytes : Bytes]
    \cup {Eof, Torn}
Hexes == Seq(Records)
Cells == [at : Nat, byte : Nat]
CellSeqs == Seq(Cells)
Decoders == [page : Nat, cells : CellSeqs]

LEMMA PlacedType ==
  ASSUME NEW page \in Nat, NEW r, r.bytes \in Bytes, r.addr \in Nat
  PROVE  Placed(page, r) \in CellSeqs /\ Len(Placed(page, r)) = Len(r.bytes)
<1> DEFINE n == Len(r.bytes)
<1>1. n \in Nat /\ DOMAIN r.bytes = 1 .. n /\ \A h \in 1 .. n : r.bytes[h] \in Nat
  BY DEF Bytes
<1>2. PageBytes \in Nat \ {0}
  BY RecordAssumption
<1>3. \A h \in 1 .. n : (page * PageBytes) + ((r.addr + h - 1) % PageBytes) \in Nat
  <2> TAKE h \in 1 .. n
  <2>1. r.addr + h - 1 \in Nat
    BY <1>1
  <2>2. (r.addr + h - 1) % PageBytes \in Nat
    BY <1>2, <2>1
  <2>3. page * PageBytes \in Nat
    BY <1>2
  <2> QED  BY <2>2, <2>3
<1> DEFINE p == Placed(page, r)
<1>4. p \in [1 .. n -> Cells]
  BY <1>1, <1>3 DEF Placed, Cells
<1> HIDE DEF p, n
<1>5. p \in Seq(Cells) /\ Len(p) = n
  BY <1>1, <1>4, FunctionIsSeq
<1> QED  BY <1>5 DEF CellSeqs, p, n

LEMMA ReadType ==
  ASSUME NEW d \in Decoders, NEW r \in Records
  PROVE  Read(d, r) \in Decoders
<1>1. d.page \in Nat /\ d.cells \in CellSeqs
  BY DEF Decoders
<1>2. CASE r.type = "upper"
  <2>1. r.page \in Nat
    BY <1>2 DEF Records, Eof, Torn
  <2> QED  BY <1>1, <1>2, <2>1 DEF Read, Decoders
<1>3. CASE r.type = "data"
  <2>1. r.addr \in Nat /\ r.bytes \in Bytes
    BY <1>3 DEF Records, Eof, Torn
  <2>2. Placed(d.page, r) \in CellSeqs
    BY <1>1, <2>1, PlacedType
  <2>3. d.cells \o Placed(d.page, r) \in CellSeqs
    BY <1>1, <2>2 DEF CellSeqs
  <2> QED  BY <1>1, <1>3, <2>3 DEF Read, Decoders
<1>4. CASE r.type \notin {"upper", "data"}
  BY <1>4 DEF Read
<1> QED  BY <1>2, <1>3, <1>4

Blank == [page |-> 0, cells |-> <<>>]

LEMMA BlankType == Blank \in Decoders
BY DEF Blank, Decoders, CellSeqs

DecodeLoop(f, start, hex, n) ==
  f = [k \in 0 .. n |-> IF k = 0 THEN start ELSE Read(f[k - 1], hex[k])]

LEMMA DecodeExists ==
  ASSUME NEW start \in Decoders, NEW n \in Nat, NEW hex, \A k \in 1 .. n : hex[k] \in Records
  PROVE  \E f : DecodeLoop(f, start, hex, n)
<1> DEFINE step == [p \in Decoders \X (1 .. n) |-> Read(p[1], hex[p[2]])]
<1>1. step \in [Decoders \X (1 .. n) -> Decoders]
  BY ReadType
<1>2. \A d \in Decoders, k \in 1 .. n : step[<<d, k>>] = Read(d, hex[k])
  OBVIOUS
<1> HIDE DEF step
<1>3. PICK f : Recursive(f, Decoders, start, n, step)
  BY <1>1, RecursionExists
<1>4. /\ f \in [0 .. n -> Decoders]
      /\ f = [k \in 0 .. n |-> IF k = 0 THEN start ELSE step[<<f[k - 1], k>>]]
  BY <1>3 DEF Recursive
<1>5. ASSUME NEW k \in 0 .. n, k # 0 PROVE step[<<f[k - 1], k>>] = Read(f[k - 1], hex[k])
  <2>1. k \in 1 .. n /\ k - 1 \in 0 .. n
    BY <1>5
  <2> QED  BY <1>2, <1>4, <2>1
<1>6. \A k \in 0 .. n : f[k] = IF k = 0 THEN start ELSE Read(f[k - 1], hex[k])
  BY <1>4, <1>5
<1> QED  BY <1>4, <1>6 DEF DecodeLoop

\* What Decoded computes: f[k] is the state after k records.
Reads(f, hex, n) == f[0] = Blank /\ \A k \in 1 .. n : f[k] = Read(f[k - 1], hex[k])

LEMMA DecodedIs ==
  ASSUME NEW hex \in Hexes
  PROVE  \E f : Reads(f, hex, Len(hex)) /\ Decoded(hex) = f[Len(hex)]
<1> DEFINE n == Len(hex)
           f == CHOOSE f : DecodeLoop(f, Blank, hex, n)
<1>1. n \in Nat /\ \A k \in 1 .. n : hex[k] \in Records
  BY DEF Hexes
<1>2. \E g : DecodeLoop(g, Blank, hex, n)
  <2> HIDE DEF n
  <2> QED  BY <1>1, BlankType, DecodeExists
<1>3. DecodeLoop(f, Blank, hex, n)
  BY <1>2
<1>4. Decoded(hex) = f[n]
  BY DEF Decoded, Blank, DecodeLoop
<1> HIDE DEF f, n
<1>5. f[0] = Blank /\ \A k \in 1 .. n : f[k] = Read(f[k - 1], hex[k])
  <2>1. 0 \in 0 .. n /\ \A k \in 1 .. n : k \in 0 .. n /\ k # 0
    BY <1>1
  <2> QED  BY <1>3, <2>1 DEF DecodeLoop
<1> QED  BY <1>4, <1>5 DEF Reads, n

LEMMA ReadsType ==
  ASSUME NEW n \in Nat, NEW hex, NEW f, \A k \in 1 .. n : hex[k] \in Records, Reads(f, hex, n)
  PROVE  f[n] \in Decoders
<1> DEFINE T == {k \in 0 .. n : f[k] \in Decoders}
<1>1. 0 \in T
  BY BlankType DEF Reads
<1>2. ASSUME NEW k \in 0 .. n - 1, k \in T PROVE k + 1 \in T
  <2>1. k + 1 \in 1 .. n /\ k + 1 \in 0 .. n /\ (k + 1) - 1 = k
    OBVIOUS
  <2>2. f[k + 1] = Read(f[k], hex[k + 1])
    BY <2>1 DEF Reads
  <2> QED  BY <1>2, <2>1, <2>2, ReadType
<1> HIDE DEF T
<1>3. n \in T
  BY <1>1, <1>2, InductionUpTo
<1> QED  BY <1>3 DEF T

LEMMA ReadsSame ==
  ASSUME NEW n \in Nat, NEW hex, NEW more, NEW f, NEW g, Reads(f, hex, n), Reads(g, more, n),
         \A k \in 1 .. n : more[k] = hex[k]
  PROVE  f[n] = g[n]
<1> DEFINE T == {k \in 0 .. n : f[k] = g[k]}
<1>1. 0 \in T
  BY DEF Reads
<1>2. ASSUME NEW k \in 0 .. n - 1, k \in T PROVE k + 1 \in T
  <2>1. k + 1 \in 1 .. n /\ k + 1 \in 0 .. n /\ (k + 1) - 1 = k
    OBVIOUS
  <2>2. f[k + 1] = Read(f[k], hex[k + 1]) /\ g[k + 1] = Read(g[k], hex[k + 1])
    BY <2>1 DEF Reads
  <2> QED  BY <1>2, <2>1, <2>2
<1> HIDE DEF T
<1>3. n \in T
  BY <1>1, <1>2, InductionUpTo
<1> QED  BY <1>3 DEF T

LEMMA DecodedType ==
  ASSUME NEW hex \in Hexes
  PROVE  Decoded(hex) \in Decoders
<1>1. PICK f : Reads(f, hex, Len(hex)) /\ Decoded(hex) = f[Len(hex)]
  BY DecodedIs
<1>2. PICK n \in Nat : n = Len(hex)
  BY DEF Hexes
<1>3. \A k \in 1 .. n : hex[k] \in Records
  BY <1>2 DEF Hexes
<1> QED  BY <1>1, <1>2, <1>3, ReadsType

LEMMA DecodedEmpty == Decoded(<<>>) = Blank
<1>1. <<>> \in Hexes /\ Len(<<>>) = 0
  BY DEF Hexes
<1> QED  BY <1>1, DecodedIs DEF Reads

\* One record more.
LEMMA DecodedAppend ==
  ASSUME NEW hex \in Hexes, NEW r \in Records
  PROVE  Decoded(Append(hex, r)) = Read(Decoded(hex), r)
<1> DEFINE more == Append(hex, r)
<1>1. PICK n \in Nat : n = Len(hex)
  BY DEF Hexes
<1>2. more \in Hexes /\ Len(more) = n + 1 /\ more[n + 1] = r /\ \A k \in 1 .. n : more[k] = hex[k]
  BY <1>1 DEF Hexes
<1> HIDE DEF more
<1>3. PICK f : Reads(f, hex, n) /\ Decoded(hex) = f[n]
  BY <1>1, DecodedIs
<1>4. PICK g : Reads(g, more, n + 1) /\ Decoded(more) = g[n + 1]
  BY <1>2, DecodedIs
<1>5. n + 1 \in 1 .. n + 1 /\ (n + 1) - 1 = n /\ \A k \in 1 .. n : k \in 1 .. n + 1
  OBVIOUS
<1>6. g[n + 1] = Read(g[n], r)
  BY <1>2, <1>4, <1>5 DEF Reads
<1>7. Reads(g, more, n)
  BY <1>4, <1>5 DEF Reads
<1>8. f[n] = g[n]
  BY <1>2, <1>3, <1>7, ReadsSame
<1> QED  BY <1>3, <1>4, <1>6, <1>8 DEF more

-----------------------------------------------------------------------------
(* The writer.                                                             *)

Fuses == 0 .. MaxWrites
Writers ==
  [bin : Bytes, hex : Hexes, to_bin : BOOLEAN, to_hex : BOOLEAN, base : Nat, pos : Nat,
   upper : Nat, started : BOOLEAN, rec : Bytes, ok : BOOLEAN, fuse : Fuses, torn : BOOLEAN]

\* What a record leaves alone.
Alike(v, d) ==
  /\ v.bin = d.bin /\ v.to_bin = d.to_bin /\ v.to_hex = d.to_hex
  /\ v.base = d.base /\ v.pos = d.pos /\ v.rec = d.rec

\* v is d after a record was written, or not.
Wrote(d, v, r) ==
  /\ v \in Writers /\ Alike(v, d) /\ v.upper = d.upper /\ v.started = d.started
  /\ v.ok => v.hex = Append(d.hex, r)
  /\ ~v.ok => v.hex \in {d.hex, Append(d.hex, Torn)}

LEMMA FuseBurns ==
  ASSUME NEW f \in Fuses
  PROVE  (IF f = 0 THEN 0 ELSE f - 1) \in Fuses /\ 0 \in Fuses
BY DumpAssumption DEF Fuses

LEMMA EofTorn == Eof \in Records /\ Torn \in Records
BY DEF Records

LEMMA HexAppend ==
  ASSUME NEW hex \in Hexes, NEW r \in Records
  PROVE  hex \o <<r>> = Append(hex, r) /\ Append(hex, r) \in Hexes
BY DEF Hexes

LEMMA WriteIs ==
  ASSUME NEW d \in Writers, d.ok, NEW r \in Records
  PROVE  Wrote(d, ihex_record(d, r), r)
<1> DEFINE v == ihex_record(d, r)
<1>1. d.fuse \in Fuses /\ d.hex \in Hexes
  BY DEF Writers
<1>2. /\ d.hex \o <<r>> = Append(d.hex, r) /\ Append(d.hex, r) \in Hexes
      /\ d.hex \o <<Torn>> = Append(d.hex, Torn) /\ Append(d.hex, Torn) \in Hexes
  BY <1>1, EofTorn, HexAppend
<1>3. v = IF d.fuse = 1
          THEN [d EXCEPT !.fuse = 0, !.ok = FALSE,
                         !.hex = IF d.torn THEN Append(d.hex, Torn) ELSE d.hex]
          ELSE [d EXCEPT !.fuse = IF d.fuse = 0 THEN 0 ELSE d.fuse - 1,
                         !.hex = Append(d.hex, r)]
  BY <1>2 DEF ihex_record, FileWrite, Writers
<1> HIDE DEF v
<1>4. CASE d.fuse = 1
  <2> DEFINE h == IF d.torn THEN Append(d.hex, Torn) ELSE d.hex
  <2>1. h \in Hexes /\ h \in {d.hex, Append(d.hex, Torn)} /\ 0 \in Fuses
    BY <1>1, <1>2, FuseBurns
  <2> HIDE DEF h
  <2>2. v = [d EXCEPT !.fuse = 0, !.ok = FALSE, !.hex = h]
    BY <1>3, <1>4 DEF h
  <2>3. v \in Writers /\ ~v.ok /\ v.hex = h /\ v.upper = d.upper /\ v.started = d.started
    BY <2>1, <2>2 DEF Writers
  <2>4. Alike(v, d)
    BY <2>2 DEF Writers, Alike
  <2> QED  BY <2>1, <2>3, <2>4 DEF Wrote, v
<1>5. CASE d.fuse # 1
  <2> DEFINE f == IF d.fuse = 0 THEN 0 ELSE d.fuse - 1
             h == Append(d.hex, r)
  <2>1. f \in Fuses /\ h \in Hexes
    BY <1>1, <1>2, FuseBurns
  <2> HIDE DEF f, h
  <2>2. v = [d EXCEPT !.fuse = f, !.hex = h]
    BY <1>3, <1>5 DEF f, h
  <2>3. v \in Writers /\ v.ok /\ v.hex = h /\ v.upper = d.upper /\ v.started = d.started
    BY <2>1, <2>2 DEF Writers
  <2>4. Alike(v, d)
    BY <2>2 DEF Writers, Alike
  <2> QED  BY <2>3, <2>4 DEF Wrote, v, h
<1> QED  BY <1>4, <1>5

\* n consecutive addresses, each holding itself: in memory, and as cells of a .hex.
Run(from, n) == [k \in 1 .. n |-> from + k - 1]
CellRun(from, n) == [k \in 1 .. n |-> [at |-> from + k - 1, byte |-> from + k - 1]]

\* A record does not run over the end of its page.
InRecord(a, k, rb, pb) == pb % rb = 0 /\ a % rb = 0 /\ k < rb

LEMMA NoWrap ==
  ASSUME NEW rb \in Nat, rb > 0, NEW pb \in Nat, pb > 0, NEW a \in Nat, NEW k \in Nat,
         InRecord(a, k, rb, pb)
  PROVE  (a \div pb) * pb + (((a % pb) + k) % pb) = a + k
<1> USE DEF InRecord
<1>1. PICK d \in Nat, m \in Nat : a = pb * d + m /\ m < pb /\ d = a \div pb /\ m = a % pb
  OBVIOUS
<1>2. PICK x \in Nat : a = rb * x
  <2>1. a \div rb \in Nat /\ a = rb * (a \div rb)
    OBVIOUS
  <2> QED  BY <2>1
<1>3. PICK y \in Nat : pb = rb * y
  <2>1. pb \div rb \in Nat /\ pb = rb * (pb \div rb)
    OBVIOUS
  <2> QED  BY <2>1
<1>4. PICK e \in Nat : e = y * d
  OBVIOUS
<1>10. pb * d = rb * e
  <2>1. (rb * y) * d = rb * (y * d)
    OBVIOUS
  <2> QED  BY <1>3, <1>4, <2>1
<1>11. PICK z \in Int : z = x - e
  OBVIOUS
<1>5. m = rb * z
  <2>1. rb * (x - e) = rb * x - rb * e
    OBVIOUS
  <2> QED  BY <1>1, <1>2, <1>10, <1>11, <2>1
<1>6. z < y
  <2>1. z >= y => rb * z >= rb * y
    OBVIOUS
  <2>2. m < pb
    BY <1>1
  <2>3. rb * z < rb * y
    BY <1>3, <1>5, <2>2
  <2> DEFINE p == rb * z
             q == rb * y
  <2>4. p \in Int /\ q \in Int
    OBVIOUS
  <2> HIDE DEF p, q
  <2>5. z >= y => p >= q
    BY <2>1 DEF p, q
  <2>6. p < q
    BY <2>3 DEF p, q
  <2> QED  BY <2>4, <2>5, <2>6
<1>7. rb * z + rb <= rb * y
  BY <1>6
<1>8. m + k \in 0 .. pb - 1
  BY <1>3, <1>5, <1>7
<1>9. (m + k) % pb = m + k
  BY <1>8, Remainder
<1> QED  BY <1>1, <1>9

LEMMA AlignedAdd ==
  ASSUME NEW rb \in Nat, rb > 0, NEW a \in Nat, a % rb = 0, NEW b \in Nat, b % rb = 0
  PROVE  (a + b) % rb = 0
<1>1. PICK x \in Nat : a = rb * x
  <2>1. a \div rb \in Nat /\ a = rb * (a \div rb)
    OBVIOUS
  <2> QED  BY <2>1
<1>2. PICK y \in Nat : b = rb * y
  <2>1. b \div rb \in Nat /\ b = rb * (b \div rb)
    OBVIOUS
  <2> QED  BY <2>1
<1>3. PICK z \in Nat : z = x + y
  OBVIOUS
<1>4. a + b = rb * z + 0
  BY <1>1, <1>2, <1>3
<1>5. PICK c \in Nat : c = a + b
  OBVIOUS
<1>6. c % rb = 0
  <2>1. c = rb * z
    BY <1>4, <1>5
  <2> QED  BY <2>1
<1> QED  BY <1>5, <1>6

LEMMA EndedAppend ==
  ASSUME NEW hex \in Hexes, NEW r \in Records
  PROVE  Ended(Append(hex, r)) <=> r = Eof
<1>1. Append(hex, r) # <<>> /\ Append(hex, r)[Len(Append(hex, r))] = r
  BY DEF Hexes
<1> QED  BY <1>1 DEF Ended, Last

LEMMA NotEnded ==
  /\ Torn # Eof
  /\ \A page \in Nat : Upper(page) \in Records /\ Upper(page) # Eof
  /\ \A addr \in Nat, bytes \in Bytes :
       Data(addr, bytes) \in Records /\ Data(addr, bytes) # Eof
<1>1. Torn.type = "torn" /\ Eof.type = "eof" /\ "torn" # "eof"
  BY DEF Torn, Eof
<1>2. ASSUME NEW page \in Nat PROVE Upper(page) \in Records /\ Upper(page).type = "upper"
  BY DEF Upper, Records
<1>3. ASSUME NEW addr \in Nat, NEW bytes \in Bytes
      PROVE  Data(addr, bytes) \in Records /\ Data(addr, bytes).type = "data"
  BY DEF Data, Records
<1>4. "upper" # "eof" /\ "data" # "eof"
  OBVIOUS
<1> QED  BY <1>1, <1>2, <1>3, <1>4

\* What the decoder makes of each record.
LEMMA ReadIs ==
  ASSUME NEW d \in Decoders
  PROVE  /\ Read(d, Torn) = d /\ Read(d, Eof) = d
         /\ \A page \in Nat : Read(d, Upper(page)) = [d EXCEPT !.page = page]
         /\ \A addr \in Nat, bytes \in Bytes :
              Read(d, Data(addr, bytes)) =
                [d EXCEPT !.cells = d.cells \o Placed(d.page, Data(addr, bytes))]
<1>1. Read(d, Torn) = d
  BY DEF Read, Torn
<1>2. Read(d, Eof) = d
  BY DEF Read, Eof
<1>3. ASSUME NEW page \in Nat PROVE Read(d, Upper(page)) = [d EXCEPT !.page = page]
  BY DEF Read, Upper
<1>4. ASSUME NEW addr \in Nat, NEW bytes \in Bytes
      PROVE  Read(d, Data(addr, bytes)) =
               [d EXCEPT !.cells = d.cells \o Placed(d.page, Data(addr, bytes))]
  <2> DEFINE r == Data(addr, bytes)
  <2>1. r.type = "data"
    BY DEF Data
  <2> HIDE DEF r
  <2> QED  BY <2>1 DEF Read, r
<1> QED  BY <1>1, <1>2, <1>3, <1>4

\* e is d with the bytes of a data record.
Extended(e, d, addr, bytes) == e = [d EXCEPT !.cells = d.cells \o Placed(d.page, Data(addr, bytes))]

LEMMA ReadExtends ==
  ASSUME NEW d \in Decoders, NEW addr, NEW bytes
  PROVE  Extended(Read(d, Data(addr, bytes)), d, addr, bytes)
<1> DEFINE r == Data(addr, bytes)
<1>1. r.type = "data"
  BY DEF Data
<1> HIDE DEF r
<1> QED  BY <1>1 DEF Read, Extended, r

\* A record of a run is read back as that run.
LEMMA PlacedRun ==
  ASSUME NEW from \in Nat, from % RecBytes = 0, NEW k \in 1 .. RecBytes
  PROVE  /\ Run(from, k) \in Bytes /\ from % PageBytes \in Nat /\ from \div PageBytes \in Nat
         /\ Placed(from \div PageBytes, Data(from % PageBytes, Run(from, k))) = CellRun(from, k)
<1> DEFINE r == Data(from % PageBytes, Run(from, k))
<1>1. /\ RecBytes \in Nat /\ RecBytes > 0 /\ PageBytes \in Nat /\ PageBytes > 0
      /\ PageBytes % RecBytes = 0
  BY RecordAssumption
<1>2. k \in Nat /\ k <= RecBytes
  BY <1>1
<1>3. Run(from, k) \in [1 .. k -> Nat]
  BY <1>2 DEF Run
<1>4. Run(from, k) \in Bytes
  BY <1>2, <1>3, FunctionIsSeq DEF Bytes
<1>5. from % PageBytes \in Nat /\ from \div PageBytes \in Nat
  BY <1>1
<1>6. /\ r.bytes = Run(from, k) /\ r.addr = from % PageBytes
      /\ DOMAIN r.bytes = 1 .. k
  BY <1>3 DEF Data
<1>7. ASSUME NEW h \in 1 .. k
      PROVE  /\ ((from \div PageBytes) * PageBytes) + ((r.addr + h - 1) % PageBytes) = from + h - 1
             /\ r.bytes[h] = from + h - 1
  <2>1. PICK j \in Nat : j = h - 1 /\ j < RecBytes
    BY <1>1, <1>2
  <2>2. ((from \div PageBytes) * PageBytes) + (((from % PageBytes) + j) % PageBytes) = from + j
    <3>1. InRecord(from, j, RecBytes, PageBytes)
      BY <1>1, <2>1 DEF InRecord
    <3> QED  BY <1>1, <3>1, NoWrap
  <2> QED  BY <1>6, <2>1, <2>2 DEF Run
<1> HIDE DEF r
<1>8. Placed(from \div PageBytes, r) = CellRun(from, k)
  BY <1>6, <1>7 DEF Placed, CellRun
<1> QED  BY <1>4, <1>5, <1>8 DEF r

\* The decoder's state and the end record, when a record was written or torn off.
LEMMA WroteReads ==
  ASSUME NEW d \in Writers, NEW v, NEW r \in Records, Wrote(d, v, r), r # Eof, ~Ended(d.hex)
  PROVE  /\ ~Ended(v.hex) /\ d.hex \in Hexes /\ Decoded(d.hex) \in Decoders
         /\ v.ok => Decoded(v.hex) = Read(Decoded(d.hex), r)
         /\ ~v.ok => Decoded(v.hex) = Decoded(d.hex)
<1>1. d.hex \in Hexes /\ Decoded(d.hex) \in Decoders
  BY DecodedType DEF Writers
<1>2. CASE v.ok
  BY <1>1, <1>2, DecodedAppend, EndedAppend DEF Wrote
<1>3. CASE ~v.ok
  <2>1. CASE v.hex = d.hex
    BY <1>1, <1>3, <2>1
  <2>2. CASE v.hex = Append(d.hex, Torn)
    <3>1. Decoded(v.hex) = Read(Decoded(d.hex), Torn)
      BY <1>1, <2>2, DecodedAppend, EofTorn
    <3>2. Read(Decoded(d.hex), Torn) = Decoded(d.hex)
      BY <1>1, ReadIs
    <3>3. ~Ended(v.hex)
      BY <1>1, <2>2, EndedAppend, EofTorn, NotEnded
    <3> QED  BY <1>1, <1>3, <3>1, <3>2, <3>3
  <2> QED  BY <1>3, <2>1, <2>2 DEF Wrote
<1> QED  BY <1>1, <1>2, <1>3

\* v is d after the run was flushed, or a part of its records.
Flushed(d, v, from, k) ==
  /\ v \in Writers /\ Alike(v, d) /\ ~Ended(v.hex)
  /\ v.ok => /\ Decode(v.hex) = Decode(d.hex) \o CellRun(from, k)
             /\ Decoded(v.hex).page = v.upper
  /\ ~v.ok => Decode(v.hex) = Decode(d.hex)

LEMMA FlushIs ==
  ASSUME NEW d \in Writers, d.ok, d.to_hex, ~Ended(d.hex),
         d.started => Decoded(d.hex).page = d.upper,
         NEW from \in Nat, from % RecBytes = 0, NEW k \in 1 .. RecBytes
  PROVE  Flushed(d, hex_flush_record(d, from, Run(from, k)), from, k)
<1> DEFINE upper == from \div PageBytes
           bytes == Run(from, k)
           r == Data(from % PageBytes, bytes)
           x == ihex_record(d, Upper(upper))
           u == IF d.started /\ upper = d.upper THEN d
                ELSE [x EXCEPT !.upper = upper, !.started = TRUE]
           v == hex_flush_record(d, from, bytes)
<1>1. /\ bytes \in Bytes /\ from % PageBytes \in Nat /\ upper \in Nat
      /\ Placed(upper, r) = CellRun(from, k)
  BY PlacedRun
<1>2. bytes # <<>>
  <2>1. 1 \in DOMAIN bytes
    BY DEF Run
  <2> QED  BY <2>1
<1>3. Upper(upper) \in Records /\ Upper(upper) # Eof /\ r \in Records /\ r # Eof
  BY <1>1, NotEnded
<1> HIDE DEF bytes
<1>4. v = IF u.ok THEN ihex_record(u, r) ELSE u
  BY <1>2 DEF hex_flush_record
<1> HIDE DEF r, upper, v
<1>5. /\ u \in Writers /\ Alike(u, d) /\ ~Ended(u.hex) /\ Decode(u.hex) = Decode(d.hex)
      /\ u.ok => Decoded(u.hex).page = upper /\ u.upper = upper
      /\ ~u.ok => Decoded(u.hex) = Decoded(d.hex)
  <2>1. CASE d.started /\ upper = d.upper
    <3>1. u = d
      BY <2>1
    <3> HIDE DEF u
    <3> QED  BY <2>1, <3>1 DEF Alike
  <2>2. CASE ~(d.started /\ upper = d.upper)
    <3>1. Wrote(d, x, Upper(upper))
      BY <1>3, WriteIs
    <3>2. /\ ~Ended(x.hex) /\ Decoded(d.hex) \in Decoders
          /\ x.ok => Decoded(x.hex) = Read(Decoded(d.hex), Upper(upper))
          /\ ~x.ok => Decoded(x.hex) = Decoded(d.hex)
      BY <1>3, <3>1, WroteReads
    <3> HIDE DEF x
    <3>3. u = [x EXCEPT !.upper = upper, !.started = TRUE]
      BY <2>2
    <3> HIDE DEF u
    <3>4. x \in Writers /\ Alike(x, d)
      BY <3>1 DEF Wrote
    <3>5. /\ u \in Writers /\ u.ok = x.ok /\ u.hex = x.hex /\ u.upper = upper
      BY <1>1, <3>3, <3>4 DEF Writers
    <3>6. Alike(u, d)
      BY <3>3, <3>4 DEF Alike, Writers
    <3>7. Read(Decoded(d.hex), Upper(upper)) = [Decoded(d.hex) EXCEPT !.page = upper]
      BY <1>1, <3>2, ReadIs
    <3>8. x.ok => Decoded(x.hex).page = upper /\ Decoded(x.hex).cells = Decoded(d.hex).cells
      BY <3>2, <3>7 DEF Decoders
    <3> QED  BY <3>2, <3>5, <3>6, <3>8 DEF Decode
  <2> QED  BY <2>1, <2>2
<1> HIDE DEF u
<1>6. CASE ~u.ok
  BY <1>4, <1>5, <1>6 DEF Flushed, v, bytes
<1>7. CASE u.ok
  <2>1. v = ihex_record(u, r)
    BY <1>4, <1>7
  <2>2. Wrote(u, v, r)
    BY <1>3, <1>5, <1>7, <2>1, WriteIs
  <2>3. /\ ~Ended(v.hex) /\ Decoded(u.hex) \in Decoders
        /\ v.ok => Decoded(v.hex) = Read(Decoded(u.hex), r)
        /\ ~v.ok => Decoded(v.hex) = Decoded(u.hex)
    BY <1>3, <1>5, <2>2, WroteReads
  <2>4. Read(Decoded(u.hex), r) =
          [Decoded(u.hex) EXCEPT !.cells = Decoded(u.hex).cells \o Placed(Decoded(u.hex).page, r)]
    <3>1. Extended(Read(Decoded(u.hex), r), Decoded(u.hex), from % PageBytes, bytes)
      BY <2>3, ReadExtends DEF r
    <3> QED  BY <3>1 DEF Extended, r
  <2>5. v.ok => /\ Decoded(v.hex).cells = Decoded(u.hex).cells \o CellRun(from, k)
                /\ Decoded(v.hex).page = upper
    BY <1>1, <1>5, <1>7, <2>3, <2>4 DEF Decoders
  <2>6. v \in Writers /\ Alike(v, d) /\ v.upper = upper
    BY <1>5, <1>7, <2>2 DEF Wrote, Alike
  <2> QED  BY <1>5, <2>3, <2>5, <2>6 DEF Flushed, Decode, v, bytes
<1> QED  BY <1>6, <1>7

LEMMA RunAppend ==
  ASSUME NEW from \in Nat, NEW k \in Nat
  PROVE  /\ Run(from, k) \in Bytes /\ Len(Run(from, k)) = k
         /\ Append(Run(from, k), from + k) = Run(from, k + 1)
<1>1. ASSUME NEW m \in Nat PROVE Run(from, m) \in Seq(Nat) /\ Len(Run(from, m)) = m
  <2>1. Run(from, m) \in [1 .. m -> Nat]
    BY DEF Run
  <2> QED  BY <2>1, FunctionIsSeq
<1> DEFINE s == Run(from, k)
           a == Append(s, from + k)
           b == Run(from, k + 1)
<1>2. s \in Seq(Nat) /\ Len(s) = k /\ b \in Seq(Nat) /\ Len(b) = k + 1
  BY <1>1
<1>3. /\ \A j \in 1 .. k : s[j] = from + j - 1
      /\ \A j \in 1 .. k + 1 : b[j] = from + j - 1
  BY DEF Run
<1> HIDE DEF s, b
<1>4. PICK e \in Nat : e = from + k
  OBVIOUS
<1>5. a \in Seq(Nat) /\ Len(a) = k + 1 /\ a[k + 1] = e /\ \A j \in 1 .. k : a[j] = s[j]
  BY <1>2, <1>4
<1> HIDE DEF a
<1>6. ASSUME NEW j \in 1 .. k + 1 PROVE a[j] = b[j]
  <2>1. CASE j = k + 1
    BY <1>3, <1>4, <1>5, <2>1
  <2>2. CASE j # k + 1
    <3>1. j \in 1 .. k
      BY <2>2
    <3> QED  BY <1>3, <1>5, <3>1
  <2> QED  BY <2>1, <2>2
<1>7. PICK m \in Nat : m = k + 1
  OBVIOUS
<1>8. a = b
  BY <1>2, <1>5, <1>6, <1>7, SameSeq
<1> QED  BY <1>2, <1>8 DEF Bytes, s, a, b

LEMMA CellRunConcat ==
  ASSUME NEW from \in Nat, NEW n \in Nat, NEW k \in Nat
  PROVE  /\ CellRun(from, n) \in CellSeqs /\ Len(CellRun(from, n)) = n
         /\ CellRun(from, n) \o CellRun(from + n, k) = CellRun(from, n + k)
<1>1. ASSUME NEW a \in Nat, NEW m \in Nat
      PROVE  CellRun(a, m) \in Seq(Cells) /\ Len(CellRun(a, m)) = m
  <2>1. CellRun(a, m) \in [1 .. m -> Cells]
    BY DEF CellRun, Cells
  <2> QED  BY <2>1, FunctionIsSeq
<1> DEFINE s == CellRun(from, n)
           t == CellRun(from + n, k)
           a == s \o t
           b == CellRun(from, n + k)
           c(j) == [at |-> from + j - 1, byte |-> from + j - 1]
<1>2. /\ s \in Seq(Cells) /\ Len(s) = n /\ t \in Seq(Cells) /\ Len(t) = k
      /\ b \in Seq(Cells) /\ Len(b) = n + k
  <2>1. from + n \in Nat /\ n + k \in Nat
    OBVIOUS
  <2> HIDE DEF s, t, b
  <2> QED  BY <1>1, <2>1 DEF s, t, b
<1>3. /\ \A j \in 1 .. n : s[j] = c(j)
      /\ \A j \in 1 .. n + k : b[j] = c(j)
  BY DEF CellRun
<1>4. \A j \in 1 .. k : t[j] = c(n + j)
  <2> TAKE j \in 1 .. k
  <2>1. (from + n) + j - 1 = from + (n + j) - 1
    OBVIOUS
  <2> QED  BY <2>1 DEF CellRun
<1>5. Joined(Cells, a, s, n, t, k)
  BY <1>2, Join
<1> HIDE DEF s, t, a, b, c
<1>6. ASSUME NEW j \in 1 .. n + k PROVE a[j] = b[j]
  <2>1. CASE j <= n
    BY <1>3, <1>5, <2>1 DEF Joined
  <2>2. CASE j > n
    <3>1. PICK h \in 1 .. k : j = n + h
      <4>1. j - n \in 1 .. k /\ j = n + (j - n)
        BY <2>2
      <4> QED  BY <4>1
    <3> QED  BY <1>3, <1>4, <1>5, <3>1 DEF Joined
  <2> QED  BY <2>1, <2>2
<1>7. PICK m \in Nat : m = n + k
  OBVIOUS
<1>8. a = b
  BY <1>2, <1>5, <1>6, <1>7, SameSeq DEF Joined
<1> QED  BY <1>2, <1>8 DEF CellSeqs, s, a, b, t

\* A piece of memory is a run; the .hex so far is one too, of n cells, and what the file
\* lacks is in the record buffer.
Streams(d, n) ==
  /\ d \in Writers /\ d.to_hex /\ d.base % RecBytes = 0 /\ ~Ended(d.hex)
  /\ Len(d.rec) < RecBytes /\ Decode(d.hex) = CellRun(d.base, n)
  /\ d.ok => /\ n % RecBytes = 0 /\ d.rec = Run(d.base + n, Len(d.rec))
             /\ d.pos = n + Len(d.rec)
             /\ d.started => Decoded(d.hex).page = d.upper

\* v is d after k bytes, or after fewer and a failure.
Fed(d, v, k) ==
  /\ v.bin = d.bin /\ v.to_bin = d.to_bin /\ v.base = d.base /\ v.pos <= d.pos + k
  /\ v.ok => d.ok /\ v.pos = d.pos + k

LEMMA FeedStreams ==
  ASSUME NEW d, NEW n \in Nat, Streams(d, n), d.ok
  PROVE  /\ Fed(d, Feed(d, d.base + d.pos), 1)
         /\ \E m \in Nat : Streams(Feed(d, d.base + d.pos), m)
<1> DEFINE l == Len(d.rec)
           from == d.base + n
           byte == d.base + d.pos
           v == [d EXCEPT !.rec = Append(d.rec, byte), !.pos = d.pos + 1]
<1>1. /\ d \in Writers /\ d.base \in Nat /\ d.pos \in Nat /\ l \in Nat /\ from \in Nat
      /\ RecBytes \in Nat /\ RecBytes > 0 /\ l < RecBytes /\ byte = from + l
      /\ d.base % RecBytes = 0 /\ n % RecBytes = 0 /\ d.to_hex
  BY RecordAssumption DEF Streams, Writers, Bytes
<1>2. d.rec = Run(from, l) /\ d.pos = n + l
  BY DEF Streams
<1>3. /\ Append(d.rec, byte) = Run(from, l + 1) /\ Run(from, l + 1) \in Bytes
      /\ Len(Run(from, l + 1)) = l + 1
  <2> HIDE DEF from, byte, l
  <2>1. Append(d.rec, byte) = Run(from, l + 1)
    <3>1. PICK a \in Nat, b \in Nat : a = from /\ b = l
      BY <1>1
    <3>2. Append(Run(a, b), a + b) = Run(a, b + 1)
      BY RunAppend
    <3> QED  BY <1>1, <1>2, <3>1, <3>2
  <2>2. l + 1 \in Nat
    BY <1>1
  <2> QED  BY <1>1, <2>1, <2>2, RunAppend
<1>4. from % RecBytes = 0
  BY <1>1, AlignedAdd
<1> HIDE DEF from, byte, l
<1>5. PICK r \in Bytes : r = Run(from, l + 1)
  BY <1>3
<1>6. PICK pos \in Nat : pos = d.pos + 1
  BY <1>1
<1>7. v = [d EXCEPT !.rec = r, !.pos = pos]
  BY <1>3, <1>5, <1>6
<1>8. Feed(d, byte) = IF RecFull(v.rec)
                      THEN [hex_flush_record(v, v.base + v.pos - Len(v.rec), v.rec)
                              EXCEPT !.rec = <<>>]
                      ELSE v
  BY DEF Feed
<1> HIDE DEF v
<1>9. /\ v \in Writers /\ v.rec = r /\ v.pos = pos /\ v.bin = d.bin /\ v.hex = d.hex
      /\ v.to_bin = d.to_bin /\ v.to_hex = d.to_hex /\ v.base = d.base /\ v.ok = d.ok
      /\ v.started = d.started /\ v.upper = d.upper
  BY <1>1, <1>7 DEF Writers
<1>10. Len(r) = l + 1 /\ (RecFull(v.rec) <=> l + 1 = RecBytes)
  BY <1>3, <1>5, <1>9 DEF RecFull
<1>11. CASE l + 1 # RecBytes
  <2>1. Feed(d, byte) = v
    BY <1>8, <1>10, <1>11
  <2>2. l + 1 < RecBytes
    BY <1>1, <1>11
  <2>3. v.pos = n + Len(v.rec)
    BY <1>1, <1>2, <1>6, <1>9, <1>10
  <2>4. Streams(v, n)
    BY <1>1, <1>5, <1>9, <1>10, <2>2, <2>3 DEF Streams, from
  <2>5. Fed(d, v, 1)
    BY <1>1, <1>6, <1>9 DEF Fed
  <2> QED  BY <2>1, <2>4, <2>5 DEF byte
<1>12. CASE l + 1 = RecBytes
  <2> DEFINE u == hex_flush_record(v, from, Run(from, RecBytes))
             e == [u EXCEPT !.rec = <<>>]
  <2>1. v.base + v.pos - Len(v.rec) = from
    BY <1>1, <1>2, <1>6, <1>9, <1>10 DEF from
  <2>2. Feed(d, byte) = e
    BY <1>5, <1>8, <1>9, <1>10, <1>12, <2>1
  <2>3. RecBytes \in 1 .. RecBytes
    BY <1>1
  <2>4. v.ok /\ v.to_hex /\ ~Ended(v.hex) /\ (v.started => Decoded(v.hex).page = v.upper)
    BY <1>9 DEF Streams
  <2>5. Flushed(v, u, from, RecBytes)
    BY <1>1, <1>4, <1>9, <2>3, <2>4, FlushIs
  <2> HIDE DEF u
  <2>6. u \in Writers /\ Alike(u, v)
    BY <2>5 DEF Flushed
  <2>7. <<>> \in Bytes /\ Len(<<>>) = 0
    BY DEF Bytes
  <2>8. /\ e \in Writers /\ e.rec = <<>> /\ e.pos = pos /\ e.bin = d.bin /\ e.hex = u.hex
        /\ e.to_bin = d.to_bin /\ e.to_hex /\ e.base = d.base /\ e.ok = u.ok
        /\ e.started = u.started /\ e.upper = u.upper
    BY <1>1, <1>9, <2>6, <2>7 DEF Writers, Alike
  <2> HIDE DEF e
  <2>9. Fed(d, e, 1)
    BY <1>1, <1>6, <2>8 DEF Fed
  <2>10. CASE u.ok
    <3>1. PICK m \in Nat : m = n + RecBytes
      BY <1>1
    <3>2. Decode(e.hex) = CellRun(d.base, m) /\ Decoded(e.hex).page = e.upper
      <4>1. Decode(u.hex) = CellRun(d.base, n) \o CellRun(d.base + n, RecBytes)
        BY <1>9, <2>5, <2>10 DEF Flushed, Streams, from
      <4>2. Decode(u.hex) = CellRun(d.base, m)
        <5>1. PICK b \in Nat, k \in Nat : b = d.base /\ k = RecBytes
          BY <1>1
        <5>2. CellRun(b, n) \o CellRun(b + n, k) = CellRun(b, n + k)
          BY CellRunConcat
        <5> QED  BY <3>1, <4>1, <5>1, <5>2
      <4> QED  BY <2>5, <2>8, <2>10, <4>2 DEF Flushed
    <3>3. m % RecBytes = 0
      <4>1. RecBytes % RecBytes = 0
        BY <1>1
      <4> QED  BY <1>1, <3>1, <4>1, AlignedAdd
    <3>4. <<>> = Run(d.base + m, 0)
      <4>1. 1 .. 0 = {}
        OBVIOUS
      <4> QED  BY <4>1 DEF Run
    <3>5. e.pos = m + 0
      BY <1>1, <1>2, <1>6, <1>12, <2>8, <3>1
    <3>6. Streams(e, m)
      BY <1>1, <2>5, <2>7, <2>8, <3>2, <3>3, <3>4, <3>5 DEF Streams, Flushed
    <3> QED  BY <2>2, <2>9, <3>6 DEF byte
  <2>11. CASE ~u.ok
    <3>1. Streams(e, n)
      BY <1>1, <1>9, <2>5, <2>7, <2>8, <2>11 DEF Streams, Flushed
    <3> QED  BY <2>2, <2>9, <3>1 DEF byte
  <2> QED  BY <2>10, <2>11
<1> QED  BY <1>11, <1>12

\* The .hex is in order, k bytes after d.
InOrder(d, v, k) == Fed(d, v, k) /\ \E m \in Nat : Streams(v, m)

LEMMA FeedInOrder ==
  ASSUME NEW d \in Writers, NEW v, NEW k \in Nat, InOrder(d, v, k),
         NEW byte \in Nat, d.ok => byte = d.base + d.pos + k
  PROVE  InOrder(d, Feed(v, byte), k + 1)
<1>1. PICK n \in Nat : Streams(v, n)
  BY DEF InOrder
<1>2. v \in Writers /\ v.base = d.base /\ v.pos \in Nat /\ d.pos \in Nat /\ d.base \in Nat
  BY <1>1 DEF Streams, InOrder, Fed, Writers
<1>3. CASE v.ok
  <2>1. v.base + v.pos = byte
    BY <1>2, <1>3 DEF InOrder, Fed
  <2>2. Fed(v, Feed(v, byte), 1) /\ \E m \in Nat : Streams(Feed(v, byte), m)
    BY <1>1, <1>3, <2>1, FeedStreams
  <2> DEFINE u == Feed(v, byte)
  <2> HIDE DEF u
  <2>3. u.pos \in Nat
    BY <2>2 DEF Streams, Writers, u
  <2>4. Fed(d, v, k) /\ Fed(v, u, 1)
    BY <2>2 DEF InOrder, u
  <2>5. Fed(d, u, k + 1)
    BY <1>2, <2>3, <2>4 DEF Fed
  <2> QED  BY <2>2, <2>5 DEF InOrder, u
<1>4. CASE ~v.ok
  <2>1. Feed(v, byte) = v
    BY <1>4 DEF Feed
  <2>2. Fed(d, v, k + 1)
    BY <1>2, <1>4 DEF InOrder, Fed
  <2> QED  BY <2>1, <2>2 DEF InOrder
<1> QED  BY <1>3, <1>4

\* What FeedAll computes: f[k] is the writer after k bytes.
Feeds(f, d, bytes, n) == f[0] = d /\ \A k \in 1 .. n : f[k] = Feed(f[k - 1], bytes[k])

LEMMA FeedsInOrder ==
  ASSUME NEW d \in Writers, InOrder(d, d, 0), NEW n \in Nat, NEW bytes, NEW f,
         \A k \in 1 .. n : bytes[k] = d.base + d.pos + (k - 1), Feeds(f, d, bytes, n)
  PROVE  \A k \in 0 .. n : InOrder(d, f[k], k)
<1> DEFINE T == {k \in 0 .. n : InOrder(d, f[k], k)}
<1>1. 0 \in T
  BY DEF Feeds
<1>2. ASSUME NEW k \in 0 .. n - 1, k \in T PROVE k + 1 \in T
  <2>1. k + 1 \in 1 .. n /\ k + 1 \in 0 .. n /\ (k + 1) - 1 = k /\ k \in Nat
    OBVIOUS
  <2>2. f[k + 1] = Feed(f[k], bytes[k + 1]) /\ bytes[k + 1] = d.base + d.pos + k
    BY <2>1 DEF Feeds
  <2>3. bytes[k + 1] \in Nat
    BY <2>1, <2>2 DEF Writers
  <2>4. InOrder(d, f[k + 1], k + 1)
    BY <1>2, <2>1, <2>2, <2>3, FeedInOrder
  <2> QED  BY <2>1, <2>4
<1> HIDE DEF T
<1>3. 0 .. n \subseteq T
  BY <1>1, <1>2, InductionUpTo
<1> QED  BY <1>3 DEF T

FeedLoop(f, d, bytes, n) ==
  f = [k \in 0 .. n |-> IF k = 0 THEN d ELSE Feed(f[k - 1], bytes[k])]

LEMMA FeedsExist ==
  ASSUME NEW d \in Writers, InOrder(d, d, 0), NEW n \in Nat, NEW bytes,
         \A k \in 1 .. n : bytes[k] = d.base + d.pos + (k - 1)
  PROVE  \E f : FeedLoop(f, d, bytes, n)
<1> DEFINE fed(v, k) == Feed(v, bytes[k])
           step == [p \in Writers \X (1 .. n) |->
                      IF fed(p[1], p[2]) \in Writers THEN fed(p[1], p[2]) ELSE p[1]]
<1>1. step \in [Writers \X (1 .. n) -> Writers]
  <2> HIDE DEF fed
  <2> QED  OBVIOUS
<1>2. \A v \in Writers, k \in 1 .. n : fed(v, k) \in Writers => step[<<v, k>>] = fed(v, k)
  <2> HIDE DEF fed
  <2> QED  OBVIOUS
<1> HIDE DEF step
<1>3. PICK f : Recursive(f, Writers, d, n, step)
  BY <1>1, RecursionExists
<1>4. /\ f \in [0 .. n -> Writers]
      /\ f = [k \in 0 .. n |-> IF k = 0 THEN d ELSE step[<<f[k - 1], k>>]]
  BY <1>3 DEF Recursive
<1> DEFINE T == {k \in 0 .. n : /\ InOrder(d, f[k], k)
                                /\ k # 0 => f[k] = Feed(f[k - 1], bytes[k])}
<1>5. 0 \in T
  BY <1>4
<1>6. ASSUME NEW k \in 0 .. n - 1, k \in T PROVE k + 1 \in T
  <2>1. k + 1 \in 1 .. n /\ k + 1 \in 0 .. n /\ (k + 1) - 1 = k /\ k \in Nat /\ k \in 0 .. n
    OBVIOUS
  <2>2. f[k + 1] = step[<<f[k], k + 1>>] /\ bytes[k + 1] = d.base + d.pos + k
    BY <1>4, <2>1
  <2>3. bytes[k + 1] \in Nat
    BY <2>1, <2>2 DEF Writers
  <2>4. InOrder(d, Feed(f[k], bytes[k + 1]), k + 1)
    BY <1>6, <2>1, <2>2, <2>3, FeedInOrder
  <2>5. Feed(f[k], bytes[k + 1]) \in Writers
    BY <2>4 DEF InOrder, Streams
  <2>6. f[k + 1] = Feed(f[k], bytes[k + 1])
    BY <1>2, <1>4, <2>1, <2>2, <2>5
  <2> QED  BY <2>1, <2>4, <2>6
<1> HIDE DEF T
<1>7. 0 .. n \subseteq T
  BY <1>5, <1>6, InductionUpTo
<1>8. \A k \in 0 .. n : f[k] = IF k = 0 THEN d ELSE Feed(f[k - 1], bytes[k])
  BY <1>4, <1>7 DEF T
<1> QED  BY <1>4, <1>8 DEF FeedLoop

LEMMA FeedAllInOrder ==
  ASSUME NEW d \in Writers, InOrder(d, d, 0), NEW n \in Nat, NEW bytes, Len(bytes) = n,
         \A k \in 1 .. n : bytes[k] = d.base + d.pos + (k - 1)
  PROVE  InOrder(d, FeedAll(d, bytes), n)
<1> DEFINE f == CHOOSE f : FeedLoop(f, d, bytes, n)
<1>1. \E g : FeedLoop(g, d, bytes, n)
  BY FeedsExist
<1>2. FeedLoop(f, d, bytes, n)
  BY <1>1
<1>3. FeedAll(d, bytes) = f[n]
  BY DEF FeedAll, FeedLoop
<1> HIDE DEF f
<1>4. Feeds(f, d, bytes, n)
  <2>1. 0 \in 0 .. n /\ \A k \in 1 .. n : k \in 0 .. n /\ k # 0
    OBVIOUS
  <2> QED  BY <1>2, <2>1 DEF Feeds, FeedLoop
<1>5. InOrder(d, f[n], n)
  BY <1>4, FeedsInOrder
<1> QED  BY <1>3, <1>5

LEMMA RunConcat ==
  ASSUME NEW from \in Nat, NEW n \in Nat, NEW k \in Nat
  PROVE  Run(from, n) \o Run(from + n, k) = Run(from, n + k)
<1> DEFINE s == Run(from, n)
           t == Run(from + n, k)
           a == s \o t
           b == Run(from, n + k)
           c(j) == from + j - 1
<1>1. /\ s \in Seq(Nat) /\ Len(s) = n /\ t \in Seq(Nat) /\ Len(t) = k
      /\ b \in Seq(Nat) /\ Len(b) = n + k
  <2>1. from + n \in Nat /\ n + k \in Nat
    OBVIOUS
  <2>2. \A x, m \in Nat : Run(x, m) \in Bytes /\ Len(Run(x, m)) = m
    BY RunAppend
  <2> HIDE DEF s, t, b
  <2> QED  BY <2>1, <2>2 DEF Bytes, s, t, b
<1>2. /\ \A j \in 1 .. n : s[j] = c(j)
      /\ \A j \in 1 .. n + k : b[j] = c(j)
  BY DEF Run
<1>3. \A j \in 1 .. k : t[j] = c(n + j)
  <2> TAKE j \in 1 .. k
  <2>1. (from + n) + j - 1 = from + (n + j) - 1
    OBVIOUS
  <2> QED  BY <2>1 DEF Run
<1>4. Joined(Nat, a, s, n, t, k)
  BY <1>1, Join
<1> HIDE DEF s, t, a, b, c
<1>5. ASSUME NEW j \in 1 .. n + k PROVE a[j] = b[j]
  <2>1. CASE j <= n
    BY <1>2, <1>4, <2>1 DEF Joined
  <2>2. CASE j > n
    <3>1. PICK h \in 1 .. k : j = n + h
      <4>1. j - n \in 1 .. k /\ j = n + (j - n)
        BY <2>2
      <4> QED  BY <4>1
    <3> QED  BY <1>2, <1>3, <1>4, <3>1 DEF Joined
  <2> QED  BY <2>1, <2>2
<1>6. PICK m \in Nat : m = n + k
  OBVIOUS
<1>7. a = b
  BY <1>1, <1>4, <1>5, <1>6, SameSeq DEF Joined
<1> QED  BY <1>7 DEF s, a, b, t

\* v is d after bytes were written to the .bin, or a part of them.
BinWrote(d, v, bytes) ==
  /\ v \in Writers /\ v.hex = d.hex /\ v.to_bin = d.to_bin /\ v.to_hex = d.to_hex
  /\ v.base = d.base /\ v.pos = d.pos /\ v.upper = d.upper /\ v.started = d.started
  /\ v.rec = d.rec /\ (v.ok => v.bin = d.bin \o bytes)

LEMMA BinWriteIs ==
  ASSUME NEW d \in Writers, d.ok, NEW bytes \in Bytes, NEW part \in Bytes
  PROVE  BinWrote(d, FileWrite(d, "bin", bytes, part), bytes)
<1> DEFINE v == FileWrite(d, "bin", bytes, part)
<1>1. d.fuse \in Fuses /\ d.bin \in Bytes
  BY DEF Writers
<1>2. d.bin \o bytes \in Bytes /\ d.bin \o part \in Bytes
  BY <1>1 DEF Bytes
<1>3. v = IF d.fuse = 1
          THEN [d EXCEPT !.fuse = 0, !.ok = FALSE,
                         !.bin = IF d.torn THEN d.bin \o part ELSE d.bin]
          ELSE [d EXCEPT !.fuse = IF d.fuse = 0 THEN 0 ELSE d.fuse - 1,
                         !.bin = d.bin \o bytes]
  BY DEF FileWrite, Writers
<1> HIDE DEF v
<1>4. CASE d.fuse = 1
  <2> DEFINE h == IF d.torn THEN d.bin \o part ELSE d.bin
  <2>1. h \in Bytes /\ 0 \in Fuses
    BY <1>1, <1>2, FuseBurns
  <2> HIDE DEF h
  <2>2. v = [d EXCEPT !.fuse = 0, !.ok = FALSE, !.bin = h]
    BY <1>3, <1>4 DEF h
  <2> QED  BY <2>1, <2>2 DEF BinWrote, Writers, v
<1>5. CASE d.fuse # 1
  <2> DEFINE f == IF d.fuse = 0 THEN 0 ELSE d.fuse - 1
             h == d.bin \o bytes
  <2>1. f \in Fuses /\ h \in Bytes
    BY <1>1, <1>2, FuseBurns
  <2> HIDE DEF f, h
  <2>2. v = [d EXCEPT !.fuse = f, !.bin = h]
    BY <1>3, <1>5 DEF f, h
  <2>3. v \in Writers /\ v.bin = h
    BY <2>1, <2>2 DEF Writers
  <2>4. /\ v.hex = d.hex /\ v.to_bin = d.to_bin /\ v.to_hex = d.to_hex
        /\ v.base = d.base /\ v.pos = d.pos /\ v.upper = d.upper /\ v.started = d.started
        /\ v.rec = d.rec
    BY <2>2 DEF Writers
  <2> QED  BY <2>3, <2>4 DEF BinWrote, v, h
<1> QED  BY <1>4, <1>5

\* v is d after k bytes were appended, or a part of them.
Appended(d, v, bytes, k) ==
  /\ v \in Writers /\ v.to_bin = d.to_bin /\ v.to_hex = d.to_hex /\ v.base = d.base
  /\ v.ok /\ d.to_bin => v.bin = d.bin \o bytes
  /\ ~d.to_bin => v.bin = d.bin
  /\ ~d.to_hex => v.hex = d.hex /\ v.pos = d.pos
  /\ d.to_hex => /\ v.pos <= d.pos + k /\ (v.ok => v.pos = d.pos + k)
                 /\ \E m \in Nat : Streams(v, m)

LEMMA AppendIs ==
  ASSUME NEW d \in Writers, d.ok, NEW k \in Nat, NEW bytes \in Bytes, Len(bytes) = k,
         d.to_hex => /\ bytes = Run(d.base + d.pos, k)
                     /\ \E n \in Nat : Streams(d, n)
  PROVE  Appended(d, dump_writer_append(d, bytes), bytes, k)
<1> DEFINE half == SubSeq(bytes, 1, Len(bytes) \div 2)
           b == IF d.to_bin THEN FileWrite(d, "bin", bytes, half) ELSE d
           v == dump_writer_append(d, bytes)
<1>1. v = IF b.ok /\ b.to_hex THEN FeedAll(b, bytes) ELSE b
  BY DEF dump_writer_append
<1>2. half \in Bytes
  <2>1. bytes \in Seq(Nat) /\ Len(bytes) \div 2 \in Nat /\ Len(bytes) \div 2 <= Len(bytes)
    BY DEF Bytes
  <2> QED  BY <2>1 DEF Bytes
<1> HIDE DEF half, v
<1>3. /\ b \in Writers /\ b.hex = d.hex /\ b.to_bin = d.to_bin /\ b.to_hex = d.to_hex
      /\ b.base = d.base /\ b.pos = d.pos /\ b.upper = d.upper /\ b.started = d.started
      /\ b.rec = d.rec /\ (b.ok /\ d.to_bin => b.bin = d.bin \o bytes)
      /\ (~d.to_bin => b.bin = d.bin)
  <2>1. CASE d.to_bin
    <3>1. BinWrote(d, FileWrite(d, "bin", bytes, half), bytes)
      BY <1>2, BinWriteIs
    <3>2. BinWrote(d, b, bytes)
      BY <2>1, <3>1
    <3> HIDE DEF b
    <3> QED  BY <2>1, <3>2 DEF BinWrote
  <2>2. CASE ~d.to_bin
    BY <2>2
  <2> QED  BY <2>1, <2>2
<1> HIDE DEF b
<1>4. d.pos \in Nat /\ d.base \in Nat
  BY DEF Writers
<1>5. CASE ~d.to_hex
  <2>1. v = b
    BY <1>1, <1>3, <1>5
  <2> QED  BY <1>3, <1>5, <2>1 DEF Appended, v
<1>6. CASE d.to_hex
  <2>1. PICK n \in Nat : Streams(d, n)
    BY <1>6
  <2>2. Streams(b, n)
    BY <1>3, <2>1 DEF Streams
  <2>3. CASE ~b.ok
    <3>1. v = b
      BY <1>1, <2>3
    <3>2. b.pos <= d.pos + k
      BY <1>3, <1>4
    <3> QED  BY <1>3, <1>6, <2>2, <2>3, <3>1, <3>2 DEF Appended, v
  <2>4. CASE b.ok
    <3>1. v = FeedAll(b, bytes)
      BY <1>1, <1>3, <1>6, <2>4
    <3>2. InOrder(b, b, 0)
      BY <1>3, <1>4, <2>2 DEF InOrder, Fed
    <3>3. ASSUME NEW j \in 1 .. k PROVE bytes[j] = b.base + b.pos + (j - 1)
      <4>1. bytes[j] = Run(d.base + d.pos, k)[j]
        BY <1>6
      <4>2. Run(d.base + d.pos, k)[j] = (d.base + d.pos) + j - 1
        BY DEF Run
      <4> QED  BY <1>3, <1>4, <4>1, <4>2
    <3>4. InOrder(b, v, k)
      BY <1>3, <3>1, <3>2, <3>3, FeedAllInOrder
    <3>5. /\ v.bin = b.bin /\ v.to_bin = b.to_bin /\ v.base = b.base /\ v.pos <= b.pos + k
          /\ (v.ok => v.pos = b.pos + k)
      BY <3>4 DEF InOrder, Fed
    <3>6. \E m \in Nat : Streams(v, m)
      BY <3>4 DEF InOrder
    <3>7. v \in Writers /\ v.to_hex
      BY <3>6 DEF Streams
    <3> QED  BY <1>3, <1>6, <2>4, <3>5, <3>6, <3>7 DEF Appended, v
  <2> QED  BY <2>3, <2>4
<1> QED  BY <1>5, <1>6

\* v is d after it was closed: a .hex that ends with the end record holds all that was
\* appended, and one that does not end so is a run cut short.
Closed(d, v) ==
  /\ v \in Writers /\ v.bin = d.bin /\ v.pos = d.pos /\ Len(v.rec) = 0 /\ (v.ok => d.ok)
  /\ ~d.to_hex => v.hex = d.hex /\ v.ok = d.ok
  /\ d.to_hex =>
       /\ v.ok <=> Ended(v.hex)
       /\ \E m \in Nat : Decode(v.hex) = CellRun(d.base, m) /\ (v.ok => m = d.pos)

\* The writer before the end record is written.
Drained(d, t) ==
  /\ t \in Writers /\ Alike([t EXCEPT !.rec = d.rec], d) /\ ~Ended(t.hex)
  /\ \E m \in Nat : Decode(t.hex) = CellRun(d.base, m) /\ (t.ok => d.ok /\ m = d.pos)

LEMMA DrainIs ==
  ASSUME NEW d \in Writers, NEW n \in Nat, Streams(d, n)
  PROVE  Drained(d, IF d.ok THEN hex_flush_record(d, d.base + d.pos - Len(d.rec), d.rec) ELSE d)
<1>1. [d EXCEPT !.rec = d.rec] = d
  BY DEF Writers
<1>2. CASE ~d.ok
  BY <1>1, <1>2 DEF Drained, Alike, Streams
<1>3. CASE d.ok /\ d.rec = <<>>
  <2>1. hex_flush_record(d, d.base + d.pos - Len(d.rec), d.rec) = d
    BY <1>3 DEF hex_flush_record
  <2>2. d.pos = n
    <3>1. Len(d.rec) = 0
      BY <1>3
    <3> QED  BY <1>3, <3>1 DEF Streams
  <2> QED  BY <1>1, <1>3, <2>1, <2>2 DEF Drained, Alike, Streams
<1>4. CASE d.ok /\ d.rec # <<>>
  <2>1. /\ Len(d.rec) \in Nat /\ d.base \in Nat /\ d.pos \in Nat
        /\ RecBytes \in Nat /\ RecBytes > 0
    BY RecordAssumption DEF Writers, Bytes
  <2>2. PICK l \in Nat : l = Len(d.rec)
    BY <2>1
  <2>3. PICK from \in Nat : from = d.base + n
    BY <2>1
  <2>4. l # 0
    BY <1>4, <2>2 DEF Writers, Bytes
  <2>5. l \in 1 .. RecBytes
    BY <2>1, <2>2, <2>4 DEF Streams
  <2>6. d.rec = Run(from, l) /\ d.pos = n + l /\ d.base % RecBytes = 0 /\ n % RecBytes = 0
    BY <1>4, <2>2, <2>3 DEF Streams
  <2>7. d.base + d.pos - Len(d.rec) = from
    <3>1. PICK b \in Nat : b = d.base
      BY <2>1
    <3>2. b + (n + l) - l = b + n
      OBVIOUS
    <3>3. d.base + d.pos - Len(d.rec) = b + (n + l) - l
      BY <2>2, <2>6, <3>1
    <3> QED  BY <2>3, <3>1, <3>2, <3>3
  <2>8. from % RecBytes = 0
    BY <2>1, <2>3, <2>6, AlignedAdd
  <2> DEFINE t == hex_flush_record(d, from, Run(from, l))
  <2>9. Flushed(d, t, from, l)
    BY <1>4, <2>5, <2>8, FlushIs DEF Streams
  <2> HIDE DEF t
  <2>10. t \in Writers /\ Alike(t, d) /\ ~Ended(t.hex)
    BY <2>9 DEF Flushed
  <2>11. Alike([t EXCEPT !.rec = d.rec], d)
    BY <2>10 DEF Alike, Writers
  <2>12. CASE t.ok
    <3>1. PICK b \in Nat : b = d.base
      BY <2>1
    <3>2. CellRun(b, n) \o CellRun(b + n, l) = CellRun(b, n + l)
      BY CellRunConcat
    <3>3. Decode(t.hex) = CellRun(d.base, d.pos)
      BY <2>3, <2>6, <2>9, <2>12, <3>1, <3>2 DEF Flushed, Streams
    <3> QED  BY <1>4, <2>1, <2>6, <2>7, <2>10, <2>11, <3>3 DEF Drained, t
  <2>13. CASE ~t.ok
    <3>1. Decode(t.hex) = CellRun(d.base, n)
      BY <2>9, <2>13 DEF Flushed, Streams
    <3> QED  BY <1>4, <2>6, <2>7, <2>10, <2>11, <2>13, <3>1 DEF Drained, t
  <2> QED  BY <2>12, <2>13
<1> QED  BY <1>2, <1>3, <1>4

\* The end record, or not.
LEMMA EndIs ==
  ASSUME NEW t \in Writers, t.ok, ~Ended(t.hex), NEW e, e = ihex_record(t, Eof)
  PROVE  /\ e \in Writers /\ Alike(e, t) /\ Decode(e.hex) = Decode(t.hex)
         /\ e.ok <=> Ended(e.hex)
<1>1. Wrote(t, e, Eof)
  BY EofTorn, WriteIs
<1>2. t.hex \in Hexes /\ Decoded(t.hex) \in Decoders
  BY DecodedType DEF Writers
<1>3. /\ Decoded(Append(t.hex, Eof)) = Decoded(t.hex) /\ Ended(Append(t.hex, Eof))
      /\ Decoded(Append(t.hex, Torn)) = Decoded(t.hex) /\ ~Ended(Append(t.hex, Torn))
  BY <1>2, DecodedAppend, ReadIs, EndedAppend, EofTorn, NotEnded
<1> QED  BY <1>1, <1>3 DEF Wrote, Decode

LEMMA CloseIs ==
  ASSUME NEW d \in Writers, d.to_hex => \E n \in Nat : Streams(d, n)
  PROVE  Closed(d, dump_writer_close(d))
<1> DEFINE t == IF d.ok THEN hex_flush_record(d, d.base + d.pos - Len(d.rec), d.rec) ELSE d
           e == IF t.ok /\ t.to_hex THEN ihex_record(t, Eof) ELSE t
           v == [e EXCEPT !.rec = <<>>, !.to_bin = FALSE, !.to_hex = FALSE]
<1>1. dump_writer_close(d) = v
  BY DEF dump_writer_close
<1>2. <<>> \in Bytes /\ Len(<<>>) = 0
  BY DEF Bytes
<1>3. ASSUME e \in Writers
      PROVE  /\ v \in Writers /\ v.bin = e.bin /\ v.pos = e.pos /\ v.hex = e.hex /\ v.ok = e.ok
             /\ v.rec = <<>> /\ Len(v.rec) = 0
  <2> HIDE DEF e
  <2> QED  BY <1>2, <1>3 DEF Writers
<1>4. CASE ~d.to_hex
  <2>1. t = d
    BY <1>4 DEF hex_flush_record
  <2>2. e = d
    BY <1>4, <2>1
  <2> HIDE DEF e, t, v
  <2> QED  BY <1>1, <1>3, <1>4, <2>2 DEF Closed
<1>5. CASE d.to_hex
  <2>1. PICK n \in Nat : Streams(d, n)
    BY <1>5
  <2>2. Drained(d, t)
    BY <2>1, DrainIs
  <2> HIDE DEF t
  <2>3. PICK m \in Nat : Decode(t.hex) = CellRun(d.base, m) /\ (t.ok => d.ok /\ m = d.pos)
    BY <2>2 DEF Drained
  <2>4. /\ t \in Writers /\ ~Ended(t.hex) /\ t.bin = d.bin /\ t.pos = d.pos
        /\ t.to_hex /\ t.base = d.base
    BY <1>5, <2>2 DEF Drained, Alike, Writers
  <2>5. /\ e \in Writers /\ e.bin = d.bin /\ e.pos = d.pos /\ Decode(e.hex) = Decode(t.hex)
        /\ (e.ok <=> Ended(e.hex)) /\ (e.ok => t.ok)
    <3>1. CASE t.ok
      <4>1. e = ihex_record(t, Eof)
        BY <2>4, <3>1
      <4> HIDE DEF e
      <4> QED  BY <2>4, <3>1, <4>1, EndIs DEF Alike
    <3>2. CASE ~t.ok
      BY <2>4, <3>2
    <3> QED  BY <3>1, <3>2
  <2> HIDE DEF e
  <2>6. /\ v \in Writers /\ v.bin = d.bin /\ v.pos = d.pos /\ v.hex = e.hex /\ v.ok = e.ok
        /\ Len(v.rec) = 0
    BY <1>3, <2>5
  <2> HIDE DEF v
  <2> QED  BY <1>1, <1>5, <2>3, <2>5, <2>6 DEF Closed
<1> QED  BY <1>4, <1>5

\* v is d after its files were opened.
Opened(d, files, base, opens, fuse, torn, v) ==
  /\ v \in Writers /\ v.bin = (IF "bin" \in files THEN <<>> ELSE d.bin)
  /\ v.hex = (IF "hex" \in files THEN <<>> ELSE d.hex)
  /\ v.to_bin = ("bin" \in files) /\ v.to_hex = ("hex" \in files)
  /\ v.base = base /\ v.pos = 0 /\ v.rec = <<>> /\ v.ok = (files \subseteq opens)
  /\ "hex" \in files => Streams(v, 0)

LEMMA OpenIs ==
  ASSUME NEW d, d.bin \in Bytes, d.hex \in Hexes, NEW files, NEW opens,
         NEW base \in Nat, base % RecBytes = 0, NEW fuse \in Fuses, NEW torn \in BOOLEAN
  PROVE  Opened(d, files, base, opens, fuse, torn,
                dump_writer_open(d, files, base, opens, fuse, torn))
<1> DEFINE v == dump_writer_open(d, files, base, opens, fuse, torn)
<1>1. <<>> \in Bytes /\ <<>> \in Hexes /\ Len(<<>>) = 0 /\ 0 % RecBytes = 0
  BY RecordAssumption DEF Bytes, Hexes
<1> DEFINE bin == IF "bin" \in files THEN <<>> ELSE d.bin
           hex == IF "hex" \in files THEN <<>> ELSE d.hex
           whole == files \subseteq opens
           b == "bin" \in files
           h == "hex" \in files
<1>3. bin \in Bytes /\ hex \in Hexes /\ {whole, b, h} \subseteq BOOLEAN
  BY <1>1
<1>4. v = [bin |-> bin, hex |-> hex, to_bin |-> b, to_hex |-> h,
           base |-> base, pos |-> 0, upper |-> 0, started |-> FALSE, rec |-> <<>>,
           ok |-> whole, fuse |-> fuse, torn |-> torn]
  BY DEF dump_writer_open
<1> HIDE DEF v, bin, hex, whole, b, h
<1>5. /\ v \in Writers /\ v.bin = bin /\ v.hex = hex /\ v.to_bin = b /\ v.to_hex = h
      /\ v.base = base /\ v.pos = 0 /\ v.rec = <<>> /\ v.ok = whole /\ ~v.started
  BY <1>1, <1>3, <1>4 DEF Writers
<1>6. ASSUME h PROVE Streams(v, 0)
  <2>1. hex = <<>>
    BY <1>6 DEF hex, h
  <2>2. ~Ended(<<>>)
    BY DEF Ended
  <2>3. Decode(<<>>) = CellRun(base, 0)
    <3>1. 1 .. 0 = {}
      OBVIOUS
    <3>2. Decode(<<>>) = <<>>
      BY DecodedEmpty DEF Decode, Blank
    <3> QED  BY <3>1, <3>2 DEF CellRun
  <2>4. <<>> = Run(base + 0, 0)
    <3>1. 1 .. 0 = {}
      OBVIOUS
    <3> QED  BY <3>1 DEF Run
  <2>5. 0 < RecBytes
    BY RecordAssumption
  <2> QED  BY <1>1, <1>5, <1>6, <2>1, <2>2, <2>3, <2>4, <2>5 DEF Streams
<1> QED  BY <1>5, <1>6 DEF Opened, v, bin, hex, b, h, whole

\* A file that was written whole: the .bin, and the .hex.
LEMMA WholeBin ==
  ASSUME NEW d \in Writers, NEW n \in Nat, NEW bytes \in Bytes, Len(bytes) = n, NEW opens,
         NEW fuse \in Fuses, NEW torn \in BOOLEAN,
         NEW v, v = WriteWhole(d, {"bin"}, 0, bytes, opens, fuse, torn)
  PROVE  v \in Writers /\ v.hex = d.hex /\ v.pos = 0 /\ Len(v.rec) = 0 /\ (v.ok => v.bin = bytes)
<1> DEFINE o == dump_writer_open(d, {"bin"}, 0, opens, fuse, torn)
           a == dump_writer_append(o, bytes)
<1>1. v = dump_writer_close(a)
  BY DEF WriteWhole
<1>2. 0 % RecBytes = 0
  BY RecordAssumption
<1>3. o \in Writers /\ o.bin = <<>> /\ o.hex = d.hex /\ o.to_bin /\ ~o.to_hex /\ o.pos = 0
  <2>1. Opened(d, {"bin"}, 0, opens, fuse, torn, o)
    <3>1. d.bin \in Bytes /\ d.hex \in Hexes
      BY DEF Writers
    <3> QED  BY <1>2, <3>1, OpenIs
  <2> HIDE DEF o
  <2> QED  BY <2>1 DEF Opened
<1> HIDE DEF o
<1>4. a \in Writers /\ a.hex = d.hex /\ a.pos = 0 /\ ~a.to_hex /\ (a.ok => a.bin = bytes)
  <2>1. CASE o.ok
    <3>1. Appended(o, a, bytes, n)
      BY <1>3, <2>1, AppendIs
    <3>2. <<>> \o bytes = bytes
      BY DEF Bytes
    <3> HIDE DEF a
    <3> QED  BY <1>3, <3>1, <3>2 DEF Appended
  <2>2. CASE ~o.ok
    <3>1. a = o
      BY <2>2 DEF dump_writer_append
    <3> HIDE DEF a
    <3> QED  BY <1>3, <2>2, <3>1
  <2> QED  BY <2>1, <2>2
<1> HIDE DEF a
<1>5. Closed(a, v)
  BY <1>1, <1>4, CloseIs
<1> QED  BY <1>4, <1>5 DEF Closed

LEMMA WholeHex ==
  ASSUME NEW d \in Writers, NEW n \in Nat, NEW base \in Nat, base % RecBytes = 0, NEW opens,
         NEW fuse \in Fuses, NEW torn \in BOOLEAN,
         NEW v, v = WriteWhole(d, {"hex"}, base, Run(base, n), opens, fuse, torn)
  PROVE  /\ v \in Writers /\ v.bin = d.bin /\ v.pos <= n /\ Len(v.rec) = 0
         /\ (v.ok <=> Ended(v.hex))
         /\ \E m \in Nat : Decode(v.hex) = CellRun(base, m) /\ (v.ok => m = n)
<1> DEFINE bytes == Run(base, n)
           o == dump_writer_open(d, {"hex"}, base, opens, fuse, torn)
           a == dump_writer_append(o, bytes)
<1>1. v = dump_writer_close(a)
  BY DEF WriteWhole
<1>2. bytes \in Bytes /\ Len(bytes) = n
  BY RunAppend
<1>3. /\ o \in Writers /\ o.bin = d.bin /\ ~o.to_bin /\ o.to_hex /\ o.base = base /\ o.pos = 0
      /\ Streams(o, 0)
  <2>1. Opened(d, {"hex"}, base, opens, fuse, torn, o)
    <3>1. d.bin \in Bytes /\ d.hex \in Hexes
      BY DEF Writers
    <3> QED  BY <3>1, OpenIs
  <2> HIDE DEF o
  <2> QED  BY <2>1 DEF Opened
<1>4. /\ a \in Writers /\ a.bin = d.bin /\ a.to_hex /\ a.base = base /\ a.pos <= n
      /\ (a.ok => a.pos = n) /\ \E m \in Nat : Streams(a, m)
  <2>1. CASE o.ok
    <3>1. base + 0 = base /\ 0 + n = n
      OBVIOUS
    <3>2. bytes = Run(o.base + o.pos, n)
      BY <1>3, <3>1
    <3>3. Appended(o, a, bytes, n)
      <4> HIDE DEF o, a, bytes
      <4>1. Appended(o, dump_writer_append(o, bytes), bytes, n)
        BY <1>2, <1>3, <2>1, <3>2, AppendIs
      <4> QED  BY <4>1 DEF a
    <3> HIDE DEF o, a, bytes
    <3> QED  BY <1>3, <3>1, <3>3 DEF Appended
  <2>2. CASE ~o.ok
    <3>1. a = o
      BY <2>2 DEF dump_writer_append
    <3> HIDE DEF o, a
    <3> QED  BY <1>3, <2>2, <3>1
  <2> QED  BY <2>1, <2>2
<1> HIDE DEF o, a
<1>5. Closed(a, v)
  BY <1>1, <1>4, CloseIs
<1> QED  BY <1>4, <1>5 DEF Closed

-----------------------------------------------------------------------------
(* The state machine.                                                      *)

\* Both files hold all of the memory.
Saved ==
  /\ w.bin = Run(Start, Total) /\ Ended(w.hex) /\ Decode(w.hex) = CellRun(Start, Total)

\* The .hex is in order, and whole if it has its end record.
Shown ==
  \E n \in Nat : /\ Decode(w.hex) = CellRun(Start, n)
                 /\ Ended(w.hex) => n = IF job = "code" THEN Len(w.bin) ELSE RamBytes

TypeInv ==
  /\ pc \in {"idle", "open", "read", "poll", "close", "save", "hex", "result", "hash"}
  /\ job \in {"code", "ram"} /\ i \in Nat /\ w \in Writers
  /\ ok \in BOOLEAN /\ cancel \in BOOLEAN
  /\ outcome \in {"none", "cancelled", "error", "done"}
  /\ Len(w.rec) < RecBytes /\ w.pos <= Total /\ (pc # "hash" => i <= Total)

\* Nothing is written yet.
FreshInv ==
  \/ pc = "open"
  \/ pc \in {"read", "save"} /\ job = "ram"
  => w.bin = <<>> /\ w.hex = <<>>

\* The flash dump's loop: what has been read is in the .bin and on its way to the .hex.
LoopInv ==
  pc \in {"read", "poll"} /\ job = "code" =>
    /\ ok /\ w.ok /\ w.to_bin /\ w.to_hex /\ w.base = CodeStart /\ w.pos = i
    /\ w.bin = Run(CodeStart, i) /\ \E n \in Nat : Streams(w, n)

\* The loop has ended, or something failed.
CloseInv ==
  pc = "close" =>
    /\ w.base = CodeStart /\ w.to_hex /\ ok = w.ok /\ \E n \in Nat : Streams(w, n)
    /\ w.ok => w.bin = Run(CodeStart, w.pos)
    /\ ok /\ ~cancel => w.pos = CodeBytes

\* The RAM dump's .bin is written.
HexInv == pc = "hex" => w.hex = <<>> /\ (ok => w.bin = Run(RamStart, RamBytes))

EndInv ==
  /\ pc \in {"result", "idle", "hash"} => Shown
  /\ pc = "result" /\ ok /\ ~cancel => Saved
  /\ outcome = "done" => Saved

\* Which worker is where, and no outcome while one runs.
PlaceInv ==
  /\ pc \in {"open", "poll", "close"} => job = "code"
  /\ pc \in {"idle", "open"} => i = 0
  /\ pc \in {"save", "hex"} => job = "ram"
  /\ pc \notin {"idle", "hash"} => outcome = "none"

FilesInv ==
  TypeInv /\ FreshInv /\ LoopInv /\ CloseInv /\ HexInv /\ EndInv /\ PlaceInv

\* The hash loop has absorbed what it has read.
HashInv ==
  /\ ctx \in Contexts
  /\ pc = "hash" => i <= Len(w.bin) /\ Absorbed(ctx, SubSeq(w.bin, 1, i))
  /\ pc \notin {"idle", "hash"} => sha.is = "none"
  /\ sha.is = "digest" => sha.digest = Digest(w.bin)

LEMMA Sizes ==
  /\ CodeStart \in Nat /\ RamStart \in Nat /\ CodeStart % RecBytes = 0 /\ RamStart % RecBytes = 0
  /\ CodeBytes \in Nat /\ RamBytes \in Nat /\ ChunkBytes \in Nat /\ PollBytes \in Nat
  /\ CodeBytes > 0 /\ RamBytes > 0 /\ ChunkBytes > 0 /\ PollBytes > 0 /\ RecBytes > 0
  /\ RecBytes \in Nat /\ Total \in Nat /\ Start \in Nat
BY DumpAssumption, RecordAssumption DEF Total, Start

LEMMA NoFilesIs ==
  /\ NoFiles \in Writers /\ NoFiles.bin = <<>> /\ NoFiles.hex = <<>> /\ NoFiles.pos = 0
  /\ NoFiles.ok /\ Len(NoFiles.rec) = 0
<1> DEFINE none == [bin |-> <<>>, hex |-> <<>>]
<1>1. none.bin \in Bytes /\ none.hex \in Hexes /\ none.bin = <<>> /\ none.hex = <<>>
  BY DEF Bytes, Hexes
<1>2. 0 \in Fuses /\ 0 % RecBytes = 0 /\ 0 \in Nat /\ FALSE \in BOOLEAN
  BY DumpAssumption, RecordAssumption DEF Fuses
<1> DEFINE v == dump_writer_open(none, {}, 0, {}, 0, FALSE)
<1>3. NoFiles = v
  BY DEF NoFiles
<1> HIDE DEF none, v
<1>4. Opened(none, {}, 0, {}, 0, FALSE, v)
  BY <1>1, <1>2, OpenIs DEF v
<1>5. v.ok
  <2>1. v.ok = ({} \subseteq {})
    BY <1>4 DEF Opened
  <2> QED  BY <2>1
<1>6. v \in Writers /\ v.bin = <<>> /\ v.hex = <<>> /\ v.pos = 0 /\ v.rec = <<>>
  BY <1>1, <1>4 DEF Opened
<1>7. Len(<<>>) = 0
  OBVIOUS
<1> QED  BY <1>3, <1>5, <1>6, <1>7

\* No .hex: nothing shown, nothing ended.
LEMMA EmptyShown ==
  ASSUME NEW from \in Nat
  PROVE  Decode(<<>>) = CellRun(from, 0) /\ ~Ended(<<>>)
<1>1. 1 .. 0 = {}
  OBVIOUS
<1>2. Decode(<<>>) = <<>>
  BY DecodedEmpty DEF Decode, Blank
<1> QED  BY <1>1, <1>2 DEF CellRun, Ended

LEMMA MemoryIs ==
  ASSUME NEW from \in Nat, NEW n \in Nat
  PROVE  Memory(from, n) = Run(Start + from, n)
BY DEF Memory, Run

LEMMA FilesInit ==
  ASSUME Init PROVE FilesInv
<1> USE DEF Init
<1>1. /\ w \in Writers /\ w.bin = <<>> /\ w.hex = <<>> /\ w.pos = 0 /\ Len(w.rec) = 0
  BY NoFilesIs
<1>2. TypeInv
  <2>1. i <= Total /\ w.pos <= Total /\ Len(w.rec) < RecBytes
    BY <1>1, Sizes
  <2>2. ok \in BOOLEAN /\ cancel \in BOOLEAN
    OBVIOUS
  <2> QED  BY <1>1, <2>1, <2>2 DEF TypeInv
<1>3. Shown
  <2>1. Decode(<<>>) = CellRun(Start, 0) /\ ~Ended(<<>>) /\ 0 \in Nat
    BY Sizes, EmptyShown
  <2> QED  BY <1>1, <2>1 DEF Shown
<1>4. FreshInv /\ LoopInv /\ CloseInv /\ HexInv /\ PlaceInv
  BY DEF FreshInv, LoopInv, CloseInv, HexInv, PlaceInv
<1> QED  BY <1>2, <1>3, <1>4 DEF FilesInv, EndInv

\* A step that leaves the job, the files and the outcome.
LEMMA CancelKeeps ==
  ASSUME FilesInv, Cancel PROVE FilesInv'
<1> USE DEF Cancel, hashVars
<1>1. TypeInv'
  BY DEF FilesInv, TypeInv, Total
<1>2. FreshInv' /\ LoopInv' /\ CloseInv' /\ HexInv' /\ PlaceInv'
  BY DEF FilesInv, FreshInv, LoopInv, CloseInv, HexInv, PlaceInv
<1>3. EndInv'
  <2>1. Shown' <=> Shown
    BY DEF Shown, Start
  <2>2. outcome' # "done"
    BY DEF FilesInv, PlaceInv
  <2> QED  BY <2>1, <2>2 DEF FilesInv, EndInv
<1> QED  BY <1>1, <1>2, <1>3 DEF FilesInv

LEMMA BeginKeeps ==
  ASSUME FilesInv, Begin PROVE FilesInv'
<1>1. /\ w' \in Writers /\ w'.bin = <<>> /\ w'.hex = <<>> /\ w'.pos = 0 /\ Len(w'.rec) = 0
      /\ w'.ok
  BY NoFilesIs DEF Begin
<1>2. /\ job' \in {"code", "ram"} /\ pc' = IF job' = "code" THEN "open" ELSE "read"
      /\ i' = 0 /\ ok' = TRUE /\ cancel' = FALSE /\ outcome' = "none"
  BY DEF Begin
<1>3. TypeInv'
  <2>1. Total' \in Nat /\ 0 <= Total'
    BY <1>2, Sizes DEF Total
  <2> QED  BY <1>1, <1>2, <2>1, Sizes DEF TypeInv
<1>4. FreshInv' /\ LoopInv' /\ CloseInv' /\ HexInv' /\ PlaceInv' /\ EndInv'
  BY <1>1, <1>2 DEF FreshInv, LoopInv, CloseInv, HexInv, PlaceInv, EndInv
<1> QED  BY <1>3, <1>4 DEF FilesInv

LEMMA OpenFilesKeeps ==
  ASSUME FilesInv, OpenFiles PROVE FilesInv'
<1>1. PICK card \in Card :
        w' = dump_writer_open(w, {"bin", "hex"}, CodeStart, card.opens, card.fuse, card.torn)
  BY DEF OpenFiles
<1>2. card.fuse \in Fuses /\ card.torn \in BOOLEAN
  BY DEF Card, Fuses
<1>3. PICK v : v = w'
  OBVIOUS
<1>4. w \in Writers /\ CodeStart \in Nat /\ CodeStart % RecBytes = 0
  BY Sizes DEF FilesInv, TypeInv
<1>5. Opened(w, {"bin", "hex"}, CodeStart, card.opens, card.fuse, card.torn, v)
  <2>1. w.bin \in Bytes /\ w.hex \in Hexes
    BY <1>4 DEF Writers
  <2> QED  BY <2>1, <1>1, <1>2, <1>3, <1>4, OpenIs
<1>6. /\ v \in Writers /\ v.bin = <<>> /\ v.to_bin /\ v.to_hex /\ v.base = CodeStart /\ v.pos = 0
      /\ v.rec = <<>> /\ Streams(v, 0)
  BY <1>5 DEF Opened
<1>7. /\ job = "code" /\ job' = job /\ ok' = v.ok /\ pc' = IF v.ok THEN "read" ELSE "close"
      /\ i = 0 /\ i' = 0 /\ cancel' = cancel /\ outcome' = outcome /\ outcome = "none"
  BY <1>3 DEF OpenFiles, FilesInv, PlaceInv, hashVars
<1>8. TypeInv'
  <2>1. Total' = CodeBytes /\ Len(<<>>) = 0
    BY <1>7 DEF Total
  <2>2. v.pos <= CodeBytes /\ 0 <= CodeBytes /\ Len(v.rec) < RecBytes /\ 0 \in Nat
    BY <1>6, <2>1, Sizes
  <2>3. v.ok \in BOOLEAN /\ cancel \in BOOLEAN
    BY <1>6 DEF Writers, FilesInv, TypeInv
  <2> QED  BY <1>3, <1>6, <1>7, <2>1, <2>2, <2>3 DEF TypeInv
<1>9. CASE v.ok
  <2>1. pc' = "read" /\ ok'
    BY <1>7, <1>9
  <2>2. <<>> = Run(CodeStart, 0)
    <3>1. 1 .. 0 = {}
      OBVIOUS
    <3> QED  BY <3>1 DEF Run
  <2>3. LoopInv'
    BY <1>3, <1>6, <1>7, <1>9, <2>1, <2>2 DEF LoopInv
  <2>4. FreshInv' /\ CloseInv' /\ HexInv' /\ EndInv' /\ PlaceInv'
    BY <1>7, <2>1 DEF FreshInv, CloseInv, HexInv, EndInv, PlaceInv
  <2> QED  BY <1>8, <2>3, <2>4 DEF FilesInv
<1>10. CASE ~v.ok
  <2>1. pc' = "close" /\ ~ok'
    BY <1>7, <1>10
  <2>2. CloseInv'
    BY <1>3, <1>6, <1>7, <1>10, <2>1 DEF CloseInv
  <2>3. FreshInv' /\ LoopInv' /\ HexInv' /\ EndInv' /\ PlaceInv'
    BY <1>7, <2>1 DEF FreshInv, LoopInv, HexInv, EndInv, PlaceInv
  <2> QED  BY <1>8, <2>2, <2>3 DEF FilesInv
<1> QED  BY <1>9, <1>10

\* A piece of the flash that was appended.
LEMMA PieceAppended ==
  ASSUME FilesInv, pc = "read", job = "code", NEW k \in Nat, i + k <= CodeBytes,
         NEW v, v = dump_writer_append(w, Memory(i, k))
  PROVE  /\ v \in Writers /\ v.to_bin /\ v.to_hex /\ v.base = CodeStart
         /\ \E n \in Nat : Streams(v, n)
         /\ v.pos <= i + k /\ Len(v.rec) < RecBytes
         /\ v.ok => v.pos = i + k /\ v.bin = Run(CodeStart, i + k)
<1> DEFINE bytes == Memory(i, k)
<1>1. /\ w \in Writers /\ w.ok /\ w.to_bin /\ w.to_hex /\ w.base = CodeStart /\ w.pos = i
      /\ w.bin = Run(CodeStart, i) /\ i \in Nat /\ \E n \in Nat : Streams(w, n)
  BY DEF FilesInv, TypeInv, LoopInv
<1>2. Start = CodeStart /\ CodeStart \in Nat
  BY Sizes DEF Start
<1>3. bytes = Run(CodeStart + i, k)
  BY <1>1, <1>2, MemoryIs
<1> HIDE DEF bytes
<1>4. bytes \in Bytes /\ Len(bytes) = k
  <2>1. CodeStart + i \in Nat
    BY <1>1, <1>2
  <2> QED  BY <1>3, <2>1, RunAppend
<1>5. Appended(w, v, bytes, k)
  <2>1. Appended(w, dump_writer_append(w, bytes), bytes, k)
    BY <1>1, <1>3, <1>4, AppendIs
  <2> QED  BY <2>1 DEF bytes
<1>6. PICK n \in Nat : Streams(v, n)
  BY <1>1, <1>5 DEF Appended
<1>7. Run(CodeStart, i) \o Run(CodeStart + i, k) = Run(CodeStart, i + k)
  <2>1. PICK m \in Nat, s \in Nat : m = i /\ s = CodeStart
    BY <1>1, <1>2
  <2>2. Run(s, m) \o Run(s + m, k) = Run(s, m + k)
    BY RunConcat
  <2> QED  BY <2>1, <2>2
<1>8. Len(v.rec) < RecBytes
  BY <1>6 DEF Streams
<1> QED  BY <1>1, <1>3, <1>5, <1>6, <1>7, <1>8 DEF Appended

LEMMA ReadChunkKeeps ==
  ASSUME FilesInv, ReadChunk PROVE FilesInv'
<1>1. PICK v : v = w'
  OBVIOUS
<1>2. PICK k \in Nat : k = i + ChunkBytes
  BY Sizes DEF FilesInv, TypeInv
<1>3. /\ pc = "read" /\ job = "code" /\ job' = job /\ i' = k /\ k <= CodeBytes /\ ok' = v.ok
      /\ pc' = (IF v.ok THEN "poll" ELSE "close") /\ outcome = "none" /\ outcome' = outcome
      /\ cancel' = cancel
  BY <1>1, <1>2 DEF ReadChunk, FilesInv, PlaceInv, hashVars
<1>4. /\ v \in Writers /\ v.to_bin /\ v.to_hex /\ v.base = CodeStart
      /\ \E n \in Nat : Streams(v, n)
      /\ v.pos <= k /\ Len(v.rec) < RecBytes
      /\ v.ok => v.pos = k /\ v.bin = Run(CodeStart, k)
  <2>1. v = dump_writer_append(w, Memory(i, ChunkBytes)) /\ ChunkBytes \in Nat
    BY <1>1, Sizes DEF ReadChunk
  <2> QED  BY <1>2, <1>3, <2>1, PieceAppended
<1>5. TypeInv'
  <2>1. Total' = CodeBytes
    BY <1>3 DEF Total
  <2>2. v.pos <= CodeBytes
    <3>1. v.pos \in Nat
      BY <1>4 DEF Writers
    <3> QED  BY <1>3, <1>4, <3>1, Sizes
  <2>3. v.ok \in BOOLEAN /\ cancel \in BOOLEAN
    BY <1>4 DEF Writers, FilesInv, TypeInv
  <2> QED  BY <1>1, <1>3, <1>4, <2>1, <2>2, <2>3 DEF TypeInv
<1>6. CASE v.ok
  <2>1. pc' = "poll" /\ ok'
    BY <1>3, <1>6
  <2>2. LoopInv'
    BY <1>1, <1>3, <1>4, <1>6, <2>1 DEF LoopInv
  <2>3. FreshInv' /\ CloseInv' /\ HexInv' /\ EndInv' /\ PlaceInv'
    BY <1>3, <2>1 DEF FreshInv, CloseInv, HexInv, EndInv, PlaceInv
  <2> QED  BY <1>5, <2>2, <2>3 DEF FilesInv
<1>7. CASE ~v.ok
  <2>1. pc' = "close" /\ ~ok'
    BY <1>3, <1>7
  <2>2. CloseInv'
    BY <1>1, <1>3, <1>4, <1>7, <2>1 DEF CloseInv
  <2>3. FreshInv' /\ LoopInv' /\ HexInv' /\ EndInv' /\ PlaceInv'
    BY <1>3, <2>1 DEF FreshInv, LoopInv, HexInv, EndInv, PlaceInv
  <2> QED  BY <1>5, <2>2, <2>3 DEF FilesInv
<1> QED  BY <1>6, <1>7

LEMMA PollKeeps ==
  ASSUME FilesInv, Poll PROVE FilesInv'
<1>1. /\ pc = "poll" /\ job = "code" /\ job' = job /\ i' = i /\ w' = w /\ ok' = ok
      /\ cancel' = cancel /\ outcome' = outcome /\ outcome = "none"
      /\ pc' = IF cancel THEN "close" ELSE "read"
  BY DEF Poll, dumpVars, hashVars, FilesInv, PlaceInv
<1>2. TypeInv'
  BY <1>1 DEF FilesInv, TypeInv, Total
<1>3. LoopInv' /\ CloseInv'
  BY <1>1 DEF FilesInv, LoopInv, CloseInv, TypeInv
<1>4. FreshInv' /\ HexInv' /\ EndInv' /\ PlaceInv'
  BY <1>1 DEF FreshInv, HexInv, EndInv, PlaceInv
<1> QED  BY <1>2, <1>3, <1>4 DEF FilesInv

LEMMA WriteTailKeeps ==
  ASSUME FilesInv, WriteTail PROVE FilesInv'
<1>1. PICK v : v = w'
  OBVIOUS
<1>2. /\ pc = "read" /\ job = "code" /\ job' = job /\ i' = CodeBytes /\ pc' = "close"
      /\ cancel' = cancel /\ outcome' = outcome /\ outcome = "none"
      /\ IF cancel \/ i = CodeBytes THEN v = w /\ ok' = ok
         ELSE v = dump_writer_append(w, Memory(i, CodeBytes - i)) /\ ok' = v.ok
  BY <1>1 DEF WriteTail, hashVars, FilesInv, PlaceInv
<1>3. /\ i \in Nat /\ i <= CodeBytes /\ w \in Writers /\ Len(w.rec) < RecBytes
      /\ cancel \in BOOLEAN
  BY <1>2 DEF FilesInv, TypeInv, Total
<1>4. /\ ok /\ w.ok /\ w.to_bin /\ w.to_hex /\ w.base = CodeStart /\ w.pos = i
      /\ w.bin = Run(CodeStart, i) /\ \E n \in Nat : Streams(w, n)
  BY <1>2 DEF FilesInv, LoopInv
<1>5. /\ v \in Writers /\ v.to_hex /\ v.base = CodeStart /\ \E n \in Nat : Streams(v, n)
      /\ v.pos <= CodeBytes /\ Len(v.rec) < RecBytes /\ ok' = v.ok
      /\ v.ok => v.bin = Run(CodeStart, v.pos)
      /\ v.ok /\ ~cancel => v.pos = CodeBytes
  <2>1. CASE cancel \/ i = CodeBytes
    BY <1>2, <1>3, <1>4, <2>1
  <2>2. CASE ~(cancel \/ i = CodeBytes)
    <3>1. PICK k \in Nat : k = CodeBytes - i /\ i + k = CodeBytes
      BY <1>3, Sizes
    <3>2. v = dump_writer_append(w, Memory(i, k)) /\ ok' = v.ok
      BY <1>2, <2>2, <3>1
    <3>3. i + k <= CodeBytes
      BY <3>1, Sizes
    <3> QED  BY <1>2, <3>1, <3>2, <3>3, PieceAppended
  <2> QED  BY <2>1, <2>2
<1>6. TypeInv'
  <2>1. Total' = CodeBytes
    BY <1>2 DEF Total
  <2>2. v.ok \in BOOLEAN
    BY <1>5 DEF Writers
  <2> QED  BY <1>1, <1>2, <1>3, <1>5, <2>1, <2>2, Sizes DEF TypeInv, FilesInv
<1>7. CloseInv'
  BY <1>1, <1>2, <1>5 DEF CloseInv
<1>8. FreshInv' /\ LoopInv' /\ HexInv' /\ EndInv' /\ PlaceInv'
  BY <1>2 DEF FreshInv, LoopInv, HexInv, EndInv, PlaceInv
<1> QED  BY <1>6, <1>7, <1>8 DEF FilesInv

LEMMA CloseKeeps ==
  ASSUME FilesInv, Close PROVE FilesInv'
<1>1. PICK v : v = w'
  OBVIOUS
<1>2. /\ pc = "close" /\ job = "code" /\ job' = job /\ i' = i /\ pc' = "result"
      /\ cancel' = cancel /\ outcome' = outcome /\ outcome = "none"
      /\ v = dump_writer_close(w) /\ ok' = (ok /\ v.ok)
  BY <1>1 DEF Close, hashVars, FilesInv, PlaceInv
<1>3. /\ i \in Nat /\ i <= CodeBytes /\ w \in Writers /\ w.pos <= CodeBytes
      /\ cancel \in BOOLEAN /\ ok \in BOOLEAN
  BY <1>2 DEF FilesInv, TypeInv, Total
<1>4. /\ w.base = CodeStart /\ w.to_hex /\ ok = w.ok /\ \E n \in Nat : Streams(w, n)
      /\ w.ok => w.bin = Run(CodeStart, w.pos)
      /\ ok /\ ~cancel => w.pos = CodeBytes
  BY <1>2 DEF FilesInv, CloseInv
<1>5. Closed(w, v)
  BY <1>2, <1>3, <1>4, CloseIs
<1>6. PICK m \in Nat : Decode(v.hex) = CellRun(CodeStart, m) /\ (v.ok => m = w.pos)
  BY <1>4, <1>5 DEF Closed
<1>7. /\ v \in Writers /\ v.bin = w.bin /\ v.pos = w.pos /\ Len(v.rec) = 0
      /\ (v.ok => w.ok) /\ (v.ok <=> Ended(v.hex))
  BY <1>4, <1>5 DEF Closed
<1>8. TypeInv'
  <2>1. Total' = CodeBytes /\ 0 < RecBytes
    BY <1>2, Sizes DEF Total
  <2>2. (ok /\ v.ok) \in BOOLEAN
    OBVIOUS
  <2> QED  BY <1>1, <1>2, <1>3, <1>7, <2>1, <2>2 DEF TypeInv, FilesInv
<1>9. Shown'
  <2>1. ASSUME Ended(v.hex) PROVE m = Len(v.bin)
    <3>1. PICK n \in Nat : n = w.pos
      BY <1>3 DEF Writers
    <3>2. Len(Run(CodeStart, n)) = n
      BY Sizes, RunAppend
    <3> QED  BY <1>4, <1>6, <1>7, <2>1, <3>1, <3>2
  <2>2. Start' = CodeStart /\ job' = "code"
    BY <1>2 DEF Start
  <2> QED  BY <1>1, <1>6, <2>1, <2>2 DEF Shown
<1>10. ok' /\ ~cancel' => Saved'
  <2>1. Start' = CodeStart /\ Total' = CodeBytes
    BY <1>2 DEF Start, Total
  <2>2. ASSUME ok /\ v.ok, ~cancel PROVE v.bin = Run(CodeStart, CodeBytes) /\ m = CodeBytes
    BY <1>4, <1>6, <1>7, <2>2
  <2> QED  BY <1>1, <1>2, <1>6, <1>7, <2>1, <2>2 DEF Saved
<1>11. EndInv'
  BY <1>2, <1>9, <1>10 DEF EndInv
<1>12. FreshInv' /\ LoopInv' /\ CloseInv' /\ HexInv' /\ PlaceInv'
  BY <1>2 DEF FreshInv, LoopInv, CloseInv, HexInv, PlaceInv
<1> QED  BY <1>8, <1>11, <1>12 DEF FilesInv

LEMMA ReadRamKeeps ==
  ASSUME FilesInv, ReadRam PROVE FilesInv'
<1>1. /\ pc = "read" /\ job = "ram" /\ job' = job /\ w' = w /\ ok' = ok
      /\ cancel' = cancel /\ outcome' = outcome /\ outcome = "none"
      /\ i' = IF i + PollBytes < RamBytes THEN i + PollBytes ELSE RamBytes
      /\ pc' \in {"save", "read"}
  BY DEF ReadRam, dumpVars, hashVars, FilesInv, PlaceInv
<1>2. TypeInv'
  <2>1. i' \in Nat /\ i' <= RamBytes
    BY <1>1, Sizes DEF FilesInv, TypeInv
  <2> QED  BY <1>1, <2>1 DEF FilesInv, TypeInv, Total
<1>3. FreshInv'
  BY <1>1 DEF FilesInv, FreshInv
<1>4. LoopInv' /\ CloseInv' /\ HexInv' /\ EndInv' /\ PlaceInv'
  BY <1>1 DEF LoopInv, CloseInv, HexInv, EndInv, PlaceInv
<1> QED  BY <1>2, <1>3, <1>4 DEF FilesInv

LEMMA SaveBinKeeps ==
  ASSUME FilesInv, SaveBin PROVE FilesInv'
<1>1. /\ pc = "save" /\ job = "ram" /\ job' = job /\ i' = i
      /\ cancel' = cancel /\ outcome' = outcome /\ outcome = "none"
      /\ w.bin = <<>> /\ w.hex = <<>>
  BY DEF SaveBin, hashVars, FilesInv, PlaceInv, FreshInv
<1>2. /\ i \in Nat /\ i <= RamBytes /\ w \in Writers /\ w.pos <= RamBytes
      /\ Len(w.rec) < RecBytes /\ cancel \in BOOLEAN
  BY <1>1 DEF FilesInv, TypeInv, Total
<1>3. Total' = RamBytes /\ Start' = RamStart /\ Start = RamStart /\ RamStart \in Nat /\ 0 \in Nat
  BY <1>1, Sizes DEF Total, Start
<1>4. CASE cancel /\ pc' = "result" /\ ok' = FALSE /\ w' = w
  <2>1. TypeInv'
    BY <1>1, <1>2, <1>3, <1>4 DEF TypeInv, FilesInv
  <2>2. Shown'
    BY <1>1, <1>3, <1>4, EmptyShown DEF Shown
  <2>3. FreshInv' /\ LoopInv' /\ CloseInv' /\ HexInv' /\ PlaceInv' /\ EndInv'
    BY <1>1, <1>4, <2>2 DEF FreshInv, LoopInv, CloseInv, HexInv, PlaceInv, EndInv
  <2> QED  BY <2>1, <2>3 DEF FilesInv
<1>5. CASE /\ ~cancel /\ pc' = "hex" /\ ok' = w'.ok
           /\ \E card \in Card : w' = WriteWhole(w, {"bin"}, 0, Memory(0, RamBytes),
                                                card.opens, card.fuse, card.torn)
  <2>1. PICK v : v = w'
    OBVIOUS
  <2>2. PICK card \in Card : v = WriteWhole(w, {"bin"}, 0, Memory(0, RamBytes),
                                            card.opens, card.fuse, card.torn)
    BY <1>5, <2>1
  <2>3. card.fuse \in Fuses /\ card.torn \in BOOLEAN
    BY DEF Card, Fuses
  <2>4. Memory(0, RamBytes) = Run(RamStart, RamBytes)
    <3>1. RamStart + 0 = RamStart /\ RamBytes \in Nat
      BY Sizes
    <3> QED  BY <1>3, <3>1, MemoryIs
  <2>5. Run(RamStart, RamBytes) \in Bytes /\ Len(Run(RamStart, RamBytes)) = RamBytes
    BY Sizes, RunAppend
  <2>6. /\ v \in Writers /\ v.hex = w.hex /\ v.pos = 0 /\ Len(v.rec) = 0
        /\ (v.ok => v.bin = Run(RamStart, RamBytes))
    BY <1>2, <2>2, <2>3, <2>4, <2>5, Sizes, WholeBin
  <2>7. TypeInv'
    <3>1. v.ok \in BOOLEAN /\ 0 <= RamBytes /\ 0 < RecBytes
      BY <2>6, Sizes DEF Writers
    <3> QED  BY <1>1, <1>2, <1>3, <1>5, <2>1, <2>6, <3>1 DEF TypeInv, FilesInv
  <2>8. HexInv'
    BY <1>1, <1>5, <2>1, <2>6 DEF HexInv
  <2>9. FreshInv' /\ LoopInv' /\ CloseInv' /\ PlaceInv' /\ EndInv'
    BY <1>1, <1>5 DEF FreshInv, LoopInv, CloseInv, PlaceInv, EndInv
  <2> QED  BY <2>7, <2>8, <2>9 DEF FilesInv
<1> QED  BY <1>4, <1>5 DEF SaveBin

LEMMA SaveHexKeeps ==
  ASSUME FilesInv, SaveHex PROVE FilesInv'
<1>1. PICK v : v = w'
  OBVIOUS
<1>2. /\ pc = "hex" /\ pc' = "result" /\ job = "ram" /\ job' = job /\ i' = i
      /\ cancel' = cancel /\ outcome' = outcome /\ outcome = "none"
      /\ ok' = (v.ok /\ ok) /\ (ok => w.bin = Run(RamStart, RamBytes))
  BY <1>1 DEF SaveHex, hashVars, FilesInv, PlaceInv, HexInv
<1>3. i \in Nat /\ i <= RamBytes /\ w \in Writers /\ cancel \in BOOLEAN
  BY <1>2 DEF FilesInv, TypeInv, Total
<1>4. Total' = RamBytes /\ Start' = RamStart /\ Start = RamStart /\ RamStart \in Nat /\ 0 \in Nat
  BY <1>2, Sizes DEF Total, Start
<1>5. PICK card \in Card : v = WriteWhole(w, {"hex"}, RamStart, Memory(0, RamBytes),
                                          card.opens, card.fuse, card.torn)
  BY <1>1 DEF SaveHex
<1>6. card.fuse \in Fuses /\ card.torn \in BOOLEAN
  BY DEF Card, Fuses
<1>7. Memory(0, RamBytes) = Run(RamStart, RamBytes)
  <2>1. RamStart + 0 = RamStart /\ RamBytes \in Nat
    BY Sizes
  <2> QED  BY <1>4, <2>1, MemoryIs
<1>8. /\ v \in Writers /\ v.bin = w.bin /\ v.pos <= RamBytes /\ Len(v.rec) = 0
      /\ (v.ok <=> Ended(v.hex))
      /\ \E m \in Nat : Decode(v.hex) = CellRun(RamStart, m) /\ (v.ok => m = RamBytes)
  BY <1>3, <1>5, <1>6, <1>7, Sizes, WholeHex
<1>9. TypeInv'
  <2>1. (v.ok /\ ok) \in BOOLEAN /\ 0 < RecBytes
    BY Sizes
  <2> QED  BY <1>1, <1>2, <1>3, <1>4, <1>8, <2>1 DEF TypeInv, FilesInv
<1>10. Shown'
  <2>1. job' # "code"
    BY <1>2
  <2> QED  BY <1>1, <1>4, <1>8, <2>1 DEF Shown
<1>11. ok' /\ ~cancel' => Saved'
  BY <1>1, <1>2, <1>4, <1>8 DEF Saved
<1>12. EndInv'
  BY <1>2, <1>10, <1>11 DEF EndInv
<1>13. FreshInv' /\ LoopInv' /\ CloseInv' /\ HexInv' /\ PlaceInv'
  BY <1>2 DEF FreshInv, LoopInv, CloseInv, HexInv, PlaceInv
<1> QED  BY <1>9, <1>12, <1>13 DEF FilesInv

\* The other steps leave the job and the files.
LEMMA ResultKeeps ==
  ASSUME FilesInv, Result PROVE FilesInv'
<1>1. /\ pc = "result" /\ pc' = "idle" /\ i' = 0 /\ job' = job /\ w' = w /\ ok' = ok
      /\ cancel' = cancel
      /\ outcome' = IF cancel THEN "cancelled" ELSE IF ok THEN "done" ELSE "error"
  BY DEF Result, hashVars
<1>2. TypeInv'
  <2>1. 0 \in Nat /\ 0 <= Total
    BY Sizes
  <2> QED  BY <1>1, <2>1 DEF FilesInv, TypeInv, Total
<1>3. EndInv'
  <2>1. (Shown' <=> Shown) /\ (Saved' <=> Saved)
    BY <1>1 DEF Shown, Saved, Start, Total
  <2> QED  BY <1>1, <2>1 DEF FilesInv, EndInv
<1>4. FreshInv' /\ LoopInv' /\ CloseInv' /\ HexInv' /\ PlaceInv'
  BY <1>1 DEF FreshInv, LoopInv, CloseInv, HexInv, PlaceInv
<1> QED  BY <1>2, <1>3, <1>4 DEF FilesInv

LEMMA HashKeeps ==
  ASSUME FilesInv, HashOpen \/ HashRead \/ HashEnd PROVE FilesInv'
<1>1. /\ pc \in {"idle", "hash"} /\ pc' \in {"idle", "hash"} /\ job' = job /\ w' = w /\ ok' = ok
      /\ cancel' = cancel /\ outcome' = outcome
  BY DEF HashOpen, HashRead, HashEnd, dumpVars
<1>2. TypeInv'
  <2>1. i' \in Nat /\ (pc' # "hash" => i' <= Total)
    <3>1. CASE HashOpen
      BY <3>1 DEF HashOpen, FilesInv, TypeInv
    <3>2. CASE HashRead
      BY <3>2 DEF HashRead, FilesInv, TypeInv
    <3>3. CASE HashEnd
      BY <3>3, Sizes DEF HashEnd
    <3> QED  BY <3>1, <3>2, <3>3
  <2> QED  BY <1>1, <2>1 DEF FilesInv, TypeInv, Total
<1>3. EndInv'
  <2>1. (Shown' <=> Shown) /\ (Saved' <=> Saved)
    BY <1>1 DEF Shown, Saved, Start, Total
  <2> QED  BY <1>1, <2>1 DEF FilesInv, EndInv
<1>4. pc' = "idle" => i' = 0
  BY DEF HashOpen, HashRead, HashEnd, FilesInv, PlaceInv
<1>5. FreshInv' /\ LoopInv' /\ CloseInv' /\ HexInv' /\ PlaceInv'
  BY <1>1, <1>4 DEF FreshInv, LoopInv, CloseInv, HexInv, PlaceInv
<1> QED  BY <1>2, <1>3, <1>5 DEF FilesInv

LEMMA FilesInductive ==
  ASSUME FilesInv, [Next]_vars PROVE FilesInv'
<1>1. CASE UNCHANGED vars
  <2>1. /\ pc' = pc /\ i' = i /\ job' = job /\ w' = w /\ ok' = ok /\ cancel' = cancel
        /\ outcome' = outcome
    BY <1>1 DEF vars, dumpVars
  <2>2. (Shown' <=> Shown) /\ (Saved' <=> Saved)
    BY <2>1 DEF Shown, Saved, Start, Total
  <2>3. TypeInv' /\ EndInv'
    BY <2>1, <2>2 DEF FilesInv, TypeInv, EndInv, Total
  <2>4. FreshInv' /\ LoopInv' /\ CloseInv' /\ HexInv' /\ PlaceInv'
    BY <2>1 DEF FilesInv, FreshInv, LoopInv, CloseInv, HexInv, PlaceInv
  <2> QED  BY <2>3, <2>4 DEF FilesInv
<1> QED
  BY <1>1, CancelKeeps, BeginKeeps, OpenFilesKeeps, ReadChunkKeeps, PollKeeps, WriteTailKeeps,
     CloseKeeps, ReadRamKeeps, SaveBinKeeps, SaveHexKeeps, ResultKeeps, HashKeeps DEF Next

LEMMA HashInit ==
  ASSUME Init PROVE HashInv
BY NothingAbsorbed DEF Init, HashInv, Absorbed, NoSha

LEMMA HashOpenKeeps ==
  ASSUME FilesInv, HashInv, HashOpen PROVE HashInv'
<1>1. pc = "idle" /\ i' = i /\ w' = w /\ w.bin \in Bytes /\ i \in Nat /\ ctx \in Contexts
  BY DEF HashOpen, dumpVars, FilesInv, TypeInv, Writers, HashInv
<1>2. CASE pc' = "idle" /\ sha' = NoSha("unavailable") /\ ctx' = ctx
  BY <1>1, <1>2 DEF HashInv, NoSha
<1>3. CASE pc' = "hash" /\ ctx' = sha256_init /\ sha' = sha
  <2>1. 0 <= Len(w.bin) /\ SubSeq(w.bin, 1, 0) = <<>>
    BY <1>1 DEF Bytes
  <2>2. i = 0
    BY <1>1 DEF FilesInv, PlaceInv
  <2> QED  BY <1>1, <1>3, <2>1, <2>2, NothingAbsorbed DEF HashInv, Absorbed
<1> QED  BY <1>2, <1>3 DEF HashOpen

LEMMA HashReadKeeps ==
  ASSUME FilesInv, HashInv, HashRead PROVE HashInv'
<1>1. /\ pc = "hash" /\ pc' = pc /\ w' = w /\ sha' = sha /\ w.bin \in Seq(Nat) /\ i \in Nat
      /\ Absorbed(ctx, SubSeq(w.bin, 1, i))
  BY DEF HashRead, dumpVars, FilesInv, TypeInv, Writers, HashInv, Bytes
<1>2. PICK n \in 1 .. HashChunk :
        /\ i + n <= Len(w.bin)
        /\ ctx' = sha256_update(ctx, SubSeq(w.bin, i + 1, i + n)) /\ i' = i + n
  BY DEF HashRead
<1>3. PICK s \in Seq(Nat) : s = w.bin
  BY <1>1
<1>4. PICK m \in Nat : m = i
  BY <1>1
<1>5. n \in Nat /\ m + n \in Nat /\ m + n <= Len(s)
  BY <1>2, <1>3, <1>4, DumpAssumption
<1>6. SubSeq(s, m + 1, m + n) \in Seq(Nat) /\ SubSeq(s, 1, m) \in Seq(Nat)
  BY <1>5
<1>7. SubSeq(s, 1, m) \o SubSeq(s, m + 1, m + n) = SubSeq(s, 1, m + n)
  BY <1>5
<1>8. Absorbed(ctx', SubSeq(s, 1, m) \o SubSeq(s, m + 1, m + n))
  BY <1>1, <1>2, <1>3, <1>4, <1>6, UpdateAbsorbs
<1>9. i' <= Len(w'.bin) /\ Absorbed(ctx', SubSeq(w'.bin, 1, i'))
  BY <1>1, <1>2, <1>3, <1>4, <1>5, <1>7, <1>8
<1>10. ctx' \in Contexts
  BY <1>9 DEF Absorbed
<1> QED  BY <1>1, <1>9, <1>10 DEF HashInv

LEMMA HashEndKeeps ==
  ASSUME FilesInv, HashInv, HashEnd PROVE HashInv'
<1>1. /\ pc = "hash" /\ pc' = "idle" /\ w' = w /\ ctx' = sha256_init /\ w.bin \in Seq(Nat)
      /\ Absorbed(ctx, SubSeq(w.bin, 1, i))
  BY DEF HashEnd, dumpVars, FilesInv, TypeInv, Writers, HashInv, Bytes
<1>2. ctx' \in Contexts
  BY <1>1, NothingAbsorbed DEF Absorbed
<1>3. CASE i = Len(w.bin) /\ sha' = ShaOf(ctx)
  <2>1. SubSeq(w.bin, 1, i) = w.bin
    BY <1>1, <1>3, SubSeqFull
  <2>2. sha'.digest = sha256_final(ctx)
    BY <1>3 DEF ShaOf
  <2>3. sha'.digest = Digest(w'.bin)
    BY <1>1, <2>1, <2>2, FinalIsDigest
  <2> QED  BY <1>1, <1>2, <2>3 DEF HashInv
<1>4. CASE sha' = NoSha("unavailable")
  BY <1>1, <1>2, <1>4 DEF HashInv, NoSha
<1> QED  BY <1>3, <1>4 DEF HashEnd

\* The workers leave the hash loop's state; a new dump drops the digest.
LEMMA WorkersKeepHash ==
  ASSUME FilesInv, HashInv,
         \/ Cancel \/ OpenFiles \/ ReadChunk \/ Poll \/ WriteTail \/ Close
         \/ ReadRam \/ SaveBin \/ SaveHex \/ Result \/ Begin \/ UNCHANGED vars
  PROVE  HashInv'
<1>1. CASE UNCHANGED vars
  BY <1>1 DEF HashInv, vars, dumpVars, hashVars
<1>2. CASE Begin
  BY <1>2 DEF Begin, HashInv, NoSha
<1>3. CASE \/ Cancel \/ OpenFiles \/ ReadChunk \/ Poll \/ WriteTail \/ Close
           \/ ReadRam \/ SaveBin \/ SaveHex \/ Result
  <2>1. pc \notin {"idle", "hash"} /\ pc' # "hash" /\ ctx' = ctx /\ sha' = sha
    BY <1>3 DEF Cancel, OpenFiles, ReadChunk, Poll, WriteTail, Close, ReadRam, SaveBin,
                SaveHex, Result, hashVars
  <2> QED  BY <2>1 DEF HashInv
<1> QED  BY <1>1, <1>2, <1>3

LEMMA HashInductive ==
  ASSUME FilesInv, HashInv, [Next]_vars PROVE HashInv'
BY HashOpenKeeps, HashReadKeeps, HashEndKeeps, WorkersKeepHash DEF Next

LEMMA FilesAlways == Spec => [](FilesInv /\ HashInv)
<1>1. Init => FilesInv /\ HashInv
  BY FilesInit, HashInit
<1>2. (FilesInv /\ HashInv) /\ [Next]_vars => (FilesInv /\ HashInv)'
  BY FilesInductive, HashInductive
<1> QED  BY <1>1, <1>2, PTL DEF Spec

\* Every variable of the dump workers and of the hash loop keeps its type; the record
\* buffer of a DumpWriter is never left full.
THEOREM DumpTypeHolds == Spec => []TypeOK
<1>1. FilesInv /\ HashInv => TypeOK
  <2> SUFFICES ASSUME FilesInv, HashInv PROVE TypeOK
    OBVIOUS
  <2>1. i \in 0 .. Total \cup 0 .. Len(w.bin)
    BY Sizes DEF FilesInv, TypeInv, HashInv, Writers, Bytes
  <2>2. w.pos \in 0 .. Total /\ w.fuse \in 0 .. MaxWrites /\ Len(w.rec) < RecBytes
    BY Sizes DEF FilesInv, TypeInv, Writers, Fuses
  <2>3. {ok, cancel, w.ok, w.to_bin, w.to_hex, w.started} \subseteq BOOLEAN
    BY DEF FilesInv, TypeInv, Writers
  <2>4. ctx.buflen \in 0 .. BlockBytes - 1 /\ DOMAIN ctx.buffer = 1 .. BlockBytes
    BY DEF HashInv, Contexts
  <2> QED  BY <2>1, <2>2, <2>3, <2>4 DEF TypeOK, FilesInv, TypeInv
<1> QED  BY <1>1, FilesAlways, PTL

\* A .hex that is still being written has no end record.
LEMMA AlwaysShown ==
  ASSUME FilesInv PROVE Shown
<1>1. CASE pc \in {"result", "idle", "hash"}
  BY <1>1 DEF FilesInv, EndInv
<1>2. CASE \/ pc \in {"open", "hex"}
           \/ pc \in {"read", "save"} /\ job = "ram"
  <2>1. w.hex = <<>>
    BY <1>2 DEF FilesInv, FreshInv, HexInv
  <2> QED  BY <2>1, Sizes, EmptyShown DEF Shown
<1>3. CASE \/ pc \in {"read", "poll"} /\ job = "code"
           \/ pc = "close"
  <2>1. Start = CodeStart
    BY <1>3 DEF FilesInv, PlaceInv, Start
  <2>2. PICK n \in Nat : Streams(w, n)
    BY <1>3 DEF FilesInv, LoopInv, CloseInv
  <2>3. w.base = CodeStart
    BY <1>3 DEF FilesInv, LoopInv, CloseInv
  <2> QED  BY <2>1, <2>2, <2>3 DEF Shown, Streams
<1> QED  BY <1>1, <1>2, <1>3 DEF FilesInv, TypeInv, PlaceInv

\* dump_writer.c, pic_jobs.c: whatever write of the card fails and whenever the dump is
\* cancelled, what a reader gets from the .hex is the target's bytes at their addresses,
\* from the first on; with an end record, all that the .bin holds, or all of the RAM.
THEOREM HexHolds == Spec => []HexIsTrue
<1>1. FilesInv => HexIsTrue
  <2> SUFFICES ASSUME FilesInv PROVE HexIsTrue
    OBVIOUS
  <2>1. Start \in Nat
    BY Sizes
  <2>2. PICK n \in Nat :
          /\ Decode(w.hex) = CellRun(Start, n)
          /\ Ended(w.hex) => n = IF job = "code" THEN Len(w.bin) ELSE RamBytes
    BY AlwaysShown DEF Shown
  <2>3. Len(CellRun(Start, n)) = n
    BY <2>1, CellRunConcat
  <2>4. \A k \in DOMAIN CellRun(Start, n) :
          /\ CellRun(Start, n)[k].at = Start + k - 1
          /\ CellRun(Start, n)[k].byte = CellRun(Start, n)[k].at
    BY DEF CellRun
  <2> QED  BY <2>2, <2>3, <2>4 DEF HexIsTrue
<1> QED  BY <1>1, FilesAlways, PTL

\* pic_jobs.c: "done" is only said of a dump whose two files are complete.
THEOREM SavedHolds == Spec => []DoneIsSaved
<1>1. FilesInv => DoneIsSaved
  <2> SUFFICES ASSUME FilesInv, outcome = "done"
               PROVE  w.bin = Memory(0, Total) /\ Len(Decode(w.hex)) = Total /\ Ended(w.hex)
    BY DEF DoneIsSaved
  <2>1. Saved
    BY DEF FilesInv, EndInv
  <2>2. Memory(0, Total) = Run(Start, Total)
    <3>1. Start + 0 = Start
      BY Sizes
    <3> QED  BY <3>1, Sizes, MemoryIs
  <2>3. Len(CellRun(Start, Total)) = Total
    BY Sizes, CellRunConcat
  <2> QED  BY <2>1, <2>2, <2>3 DEF Saved
<1> QED  BY <1>1, FilesAlways, PTL

\* dump_store_hash_sha256, sha256.c: the digest on the confirm screen is that of the file,
\* however its reads cut it up.
THEOREM HashHolds == Spec => []HashIsOfTheFile
<1>1. HashInv => HashIsOfTheFile
  BY DEF HashInv, HashIsOfTheFile
<1> QED  BY <1>1, FilesAlways, PTL
=============================================================================
