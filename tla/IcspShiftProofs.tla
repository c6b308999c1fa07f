---------------------------- MODULE IcspShiftProofs ----------------------------
(***************************************************************************)
(* Theorems about IcspShift: for every session of commands, with any        *)
(* operands, the chip follows the calls, and neither end drives PGD against *)
(* the other.                                                              *)
(***************************************************************************)
EXTENDS IcspShift, Recursion, SequenceTheorems

(***************************************************************************)
(* What the pins and the chip have come to after each operation of a call. *)
(***************************************************************************)

\* What is left of the operations s when k of them are done.
After(s, k) == [j \in 1..Len(s) - k |-> s[k + j]]

LowBits(x, n) == x % (2 ^ n)

\* The bit at the i-th clock of a command.
FrameBit(c, i) == IF i < 4 THEN Bit(c.cmd, i) ELSE Bit(c.word, i - 4)

\* How far a command is: the level of PGC, those PGD may have, whether PGD is an output,
\* the falling edges and the samples so far, and whether the clock was held.
Marked(pgc, pgd, out, edges, held, samples) ==
  [pgc |-> pgc, pgd |-> pgd, out |-> out, edges |-> edges, held |-> held, samples |-> samples]

\* After k operations of clocked bits.
BitMark(c, k, held) ==
  Marked(IF k % 3 = 2 THEN 1 ELSE 0, IF k % 3 = 0 THEN {0, 1} ELSE {FrameBit(c, k \div 3)},
         1, k \div 3, held, 0)

ReadMark(c, k) ==
  IF k <= 12 THEN BitMark(c, k, 0)
  ELSE IF k <= 29
  THEN Marked((k - 13) % 2, {0}, 1, 4 + ((k - 13) \div 2), 0, 0)
  ELSE IF k <= 54
  THEN Marked(IF (k - 30) % 3 = 0 THEN 0 ELSE 1, {0}, 0, 12 + ((k - 30) \div 3), 0,
              (k - 29) \div 3)
  ELSE Marked(0, {0}, 1, 20, 0, 8)

Mark(c, k) ==
  CASE c.fn = "word"      -> BitMark(c, k, 0)
    [] c.fn = "read"      -> ReadMark(c, k)
    [] c.fn = "prog_nop"  -> IF k <= 11 THEN BitMark(c, k, 0) ELSE BitMark(c, k - 1, 1)
    [] c.fn = "erase_nop" -> IF k <= 12 THEN BitMark(c, k, 0)
                             ELSE IF k = 13 THEN BitMark(c, 12, 0)
                             ELSE BitMark(c, k - 2, 1)

\* Operation op takes a command from mark a to mark b, and is one it may do there.
Leads(c, a, op, b) ==
  \/ /\ \E v \in {0, 1} : op = Write("pgd", v) /\ v \in b.pgd
     /\ b = [a EXCEPT !.pgd = b.pgd]
  \/ op = Write("pgc", 1) /\ b = [a EXCEPT !.pgc = 1]
  \/ /\ op = Write("pgc", 0) /\ a.pgc = 1 /\ a.edges < 20
     /\ a.edges < 4 \/ ~Reads(c.cmd) => a.pgd = {FrameBit(c, a.edges)} /\ a.out = 1
     /\ a.edges = 19 => a.held = 1 \/ c.held = NotHeld
     /\ a.pgd \subseteq b.pgd
     /\ b = Marked(0, b.pgd, a.out, a.edges + 1, a.held, a.samples)
  \/ /\ op = Hold(c.held.us) /\ c.held.high = (a.pgc = 1) /\ a.edges \in {3, 4}
     /\ a.out = 1 /\ ~Reads(c.cmd)
     /\ b = [a EXCEPT !.held = 1]
  \/ op = Input("pgd") /\ b = [a EXCEPT !.out = 0]
  \/ op = Output("pgd") /\ a.edges = 20 /\ b = [a EXCEPT !.out = 1]
  \/ /\ op = Sample /\ Reads(c.cmd) /\ a.out = 0 /\ a.samples < 8 /\ a.edges = 12 + a.samples
     /\ b = [a EXCEPT !.samples = a.samples + 1]

(***************************************************************************)
(* The invariant.                                                          *)
(***************************************************************************)

Pointer == 0..2 ^ 22 - 1

Registers ==
  [wreg: Byte, tblptr: Pointer, tablat: Byte, bsr: 0..15, wren: BOOLEAN, free: BOOLEAN,
   armed: {"none", "block", "row"}, unlock: SUBSET (Nat \X Word),
   latch: [0..BlockBytes - 1 -> Byte], flash: [0..FlashBytes - 1 -> Byte]]

Types ==
  /\ regs \in Registers /\ meant \in Registers
  /\ outputs \subseteq Lines /\ level \in [Lines -> {0, 1}]

\* The chip has been reset, and nothing but its flash is left of what it was told before.
Fresh == meant = [PowerOn EXCEPT !.flash = regs.flash]

\* Nothing drives the clock or MCLR.
Released ==
  /\ lines = "released" /\ target = "run"
  /\ mode = "run" /\ key = <<>> /\ frame = NoFrame /\ regs = meant /\ Fresh
  /\ outputs \subseteq {"pgd"}

ExitAt(k) ==
  /\ lines = "released" /\ target = "run"
  /\ sampled = <<>> /\ level["pgc"] = 0 /\ frame = NoFrame /\ key = <<>> /\ Fresh
  /\ \/ mode = "run" /\ outputs \subseteq {"pgd"} /\ regs = meant /\ (k >= 1 => level["mclr"] = 0)
     \/ k = 0 /\ mode = "program" /\ outputs = Lines /\ level["mclr"] = 1
     \/ /\ k \in 1..3 /\ mode = "reset" /\ regs = meant /\ level["mclr"] = 0
        /\ outputs = IF k = 1 THEN Lines ELSE IF k = 2 THEN {"pgd", "mclr"} ELSE {"mclr"}

InitAt(k) ==
  /\ lines = "driven" /\ target = "reset"
  /\ sampled = <<>> /\ level["pgc"] = 0 /\ level["mclr"] = 0
  /\ frame = NoFrame /\ key = <<>> /\ Fresh
  /\ k >= 1 => "pgc" \in outputs
  /\ k >= 2 => "pgd" \in outputs
  /\ IF k <= 2 THEN mode = "run" /\ "mclr" \notin outputs
     ELSE mode = "reset" /\ outputs = Lines /\ regs = meant

\* The key as far as i bits.
KeyBits(i) == [j \in 1..i |-> EntryKey[j]]

\* While a bit of the key is being clocked, the key so far and the bit.
Keying(k) ==
  /\ mode = "reset" /\ level["mclr"] = 0 /\ key = KeyBits((k - 4) \div 3)
  /\ (k - 4) % 3 # 0 /\ k < 100 => level["pgd"] = EntryKey[((k - 4) \div 3) + 1]

\* Where the clock is after k operations of an enter.
EnterClock(k) == IF k \in 4..99 /\ (k - 4) % 3 = 2 THEN 1 ELSE 0

\* On driven lines: what the chip has of the key.
EnterDriven(k) ==
  /\ lines = "driven" /\ target = "program" /\ outputs = Lines
  /\ frame = NoFrame /\ regs = meant /\ Fresh
  /\ \/ k \in 0..2 /\ mode = "reset" /\ level["mclr"] = 0 /\ key = <<>>
     \/ k = 3 /\ mode = "run" /\ level["mclr"] = 1 /\ key = <<>>
     \/ k \in 4..101 /\ Keying(k)
     \/ k = 102 /\ mode = "program" /\ level["mclr"] = 1 /\ key = <<>>

EnterAt(k) ==
  /\ sampled = <<>> /\ level["pgc"] = EnterClock(k)
  /\ Released \/ EnterDriven(k)

FrameOf(n, cmd, word, held, out) ==
  [n |-> n, cmd |-> cmd, word |-> word, held |-> held, out |-> out]

\* The chip in the middle of command c: what it has shifted so far, and that it will do
\* what is meant once it has it all.
InFrame(c, a) ==
  IF a.edges = 20 THEN frame = NoFrame /\ regs = meant
  ELSE /\ frame = FrameOf(a.edges,
                          IF a.edges < 4 THEN LowBits(c.cmd, a.edges) ELSE c.cmd,
                          IF a.edges < 4 \/ Reads(c.cmd) THEN 0
                          ELSE LowBits(c.word, a.edges - 4),
                          IF a.held = 1 THEN c.held ELSE NotHeld,
                          IF Reads(c.cmd) /\ a.edges >= 12 THEN ShiftedOut(regs, c.cmd) ELSE 0)
       /\ Execute(regs, c.cmd, c.word, c.held) = meant
       /\ Reads(c.cmd) => result = <<ShiftedOut(regs, c.cmd)>>

Programming(c, a) ==
  /\ lines = "driven" /\ target = "program" /\ mode = "program" /\ key = <<>>
  /\ {"pgc", "mclr"} \subseteq outputs /\ level["mclr"] = 1
  /\ a.out = 1 => "pgd" \in outputs
  /\ InFrame(c, a)

\* What the host has done of command c; the bits it has read are those of the result.
JobAt(c, a) ==
  /\ level["pgc"] = a.pgc /\ level["pgd"] \in a.pgd
  /\ a.out = 0 => "pgd" \notin outputs
  /\ Reads(c.cmd) => result \in {<<b>> : b \in Byte}
  /\ sampled = [j \in 1..a.samples |-> Bit(result[1], j - 1)]
  /\ \/ Released /\ (Reads(c.cmd) => result = <<0>>)
     \/ Programming(c, a)

\* Commands, and the exit that ends a session.
Ends(cs) == \E job \in Seq(JobCalls) : cs = job \o <<Session("exit")>>

Entering(cs) == \E rest : Ends(rest) /\ cs = <<Session("enter")>> \o rest

Starting(cs) == \E rest : Entering(rest) /\ cs = <<Session("init")>> \o rest

\* What the call c that has done k operations, and those after it, have come to.
During(c, k) ==
  \/ /\ c = Session("exit") /\ ExitAt(k)
     /\ calls = <<>> \/ (k = 4 /\ (Entering(calls) \/ Starting(calls)))
  \/ c = Session("init") /\ InitAt(k) /\ Entering(calls)
  \/ c = Session("enter") /\ EnterAt(k) /\ Ends(calls)
  \/ c \in JobCalls /\ JobAt(c, Mark(c, k)) /\ Ends(calls)

Situation ==
  \E c : \E k \in 0..Len(PinOps(c)) : ops = After(PinOps(c), k) /\ During(c, k)

ShiftInv == Types /\ Situation

(***************************************************************************)
(* Bits.                                                                   *)
(***************************************************************************)

\* The powers of two that masks and shifts use.
LEMMA PowersOfTwo ==
  /\ 2 ^ 0 = 1 /\ 2 ^ 1 = 2 /\ 2 ^ 2 = 4 /\ 2 ^ 3 = 8 /\ 2 ^ 4 = 16 /\ 2 ^ 5 = 32
  /\ 2 ^ 6 = 64 /\ 2 ^ 7 = 128 /\ 2 ^ 8 = 256 /\ 2 ^ 9 = 512 /\ 2 ^ 10 = 1024
  /\ 2 ^ 11 = 2048 /\ 2 ^ 12 = 4096 /\ 2 ^ 13 = 8192 /\ 2 ^ 14 = 16384
  /\ 2 ^ 15 = 32768 /\ 2 ^ 16 = 65536 /\ 2 ^ 22 = 4194304
OBVIOUS

\* The low bits of a number grow by one bit at a time.
LEMMA BitsOf ==
  ASSUME NEW x \in Nat, NEW n \in 0..15
  PROVE  /\ Bit(x, n) \in {0, 1}
         /\ x = 0 => Bit(x, n) = 0
         /\ LowBits(x, n + 1) = LowBits(x, n) + (Bit(x, n) * 2 ^ n)
<1>1. CASE n = 0
  BY <1>1, PowersOfTwo DEF Bit, LowBits
<1>2. CASE n = 1
  BY <1>2, PowersOfTwo DEF Bit, LowBits
<1>3. CASE n = 2
  BY <1>3, PowersOfTwo DEF Bit, LowBits
<1>4. CASE n = 3
  BY <1>4, PowersOfTwo DEF Bit, LowBits
<1>5. CASE n = 4
  BY <1>5, PowersOfTwo DEF Bit, LowBits
<1>6. CASE n = 5
  BY <1>6, PowersOfTwo DEF Bit, LowBits
<1>7. CASE n = 6
  BY <1>7, PowersOfTwo DEF Bit, LowBits
<1>8. CASE n = 7
  BY <1>8, PowersOfTwo DEF Bit, LowBits
<1>9. CASE n = 8
  BY <1>9, PowersOfTwo DEF Bit, LowBits
<1>10. CASE n = 9
  BY <1>10, PowersOfTwo DEF Bit, LowBits
<1>11. CASE n = 10
  BY <1>11, PowersOfTwo DEF Bit, LowBits
<1>12. CASE n = 11
  BY <1>12, PowersOfTwo DEF Bit, LowBits
<1>13. CASE n = 12
  BY <1>13, PowersOfTwo DEF Bit, LowBits
<1>14. CASE n = 13
  BY <1>14, PowersOfTwo DEF Bit, LowBits
<1>15. CASE n = 14
  BY <1>15, PowersOfTwo DEF Bit, LowBits
<1>16. CASE n = 15
  BY <1>16, PowersOfTwo DEF Bit, LowBits
<1> QED  BY <1>1, <1>2, <1>3, <1>4, <1>5, <1>6, <1>7, <1>8,
           <1>9, <1>10, <1>11, <1>12, <1>13, <1>14, <1>15, <1>16

\* Enough low bits are the number itself.
LEMMA LowBitsEnds ==
  ASSUME NEW x \in Nat
  PROVE  /\ LowBits(x, 0) = 0
         /\ x < 16 => LowBits(x, 4) = x
         /\ x < 256 => LowBits(x, 8) = x
         /\ x < 65536 => LowBits(x, 16) = x
BY PowersOfTwo DEF LowBits

\* The value of eight bits.
LEMMA ValueIs ==
  ASSUME NEW bits \in [1..8 -> {0, 1}]
  PROVE  Value(bits) = bits[1] + (2 * bits[2]) + (4 * bits[3]) + (8 * bits[4]) + (16 * bits[5])
                         + (32 * bits[6]) + (64 * bits[7]) + (128 * bits[8])
<1> DEFINE step == [p \in Int \X (1 .. 8) |-> p[1] + (bits[p[2]] * 2 ^ (p[2] - 1))]
           Loop(f) == f = [n \in 0 .. Len(bits) |->
                             IF n = 0 THEN 0 ELSE f[n - 1] + (bits[n] * 2 ^ (n - 1))]
           g == CHOOSE f : Loop(f)
<1>0. Len(bits) = 8
  OBVIOUS
<1>1. ASSUME NEW k \in 1..8 PROVE 2 ^ (k - 1) \in Int
  BY PowersOfTwo
<1>2. step \in [Int \X (1 .. 8) -> Int]
  <2>1. ASSUME NEW s \in Int, NEW k \in 1..8 PROVE s + (bits[k] * 2 ^ (k - 1)) \in Int
    BY <1>1
  <2> QED  BY <2>1
<1>3. \A s \in Int, k \in 1..8 : step[<<s, k>>] = s + (bits[k] * 2 ^ (k - 1))
  OBVIOUS
<1> HIDE DEF step
<1>4. PICK f : Recursive(f, Int, 0, 8, step)
  <2> DEFINE n == 8
             S == Int
  <2>1. step \in [S \X (1 .. n) -> S] /\ 0 \in S /\ n \in Nat
    BY <1>2
  <2> HIDE DEF n, S
  <2>2. \E f : Recursive(f, S, 0, n, step)
    BY <2>1, RecursionExists
  <2> QED  BY <2>2 DEF n, S
<1>5. /\ f \in [0 .. 8 -> Int]
      /\ f = [n \in 0 .. 8 |-> IF n = 0 THEN 0 ELSE step[<<f[n - 1], n>>]]
  BY <1>4 DEF Recursive
<1>6. Loop(f)
  <2>1. ASSUME NEW n \in 0..8, n # 0 PROVE n \in 1..8 /\ f[n - 1] \in Int
    BY <1>5, <2>1
  <2>2. ASSUME NEW n \in 0..8, n # 0
        PROVE step[<<f[n - 1], n>>] = f[n - 1] + (bits[n] * 2 ^ (n - 1))
    BY <1>3, <2>1, <2>2
  <2> QED  BY <1>0, <1>5, <2>2
<1>7. Loop(g)
  BY <1>6
<1>8. Value(bits) = g[8]
  BY <1>0 DEF Value
<1> HIDE DEF g
<1>9. g[0] = 0 /\ \A n \in 1..8 : g[n] = g[n - 1] + (bits[n] * 2 ^ (n - 1))
  BY <1>0, <1>7
<1>10. /\ g[1] = bits[1] /\ g[2] = g[1] + (bits[2] * 2)
       /\ g[3] = g[2] + (bits[3] * 4) /\ g[4] = g[3] + (bits[4] * 8)
       /\ g[5] = g[4] + (bits[5] * 16) /\ g[6] = g[5] + (bits[6] * 32)
       /\ g[7] = g[6] + (bits[7] * 64) /\ g[8] = g[7] + (bits[8] * 128)
  BY <1>9, PowersOfTwo
<1> QED  BY <1>8, <1>10

\* What two bytes have in common is a byte: the write of a block stays in range.
LEMMA CommonTyped ==
  ASSUME NEW x \in Byte, NEW y \in Byte
  PROVE  Common(x, y) \in Byte
<1> DEFINE bits == [i \in 1..8 |-> Bit(x, i - 1) * Bit(y, i - 1)]
<1>1. ASSUME NEW i \in 1..8 PROVE Bit(x, i - 1) \in {0, 1} /\ Bit(y, i - 1) \in {0, 1}
  BY BitsOf DEF Byte
<1>2. bits \in [1..8 -> {0, 1}]
  BY <1>1
<1> HIDE DEF bits
<1>3. Value(bits) \in Byte
  BY <1>2, ValueIs DEF Byte
<1> QED  BY <1>3 DEF Common, bits

\* A byte is the value of its bits.
LEMMA ByteIsItsBits ==
  ASSUME NEW x \in Byte
  PROVE  Value([j \in 1..8 |-> Bit(x, j - 1)]) = x
<1> DEFINE bits == [j \in 1..8 |-> Bit(x, j - 1)]
<1>1. x \in Nat /\ x < 256
  BY DEF Byte
<1>2. bits \in [1..8 -> {0, 1}]
  <2>1. ASSUME NEW j \in 1..8 PROVE Bit(x, j - 1) \in {0, 1}
    BY <1>1, BitsOf
  <2> QED  BY <2>1
<1>3. ASSUME NEW n \in 0..7
      PROVE  /\ LowBits(x, n + 1) = LowBits(x, n) + (Bit(x, n) * 2 ^ n)
             /\ Bit(x, n) \in {0, 1}
  <2>1. n \in 0..15
    OBVIOUS
  <2> QED  BY <1>1, <2>1, BitsOf
<1>4. /\ LowBits(x, 0) = 0 /\ LowBits(x, 8) = x
  BY <1>1, LowBitsEnds
<1>5. x = Bit(x, 0) + (2 * Bit(x, 1)) + (4 * Bit(x, 2)) + (8 * Bit(x, 3)) + (16 * Bit(x, 4))
            + (32 * Bit(x, 5)) + (64 * Bit(x, 6)) + (128 * Bit(x, 7))
  BY <1>3, <1>4, PowersOfTwo
<1>6. \A j \in 1..8 : bits[j] = Bit(x, j - 1)
  OBVIOUS
<1> HIDE DEF bits
<1>7. Value(bits) = x
  BY <1>2, <1>3, <1>5, <1>6, ValueIs
<1> QED  BY <1>7 DEF bits

(***************************************************************************)
(* What a command does keeps the types.                                    *)
(***************************************************************************)

Held == [high: BOOLEAN, us: Nat]

\* The ranges as inequalities.
LEMMA RangesAre ==
  /\ \A x : x \in Byte <=> x \in Nat /\ x < 256
  /\ \A x : x \in Word <=> x \in Nat /\ x < 65536
  /\ \A x : x \in Pointer <=> x \in Nat /\ x < 4194304
<1>1. ASSUME NEW n \in Nat, NEW x PROVE x \in 0..n <=> x \in Nat /\ x < n + 1
  OBVIOUS
<1>2. ASSUME NEW x PROVE x \in Byte <=> x \in Nat /\ x < 256
  BY SMT DEF Byte
<1> DEFINE w == (2 ^ 16) - 1
           p == (2 ^ 22) - 1
<1>3. w \in Nat /\ w + 1 = 65536 /\ p \in Nat /\ p + 1 = 4194304
  BY PowersOfTwo
<1>4. Word = 0..w /\ Pointer = 0..p
  BY DEF Word, Pointer
<1> HIDE DEF w, p
<1>5. ASSUME NEW x
      PROVE  /\ x \in Word <=> x \in Nat /\ x < w + 1
             /\ x \in Pointer <=> x \in Nat /\ x < p + 1
  BY <1>1, <1>3, <1>4
<1>6. ASSUME NEW x
      PROVE  /\ x \in Word <=> x \in Nat /\ x < 65536
             /\ x \in Pointer <=> x \in Nat /\ x < 4194304
  BY <1>3, <1>5, SMT
<1> QED  BY <1>2, <1>6

\* A banked address is in data memory.
LEMMA BankedAddress ==
  ASSUME NEW b \in 0..15, NEW k \in Nat, k < 256
  PROVE  (256 * b) + k \in DataMemory
<1> DEFINE m == 4095
<1>1. m \in Nat /\ DataMemory = 0..m
  BY DEF DataMemory
<1>2. (256 * b) + k \in Nat /\ (256 * b) + k <= m
  OBVIOUS
<1> HIDE DEF m
<1> QED  BY <1>1, <1>2

\* The flash of the first state.
LEMMA Flash0Typed == Flash0 \in [0..FlashBytes - 1 -> Byte]
<1>1. FlashBytes \in Nat
  BY ChipAssumption
<1> QED  BY <1>1 DEF Flash0, Byte

\* A chip that has been reset.
LEMMA PowerOnTyped == PowerOn \in Registers
<1>1. /\ 0 \in Byte /\ 255 \in Byte /\ 0 \in Pointer /\ 0 \in 0..15
      /\ {} \in SUBSET (Nat \X Word)
  BY RangesAre, SMT
<1>2. Blank \in [0..BlockBytes - 1 -> Byte]
  BY <1>1 DEF Blank
<1> QED  BY <1>1, <1>2, Flash0Typed DEF PowerOn, Registers

\* A table read gives a byte, wherever the pointer is.
LEMMA ReadAtTyped ==
  ASSUME NEW r \in Registers, NEW a
  PROVE  ReadAt(r, a) \in Byte
<1>1. CASE a \in DOMAIN r.flash
  <2>1. r.flash \in [0..FlashBytes - 1 -> Byte]
    BY DEF Registers
  <2>2. r.flash[a] \in Byte
    BY <1>1, <2>1
  <2> QED  BY <1>1, <2>2 DEF ReadAt
<1>2. CASE a \notin DOMAIN r.flash /\ a \in DOMAIN DeviceId
  BY <1>2, SMT DEF ReadAt, DeviceId, Byte
<1>3. CASE a \notin DOMAIN r.flash /\ a \notin DOMAIN DeviceId
  BY <1>3, SMT DEF ReadAt, Byte
<1> QED  BY <1>1, <1>2, <1>3

\* A reading command shifts out a byte.
LEMMA ShiftedOutTyped ==
  ASSUME NEW r \in Registers, NEW cmd
  PROVE  ShiftedOut(r, cmd) \in Byte
<1>1. r.tablat \in Byte
  BY DEF Registers
<1> QED  BY <1>1, ReadAtTyped DEF ShiftedOut

\* A table pointer stays one when a byte of it is loaded.
LEMMA SetByteTyped ==
  ASSUME NEW x \in Pointer, NEW b \in Byte
  PROVE  /\ SetByte(x, 1, b) \in Pointer
         /\ SetByte(x, 256, b) \in Pointer
         /\ SetByte(x, 65536, b % 64) \in Pointer
<1>1. x \in Nat /\ x < 4194304 /\ b \in Nat /\ b < 256
  BY RangesAre
<1>2. ASSUME NEW w \in {1, 256, 65536}, NEW c \in Nat, c < 256, w = 65536 => c < 64
      PROVE  SetByte(x, w, c) \in Nat /\ SetByte(x, w, c) < 4194304
  <2>1. CASE w = 1
    BY <1>1, <1>2, <2>1, SMT DEF SetByte
  <2>2. CASE w = 256
    BY <1>1, <1>2, <2>2, SMT DEF SetByte
  <2>3. CASE w = 65536
    BY <1>1, <1>2, <2>3, SMT DEF SetByte
  <2> QED  BY <2>1, <2>2, <2>3
<1>3. b % 64 \in Nat /\ b % 64 < 64
  BY <1>1
<1> QED  BY <1>1, <1>2, <1>3, RangesAre, SMT

\* A table write keeps the registers what they are.
LEMMA LatchTyped ==
  ASSUME NEW r \in Registers, NEW word \in Word
  PROVE  Latch(r, word) \in Registers
<1>1. word % 256 \in Byte /\ word \div 256 \in Byte
  <2>1. word \in Nat /\ word < 65536
    BY RangesAre
  <2>2. /\ word % 256 \in Nat /\ word % 256 < 256
        /\ word \div 256 \in Nat /\ word \div 256 < 256
    BY <2>1
  <2> QED  BY <2>2, RangesAre
<1>2. ASSUME NEW l \in [0..BlockBytes - 1 -> Byte], NEW o, NEW b \in Byte
      PROVE  [l EXCEPT ![o] = b] \in [0..BlockBytes - 1 -> Byte]
  BY <1>2
<1>3. /\ r.latch \in [0..BlockBytes - 1 -> Byte]
      /\ r.unlock \in SUBSET (Nat \X Word) /\ r.tblptr \in Pointer
  BY DEF Registers
<1>4. <<r.tblptr, word>> \in Nat \X Word
  BY <1>3, RangesAre
<1>5. ASSUME NEW u \in SUBSET (Nat \X Word) PROVE [r EXCEPT !.unlock = u] \in Registers
  BY DEF Registers
<1>6. ASSUME NEW l \in [0..BlockBytes - 1 -> Byte] PROVE [r EXCEPT !.latch = l] \in Registers
  BY DEF Registers
<1> DEFINE o == r.tblptr % BlockBytes
           l == [[r.latch EXCEPT ![o] = word % 256] EXCEPT ![o + 1] = word \div 256]
           u == r.unlock \cup {<<r.tblptr, word>>}
<1>7. l \in [0..BlockBytes - 1 -> Byte]
  BY <1>1, <1>2, <1>3
<1>8. u \in SUBSET (Nat \X Word)
  BY <1>3, <1>4
<1>9. Latch(r, word) = [r EXCEPT !.unlock = u] \/ Latch(r, word) = [r EXCEPT !.latch = l]
  BY SMT DEF Latch
<1> HIDE DEF l, u
<1> QED  BY <1>5, <1>6, <1>7, <1>8, <1>9

\* So do the control bits,
LEMMA ControlTyped ==
  ASSUME NEW r \in Registers, NEW inst
  PROVE  Control(r, inst) \in Registers
<1>1. /\ [r EXCEPT !.wren = TRUE] \in Registers /\ [r EXCEPT !.wren = FALSE] \in Registers
      /\ [r EXCEPT !.free = TRUE] \in Registers
      /\ [r EXCEPT !.armed = IF r.free THEN "row" ELSE r.armed] \in Registers
  BY DEF Registers
<1> QED  BY <1>1, SMT DEF Control

\* a core instruction,
LEMMA CoreTyped ==
  ASSUME NEW r \in Registers, NEW inst \in Word
  PROVE  Core(r, inst) \in Registers
<1> DEFINE k == inst % 256
<1>1. inst \in Nat
  BY RangesAre
<1>2. k \in Nat /\ k < 256 /\ k % 16 \in 0..15
  BY <1>1
<1>3. r.wreg \in Byte /\ r.bsr \in 0..15 /\ r.tblptr \in Pointer
  BY DEF Registers
<1> DEFINE b == Ram[(256 * r.bsr) + k]
<1>4. b \in Byte
  BY <1>2, <1>3, BankedAddress, ChipAssumption
<1>5. k \in Byte
  BY <1>2, RangesAre
<1>6. ASSUME NEW c \in Byte PROVE [r EXCEPT !.wreg = c] \in Registers
  BY DEF Registers
<1>7. ASSUME NEW c \in 0..15 PROVE [r EXCEPT !.bsr = c] \in Registers
  BY DEF Registers
<1>8. ASSUME NEW p \in Pointer PROVE [r EXCEPT !.tblptr = p] \in Registers
  BY DEF Registers
<1>9. [r EXCEPT !.tablat = r.wreg] \in Registers
  BY DEF Registers
<1>10. /\ [r EXCEPT !.tblptr = SetByte(r.tblptr, 65536, r.wreg % 64)] \in Registers
       /\ [r EXCEPT !.tblptr = SetByte(r.tblptr, 256, r.wreg)] \in Registers
       /\ [r EXCEPT !.tblptr = SetByte(r.tblptr, 1, r.wreg)] \in Registers
  BY <1>3, <1>8, SetByteTyped
<1>11. \/ Core(r, inst) = [r EXCEPT !.wreg = k]
       \/ Core(r, inst) = [r EXCEPT !.bsr = k % 16]
       \/ Core(r, inst) = [r EXCEPT !.wreg = b]
       \/ Core(r, inst) = [r EXCEPT !.tblptr = SetByte(r.tblptr, 65536, r.wreg % 64)]
       \/ Core(r, inst) = [r EXCEPT !.tblptr = SetByte(r.tblptr, 256, r.wreg)]
       \/ Core(r, inst) = [r EXCEPT !.tblptr = SetByte(r.tblptr, 1, r.wreg)]
       \/ Core(r, inst) = [r EXCEPT !.tablat = r.wreg]
       \/ Core(r, inst) = Control(r, inst)
  BY SMT DEF Core
<1> HIDE DEF k, b
<1>12. /\ [r EXCEPT !.wreg = k] \in Registers /\ [r EXCEPT !.wreg = b] \in Registers
       /\ [r EXCEPT !.bsr = k % 16] \in Registers
  BY <1>2, <1>4, <1>5, <1>6, <1>7
<1>13. Control(r, inst) \in Registers
  BY ControlTyped
<1> QED  BY <1>9, <1>10, <1>11, <1>12, <1>13

\* an erase or a write,
LEMMA SelfTimedTyped ==
  ASSUME NEW r \in Registers, NEW held
  PROVE  SelfTimed(r, held) \in Registers
<1> DEFINE programmed(a) == Common(r.flash[a], r.latch[a % BlockBytes])
           F == [0..FlashBytes - 1 -> Byte]
           done(f) == [r EXCEPT !.flash = f, !.armed = "none", !.free = FALSE, !.unlock = {},
                                !.latch = Blank]
<1>1. r.flash \in F /\ r.latch \in [0..BlockBytes - 1 -> Byte]
  BY DEF Registers
<1>2. Blank \in [0..BlockBytes - 1 -> Byte] /\ 255 \in Byte
  BY DEF Blank, Byte
<1>3. ASSUME NEW a \in 0..FlashBytes - 1 PROVE programmed(a) \in Byte
  <2>1. a % BlockBytes \in 0..BlockBytes - 1
    BY ChipAssumption
  <2>2. r.flash[a] \in Byte /\ r.latch[a % BlockBytes] \in Byte
    BY <1>1, <2>1
  <2> QED  BY <2>2, CommonTyped
<1> HIDE DEF programmed
<1>4. ASSUME NEW f \in F PROVE done(f) \in Registers
  BY <1>2 DEF Registers
<1> DEFINE written == [a \in DOMAIN r.flash |->
                         IF Within(a, r.tblptr, BlockBytes) THEN programmed(a) ELSE r.flash[a]]
           erased == [a \in DOMAIN r.flash |->
                        IF Within(a, r.tblptr, RowBytes) THEN 255 ELSE r.flash[a]]
           blank == [a \in DOMAIN r.flash |-> 255]
<1>5. written \in F
  BY <1>1, <1>3
<1>6. erased \in F
  BY <1>1, <1>2
<1>7. blank \in F
  BY <1>1, <1>2
<1>8. \/ SelfTimed(r, held) = done(written) \/ SelfTimed(r, held) = done(erased)
      \/ SelfTimed(r, held) = done(blank) \/ SelfTimed(r, held) = r
  BY SMT DEF SelfTimed, programmed
<1> HIDE DEF done, written, erased, blank, F
<1> QED  BY <1>4, <1>5, <1>6, <1>7, <1>8

\* and any command.
LEMMA ExecuteTyped ==
  ASSUME NEW r \in Registers, NEW cmd, NEW word \in Word, NEW held
  PROVE  Execute(r, cmd, word, held) \in Registers
<1>1. ASSUME NEW q \in Registers, NEW n \in Nat
      PROVE  /\ Advance(q.tblptr, n) \in Pointer
             /\ [q EXCEPT !.tblptr = Advance(q.tblptr, n)] \in Registers
  <2>1. q.tblptr \in Pointer
    BY DEF Registers
  <2>2. Advance(q.tblptr, n) \in Pointer
    <3>1. q.tblptr \in Nat
      BY <2>1, RangesAre
    <3>2. Advance(q.tblptr, n) \in Nat /\ Advance(q.tblptr, n) < 4194304
      BY <3>1, PowersOfTwo, SMT DEF Advance
    <3> QED  BY <3>2, RangesAre
  <2>3. ASSUME NEW p \in Pointer PROVE [q EXCEPT !.tblptr = p] \in Registers
    BY DEF Registers
  <2> QED  BY <2>2, <2>3
<1>2. [[r EXCEPT !.tblptr = Advance(r.tblptr, 1)] EXCEPT !.tablat = ReadAt(r, r.tblptr)]
        \in Registers
  <2>1. ASSUME NEW q \in Registers, NEW b \in Byte PROVE [q EXCEPT !.tablat = b] \in Registers
    BY DEF Registers
  <2> QED  BY <1>1, <2>1, ReadAtTyped
<1>3. Latch(r, word) \in Registers
  BY LatchTyped
<1>4. [Latch(r, word) EXCEPT !.armed = "block"] \in Registers
  <2>1. ASSUME NEW q \in Registers PROVE [q EXCEPT !.armed = "block"] \in Registers
    BY DEF Registers
  <2> QED  BY <1>3, <2>1
<1>5. [Latch(r, word) EXCEPT !.tblptr = Advance(Latch(r, word).tblptr, 2)] \in Registers
  BY <1>1, <1>3
<1> QED  BY <1>2, <1>3, <1>4, <1>5, SelfTimedTyped, CoreTyped DEF Execute

(***************************************************************************)
(* The operations of a call, by their position.                            *)
(***************************************************************************)

PinOp == [op: {"write", "output", "input", "sample", "hold"}, pin: Lines, v: Nat]

\* A function on the first m numbers is a list of m operations.
LEMMA ListTyped ==
  ASSUME NEW m \in Nat, NEW f \in [1..m -> PinOp]
  PROVE  f \in Seq(PinOp) /\ Len(f) = m
OBVIOUS

\* Two lists, one after the other: its operations are those of the first, ...
LEMMA ConcatTyped ==
  ASSUME NEW s \in Seq(PinOp), NEW t \in Seq(PinOp)
  PROVE  s \o t \in Seq(PinOp) /\ Len(s \o t) = Len(s) + Len(t)
OBVIOUS

\* ... by the same number, ...
LEMMA ConcatFirst ==
  ASSUME NEW s \in Seq(PinOp), NEW t \in Seq(PinOp), NEW k \in 0..Len(s) - 1
  PROVE  (s \o t)[k + 1] = s[k + 1]
OBVIOUS

\* ... and those of the second, counted on.
LEMMA ConcatSecond ==
  ASSUME NEW s \in Seq(PinOp), NEW t \in Seq(PinOp), NEW j \in 0..Len(t) - 1,
         NEW k \in Nat, k = Len(s) + j
  PROVE  (s \o t)[k + 1] = t[j + 1]
OBVIOUS

\* The operations on the pins.
LEMMA OpsTyped ==
  /\ \A pin \in Lines, v \in Nat : Write(pin, v) \in PinOp
  /\ \A pin \in Lines : Output(pin) \in PinOp /\ Input(pin) \in PinOp
  /\ Sample \in PinOp
  /\ \A us \in Nat : Hold(us) \in PinOp
<1>1. "pgc" \in Lines /\ "pgd" \in Lines
  BY DEF Lines
<1>2. \A pin \in Lines, v \in Nat : Write(pin, v) \in PinOp
  BY DEF Write, PinOp
<1>3. \A pin \in Lines : Output(pin) \in PinOp /\ Input(pin) \in PinOp
  BY DEF Output, Input, PinOp
<1>4. Sample \in PinOp /\ \A us \in Nat : Hold(us) \in PinOp
  BY <1>1 DEF Sample, Hold, PinOp
<1> QED  BY <1>2, <1>3, <1>4

\* The three operations of a clocked bit.
BitOp(bit, k) ==
  IF k % 3 = 0 THEN Write("pgd", bit) ELSE IF k % 3 = 1 THEN Write("pgc", 1) ELSE Write("pgc", 0)

\* One of the three is an operation.
LEMMA BitOpTyped ==
  ASSUME NEW b \in {0, 1}, NEW k
  PROVE  BitOp(b, k) \in PinOp
BY OpsTyped DEF BitOp, Lines

\* The operations of bits clocked out: three for each.
LEMMA ClockBitsIs ==
  ASSUME NEW n \in Nat, NEW bits \in [1..n -> {0, 1}]
  PROVE  /\ ClockBits(bits) \in Seq(PinOp) /\ Len(ClockBits(bits)) = 3 * n
         /\ \A k \in 0..(3 * n) - 1 : ClockBits(bits)[k + 1] = BitOp(bits[(k \div 3) + 1], k)
<1> DEFINE m == 3 * n
           f == [k \in 1..m |-> pic_clock_bit(bits[((k - 1) \div 3) + 1])[((k - 1) % 3) + 1]]
<1>1. m \in Nat /\ Len(bits) = n
  OBVIOUS
<1>2. ClockBits(bits) = f
  BY <1>1 DEF ClockBits
<1>3. ASSUME NEW k \in 0..m - 1
      PROVE  /\ f[k + 1] = BitOp(bits[(k \div 3) + 1], k) /\ bits[(k \div 3) + 1] \in {0, 1}
             /\ f[k + 1] \in PinOp
  <2>1. k + 1 \in 1..m /\ k \in Nat /\ (k + 1) - 1 = k
    BY <1>1
  <2>2. (k \div 3) + 1 \in 1..n
    BY <2>1
  <2>3. bits[(k \div 3) + 1] \in {0, 1}
    BY <2>2
  <2> DEFINE b == bits[(k \div 3) + 1]
  <2>4. f[k + 1] = pic_clock_bit(b)[(k % 3) + 1]
    BY <2>1
  <2>5. k % 3 = 0 \/ k % 3 = 1 \/ k % 3 = 2
    BY <2>1
  <2> HIDE DEF b, f
  <2>6. f[k + 1] = BitOp(b, k)
    <3>1. CASE k % 3 = 0
      BY <2>4, <3>1 DEF pic_clock_bit, BitOp
    <3>2. CASE k % 3 = 1
      BY <2>4, <3>2 DEF pic_clock_bit, BitOp
    <3>3. CASE k % 3 = 2
      BY <2>4, <3>3 DEF pic_clock_bit, BitOp
    <3> QED  BY <2>5, <3>1, <3>2, <3>3
  <2>7. b \in {0, 1}
    BY <2>3 DEF b
  <2>8. f[k + 1] \in PinOp
    BY <2>6, <2>7, BitOpTyped
  <2> QED  BY <2>6, <2>7, <2>8 DEF b
<1>4. \A j \in 1..m : f[j] \in PinOp
  <2>1. ASSUME NEW j \in 1..m PROVE f[j] \in PinOp
    <3>1. PICK k \in 0..m - 1 : k + 1 = j
      <4>1. j - 1 \in 0..m - 1 /\ (j - 1) + 1 = j
        BY <1>1
      <4> QED  BY <4>1
    <3> HIDE DEF f
    <3> QED  BY <1>3, <3>1
  <2> HIDE DEF f
  <2> QED  BY <2>1
<1>5. f \in [1..m -> PinOp]
  <2> DEFINE e(k) == pic_clock_bit(bits[((k - 1) \div 3) + 1])[((k - 1) % 3) + 1]
  <2>1. \A j \in 1..m : f[j] = e(j)
    OBVIOUS
  <2>2. \A j \in 1..m : e(j) \in PinOp
    BY <1>4, <2>1
  <2> HIDE DEF e
  <2>3. [k \in 1..m |-> e(k)] \in [1..m -> PinOp]
    BY <2>2
  <2> QED  BY <2>3 DEF e
<1> HIDE DEF f
<1>6. f \in Seq(PinOp) /\ Len(f) = m
  BY <1>1, <1>5
<1> QED  BY <1>2, <1>3, <1>6

\* Those of a number, least significant bit first.
LEMMA ShiftIs ==
  ASSUME NEW x \in Nat, NEW n \in 0..16
  PROVE  /\ Shift(x, n) \in Seq(PinOp) /\ Len(Shift(x, n)) = 3 * n
         /\ \A k \in 0..(3 * n) - 1 : Shift(x, n)[k + 1] = BitOp(Bit(x, k \div 3), k)
<1> DEFINE bits == [i \in 1..n |-> Bit(x, i - 1)]
<1>1. bits \in [1..n -> {0, 1}]
  <2>1. ASSUME NEW i \in 1..n PROVE Bit(x, i - 1) \in {0, 1}
    <3>1. i - 1 \in 0..15
      OBVIOUS
    <3> QED  BY <3>1, BitsOf
  <2> QED  BY <2>1
<1>2. \A k \in 0..(3 * n) - 1 : bits[(k \div 3) + 1] = Bit(x, k \div 3)
  <2>1. ASSUME NEW k \in 0..(3 * n) - 1 PROVE bits[(k \div 3) + 1] = Bit(x, k \div 3)
    <3>1. (k \div 3) + 1 \in 1..n /\ ((k \div 3) + 1) - 1 = k \div 3
      OBVIOUS
    <3> QED  BY <3>1
  <2> QED  BY <2>1
<1>3. Shift(x, n) = ClockBits(bits) /\ n \in Nat
  BY DEF Shift
<1> HIDE DEF bits
<1> QED  BY <1>1, <1>2, <1>3, ClockBitsIs

\* Lists(s, n, op): the sequence s is the n operations op[0], op[1], ...
Lists(s, n, op) ==
  /\ s \in Seq(PinOp) /\ Len(s) = n
  /\ \A k \in 0..n - 1 : s[k + 1] = op[k]

Join(f, m, g, n) == [k \in 0..n - 1 |-> IF k < m THEN f[k] ELSE g[k - m]]

\* A list of operations by number, of two lists that follow each other.
LEMMA Joined ==
  ASSUME NEW s, NEW t, NEW m \in Nat, NEW n \in Nat, NEW p, p = m + n, NEW f, NEW g,
         Lists(s, m, f), Lists(t, n, g)
  PROVE  Lists(s \o t, p, Join(f, m, g, p))
<1>1. s \in Seq(PinOp) /\ t \in Seq(PinOp) /\ Len(s) = m /\ Len(t) = n
  BY DEF Lists
<1>2. s \o t \in Seq(PinOp) /\ Len(s \o t) = p
  BY <1>1, ConcatTyped
<1>3. ASSUME NEW k \in 0..p - 1 PROVE (s \o t)[k + 1] = IF k < m THEN f[k] ELSE g[k - m]
  <2>1. CASE k < m
    <3>1. k \in 0..m - 1 /\ k \in 0..Len(s) - 1
      BY <1>1, <2>1
    <3>2. (s \o t)[k + 1] = s[k + 1]
      BY <1>1, <3>1, ConcatFirst
    <3> QED  BY <2>1, <3>1, <3>2 DEF Lists
  <2>2. CASE ~(k < m)
    <3>1. PICK j \in 0..n - 1 : k = m + j
      <4>1. k - m \in 0..n - 1 /\ k = m + (k - m)
        BY <2>2
      <4> QED  BY <4>1
    <3>2. j \in 0..Len(t) - 1 /\ k \in Nat /\ k = Len(s) + j /\ k - m = j
      BY <1>1, <3>1
    <3>3. (s \o t)[k + 1] = t[j + 1]
      BY <1>1, <3>2, ConcatSecond
    <3>4. t[j + 1] = g[j]
      BY <3>1 DEF Lists
    <3> QED  BY <2>2, <3>2, <3>3, <3>4
  <2> QED  BY <2>1, <2>2
<1> QED  BY <1>2, <1>3 DEF Lists, Join

\* The numbering may be another that agrees with it.
LEMMA SameList ==
  ASSUME NEW s, NEW n \in Nat, NEW f, NEW g, Lists(s, n, f), \A k \in 0..n - 1 : f[k] = g[k]
  PROVE  Lists(s, n, g)
BY DEF Lists

ShiftOps(x, n) == [k \in 0..n - 1 |-> BitOp(Bit(x, k \div 3), k)]

\* The shifts of three, four and sixteen bits.
LEMMA ShiftLists ==
  ASSUME NEW x \in Nat
  PROVE  /\ Lists(Shift(x, 3), 9, ShiftOps(x, 9)) /\ Lists(Shift(x, 4), 12, ShiftOps(x, 12))
         /\ Lists(Shift(x, 16), 48, ShiftOps(x, 48))
<1>1. ASSUME NEW n \in 0..16, NEW m, m = 3 * n PROVE Lists(Shift(x, n), m, ShiftOps(x, m))
  BY <1>1, ShiftIs DEF Lists, ShiftOps
<1>2. 3 \in 0..16 /\ 4 \in 0..16 /\ 16 \in 0..16 /\ 9 = 3 * 3 /\ 12 = 3 * 4 /\ 48 = 3 * 16
  OBVIOUS
<1> QED  BY <1>1, <1>2

\* What the fields of a command are.
LEMMA JobCallIs ==
  ASSUME NEW c \in JobCalls
  PROVE  /\ c.cmd \in 0..15 /\ c.cmd \in Nat /\ c.word \in Word /\ c.word \in Nat
         /\ c.held \in Held /\ c.held.us \in Nat
         /\ c.fn \in {"word", "read", "prog_nop", "erase_nop"}
         /\ c.fn = "word" => ~Reads(c.cmd) /\ c.held = NotHeld
         /\ c.fn = "read" => Reads(c.cmd) /\ c.word = 0 /\ c.held = NotHeld
         /\ c.fn = "prog_nop" => c.cmd = 0 /\ c.word = 0 /\ c.held.high = TRUE
         /\ c.fn = "erase_nop" => c.cmd = 0 /\ c.word = 0 /\ c.held.high = FALSE
<1>1. /\ c.cmd \in 0..15 /\ c.word \in Word /\ c.held \in Held
      /\ c.fn \in {"word", "read", "prog_nop", "erase_nop"}
  BY DEF JobCalls, Held
<1>2. c.cmd \in Nat /\ c.word \in Nat /\ c.held.us \in Nat
  BY <1>1, RangesAre DEF Held
<1>3. \/ c = core_inst(c.word)
      \/ c.cmd \in {\b1100, \b1101, \b1111} /\ c = tblwt(c.cmd, c.word)
      \/ Reads(c.cmd) /\ c = read(c.cmd)
      \/ c = prog_nop(c.held.us) \/ c = erase_nop(c.held.us)
  BY DEF JobCalls
<1>4. CASE c = core_inst(c.word)
  BY <1>1, <1>2, <1>4 DEF core_inst, Call, Reads
<1>5. CASE c.cmd \in {\b1100, \b1101, \b1111} /\ c = tblwt(c.cmd, c.word)
  BY <1>1, <1>2, <1>5 DEF tblwt, Call, Reads
<1>6. CASE Reads(c.cmd) /\ c = read(c.cmd)
  BY <1>1, <1>2, <1>6 DEF read, Call
<1>7. CASE c = prog_nop(c.held.us)
  BY <1>1, <1>2, <1>7 DEF prog_nop, Call
<1>8. CASE c = erase_nop(c.held.us)
  BY <1>1, <1>2, <1>8 DEF erase_nop, Call
<1> QED  BY <1>3, <1>4, <1>5, <1>6, <1>7, <1>8

ClockOp(c, k) == BitOp(FrameBit(c, k \div 3), k)

WordScript(c) == [k \in 0..59 |-> ClockOp(c, k)]

\* Sixty operations: a command and its operand.
LEMMA WordIs ==
  ASSUME NEW c \in JobCalls, c.fn = "word"
  PROVE  Lists(PinOps(c), 60, WordScript(c))
<1>1. c.cmd \in Nat /\ c.word \in Nat
  BY JobCallIs
<1> DEFINE f == ShiftOps(c.cmd, 12)
           g == ShiftOps(c.word, 48)
<1>2. Lists(Shift(c.cmd, 4), 12, f) /\ Lists(Shift(c.word, 16), 48, g)
  BY <1>1, ShiftLists
<1>3. PinOps(c) = Shift(c.cmd, 4) \o Shift(c.word, 16)
  BY DEF PinOps
<1>4. /\ \A k \in 0..11 : f[k] = BitOp(Bit(c.cmd, k \div 3), k)
      /\ \A k \in 0..47 : g[k] = BitOp(Bit(c.word, k \div 3), k)
  BY DEF ShiftOps
<1> HIDE DEF f, g
<1>5. Lists(PinOps(c), 60, Join(f, 12, g, 60))
  <2>1. 60 = 12 + 48 /\ 12 \in Nat /\ 48 \in Nat
    OBVIOUS
  <2> QED  BY <1>2, <1>3, <2>1, Joined
<1>6. ASSUME NEW k \in 0..59 PROVE Join(f, 12, g, 60)[k] = WordScript(c)[k]
  <2>1. CASE k < 12
    <3>1. k \in 0..11 /\ k \div 3 < 4
      BY <2>1
    <3>2. FrameBit(c, k \div 3) = Bit(c.cmd, k \div 3)
      BY <3>1 DEF FrameBit
    <3>3. Join(f, 12, g, 60)[k] = f[k]
      BY <2>1 DEF Join
    <3> QED  BY <1>4, <3>1, <3>2, <3>3 DEF WordScript, ClockOp
  <2>2. CASE ~(k < 12)
    <3>1. PICK j \in 0..47 : k = 12 + j
      <4>1. k - 12 \in 0..47 /\ k = 12 + (k - 12)
        BY <2>2
      <4> QED  BY <4>1
    <3>2. /\ k \div 3 = (j \div 3) + 4 /\ k % 3 = j % 3 /\ ~(k \div 3 < 4)
          /\ (k \div 3) - 4 = j \div 3 /\ k - 12 = j
      BY <3>1
    <3>3. Join(f, 12, g, 60)[k] = g[j]
      BY <2>2, <3>2 DEF Join
    <3>4. BitOp(Bit(c.word, j \div 3), j) = BitOp(FrameBit(c, k \div 3), k)
      BY <3>2 DEF FrameBit, BitOp
    <3> QED  BY <1>4, <3>3, <3>4 DEF WordScript, ClockOp
  <2> QED  BY <2>1, <2>2
<1> QED  BY <1>5, <1>6, SameList

\* Zero has no bits.
LEMMA ZeroBit ==
  ASSUME NEW n \in 0..15
  PROVE  Bit(0, n) = 0
BY BitsOf

\* A program or erase command is a NOP: twenty bits of zero.
LEMMA ZeroOps ==
  ASSUME NEW c, c.cmd = 0, c.word = 0
  PROVE  /\ \A k \in 0..59 : ClockOp(c, k) = BitOp(0, k)
         /\ \A n \in {9, 12, 48} : \A k \in 0..n - 1 : ShiftOps(0, n)[k] = BitOp(0, k)
<1>1. ASSUME NEW k \in 0..59 PROVE FrameBit(c, k \div 3) = 0
  <2>1. CASE k \div 3 < 4
    <3>1. k \div 3 \in 0..15
      BY <2>1
    <3> QED  BY <2>1, <3>1, ZeroBit DEF FrameBit
  <2>2. CASE ~(k \div 3 < 4)
    <3>1. (k \div 3) - 4 \in 0..15
      BY <2>2
    <3>2. FrameBit(c, k \div 3) = Bit(0, (k \div 3) - 4)
      BY <2>2 DEF FrameBit
    <3> QED  BY <3>1, <3>2, ZeroBit
  <2> QED  BY <2>1, <2>2
<1>2. ASSUME NEW n \in {9, 12, 48}, NEW k \in 0..n - 1 PROVE ShiftOps(0, n)[k] = BitOp(0, k)
  <2>1. k \div 3 \in 0..15
    OBVIOUS
  <2>2. Bit(0, k \div 3) = 0
    BY <2>1, ZeroBit
  <2> QED  BY <2>2 DEF ShiftOps
<1> QED  BY <1>1, <1>2 DEF ClockOp

ProgScript(c) ==
  [k \in 0..60 |-> IF k < 11 THEN ClockOp(c, k) ELSE IF k = 11 THEN Hold(c.held.us)
                   ELSE ClockOp(c, k - 1)]

\* Sixty-one: pic_icsp_prog_nop holds the clock high after the fourth bit.
LEMMA ProgIs ==
  ASSUME NEW c \in JobCalls, c.fn = "prog_nop"
  PROVE  Lists(PinOps(c), 61, ProgScript(c))
<1> DEFINE us == c.held.us
           b == <<Write("pgd", 0), Write("pgc", 1), Hold(us), Write("pgc", 0)>>
           f == ShiftOps(0, 9)
           g == [j \in 0..3 |-> b[j + 1]]
           h == ShiftOps(0, 48)
           fg == Join(f, 9, g, 13)
           fgh == Join(fg, 13, h, 61)
<1>1. c.cmd = 0 /\ c.word = 0 /\ us \in Nat
  BY JobCallIs
<1>2. Lists(Shift(0, 3), 9, f) /\ Lists(Shift(0, 16), 48, h)
  BY ShiftLists
<1>3. Lists(b, 4, g)
  <2>1. b \in Seq(PinOp) /\ Len(b) = 4
    BY <1>1, OpsTyped DEF Lines
  <2> HIDE DEF b
  <2> QED  BY <2>1 DEF Lists
<1>4. PinOps(c) = (Shift(0, 3) \o b) \o Shift(0, 16)
  BY DEF PinOps, pic_icsp_prog_nop
<1>5. /\ g[0] = BitOp(0, 9) /\ g[1] = BitOp(0, 10) /\ g[2] = Hold(us) /\ g[3] = BitOp(0, 11)
  BY DEF BitOp
<1>6. /\ \A k \in 0..8 : f[k] = BitOp(0, k)
      /\ \A k \in 0..47 : h[k] = BitOp(0, k)
  BY <1>1, ZeroOps
<1>7. \A k \in 0..59 : ClockOp(c, k) = BitOp(0, k)
  BY <1>1, ZeroOps
<1> HIDE DEF b, f, g, h, us
<1>8. Lists(Shift(0, 3) \o b, 13, fg)
  <2>1. 13 = 9 + 4 /\ 9 \in Nat /\ 4 \in Nat
    OBVIOUS
  <2> QED  BY <1>2, <1>3, <2>1, Joined
<1> HIDE DEF fg
<1>9. Lists(PinOps(c), 61, fgh)
  <2>1. 61 = 13 + 48 /\ 13 \in Nat /\ 48 \in Nat
    OBVIOUS
  <2> QED  BY <1>2, <1>4, <1>8, <2>1, Joined
<1>10. ASSUME NEW k \in 0..60 PROVE fgh[k] = ProgScript(c)[k]
  <2>1. CASE k < 9
    <3>1. k \in 0..8 /\ k \in 0..59 /\ k < 11 /\ k < 13
      BY <2>1
    <3>2. fgh[k] = f[k]
      BY <2>1, <3>1 DEF Join, fg
    <3>3. ProgScript(c)[k] = ClockOp(c, k)
      BY <3>1 DEF ProgScript
    <3> QED  BY <1>6, <1>7, <3>1, <3>2, <3>3
  <2>2. CASE k \in {9, 10, 11, 12}
    <3>1. fgh[k] = g[k - 9]
      BY <2>2 DEF Join, fg
    <3>2. ProgScript(c)[k] = IF k < 11 THEN ClockOp(c, k) ELSE IF k = 11 THEN Hold(us)
                             ELSE ClockOp(c, k - 1)
      BY DEF ProgScript, us
    <3>3. ClockOp(c, 9) = BitOp(0, 9) /\ ClockOp(c, 10) = BitOp(0, 10) /\ ClockOp(c, 11) = BitOp(0, 11)
      BY <1>7
    <3> QED  BY <1>5, <2>2, <3>1, <3>2, <3>3
  <2>3. CASE k >= 13
    <3>1. PICK j \in 0..47 : k = 13 + j
      <4>1. k - 13 \in 0..47 /\ k = 13 + (k - 13)
        BY <2>3
      <4> QED  BY <4>1
    <3>2. fgh[k] = h[j]
      <4>1. k - 13 = j /\ ~(k < 13)
        BY <3>1
      <4> QED  BY <4>1 DEF Join
    <3>3. ProgScript(c)[k] = ClockOp(c, 12 + j)
      <4>1. k - 1 = 12 + j /\ ~(k < 11) /\ k # 11
        BY <3>1
      <4> QED  BY <4>1 DEF ProgScript
    <3>4. BitOp(0, 12 + j) = BitOp(0, j) /\ 12 + j \in 0..59
      BY DEF BitOp
    <3> QED  BY <1>6, <1>7, <3>2, <3>3, <3>4
  <2> QED  BY <2>1, <2>2, <2>3
<1> HIDE DEF fgh
<1> QED  BY <1>9, <1>10, SameList

EraseScript(c) ==
  [k \in 0..61 |-> IF k < 12 THEN ClockOp(c, k)
                   ELSE IF k = 12 THEN Write("pgd", 0) ELSE IF k = 13 THEN Hold(c.held.us)
                   ELSE ClockOp(c, k - 2)]

\* Sixty-two: pic_icsp_erase_nop holds it low.
LEMMA EraseIs ==
  ASSUME NEW c \in JobCalls, c.fn = "erase_nop"
  PROVE  Lists(PinOps(c), 62, EraseScript(c))
<1> DEFINE us == c.held.us
           b == <<Write("pgd", 0), Hold(us)>>
           f == ShiftOps(0, 12)
           g == [j \in 0..1 |-> b[j + 1]]
           h == ShiftOps(0, 48)
           fg == Join(f, 12, g, 14)
           fgh == Join(fg, 14, h, 62)
<1>1. c.cmd = 0 /\ c.word = 0 /\ us \in Nat
  BY JobCallIs
<1>2. Lists(Shift(0, 4), 12, f) /\ Lists(Shift(0, 16), 48, h)
  BY ShiftLists
<1>3. Lists(b, 2, g)
  <2>1. b \in Seq(PinOp) /\ Len(b) = 2
    BY <1>1, OpsTyped DEF Lines
  <2> HIDE DEF b
  <2> QED  BY <2>1 DEF Lists
<1>4. PinOps(c) = (Shift(0, 4) \o b) \o Shift(0, 16)
  BY DEF PinOps, pic_icsp_erase_nop
<1>5. g[0] = Write("pgd", 0) /\ g[1] = Hold(us)
  OBVIOUS
<1>6. /\ \A k \in 0..11 : f[k] = BitOp(0, k)
      /\ \A k \in 0..47 : h[k] = BitOp(0, k)
  BY <1>1, ZeroOps
<1>7. \A k \in 0..59 : ClockOp(c, k) = BitOp(0, k)
  BY <1>1, ZeroOps
<1> HIDE DEF b, f, g, h, us
<1>8. Lists(Shift(0, 4) \o b, 14, fg)
  <2>1. 14 = 12 + 2 /\ 12 \in Nat /\ 2 \in Nat
    OBVIOUS
  <2> QED  BY <1>2, <1>3, <2>1, Joined
<1> HIDE DEF fg
<1>9. Lists(PinOps(c), 62, fgh)
  <2>1. 62 = 14 + 48 /\ 14 \in Nat /\ 48 \in Nat
    OBVIOUS
  <2> QED  BY <1>2, <1>4, <1>8, <2>1, Joined
<1>10. ASSUME NEW k \in 0..61 PROVE fgh[k] = EraseScript(c)[k]
  <2>1. CASE k < 12
    <3>1. k \in 0..11 /\ k \in 0..59 /\ k < 14
      BY <2>1
    <3>2. fgh[k] = f[k]
      BY <2>1, <3>1 DEF Join, fg
    <3>3. EraseScript(c)[k] = ClockOp(c, k)
      BY <2>1 DEF EraseScript
    <3> QED  BY <1>6, <1>7, <3>1, <3>2, <3>3
  <2>2. CASE k \in {12, 13}
    <3>1. fgh[k] = g[k - 12]
      BY <2>2 DEF Join, fg
    <3>2. EraseScript(c)[k] = IF k = 12 THEN Write("pgd", 0) ELSE Hold(us)
      BY <2>2 DEF EraseScript, us
    <3> QED  BY <1>5, <2>2, <3>1, <3>2
  <2>3. CASE k >= 14
    <3>1. PICK j \in 0..47 : k = 14 + j
      <4>1. k - 14 \in 0..47 /\ k = 14 + (k - 14)
        BY <2>3
      <4> QED  BY <4>1
    <3>2. fgh[k] = h[j]
      <4>1. k - 14 = j /\ ~(k < 14)
        BY <3>1
      <4> QED  BY <4>1 DEF Join
    <3>3. EraseScript(c)[k] = ClockOp(c, 12 + j)
      <4>1. k - 2 = 12 + j /\ ~(k < 12) /\ k # 12 /\ k # 13
        BY <3>1
      <4> QED  BY <4>1 DEF EraseScript
    <3>4. BitOp(0, 12 + j) = BitOp(0, j) /\ 12 + j \in 0..59
      BY DEF BitOp
    <3> QED  BY <1>6, <1>7, <3>2, <3>3, <3>4
  <2> QED  BY <2>1, <2>2, <2>3
<1> HIDE DEF fgh
<1> QED  BY <1>9, <1>10, SameList

\* The operand window of a reading command.
WindowScript ==
  [k \in 0..43 |->
     IF k = 0 THEN Write("pgd", 0)
     ELSE IF k <= 16 THEN (IF (k - 1) % 2 = 0 THEN Write("pgc", 1) ELSE Write("pgc", 0))
     ELSE IF k = 17 THEN Input("pgd")
     ELSE IF k <= 41
     THEN (IF (k - 18) % 3 = 0 THEN Write("pgc", 1)
           ELSE IF (k - 18) % 3 = 1 THEN Sample ELSE Write("pgc", 0))
     ELSE IF k = 42 THEN Output("pgd") ELSE Write("pgd", 0)]

\* The operand window of a reading command.
LEMMA WindowIs == Lists(Window, 44, WindowScript)
<1> DEFINE s2 == <<Write("pgc", 1), Write("pgc", 0)>>
           s3 == <<Write("pgc", 1), Sample, Write("pgc", 0)>>
           a == <<Write("pgd", 0)>>
           b == Repeat(8, s2)
           d == <<Input("pgd")>>
           e == Repeat(8, s3)
           z == <<Output("pgd"), Write("pgd", 0)>>
           fa == [j \in 0..0 |-> Write("pgd", 0)]
           fb == [j \in 0..15 |-> IF j % 2 = 0 THEN Write("pgc", 1) ELSE Write("pgc", 0)]
           fd == [j \in 0..0 |-> Input("pgd")]
           fe == [j \in 0..23 |-> IF j % 3 = 0 THEN Write("pgc", 1)
                                  ELSE IF j % 3 = 1 THEN Sample ELSE Write("pgc", 0)]
           fz == [j \in 0..1 |-> IF j = 0 THEN Output("pgd") ELSE Write("pgd", 0)]
           f1 == Join(fa, 1, fb, 17)
           f2 == Join(f1, 17, fd, 18)
           f3 == Join(f2, 18, fe, 42)
           f4 == Join(f3, 42, fz, 44)
<1>1. /\ Write("pgd", 0) \in PinOp /\ Write("pgc", 0) \in PinOp /\ Write("pgc", 1) \in PinOp
      /\ Sample \in PinOp /\ Input("pgd") \in PinOp /\ Output("pgd") \in PinOp
  BY OpsTyped DEF Lines
<1>2. Lists(a, 1, fa) /\ Lists(d, 1, fd)
  BY <1>1 DEF Lists
<1>3. Lists(z, 2, fz)
  BY <1>1 DEF Lists
<1>4. Lists(b, 16, fb)
  <2>1. b = [k \in 1..16 |-> s2[((k - 1) % 2) + 1]]
    BY DEF Repeat
  <2>2. ASSUME NEW j \in 0..15 PROVE b[j + 1] = fb[j] /\ fb[j] \in PinOp
    BY <1>1, <2>1
  <2>3. ASSUME NEW k \in 1..16 PROVE b[k] \in PinOp
    <3>1. PICK j \in 0..15 : k = j + 1
      <4>1. k - 1 \in 0..15 /\ k = (k - 1) + 1
        OBVIOUS
      <4> QED  BY <4>1
    <3> HIDE DEF b, fb
    <3> QED  BY <2>2, <3>1
  <2> HIDE DEF fb, s2
  <2>4. b \in [1..16 -> PinOp]
    BY <2>1, <2>3
  <2> HIDE DEF b
  <2>5. b \in Seq(PinOp) /\ Len(b) = 16
    <3> DEFINE m == 16
    <3>1. m \in Nat /\ b \in [1..m -> PinOp]
      BY <2>4
    <3> HIDE DEF m
    <3>2. b \in Seq(PinOp) /\ Len(b) = m
      BY <3>1, ListTyped
    <3> QED  BY <3>2 DEF m
  <2> QED  BY <2>2, <2>5 DEF Lists
<1>5. Lists(e, 24, fe)
  <2>1. e = [k \in 1..24 |-> s3[((k - 1) % 3) + 1]]
    BY DEF Repeat
  <2>2. ASSUME NEW j \in 0..23 PROVE e[j + 1] = fe[j] /\ fe[j] \in PinOp
    BY <1>1, <2>1
  <2>3. ASSUME NEW k \in 1..24 PROVE e[k] \in PinOp
    <3>1. PICK j \in 0..23 : k = j + 1
      <4>1. k - 1 \in 0..23 /\ k = (k - 1) + 1
        OBVIOUS
      <4> QED  BY <4>1
    <3> HIDE DEF e, fe
    <3> QED  BY <2>2, <3>1
  <2> HIDE DEF fe, s3
  <2>4. e \in [1..24 -> PinOp]
    BY <2>1, <2>3
  <2> HIDE DEF e
  <2>5. e \in Seq(PinOp) /\ Len(e) = 24
    <3> DEFINE m == 24
    <3>1. m \in Nat /\ e \in [1..m -> PinOp]
      BY <2>4
    <3> HIDE DEF m
    <3>2. e \in Seq(PinOp) /\ Len(e) = m
      BY <3>1, ListTyped
    <3> QED  BY <3>2 DEF m
  <2> QED  BY <2>2, <2>5 DEF Lists
<1>6. Window = (((a \o b) \o d) \o e) \o z
  BY DEF Window
<1> HIDE DEF a, b, d, e, z
<1>7. /\ 17 = 1 + 16 /\ 18 = 17 + 1 /\ 42 = 18 + 24 /\ 44 = 42 + 2
      /\ 1 \in Nat /\ 2 \in Nat /\ 16 \in Nat /\ 17 \in Nat /\ 18 \in Nat /\ 24 \in Nat /\ 42 \in Nat
  OBVIOUS
<1> HIDE DEF fa, fb, fd, fe, fz
<1>8. Lists(a \o b, 17, f1)
  BY <1>2, <1>4, <1>7, Joined
<1> HIDE DEF f1
<1>9. Lists((a \o b) \o d, 18, f2)
  BY <1>2, <1>7, <1>8, Joined
<1> HIDE DEF f2
<1>10. Lists(((a \o b) \o d) \o e, 42, f3)
  BY <1>5, <1>7, <1>9, Joined
<1> HIDE DEF f3
<1>11. Lists(Window, 44, f4)
  BY <1>3, <1>6, <1>7, <1>10, Joined
<1>12. ASSUME NEW k \in 0..43 PROVE f4[k] = WindowScript[k]
  <2>1. CASE k = 0
    BY <2>1 DEF WindowScript, f3, f2, f1, fa, Join
  <2>2. CASE k \in 1..16
    <3>1. f4[k] = fb[k - 1]
      BY <2>2 DEF f3, f2, f1, Join
    <3> QED  BY <2>2, <3>1 DEF WindowScript, fb
  <2>3. CASE k = 17
    BY <2>3 DEF WindowScript, f3, f2, fd, Join
  <2>4. CASE k \in 18..41
    <3>1. f4[k] = fe[k - 18]
      BY <2>4 DEF f3, Join
    <3> QED  BY <2>4, <3>1 DEF WindowScript, fe
  <2>5. CASE k \in 42..43
    <3>1. f4[k] = fz[k - 42]
      BY <2>5 DEF Join
    <3> QED  BY <2>5, <3>1 DEF WindowScript, fz
  <2> QED  BY <2>1, <2>2, <2>3, <2>4, <2>5
<1> HIDE DEF f4
<1> QED  BY <1>11, <1>12, SameList

ReadScript(c) == [k \in 0..55 |-> IF k < 12 THEN ClockOp(c, k) ELSE WindowScript[k - 12]]

\* Fifty-six: a reading command.
LEMMA ReadIs ==
  ASSUME NEW c \in JobCalls, c.fn = "read"
  PROVE  Lists(PinOps(c), 56, ReadScript(c))
<1> DEFINE f == ShiftOps(c.cmd, 12)
<1>1. c.cmd \in Nat
  BY JobCallIs
<1>2. Lists(Shift(c.cmd, 4), 12, f) /\ Lists(Window, 44, WindowScript)
  BY <1>1, ShiftLists, WindowIs
<1>3. PinOps(c) = Shift(c.cmd, 4) \o Window
  BY DEF PinOps
<1>4. \A k \in 0..11 : f[k] = ClockOp(c, k)
  <2>1. ASSUME NEW k \in 0..11 PROVE f[k] = ClockOp(c, k)
    <3>1. k \div 3 < 4
      OBVIOUS
    <3> QED  BY <3>1 DEF ShiftOps, ClockOp, FrameBit
  <2> QED  BY <2>1
<1> HIDE DEF f
<1>5. Lists(PinOps(c), 56, Join(f, 12, WindowScript, 56))
  <2>1. 56 = 12 + 44 /\ 12 \in Nat /\ 44 \in Nat
    OBVIOUS
  <2> QED  BY <1>2, <1>3, <2>1, Joined
<1>6. \A k \in 0..55 : Join(f, 12, WindowScript, 56)[k] = ReadScript(c)[k]
  BY <1>4 DEF Join, ReadScript
<1> QED  BY <1>5, <1>6, SameList

\* The key is 32 bits.
LEMMA EntryKeyTyped == EntryKey \in [1..32 -> {0, 1}]
<1>1. ASSUME NEW i \in 1..16 PROVE Bit(\h4D43, 16 - i) \in {0, 1}
  <2>1. 16 - i \in 0..15 /\ \h4D43 \in Nat
    OBVIOUS
  <2> QED  BY <2>1, BitsOf
<1>2. ASSUME NEW i \in 17..32 PROVE Bit(\h4850, 32 - i) \in {0, 1}
  <2>1. 32 - i \in 0..15 /\ \h4850 \in Nat
    OBVIOUS
  <2> QED  BY <2>1, BitsOf
<1>3. ASSUME NEW i \in 1..32
      PROVE  (IF i <= 16 THEN Bit(\h4D43, 16 - i) ELSE Bit(\h4850, 32 - i)) \in {0, 1}
  <2>1. CASE i <= 16
    <3>1. i \in 1..16
      BY <2>1
    <3> QED  BY <1>1, <2>1, <3>1
  <2>2. CASE ~(i <= 16)
    <3>1. i \in 17..32
      BY <2>2
    <3> QED  BY <1>2, <2>2, <3>1
  <2> QED  BY <2>1, <2>2
<1> QED  BY <1>3 DEF EntryKey

\* The three calls that make a session.
InitScript ==
  [k \in 0..5 |->
     IF k = 0 THEN Output("pgc") ELSE IF k = 1 THEN Output("pgd") ELSE IF k = 2 THEN Output("mclr")
     ELSE IF k = 3 THEN Write("pgc", 0) ELSE IF k = 4 THEN Write("pgd", 0) ELSE Write("mclr", 0)]

ExitScript ==
  [k \in 0..3 |->
     IF k = 0 THEN Write("mclr", 0) ELSE IF k = 1 THEN Input("pgc")
     ELSE IF k = 2 THEN Input("pgd") ELSE Input("mclr")]

EnterScript ==
  [k \in 0..101 |->
     IF k = 0 THEN Write("pgc", 0) ELSE IF k = 1 THEN Write("pgd", 0)
     ELSE IF k = 2 THEN Write("mclr", 1) ELSE IF k = 3 THEN Write("mclr", 0)
     ELSE IF k < 100 THEN BitOp(EntryKey[((k - 4) \div 3) + 1], k - 4)
     ELSE IF k = 100 THEN Write("pgd", 0) ELSE Write("mclr", 1)]

\* The calls that make a session are those three functions.
LEMMA SessionCallsAre ==
  /\ Session("init").fn = "init" /\ Session("enter").fn = "enter" /\ Session("exit").fn = "exit"
  /\ PinOps(Session("init")) = pic_icsp_init /\ PinOps(Session("enter")) = pic_icsp_enter
  /\ PinOps(Session("exit")) = pic_icsp_exit
BY DEF Session, Call, PinOps

\* The operations of pic_icsp_init,
LEMMA InitIs == Lists(PinOps(Session("init")), 6, InitScript)
<1>1. pic_icsp_init \in Seq(PinOp) /\ Len(pic_icsp_init) = 6
  BY OpsTyped DEF pic_icsp_init, Lines
<1>2. ASSUME NEW k \in 0..5 PROVE pic_icsp_init[k + 1] = InitScript[k]
  BY DEF pic_icsp_init, InitScript
<1> QED  BY <1>1, <1>2, SessionCallsAre DEF Lists

\* of pic_icsp_exit,
LEMMA ExitIs == Lists(PinOps(Session("exit")), 4, ExitScript)
<1>1. pic_icsp_exit \in Seq(PinOp) /\ Len(pic_icsp_exit) = 4
  BY OpsTyped DEF pic_icsp_exit, Lines
<1>2. ASSUME NEW k \in 0..3 PROVE pic_icsp_exit[k + 1] = ExitScript[k]
  BY DEF pic_icsp_exit, ExitScript
<1> QED  BY <1>1, <1>2, SessionCallsAre DEF Lists

\* and of pic_icsp_enter.
LEMMA EnterIs == Lists(PinOps(Session("enter")), 102, EnterScript)
<1> DEFINE a == <<Write("pgc", 0), Write("pgd", 0), Write("mclr", 1), Write("mclr", 0)>>
           z == <<Write("pgd", 0), Write("mclr", 1)>>
           fa == [j \in 0..3 |->
                    IF j = 0 THEN Write("pgc", 0) ELSE IF j = 1 THEN Write("pgd", 0)
                    ELSE IF j = 2 THEN Write("mclr", 1) ELSE Write("mclr", 0)]
           fb == [j \in 0..95 |-> BitOp(EntryKey[(j \div 3) + 1], j)]
           fz == [j \in 0..1 |-> IF j = 0 THEN Write("pgd", 0) ELSE Write("mclr", 1)]
           f1 == Join(fa, 4, fb, 100)
           f2 == Join(f1, 100, fz, 102)
<1>1. Lists(a, 4, fa)
  BY OpsTyped DEF Lists, Lines
<1>2. Lists(z, 2, fz)
  BY OpsTyped DEF Lists, Lines
<1>3. Lists(ClockBits(EntryKey), 96, fb)
  <2> DEFINE n == 32
  <2>1. n \in Nat /\ EntryKey \in [1..n -> {0, 1}]
    BY EntryKeyTyped
  <2> HIDE DEF n
  <2>2. /\ ClockBits(EntryKey) \in Seq(PinOp) /\ Len(ClockBits(EntryKey)) = 3 * n
        /\ \A k \in 0..(3 * n) - 1 : ClockBits(EntryKey)[k + 1] = BitOp(EntryKey[(k \div 3) + 1], k)
    BY <2>1, ClockBitsIs
  <2>3. 3 * n = 96
    BY DEF n
  <2>4. \A k \in 0..95 : ClockBits(EntryKey)[k + 1] = BitOp(EntryKey[(k \div 3) + 1], k)
    BY <2>2, <2>3
  <2>5. \A k \in 0..95 : fb[k] = BitOp(EntryKey[(k \div 3) + 1], k)
    OBVIOUS
  <2> HIDE DEF fb
  <2> QED  BY <2>2, <2>3, <2>4, <2>5 DEF Lists
<1>4. PinOps(Session("enter")) = (a \o ClockBits(EntryKey)) \o z
  BY SessionCallsAre DEF pic_icsp_enter
<1> HIDE DEF a, z, fa, fb, fz
<1>5. Lists(a \o ClockBits(EntryKey), 100, f1)
  <2>1. 100 = 4 + 96 /\ 4 \in Nat /\ 96 \in Nat
    OBVIOUS
  <2> QED  BY <1>1, <1>3, <2>1, Joined
<1> HIDE DEF f1
<1>6. Lists(PinOps(Session("enter")), 102, f2)
  <2>1. 102 = 100 + 2 /\ 100 \in Nat /\ 2 \in Nat
    OBVIOUS
  <2>2. Lists((a \o ClockBits(EntryKey)) \o z, 102, f2)
    BY <1>2, <1>5, <2>1, Joined
  <2> QED  BY <1>4, <2>2
<1>7. ASSUME NEW k \in 0..101 PROVE f2[k] = EnterScript[k]
  <2>1. CASE k < 4
    <3>1. f2[k] = fa[k]
      BY <2>1 DEF f1, Join
    <3> QED  BY <2>1, <3>1 DEF fa, EnterScript
  <2>2. CASE k \in 4..99
    <3>1. f2[k] = fb[k - 4]
      BY <2>2 DEF f1, Join
    <3> QED  BY <2>2, <3>1 DEF fb, EnterScript
  <2>3. CASE k \in 100..101
    <3>1. f2[k] = fz[k - 100]
      BY <2>3 DEF Join
    <3> QED  BY <2>3, <3>1 DEF fz, EnterScript
  <2> QED  BY <2>1, <2>2, <2>3
<1> HIDE DEF f2
<1> QED  BY <1>6, <1>7, SameList

\* The tail of a list of operations.
LEMMA TailIs ==
  ASSUME NEW q \in Seq(PinOp)
  PROVE  /\ q = <<>> <=> Len(q) = 0
         /\ q # <<>> => Tail(q) = [j \in 1..Len(q) - 1 |-> q[j + 1]]
<1>1. q = <<>> <=> Len(q) = 0
  BY EmptySeq
<1>2. ASSUME q # <<>> PROVE Tail(q) = [j \in 1..Len(q) - 1 |-> q[j + 1]]
  <2>1. /\ Tail(q) \in Seq(PinOp) /\ Len(Tail(q)) = Len(q) - 1
        /\ \A j \in 1..Len(Tail(q)) : Tail(q)[j] = q[j + 1]
    BY <1>2, HeadTailProperties
  <2> DEFINE t == Tail(q)
             m == Len(q) - 1
  <2>2. t \in Seq(PinOp) /\ Len(t) = m /\ \A j \in 1..m : t[j] = q[j + 1]
    BY <2>1
  <2> HIDE DEF t, m
  <2>3. t = [j \in 1..m |-> q[j + 1]]
    <3>1. t = [j \in 1..m |-> t[j]]
      BY <2>2
    <3> QED  BY <2>2, <3>1
  <2> QED  BY <2>3 DEF t, m
<1> QED  BY <1>1, <1>2

\* What is left of a list shrinks from its head.
LEMMA AfterIs ==
  ASSUME NEW s \in Seq(PinOp), NEW k \in 0..Len(s)
  PROVE  /\ After(s, 0) = s
         /\ After(s, k) = <<>> <=> k = Len(s)
         /\ k < Len(s) => Head(After(s, k)) = s[k + 1] /\ Tail(After(s, k)) = After(s, k + 1)
<1> DEFINE n == Len(s)
<1>1. n \in Nat /\ s \in [1..n -> PinOp]
  OBVIOUS
<1>2. After(s, 0) = s
  BY <1>1 DEF After
<1>3. After(s, k) \in Seq(PinOp) /\ Len(After(s, k)) = n - k
  <2>1. n - k \in Nat
    BY <1>1
  <2>2. \A j \in 1..n - k : k + j \in 1..n /\ s[k + j] \in PinOp
    BY <1>1
  <2>3. After(s, k) \in [1..n - k -> PinOp]
    BY <2>2 DEF After
  <2> HIDE DEF n
  <2> QED  BY <2>1, <2>3
<1> DEFINE q == After(s, k)
<1>4. q = <<>> <=> k = n
  <2> HIDE DEF q
  <2>1. q \in Seq(PinOp) /\ Len(q) = n - k
    BY <1>3 DEF q
  <2>2. q = <<>> <=> Len(q) = 0
    BY <2>1, TailIs
  <2>3. k \in Nat
    OBVIOUS
  <2> HIDE DEF n
  <2>4. n - k = 0 <=> k = n
    BY <1>1, <2>3
  <2> QED  BY <2>1, <2>2, <2>4
<1>5. ASSUME k < n
      PROVE  Head(After(s, k)) = s[k + 1] /\ Tail(After(s, k)) = After(s, k + 1)
  <2>1. Head(After(s, k)) = s[k + 1]
    BY <1>1, <1>5 DEF After
  <2>2. Tail(q) = [j \in 1..(n - k) - 1 |-> q[j + 1]]
    <3>1. q \in Seq(PinOp) /\ Len(q) = n - k /\ q # <<>>
      BY <1>3, <1>4, <1>5
    <3> HIDE DEF q, n
    <3>2. Tail(q) = [j \in 1..Len(q) - 1 |-> q[j + 1]]
      BY <3>1, TailIs
    <3> QED  BY <3>1, <3>2
  <2>3. n - (k + 1) = (n - k) - 1
    BY <1>1
  <2>4. \A j \in 1..(n - k) - 1 : After(s, k)[j + 1] = s[(k + 1) + j]
    <3>1. ASSUME NEW j \in 1..(n - k) - 1 PROVE After(s, k)[j + 1] = s[(k + 1) + j]
      <4>1. j + 1 \in 1..n - k /\ k + (j + 1) = (k + 1) + j
        BY <1>1
      <4> QED  BY <4>1 DEF After
    <3> QED  BY <3>1
  <2>5. After(s, k + 1) = [j \in 1..(n - k) - 1 |-> s[(k + 1) + j]]
    BY <2>3 DEF After
  <2> DEFINE m == (n - k) - 1
  <2> HIDE DEF m
  <2>6. Tail(q) = After(s, k + 1)
    BY <2>2, <2>4, <2>5
  <2> QED  BY <2>1, <2>6
<1> QED  BY <1>2, <1>4, <1>5

(***************************************************************************)
(* Every operation of a command takes it to its next mark.                 *)
(***************************************************************************)

\* A clocked bit is a bit.
LEMMA FrameBitTyped ==
  ASSUME NEW c \in JobCalls, NEW i \in 0..19
  PROVE  FrameBit(c, i) \in {0, 1}
<1>1. c.cmd \in Nat /\ c.word \in Nat
  BY JobCallIs
<1>2. CASE i < 4
  <2>1. i \in 0..15
    BY <1>2
  <2> QED  BY <1>1, <1>2, <2>1, BitsOf DEF FrameBit
<1>3. CASE ~(i < 4)
  <2>1. i - 4 \in 0..15
    BY <1>3
  <2> QED  BY <1>1, <1>3, <2>1, BitsOf DEF FrameBit
<1> QED  BY <1>2, <1>3

\* An operation of a clocked bit leads to the next mark,
LEMMA BitLeads ==
  ASSUME NEW c \in JobCalls, NEW k \in 0..59, NEW held \in {0, 1},
         k = 59 => held = 1 \/ c.held = NotHeld
  PROVE  Leads(c, BitMark(c, k, held), ClockOp(c, k), BitMark(c, k + 1, held))
<1> DEFINE i == k \div 3
           bit == FrameBit(c, i)
<1>1. i \in 0..19 /\ i \in Nat
  OBVIOUS
<1>2. bit \in {0, 1}
  BY <1>1, FrameBitTyped
<1> HIDE DEF bit
<1>3. CASE k % 3 = 0
  <2>1. (k + 1) % 3 = 1 /\ (k + 1) \div 3 = i
    BY <1>3
  <2>2. BitMark(c, k, held) = Marked(0, {0, 1}, 1, i, held, 0)
    BY <1>3 DEF BitMark
  <2>3. BitMark(c, k + 1, held) = Marked(0, {bit}, 1, i, held, 0)
    BY <2>1 DEF BitMark, bit
  <2>4. ClockOp(c, k) = Write("pgd", bit)
    BY <1>3 DEF ClockOp, BitOp, bit
  <2> HIDE DEF i
  <2> QED  BY <1>2, <2>2, <2>3, <2>4 DEF Leads, Marked
<1>4. CASE k % 3 = 1
  <2>1. (k + 1) % 3 = 2 /\ (k + 1) \div 3 = i
    BY <1>4
  <2>2. BitMark(c, k, held) = Marked(0, {bit}, 1, i, held, 0)
    BY <1>4 DEF BitMark, bit
  <2>3. BitMark(c, k + 1, held) = Marked(1, {bit}, 1, i, held, 0)
    BY <2>1 DEF BitMark, bit
  <2>4. ClockOp(c, k) = Write("pgc", 1)
    BY <1>4 DEF ClockOp, BitOp
  <2> HIDE DEF i
  <2> QED  BY <1>2, <2>2, <2>3, <2>4 DEF Leads, Marked
<1>5. CASE k % 3 = 2
  <2>1. (k + 1) % 3 = 0 /\ (k + 1) \div 3 = i + 1 /\ (i = 19 => k = 59)
    BY <1>5
  <2>2. BitMark(c, k, held) = Marked(1, {bit}, 1, i, held, 0)
    BY <1>5 DEF BitMark, bit
  <2>3. BitMark(c, k + 1, held) = Marked(0, {0, 1}, 1, i + 1, held, 0)
    BY <2>1 DEF BitMark
  <2>4. ClockOp(c, k) = Write("pgc", 0)
    BY <1>5 DEF ClockOp, BitOp
  <2>5. i < 20 /\ bit = FrameBit(c, i) /\ {bit} \subseteq {0, 1}
    BY <1>1, <1>2 DEF bit
  <2> HIDE DEF i
  <2> DEFINE a == BitMark(c, k, held)
             b == BitMark(c, k + 1, held)
  <2>6. /\ a.pgc = 1 /\ a.edges = i /\ a.pgd = {bit} /\ a.out = 1 /\ a.held = held /\ a.samples = 0
        /\ b = Marked(0, b.pgd, 1, i + 1, held, 0) /\ b.pgd = {0, 1}
    BY <2>2, <2>3 DEF Marked
  <2> HIDE DEF a, b
  <2>7. Leads(c, a, Write("pgc", 0), b)
    BY <2>1, <2>5, <2>6 DEF Leads
  <2> QED  BY <2>4, <2>7 DEF a, b
<1>6. k % 3 = 0 \/ k % 3 = 1 \/ k % 3 = 2
  OBVIOUS
<1> QED  BY <1>3, <1>4, <1>5, <1>6

\* so every operation of a command and its operand does,
LEMMA WordLeads ==
  ASSUME NEW c \in JobCalls, c.fn = "word", NEW k \in 0..59
  PROVE  Leads(c, Mark(c, k), WordScript(c)[k], Mark(c, k + 1))
<1>1. Mark(c, k) = BitMark(c, k, 0) /\ Mark(c, k + 1) = BitMark(c, k + 1, 0)
  BY DEF Mark
<1>2. WordScript(c)[k] = ClockOp(c, k) /\ c.held = NotHeld
  BY JobCallIs DEF WordScript
<1> QED  BY <1>1, <1>2, BitLeads

\* of a NOP with the clock held high,
LEMMA ProgLeads ==
  ASSUME NEW c \in JobCalls, c.fn = "prog_nop", NEW k \in 0..60
  PROVE  Leads(c, Mark(c, k), ProgScript(c)[k], Mark(c, k + 1))
<1>0. ASSUME NEW j \in Nat
      PROVE  Mark(c, j) = IF j <= 11 THEN BitMark(c, j, 0) ELSE BitMark(c, j - 1, 1)
  BY DEF Mark
<1>1. CASE k < 11
  <2>1. k + 1 <= 11 /\ k <= 11 /\ k \in Nat /\ k + 1 \in Nat /\ k \in 0..59 /\ k # 59
    BY <1>1
  <2>2. Mark(c, k) = BitMark(c, k, 0) /\ Mark(c, k + 1) = BitMark(c, k + 1, 0)
    BY <1>0, <2>1
  <2>3. ProgScript(c)[k] = ClockOp(c, k)
    BY <1>1 DEF ProgScript
  <2> QED  BY <2>1, <2>2, <2>3, BitLeads
<1>2. CASE k = 11
  <2>1. Mark(c, k) = BitMark(c, 11, 0) /\ Mark(c, k + 1) = BitMark(c, 11, 1)
    BY <1>0, <1>2
  <2>2. ProgScript(c)[k] = Hold(c.held.us)
    BY <1>2 DEF ProgScript
  <2>3. \A h \in {0, 1} : BitMark(c, 11, h) = Marked(1, {FrameBit(c, 3)}, 1, 3, h, 0)
    BY DEF BitMark
  <2>4. c.held.high = TRUE
    BY JobCallIs
  <2>5. ~Reads(c.cmd)
    <3>1. c.cmd = 0
      BY JobCallIs
    <3> QED  BY <3>1 DEF Reads
  <2> DEFINE a == Mark(c, k)
             b == Mark(c, k + 1)
  <2>6. a.pgc = 1 /\ a.edges = 3 /\ a.out = 1 /\ b = [a EXCEPT !.held = 1]
    BY <2>1, <2>3 DEF Marked
  <2> HIDE DEF a, b
  <2>7. Leads(c, a, Hold(c.held.us), b)
    BY <2>4, <2>5, <2>6 DEF Leads
  <2> QED  BY <2>2, <2>7 DEF a, b
<1>3. CASE k > 11
  <2>1. PICK j \in 0..59 : k = j + 1
    <3>1. k - 1 \in 0..59 /\ k = (k - 1) + 1
      BY <1>3
    <3> QED  BY <3>1
  <2>2. Mark(c, k) = BitMark(c, j, 1) /\ Mark(c, k + 1) = BitMark(c, j + 1, 1)
    <3>1. k \in Nat /\ k + 1 \in Nat /\ ~(k <= 11) /\ ~(k + 1 <= 11) /\ k - 1 = j /\ (k + 1) - 1 = j + 1
      BY <1>3, <2>1
    <3> QED  BY <1>0, <3>1
  <2>3. ProgScript(c)[k] = ClockOp(c, j)
    <3>1. ~(k < 11) /\ k # 11 /\ k - 1 = j
      BY <1>3, <2>1
    <3> QED  BY <3>1 DEF ProgScript
  <2> QED  BY <2>2, <2>3, BitLeads
<1> QED  BY <1>1, <1>2, <1>3

\* of one with it held low,
LEMMA EraseLeads ==
  ASSUME NEW c \in JobCalls, c.fn = "erase_nop", NEW k \in 0..61
  PROVE  Leads(c, Mark(c, k), EraseScript(c)[k], Mark(c, k + 1))
<1>0. ASSUME NEW j \in Nat
      PROVE  Mark(c, j) = IF j <= 12 THEN BitMark(c, j, 0)
                          ELSE IF j = 13 THEN BitMark(c, 12, 0) ELSE BitMark(c, j - 2, 1)
  BY DEF Mark
<1>1. CASE k < 12
  <2>1. k + 1 <= 12 /\ k <= 12 /\ k \in Nat /\ k + 1 \in Nat /\ k \in 0..59 /\ k # 59
    BY <1>1
  <2>2. Mark(c, k) = BitMark(c, k, 0) /\ Mark(c, k + 1) = BitMark(c, k + 1, 0)
    BY <1>0, <2>1
  <2>3. EraseScript(c)[k] = ClockOp(c, k)
    BY <1>1 DEF EraseScript
  <2> QED  BY <2>1, <2>2, <2>3, BitLeads
<1>2. ASSUME NEW h \in {0, 1}
      PROVE  BitMark(c, 12, h) = Marked(0, {0, 1}, 1, 4, h, 0)
  BY DEF BitMark
<1>3. CASE k = 12
  <2>1. Mark(c, k) = BitMark(c, 12, 0) /\ Mark(c, k + 1) = BitMark(c, 12, 0)
    BY <1>0, <1>3
  <2>2. EraseScript(c)[k] = Write("pgd", 0)
    BY <1>3 DEF EraseScript
  <2> QED  BY <1>2, <2>1, <2>2 DEF Leads, Marked
<1>4. CASE k = 13
  <2>1. Mark(c, k) = BitMark(c, 12, 0) /\ Mark(c, k + 1) = BitMark(c, 12, 1)
    BY <1>0, <1>4
  <2>2. EraseScript(c)[k] = Hold(c.held.us)
    BY <1>4 DEF EraseScript
  <2>3. c.held.high = FALSE
    BY JobCallIs
  <2>4. ~Reads(c.cmd)
    <3>1. c.cmd = 0
      BY JobCallIs
    <3> QED  BY <3>1 DEF Reads
  <2> DEFINE a == Mark(c, k)
             b == Mark(c, k + 1)
  <2>6. a.pgc = 0 /\ a.edges = 4 /\ a.out = 1 /\ b = [a EXCEPT !.held = 1]
    BY <1>2, <2>1 DEF Marked
  <2> HIDE DEF a, b
  <2>7. Leads(c, a, Hold(c.held.us), b)
    <3>1. (a.pgc = 1) <=> FALSE
      BY <2>6
    <3>2. c.held.high = (a.pgc = 1)
      BY <2>3, <3>1, Zenon
    <3> QED  BY <2>4, <2>6, <3>2 DEF Leads
  <2> QED  BY <2>2, <2>7 DEF a, b
<1>5. CASE k > 13
  <2>1. PICK j \in 0..59 : k = j + 2
    <3>1. k - 2 \in 0..59 /\ k = (k - 2) + 2
      BY <1>5
    <3> QED  BY <3>1
  <2>2. Mark(c, k) = BitMark(c, j, 1) /\ Mark(c, k + 1) = BitMark(c, j + 1, 1)
    <3>1. /\ k \in Nat /\ k + 1 \in Nat /\ ~(k <= 12) /\ ~(k + 1 <= 12) /\ k # 13 /\ k + 1 # 13
          /\ k - 2 = j /\ (k + 1) - 2 = j + 1
      BY <1>5, <2>1
    <3> QED  BY <1>0, <3>1
  <2>3. EraseScript(c)[k] = ClockOp(c, j)
    <3>1. ~(k < 12) /\ k # 12 /\ k # 13 /\ k - 2 = j
      BY <1>5, <2>1
    <3> QED  BY <3>1 DEF EraseScript
  <2> QED  BY <2>2, <2>3, BitLeads
<1> QED  BY <1>1, <1>3, <1>4, <1>5

\* and of a reading command, where PGD is let go before the chip answers.
LEMMA ReadLeads ==
  ASSUME NEW c \in JobCalls, c.fn = "read", NEW k \in 0..55
  PROVE  Leads(c, Mark(c, k), ReadScript(c)[k], Mark(c, k + 1))
<1>0. ASSUME NEW j \in Nat PROVE Mark(c, j) = ReadMark(c, j)
  BY DEF Mark
<1> DEFINE a == Mark(c, k)
           b == Mark(c, k + 1)
           op == ReadScript(c)[k]
<1>1. a = ReadMark(c, k) /\ b = ReadMark(c, k + 1)
  BY <1>0
<1>2. op = IF k < 12 THEN ClockOp(c, k) ELSE WindowScript[k - 12]
  BY DEF ReadScript
<1>3. Reads(c.cmd) /\ c.held = NotHeld
  BY JobCallIs
<1> HIDE DEF a, b, op
<1>4. CASE k < 12
  <2>1. k + 1 <= 12 /\ k <= 12 /\ k \in 0..59 /\ k # 59
    BY <1>4
  <2>2. a = BitMark(c, k, 0) /\ b = BitMark(c, k + 1, 0)
    BY <1>1, <2>1 DEF ReadMark
  <2>3. op = ClockOp(c, k)
    BY <1>2, <1>4
  <2>4. Leads(c, a, op, b)
    BY <2>1, <2>2, <2>3, BitLeads
  <2> QED  BY <2>4 DEF a, b, op
<1>5. CASE k = 12
  <2>1. op = Write("pgd", 0)
    BY <1>2, <1>5 DEF WindowScript
  <2>2. a = Marked(0, {0, 1}, 1, 4, 0, 0)
    BY <1>1, <1>5 DEF ReadMark, BitMark
  <2>3. b = Marked(0, {0}, 1, 4, 0, 0)
    BY <1>1, <1>5 DEF ReadMark
  <2>4. b.pgd = {0} /\ b = [a EXCEPT !.pgd = b.pgd]
    BY <2>2, <2>3 DEF Marked
  <2>5. Leads(c, a, op, b)
    BY <2>1, <2>4 DEF Leads
  <2> QED  BY <2>5 DEF a, b, op
<1>6. CASE k \in 13..28
  <2>1. PICK m \in 0..7 : k = 13 + (2 * m) \/ k = 14 + (2 * m)
    <3>1. /\ (k - 13) \div 2 \in 0..7
          /\ k - 13 = 2 * ((k - 13) \div 2) \/ k - 13 = 2 * ((k - 13) \div 2) + 1
      BY <1>6
    <3> QED  BY <3>1
  <2> DEFINE n == 4 + m
             n1 == 4 + (m + 1)
  <2>2. n1 = n + 1 /\ n < 20 /\ n # 19 /\ n \in Nat /\ ~(n < 4)
    OBVIOUS
  <2>3. CASE k = 13 + (2 * m)
    <3>1. op = Write("pgc", 1)
      <4>1. k - 12 = 1 + (2 * m) /\ ~(k < 12)
        BY <2>3
      <4>2. k - 12 \in 1..16 /\ ((k - 12) - 1) % 2 = 0
        BY <4>1
      <4> QED  BY <1>2, <4>1, <4>2 DEF WindowScript
    <3>2. a = Marked(0, {0}, 1, n, 0, 0)
      <4>1. (k - 13) % 2 = 0 /\ (k - 13) \div 2 = m /\ ~(k <= 12) /\ k <= 29
        BY <2>3
      <4> QED  BY <1>1, <4>1 DEF ReadMark
    <3>3. b = Marked(1, {0}, 1, n, 0, 0)
      <4>1. ((k + 1) - 13) % 2 = 1 /\ ((k + 1) - 13) \div 2 = m /\ ~(k + 1 <= 12) /\ k + 1 <= 29
        BY <2>3
      <4> QED  BY <1>1, <4>1 DEF ReadMark
    <3> HIDE DEF n
    <3>4. b = [a EXCEPT !.pgc = 1]
      BY <3>2, <3>3 DEF Marked
    <3>5. Leads(c, a, op, b)
      BY <3>1, <3>4 DEF Leads
    <3> QED  BY <3>5 DEF a, b, op
  <2>4. CASE k = 14 + (2 * m)
    <3>1. op = Write("pgc", 0)
      <4>1. k - 12 = 2 + (2 * m) /\ ~(k < 12)
        BY <2>4
      <4>2. k - 12 \in 1..16 /\ ((k - 12) - 1) % 2 = 1
        BY <4>1
      <4> QED  BY <1>2, <4>1, <4>2 DEF WindowScript
    <3>2. a = Marked(1, {0}, 1, n, 0, 0)
      <4>1. (k - 13) % 2 = 1 /\ (k - 13) \div 2 = m /\ ~(k <= 12) /\ k <= 29
        BY <2>4
      <4> QED  BY <1>1, <4>1 DEF ReadMark
    <3>3. b = Marked(0, {0}, 1, n1, 0, 0)
      <4>1. /\ ((k + 1) - 13) % 2 = 0 /\ ((k + 1) - 13) \div 2 = m + 1
            /\ ~(k + 1 <= 12) /\ k + 1 <= 29
        BY <2>4
      <4> QED  BY <1>1, <4>1 DEF ReadMark
    <3> HIDE DEF n, n1
    <3>4. /\ a.pgc = 1 /\ a.edges = n /\ a.pgd = {0} /\ a.out = 1 /\ a.held = 0 /\ a.samples = 0
          /\ b.pgd = {0} /\ b = Marked(0, b.pgd, 1, n1, 0, 0)
      BY <3>2, <3>3 DEF Marked
    <3>5. Leads(c, a, op, b)
      BY <1>3, <2>2, <3>1, <3>4 DEF Leads
    <3> QED  BY <3>5 DEF a, b, op
  <2> QED  BY <2>1, <2>3, <2>4
<1>7. CASE k = 29
  <2>1. op = Input("pgd")
    BY <1>2, <1>7 DEF WindowScript
  <2>2. a = Marked(0, {0}, 1, 12, 0, 0)
    BY <1>1, <1>7 DEF ReadMark
  <2>3. b = Marked(0, {0}, 0, 12, 0, 0)
    BY <1>1, <1>7 DEF ReadMark
  <2>4. b = [a EXCEPT !.out = 0]
    BY <2>2, <2>3 DEF Marked
  <2>5. Leads(c, a, op, b)
    BY <2>1, <2>4 DEF Leads
  <2> QED  BY <2>5 DEF a, b, op
<1>8. CASE k \in 30..53
  <2>1. PICK m \in 0..7 : k = 30 + (3 * m) \/ k = 31 + (3 * m) \/ k = 32 + (3 * m)
    <3>1. /\ (k - 30) \div 3 \in 0..7
          /\ \/ k - 30 = 3 * ((k - 30) \div 3) \/ k - 30 = 3 * ((k - 30) \div 3) + 1
             \/ k - 30 = 3 * ((k - 30) \div 3) + 2
      BY <1>8
    <3> QED  BY <3>1
  <2> DEFINE n == 12 + m
             n1 == 12 + (m + 1)
             m1 == m + 1
  <2>2. n1 = n + 1 /\ n < 20 /\ n \in Nat /\ ~(n < 4) /\ n = 12 + m /\ m1 = m + 1 /\ m < 8
    OBVIOUS
  <2>3. CASE k = 30 + (3 * m)
    <3>1. op = Write("pgc", 1)
      <4>1. k - 12 = 18 + (3 * m) /\ ~(k < 12)
        BY <2>3
      <4>2. k - 12 \in 18..41 /\ ((k - 12) - 18) % 3 = 0
        BY <4>1
      <4> QED  BY <1>2, <4>1, <4>2 DEF WindowScript
    <3>2. a = Marked(0, {0}, 0, n, 0, m)
      <4>1. (k - 30) % 3 = 0 /\ (k - 30) \div 3 = m /\ (k - 29) \div 3 = m /\ ~(k <= 29) /\ k <= 54
        BY <2>3
      <4> QED  BY <1>1, <4>1 DEF ReadMark
    <3>3. b = Marked(1, {0}, 0, n, 0, m)
      <4>1. /\ ((k + 1) - 30) % 3 = 1 /\ ((k + 1) - 30) \div 3 = m /\ ((k + 1) - 29) \div 3 = m
            /\ ~(k + 1 <= 29) /\ k + 1 <= 54
        BY <2>3
      <4> QED  BY <1>1, <4>1 DEF ReadMark
    <3> HIDE DEF n
    <3>4. b = [a EXCEPT !.pgc = 1]
      BY <3>2, <3>3 DEF Marked
    <3>5. Leads(c, a, op, b)
      BY <3>1, <3>4 DEF Leads
    <3> QED  BY <3>5 DEF a, b, op
  <2>4. CASE k = 31 + (3 * m)
    <3>1. op = Sample
      <4>1. k - 12 = 19 + (3 * m) /\ ~(k < 12)
        BY <2>4
      <4>2. k - 12 \in 18..41 /\ ((k - 12) - 18) % 3 = 1
        BY <4>1
      <4> QED  BY <1>2, <4>1, <4>2 DEF WindowScript
    <3>2. a = Marked(1, {0}, 0, n, 0, m)
      <4>1. (k - 30) % 3 = 1 /\ (k - 30) \div 3 = m /\ (k - 29) \div 3 = m /\ ~(k <= 29) /\ k <= 54
        BY <2>4
      <4> QED  BY <1>1, <4>1 DEF ReadMark
    <3>3. b = Marked(1, {0}, 0, n, 0, m1)
      <4>1. /\ ((k + 1) - 30) % 3 = 2 /\ ((k + 1) - 30) \div 3 = m /\ ((k + 1) - 29) \div 3 = m + 1
            /\ ~(k + 1 <= 29) /\ k + 1 <= 54
        BY <2>4
      <4> QED  BY <1>1, <4>1 DEF ReadMark
    <3> HIDE DEF n, m1
    <3>4. a.out = 0 /\ a.samples = m /\ a.edges = n /\ b = [a EXCEPT !.samples = m1]
      BY <3>2, <3>3 DEF Marked
    <3>5. Leads(c, a, op, b)
      BY <1>3, <2>2, <3>1, <3>4 DEF Leads
    <3> QED  BY <3>5 DEF a, b, op
  <2>5. CASE k = 32 + (3 * m)
    <3>1. op = Write("pgc", 0)
      <4>1. k - 12 = 20 + (3 * m) /\ ~(k < 12)
        BY <2>5
      <4>2. k - 12 \in 18..41 /\ ((k - 12) - 18) % 3 = 2
        BY <4>1
      <4> QED  BY <1>2, <4>1, <4>2 DEF WindowScript
    <3>2. a = Marked(1, {0}, 0, n, 0, m1)
      <4>1. /\ (k - 30) % 3 = 2 /\ (k - 30) \div 3 = m /\ (k - 29) \div 3 = m + 1
            /\ ~(k <= 29) /\ k <= 54
        BY <2>5
      <4> QED  BY <1>1, <4>1 DEF ReadMark
    <3>3. b = Marked(0, {0}, 0, n1, 0, m1)
      <4>1. /\ ((k + 1) - 30) % 3 = 0 /\ ((k + 1) - 30) \div 3 = m + 1
            /\ ((k + 1) - 29) \div 3 = m + 1 /\ ~(k + 1 <= 29) /\ k + 1 <= 54
        BY <2>5
      <4> QED  BY <1>1, <4>1 DEF ReadMark
    <3> HIDE DEF n, n1, m1
    <3>4. /\ a.pgc = 1 /\ a.edges = n /\ a.pgd = {0} /\ a.out = 0 /\ a.held = 0 /\ a.samples = m1
          /\ b.pgd = {0} /\ b = Marked(0, b.pgd, 0, n1, 0, m1)
      BY <3>2, <3>3 DEF Marked
    <3>5. Leads(c, a, op, b)
      BY <1>3, <2>2, <3>1, <3>4 DEF Leads
    <3> QED  BY <3>5 DEF a, b, op
  <2> QED  BY <2>1, <2>3, <2>4, <2>5
<1>9. CASE k \in 54..55
  <2>1. op = IF k = 54 THEN Output("pgd") ELSE Write("pgd", 0)
    BY <1>2, <1>9 DEF WindowScript
  <2>2. a = Marked(0, {0}, IF k = 54 THEN 0 ELSE 1, 20, 0, 8)
    BY <1>1, <1>9 DEF ReadMark
  <2>3. b = Marked(0, {0}, 1, 20, 0, 8)
    BY <1>1, <1>9 DEF ReadMark
  <2>4. CASE k = 54
    <3>1. a.edges = 20 /\ b = [a EXCEPT !.out = 1]
      BY <2>2, <2>3, <2>4 DEF Marked
    <3>2. Leads(c, a, op, b)
      BY <2>1, <2>4, <3>1 DEF Leads
    <3> QED  BY <3>2 DEF a, b, op
  <2>5. CASE k = 55
    <3>1. b.pgd = {0} /\ b = [a EXCEPT !.pgd = b.pgd]
      BY <2>2, <2>3, <2>5 DEF Marked
    <3>2. Leads(c, a, op, b)
      BY <2>1, <2>5, <3>1 DEF Leads
    <3> QED  BY <3>2 DEF a, b, op
  <2> QED  BY <1>9, <2>4, <2>5
<1> QED  BY <1>4, <1>5, <1>6, <1>7, <1>8, <1>9

Marks == [pgc: {0, 1}, pgd: SUBSET {0, 1}, out: {0, 1}, edges: 0..20, held: {0, 1}, samples: 0..8]

\* Marks of clocked bits,
LEMMA BitMarkTyped ==
  ASSUME NEW c \in JobCalls, NEW k \in 0..60, NEW held \in {0, 1}
  PROVE  /\ BitMark(c, k, held) \in Marks /\ BitMark(c, k, held).out = 1
         /\ BitMark(c, k, held).samples = 0
         /\ k <= 12 => /\ BitMark(c, k, held).edges <= 4
<1> DEFINE i == k \div 3
           p == IF k % 3 = 2 THEN 1 ELSE 0
           q == IF k % 3 = 0 THEN {0, 1} ELSE {FrameBit(c, i)}
<1>1. i \in 0..20 /\ p \in {0, 1} /\ (k <= 12 => i <= 4)
  OBVIOUS
<1>2. q \in SUBSET {0, 1}
  <2>1. CASE k % 3 = 0
    BY <2>1
  <2>2. CASE k % 3 # 0
    <3>1. i \in 0..19
      BY <2>2
    <3>2. FrameBit(c, i) \in {0, 1}
      BY <3>1, FrameBitTyped
    <3> QED  BY <2>2, <3>2
  <2> QED  BY <2>1, <2>2
<1>3. BitMark(c, k, held) = Marked(p, q, 1, i, held, 0)
  BY DEF BitMark
<1> HIDE DEF p, q, i
<1> QED  BY <1>1, <1>2, <1>3 DEF Marked, Marks

\* While the chip drives PGD, the host does not.
LEMMA ReadMarkTyped ==
  ASSUME NEW c \in JobCalls, NEW k \in 0..56
  PROVE  /\ ReadMark(c, k) \in Marks
         /\ LET a == ReadMark(c, k)
            IN  a.edges \in 12..19 /\ (a.pgc = 1 \/ a.edges > 12) => a.out = 0
<1> DEFINE a == ReadMark(c, k)
<1>1. CASE k <= 12
  <2>1. a = BitMark(c, k, 0) /\ k \in 0..60
    BY <1>1 DEF ReadMark
  <2> QED  BY <1>1, <2>1, BitMarkTyped
<1>2. CASE k \in 13..29
  <2> DEFINE p == (k - 13) % 2
             n == 4 + ((k - 13) \div 2)
  <2>1. a = Marked(p, {0}, 1, n, 0, 0)
    BY <1>2 DEF ReadMark
  <2>2. p \in {0, 1} /\ n \in 0..12 /\ (n = 12 => p = 0)
    BY <1>2
  <2> HIDE DEF p, n
  <2> QED  BY <2>1, <2>2 DEF Marked, Marks
<1>3. CASE k \in 30..54
  <2> DEFINE p == IF (k - 30) % 3 = 0 THEN 0 ELSE 1
             n == 12 + ((k - 30) \div 3)
             s == (k - 29) \div 3
  <2>1. a = Marked(p, {0}, 0, n, 0, s)
    BY <1>3 DEF ReadMark
  <2>2. p \in {0, 1} /\ n \in 0..20 /\ s \in 0..8
    BY <1>3
  <2> HIDE DEF p, n, s
  <2> QED  BY <2>1, <2>2 DEF Marked, Marks
<1>4. CASE k \in 55..56
  <2>1. a = Marked(0, {0}, 1, 20, 0, 8)
    BY <1>4 DEF ReadMark
  <2> QED  BY <2>1 DEF Marked, Marks
<1> QED  BY <1>1, <1>2, <1>3, <1>4

\* An operation by its number.
LEMMA ListsAt ==
  ASSUME NEW s, NEW n \in Nat, NEW op, Lists(s, n, op), NEW m \in Nat, n = m + 1
  PROVE  \A k \in 0..m : s[k + 1] = op[k]
<1>1. n - 1 = m
  OBVIOUS
<1> QED  BY <1>1 DEF Lists

\* What the script of a command does, in one place.
LEMMA Scripted ==
  ASSUME NEW c \in JobCalls
  PROVE  \E n \in Nat :
           /\ PinOps(c) \in Seq(PinOp) /\ Len(PinOps(c)) = n /\ n > 0
           /\ \A k \in 0..n - 1 : Leads(c, Mark(c, k), PinOps(c)[k + 1], Mark(c, k + 1))
           /\ \A k \in 0..n :
                /\ Mark(c, k) \in Marks
                /\ ~Reads(c.cmd) => Mark(c, k).samples = 0
                /\ LET a == Mark(c, k)
                   IN  Reads(c.cmd) /\ a.edges \in 12..19 /\ (a.pgc = 1 \/ a.edges > 12)
                         => a.out = 0
           /\ Mark(c, 0) = Marked(0, {0, 1}, 1, 0, 0, 0)
           /\ Mark(c, n).pgc = 0 /\ Mark(c, n).edges = 20 /\ Mark(c, n).out = 1
           /\ Mark(c, n).samples = IF Reads(c.cmd) THEN 8 ELSE 0
<1>1. \A h \in {0, 1} : /\ BitMark(c, 0, h) = Marked(0, {0, 1}, 1, 0, h, 0)
                        /\ BitMark(c, 60, h) = Marked(0, {0, 1}, 1, 20, h, 0)
  BY DEF BitMark
<1>2. CASE c.fn = "word"
  <2>1. ~Reads(c.cmd)
    BY <1>2, JobCallIs
  <2>2. \A k : Mark(c, k) = BitMark(c, k, 0)
    BY <1>2 DEF Mark
  <2>3. PinOps(c) \in Seq(PinOp) /\ Len(PinOps(c)) = 60
    BY <1>2, WordIs DEF Lists
  <2>4. \A k \in 0..59 : Leads(c, Mark(c, k), PinOps(c)[k + 1], Mark(c, k + 1))
    <3>1. Lists(PinOps(c), 60, WordScript(c))
      BY <1>2, WordIs
    <3>2. \A k \in 0..59 : PinOps(c)[k + 1] = WordScript(c)[k]
      <4>1. 60 \in Nat /\ 59 \in Nat /\ 60 = 59 + 1
        OBVIOUS
      <4> QED  BY <3>1, <4>1, ListsAt
    <3>3. \A k \in 0..59 : Leads(c, Mark(c, k), WordScript(c)[k], Mark(c, k + 1))
      BY <1>2, WordLeads
    <3> QED  BY <3>2, <3>3
  <2>5. \A k \in 0..60 : Mark(c, k) \in Marks /\ Mark(c, k).samples = 0
    BY <2>2, BitMarkTyped
  <2>6. /\ Mark(c, 0) = Marked(0, {0, 1}, 1, 0, 0, 0)
        /\ Mark(c, 60) = Marked(0, {0, 1}, 1, 20, 0, 0)
    BY <1>1, <2>2
  <2>7. /\ Mark(c, 60).pgc = 0 /\ Mark(c, 60).edges = 20 /\ Mark(c, 60).out = 1
        /\ Mark(c, 60).samples = 0
    BY <2>6 DEF Marked
  <2>8. 60 \in Nat /\ 60 > 0 /\ 60 - 1 = 59
    OBVIOUS
  <2> QED  BY <2>1, <2>3, <2>4, <2>5, <2>6, <2>7, <2>8
<1>3. CASE c.fn = "prog_nop"
  <2>1. ~Reads(c.cmd)
    <3>1. c.cmd = 0
      BY <1>3, JobCallIs
    <3> QED  BY <3>1 DEF Reads
  <2>2. /\ \A k \in 0..11 : Mark(c, k) = BitMark(c, k, 0)
        /\ \A k \in 12..61 : Mark(c, k) = BitMark(c, k - 1, 1)
    BY <1>3 DEF Mark
  <2>3. PinOps(c) \in Seq(PinOp) /\ Len(PinOps(c)) = 61
    BY <1>3, ProgIs DEF Lists
  <2>4. \A k \in 0..60 : Leads(c, Mark(c, k), PinOps(c)[k + 1], Mark(c, k + 1))
    <3>1. Lists(PinOps(c), 61, ProgScript(c))
      BY <1>3, ProgIs
    <3>2. \A k \in 0..60 : PinOps(c)[k + 1] = ProgScript(c)[k]
      <4>1. 61 \in Nat /\ 60 \in Nat /\ 61 = 60 + 1
        OBVIOUS
      <4> QED  BY <3>1, <4>1, ListsAt
    <3>3. \A k \in 0..60 : Leads(c, Mark(c, k), ProgScript(c)[k], Mark(c, k + 1))
      BY <1>3, ProgLeads
    <3> QED  BY <3>2, <3>3
  <2>5. \A k \in 0..61 : Mark(c, k) \in Marks /\ Mark(c, k).samples = 0
    <3>1. ASSUME NEW k \in 0..61 PROVE Mark(c, k) \in Marks /\ Mark(c, k).samples = 0
      <4>1. CASE k \in 0..11
        BY <2>2, <4>1, BitMarkTyped
      <4>2. CASE k \in 12..61
        <5>1. k - 1 \in 0..60
          BY <4>2
        <5> QED  BY <2>2, <4>2, <5>1, BitMarkTyped
      <4> QED  BY <4>1, <4>2
    <3> QED  BY <3>1
  <2>6. /\ Mark(c, 0) = Marked(0, {0, 1}, 1, 0, 0, 0)
        /\ Mark(c, 61) = Marked(0, {0, 1}, 1, 20, 1, 0)
    BY <1>1, <2>2
  <2>7. /\ Mark(c, 61).pgc = 0 /\ Mark(c, 61).edges = 20 /\ Mark(c, 61).out = 1
        /\ Mark(c, 61).samples = 0
    BY <2>6 DEF Marked
  <2>8. 61 \in Nat /\ 61 > 0 /\ 61 - 1 = 60
    OBVIOUS
  <2> QED  BY <2>1, <2>3, <2>4, <2>5, <2>6, <2>7, <2>8
<1>4. CASE c.fn = "erase_nop"
  <2>1. ~Reads(c.cmd)
    <3>1. c.cmd = 0
      BY <1>4, JobCallIs
    <3> QED  BY <3>1 DEF Reads
  <2>2. /\ \A k \in 0..12 : Mark(c, k) = BitMark(c, k, 0)
        /\ Mark(c, 13) = BitMark(c, 12, 0)
        /\ \A k \in 14..62 : Mark(c, k) = BitMark(c, k - 2, 1)
    BY <1>4 DEF Mark
  <2>3. PinOps(c) \in Seq(PinOp) /\ Len(PinOps(c)) = 62
    BY <1>4, EraseIs DEF Lists
  <2>4. \A k \in 0..61 : Leads(c, Mark(c, k), PinOps(c)[k + 1], Mark(c, k + 1))
    <3>1. Lists(PinOps(c), 62, EraseScript(c))
      BY <1>4, EraseIs
    <3>2. \A k \in 0..61 : PinOps(c)[k + 1] = EraseScript(c)[k]
      <4>1. 62 \in Nat /\ 61 \in Nat /\ 62 = 61 + 1
        OBVIOUS
      <4> QED  BY <3>1, <4>1, ListsAt
    <3>3. \A k \in 0..61 : Leads(c, Mark(c, k), EraseScript(c)[k], Mark(c, k + 1))
      BY <1>4, EraseLeads
    <3> QED  BY <3>2, <3>3
  <2>5. \A k \in 0..62 : Mark(c, k) \in Marks /\ Mark(c, k).samples = 0
    <3>1. ASSUME NEW k \in 0..62 PROVE Mark(c, k) \in Marks /\ Mark(c, k).samples = 0
      <4>1. CASE k \in 0..13
        BY <2>2, <4>1, BitMarkTyped
      <4>2. CASE k \in 14..62
        <5>1. k - 2 \in 0..60
          BY <4>2
        <5> QED  BY <2>2, <4>2, <5>1, BitMarkTyped
      <4> QED  BY <4>1, <4>2
    <3> QED  BY <3>1
  <2>6. /\ Mark(c, 0) = Marked(0, {0, 1}, 1, 0, 0, 0)
        /\ Mark(c, 62) = Marked(0, {0, 1}, 1, 20, 1, 0)
    BY <1>1, <2>2
  <2>7. /\ Mark(c, 62).pgc = 0 /\ Mark(c, 62).edges = 20 /\ Mark(c, 62).out = 1
        /\ Mark(c, 62).samples = 0
    BY <2>6 DEF Marked
  <2>8. 62 \in Nat /\ 62 > 0 /\ 62 - 1 = 61
    OBVIOUS
  <2> QED  BY <2>1, <2>3, <2>4, <2>5, <2>6, <2>7, <2>8
<1>5. CASE c.fn = "read"
  <2>1. Reads(c.cmd)
    BY <1>5, JobCallIs
  <2>2. \A k : Mark(c, k) = ReadMark(c, k)
    BY <1>5 DEF Mark
  <2>3. PinOps(c) \in Seq(PinOp) /\ Len(PinOps(c)) = 56
    BY <1>5, ReadIs DEF Lists
  <2>4. \A k \in 0..55 : Leads(c, Mark(c, k), PinOps(c)[k + 1], Mark(c, k + 1))
    <3>1. Lists(PinOps(c), 56, ReadScript(c))
      BY <1>5, ReadIs
    <3>2. \A k \in 0..55 : PinOps(c)[k + 1] = ReadScript(c)[k]
      <4>1. 56 \in Nat /\ 55 \in Nat /\ 56 = 55 + 1
        OBVIOUS
      <4> QED  BY <3>1, <4>1, ListsAt
    <3>3. \A k \in 0..55 : Leads(c, Mark(c, k), ReadScript(c)[k], Mark(c, k + 1))
      BY <1>5, ReadLeads
    <3> QED  BY <3>2, <3>3
  <2>5. \A k \in 0..56 :
          /\ Mark(c, k) \in Marks
          /\ LET a == Mark(c, k)
             IN  a.edges \in 12..19 /\ (a.pgc = 1 \/ a.edges > 12) => a.out = 0
    BY <2>2, ReadMarkTyped
  <2>6. /\ Mark(c, 0) = Marked(0, {0, 1}, 1, 0, 0, 0)
        /\ Mark(c, 56) = Marked(0, {0}, 1, 20, 0, 8)
    <3>1. ReadMark(c, 0) = BitMark(c, 0, 0) /\ ReadMark(c, 56) = Marked(0, {0}, 1, 20, 0, 8)
      BY DEF ReadMark
    <3> QED  BY <1>1, <2>2, <3>1
  <2>7. /\ Mark(c, 56).pgc = 0 /\ Mark(c, 56).edges = 20 /\ Mark(c, 56).out = 1
        /\ Mark(c, 56).samples = 8
    BY <2>6 DEF Marked
  <2>8. 56 \in Nat /\ 56 > 0 /\ 56 - 1 = 55
    OBVIOUS
  <2> QED  BY <2>1, <2>3, <2>4, <2>5, <2>6, <2>7, <2>8
<1> QED  BY <1>2, <1>3, <1>4, <1>5, JobCallIs

(***************************************************************************)
(* What an operation does to the pins, and the pins to the chip.           *)
(***************************************************************************)

\* What each pin is at.
LEMMA SeenIs ==
  ASSUME NEW outs, NEW lev
  PROVE  /\ Seen("pgc", outs, lev) = IF "pgc" \in outs THEN lev["pgc"] ELSE 0
         /\ Seen("mclr", outs, lev) = IF "mclr" \in outs THEN lev["mclr"] ELSE 1
         /\ "pgd" \in outs => Seen("pgd", outs, lev) = lev["pgd"]
         /\ "pgd" \notin outs /\ ~Answering => Seen("pgd", outs, lev) = 0
         /\ "pgd" \notin outs /\ Answering =>
              Seen("pgd", outs, lev) = Bit(frame.out, frame.n - 12)
BY DEF Seen

\* Nothing happens in the chip unless MCLR changes or the clock falls.
LEMMA ChipQuiet ==
  ASSUME NEW outs, NEW lev, Chip(outs, lev),
         Seen("mclr", outs, lev) = Seen("mclr", outputs, level),
         \/ Seen("pgc", outs, lev) = Seen("pgc", outputs, level)
         \/ Seen("pgc", outs, lev) = 1
         \/ mode = "run"
  PROVE  UNCHANGED chipVars
BY DEF Chip

\* A falling clock in reset is a bit of the key,
LEMMA ChipKeyed ==
  ASSUME NEW outs, NEW lev, Chip(outs, lev), mode = "reset",
         Seen("mclr", outs, lev) = Seen("mclr", outputs, level),
         Seen("pgc", outputs, level) = 1, Seen("pgc", outs, lev) = 0
  PROVE  /\ key' = Append(IF Len(key) = 32 THEN Tail(key) ELSE key, Seen("pgd", outs, lev))
         /\ UNCHANGED <<mode, frame, regs>>
BY DEF Chip

\* in program mode a bit of a command.
LEMMA ChipLatches ==
  ASSUME NEW outs, NEW lev, Chip(outs, lev), mode = "program",
         Seen("mclr", outs, lev) = Seen("mclr", outputs, level),
         Seen("pgc", outputs, level) = 1, Seen("pgc", outs, lev) = 0
  PROVE  Latched(Seen("pgd", outs, lev)) /\ UNCHANGED <<mode, key>>
BY DEF Chip

\* MCLR falling is a reset,
LEMMA ChipFalls ==
  ASSUME NEW outs, NEW lev, Chip(outs, lev),
         Seen("mclr", outputs, level) = 1, Seen("mclr", outs, lev) = 0,
         Seen("pgc", outs, lev) = Seen("pgc", outputs, level)
  PROVE  /\ mode' = "reset" /\ key' = <<>> /\ frame' = NoFrame
         /\ regs' = [PowerOn EXCEPT !.flash = regs.flash]
BY DEF Chip

\* and rising starts the firmware, or program mode.
LEMMA ChipRises ==
  ASSUME NEW outs, NEW lev, Chip(outs, lev),
         Seen("mclr", outputs, level) = 0, Seen("mclr", outs, lev) = 1,
         Seen("pgc", outs, lev) = Seen("pgc", outputs, level)
  PROVE  /\ mode' = IF key = EntryKey THEN "program" ELSE "run"
         /\ key' = <<>> /\ UNCHANGED <<frame, regs>>
BY DEF Chip

Still == <<lines, target, calls, meant, result>>

\* A write to a pin.
LEMMA WriteStep ==
  ASSUME Operate, NEW pin, NEW v, Head(ops) = Write(pin, v)
  PROVE  /\ UNCHANGED Still /\ sampled' = sampled /\ outputs' = outputs
         /\ level' = [level EXCEPT ![pin] = v]
         /\ Chip(outputs, [level EXCEPT ![pin] = v])
<1>1. Head(ops).op = "write" /\ Head(ops).pin = pin /\ Head(ops).v = v
  BY DEF Write
<1> QED  BY <1>1 DEF Operate, Still, icspVars

\* A pin made an output.
LEMMA OutputStep ==
  ASSUME Operate, NEW pin, Head(ops) = Output(pin)
  PROVE  /\ UNCHANGED Still /\ sampled' = sampled /\ outputs' = outputs \cup {pin}
         /\ level' = level /\ Chip(outputs \cup {pin}, level)
<1>1. Head(ops).op = "output" /\ Head(ops).pin = pin
  BY DEF Output
<1> QED  BY <1>1 DEF Operate, Still, icspVars

\* A pin made an input.
LEMMA InputStep ==
  ASSUME Operate, NEW pin, Head(ops) = Input(pin)
  PROVE  /\ UNCHANGED Still /\ sampled' = sampled /\ outputs' = outputs \ {pin}
         /\ level' = level /\ Chip(outputs \ {pin}, level)
<1>1. Head(ops).op = "input" /\ Head(ops).pin = pin
  BY DEF Input
<1> QED  BY <1>1 DEF Operate, Still, icspVars

\* PGD read.
LEMMA SampleStep ==
  ASSUME Operate, Head(ops) = Sample
  PROVE  /\ UNCHANGED Still /\ sampled' = Append(sampled, Seen("pgd", outputs, level))
         /\ outputs' = outputs /\ level' = level /\ Chip(outputs, level)
BY DEF Operate, Sample, Still, icspVars

\* A hold of the clock.
LEMMA HoldStep ==
  ASSUME Operate, NEW us, Head(ops) = Hold(us)
  PROVE  /\ UNCHANGED Still /\ sampled' = sampled /\ outputs' = outputs /\ level' = level
         /\ IF mode = "program" /\ {"pgc", "pgd"} \subseteq outputs
            THEN /\ frame' = [frame EXCEPT !.held = [high |-> level["pgc"] = 1, us |-> us]]
                 /\ UNCHANGED <<mode, key, regs>>
            ELSE Chip(outputs, level)
BY DEF Operate, Hold, Still, icspVars

\* Where an operation leaves a session.
LEMMA Moves ==
  ASSUME NEW s \in Seq(PinOp), NEW k \in 0..Len(s), ops = After(s, k), Operate
  PROVE  k \in 0..Len(s) - 1 /\ Head(ops) = s[k + 1] /\ ops' = After(s, k + 1)
<1>1. ops # <<>> /\ ops' = Tail(ops)
  BY DEF Operate
<1>2. k # Len(s)
  BY <1>1, AfterIs
<1>3. Len(s) \in Nat
  OBVIOUS
<1>4. k < Len(s)
  BY <1>2, <1>3
<1>5. Head(ops) = s[k + 1] /\ Tail(ops) = After(s, k + 1)
  BY <1>4, AfterIs
<1> QED  BY <1>1, <1>3, <1>4, <1>5

(***************************************************************************)
(* A command on the wires.                                                 *)
(***************************************************************************)

\* The parts of a frame.
LEMMA FrameFields ==
  ASSUME NEW n, NEW cmd, NEW word, NEW held, NEW out, NEW f, f = FrameOf(n, cmd, word, held, out)
  PROVE  f.n = n /\ f.cmd = cmd /\ f.word = word /\ f.held = held /\ f.out = out
BY DEF FrameOf

\* A falling edge: what the chip has then.
LEMMA LatchedIs ==
  ASSUME NEW n \in 0..19, NEW cmd, NEW word, NEW held, NEW out, NEW bit,
         frame = FrameOf(n, cmd, word, held, out), Latched(bit)
  PROVE  /\ n < 4 => /\ frame' = FrameOf(n + 1, cmd + (bit * 2 ^ n), word, held, out)
                     /\ regs' = regs
         /\ n \in 4..18 /\ Reads(cmd) =>
              /\ frame' = FrameOf(n + 1, cmd, word, held,
                                  IF n = 11 THEN ShiftedOut(regs, cmd) ELSE out)
              /\ regs' = regs
         /\ n = 19 /\ Reads(cmd) =>
              frame' = NoFrame /\ regs' = Execute(regs, cmd, word, held)
         /\ n \in 4..18 /\ ~Reads(cmd) =>
              /\ frame' = FrameOf(n + 1, cmd, word + (bit * 2 ^ (n - 4)), held, out)
              /\ regs' = regs
         /\ n = 19 /\ ~Reads(cmd) =>
              /\ frame' = NoFrame
              /\ regs' = Execute(regs, cmd, word + (bit * 2 ^ (n - 4)), held)
<1>0. /\ frame.n = n /\ frame.cmd = cmd /\ frame.word = word /\ frame.held = held
      /\ frame.out = out
  BY FrameFields
<1> DEFINE o == IF n = 11 THEN ShiftedOut(regs, cmd) ELSE out
           w == word + (bit * 2 ^ (n - 4))
           x == cmd + (bit * 2 ^ n)
           n1 == n + 1
           g == [frame EXCEPT !.n = n1]
           Ended(f) == IF f.n = 20 THEN frame' = NoFrame /\ regs' = Execute(regs, f.cmd, f.word, f.held)
                       ELSE frame' = f /\ UNCHANGED regs
<1>1. n1 # 20 <=> n # 19
  OBVIOUS
<1>2. g = FrameOf(n1, cmd, word, held, out)
  <2> HIDE DEF n1
  <2> QED  BY DEF FrameOf
<1>3. CASE n < 4
  <2> DEFINE f == [g EXCEPT !.cmd = x]
  <2>1. Ended(f)
    BY <1>0, <1>3 DEF Latched
  <2> HIDE DEF x, g, n1
  <2>2. f = FrameOf(n1, x, word, held, out)
    BY <1>2 DEF FrameOf
  <2>3. f.n = n1 /\ n1 # 20
    BY <1>1, <1>3, <2>2 DEF FrameOf
  <2> HIDE DEF f
  <2>4. frame' = FrameOf(n1, x, word, held, out) /\ regs' = regs
    BY <2>1, <2>2, <2>3
  <2> QED  BY <1>3, <2>4 DEF x, n1
<1>4. CASE ~(n < 4) /\ Reads(cmd)
  <2> DEFINE f == [g EXCEPT !.out = o]
  <2>1. Ended(f)
    BY <1>0, <1>4 DEF Latched
  <2> HIDE DEF o, g, n1
  <2>2. f = FrameOf(n1, cmd, word, held, o)
    BY <1>2 DEF FrameOf
  <2>3. f.n = n1 /\ f.cmd = cmd /\ f.word = word /\ f.held = held
    BY <2>2 DEF FrameOf
  <2> HIDE DEF f
  <2>4. CASE n = 19
    BY <1>1, <1>4, <2>1, <2>3, <2>4
  <2>5. CASE n # 19
    <3>1. frame' = FrameOf(n1, cmd, word, held, o) /\ regs' = regs
      BY <1>1, <2>1, <2>2, <2>3, <2>5
    <3> QED  BY <1>4, <2>5, <3>1 DEF o, n1
  <2> QED  BY <2>4, <2>5
<1>5. CASE ~(n < 4) /\ ~Reads(cmd)
  <2> DEFINE f == [g EXCEPT !.word = w]
  <2>1. Ended(f)
    BY <1>0, <1>5 DEF Latched
  <2> HIDE DEF w, g, n1
  <2>2. f = FrameOf(n1, cmd, w, held, out)
    BY <1>2 DEF FrameOf
  <2>3. f.n = n1 /\ f.cmd = cmd /\ f.word = w /\ f.held = held
    BY <2>2 DEF FrameOf
  <2> HIDE DEF f
  <2>4. CASE n = 19
    BY <1>1, <1>5, <2>1, <2>3, <2>4 DEF w
  <2>5. CASE n # 19
    <3>1. frame' = FrameOf(n1, cmd, w, held, out) /\ regs' = regs
      BY <1>1, <2>1, <2>2, <2>3, <2>5
    <3> QED  BY <1>5, <2>5, <3>1 DEF w, n1
  <2> QED  BY <2>4, <2>5
<1> QED  BY <1>3, <1>4, <1>5

\* A reading command has no operand, and its clock is not held.
LEMMA ReadingIs ==
  ASSUME NEW c \in JobCalls, Reads(c.cmd)
  PROVE  c.word = 0 /\ c.held = NotHeld
<1>1. CASE c.fn = "word"
  BY <1>1, JobCallIs
<1>2. CASE c.fn = "read"
  BY <1>2, JobCallIs
<1>3. CASE c.fn \in {"prog_nop", "erase_nop"}
  <2>1. c.cmd = 0
    BY <1>3, JobCallIs
  <2> QED  BY <2>1 DEF Reads
<1> QED  BY <1>1, <1>2, <1>3, JobCallIs

\* The falling edge of a bit takes the chip one bit further into the command, or has it
\* do what is meant.
LEMMA FrameStep ==
  ASSUME NEW c \in JobCalls, NEW a \in Marks, NEW b \in Marks, a.edges < 20,
         b.edges = a.edges + 1, b.held = a.held,
         NEW bit, a.edges < 4 \/ ~Reads(c.cmd) => bit = FrameBit(c, a.edges),
         a.edges = 19 => a.held = 1 \/ c.held = NotHeld,
         InFrame(c, a), Latched(bit), UNCHANGED <<meant, result>>
  PROVE  InFrame(c, b)' /\ (regs' = regs \/ regs' = meant)
<1>0. PICK n \in 0..19 : n = a.edges
  <2>1. a.edges \in 0..20
    BY DEF Marks
  <2> QED  BY <2>1
<1> DEFINE held == IF a.held = 1 THEN c.held ELSE NotHeld
           cmd == IF n < 4 THEN LowBits(c.cmd, n) ELSE c.cmd
           word == IF n < 4 \/ Reads(c.cmd) THEN 0 ELSE LowBits(c.word, n - 4)
           out == IF Reads(c.cmd) /\ n >= 12 THEN ShiftedOut(regs, c.cmd) ELSE 0
           n1 == n + 1
<1>1. /\ frame = FrameOf(n, cmd, word, held, out)
      /\ Execute(regs, c.cmd, c.word, c.held) = meant
      /\ Reads(c.cmd) => result = <<ShiftedOut(regs, c.cmd)>>
  BY <1>0 DEF InFrame
<1>2. b.edges = n1 /\ b.held = a.held /\ n1 \in 1..20
  BY <1>0
<1>3. c.cmd \in Nat /\ c.word \in Nat
  BY JobCallIs
<1>9. LowBits(c.cmd, 4) = c.cmd /\ LowBits(c.word, 16) = c.word /\ LowBits(c.word, 0) = 0
  <2>1. c.cmd < 16 /\ c.word \in Word
    <3>1. c.cmd \in 0..15 /\ c.word \in Word
      BY JobCallIs
    <3> QED  BY <3>1
  <2>2. c.word < 65536
    BY <2>1, RangesAre, SMT
  <2> QED  BY <1>3, <2>1, <2>2, LowBitsEnds, SMT
<1>10. ASSUME NEW x \in Nat, NEW m \in 0..15
       PROVE  LowBits(x, m + 1) = LowBits(x, m) + (Bit(x, m) * 2 ^ m)
  BY BitsOf
<1> HIDE DEF held, out, cmd, word
<1>4. ASSUME n1 # 20, regs' = regs,
             frame' = FrameOf(n1, IF n1 < 4 THEN LowBits(c.cmd, n1) ELSE c.cmd,
                              IF n1 < 4 \/ Reads(c.cmd) THEN 0 ELSE LowBits(c.word, n1 - 4), held,
                              IF Reads(c.cmd) /\ n1 >= 12 THEN ShiftedOut(regs, c.cmd) ELSE 0)
      PROVE  InFrame(c, b)' /\ (regs' = regs \/ regs' = meant)
  BY <1>1, <1>2, <1>4 DEF InFrame, held
<1>5. ASSUME n1 = 20, frame' = NoFrame, regs' = meant
      PROVE  InFrame(c, b)' /\ (regs' = regs \/ regs' = meant)
  BY <1>2, <1>5 DEF InFrame
<1>6. CASE n < 4
  <2>1. n \in 0..15 /\ n1 # 20 /\ ~(n1 >= 12) /\ ~(n >= 12)
    BY <1>6
  <2>2. cmd = LowBits(c.cmd, n) /\ word = 0 /\ out = 0
    BY <1>6, <2>1 DEF cmd, word, out
  <2>3. bit = Bit(c.cmd, n)
    BY <1>0, <1>6 DEF FrameBit
  <2>4. cmd + (bit * 2 ^ n) = LowBits(c.cmd, n1)
    <3>1. LowBits(c.cmd, n + 1) = LowBits(c.cmd, n) + (Bit(c.cmd, n) * 2 ^ n)
      BY <1>3, <1>10, <2>1
    <3> QED  BY <2>2, <2>3, <3>1
  <2>5. frame' = FrameOf(n1, LowBits(c.cmd, n1), 0, held, 0) /\ regs' = regs
    BY <1>1, <1>6, <2>2, <2>4, LatchedIs
  <2>6. CASE n1 < 4
    BY <1>4, <2>1, <2>5, <2>6
  <2>7. CASE n1 = 4
    <3>1. LowBits(c.cmd, n1) = c.cmd /\ LowBits(c.word, n1 - 4) = 0
      BY <1>9, <2>7
    <3> QED  BY <1>4, <2>1, <2>5, <2>7, <3>1
  <2>8. n1 < 4 \/ n1 = 4
    BY <1>6
  <2> QED  BY <2>6, <2>7, <2>8
<1>7. CASE ~(n < 4) /\ Reads(c.cmd)
  <2>1. cmd = c.cmd /\ word = 0
    BY <1>7 DEF cmd, word
  <2>2. c.word = 0 /\ c.held = NotHeld
    BY <1>7, ReadingIs
  <2>3. held = c.held
    BY <2>2 DEF held
  <2>6. CASE n = 19
    <3>1. frame' = NoFrame /\ regs' = Execute(regs, c.cmd, 0, c.held)
      BY <1>1, <1>7, <2>1, <2>3, <2>6, LatchedIs
    <3>2. n1 = 20 /\ regs' = meant
      BY <1>1, <2>2, <2>6, <3>1
    <3> QED  BY <1>5, <3>1, <3>2
  <2>7. CASE n # 19
    <3>1. n \in 4..18 /\ n1 # 20 /\ ~(n1 < 4)
      BY <1>7, <2>7
    <3>2. /\ frame' = FrameOf(n1, c.cmd, 0, held, IF n = 11 THEN ShiftedOut(regs, c.cmd) ELSE out)
          /\ regs' = regs
      BY <1>1, <1>7, <2>1, <3>1, LatchedIs
    <3>3. (IF n = 11 THEN ShiftedOut(regs, c.cmd) ELSE out)
            = IF n1 >= 12 THEN ShiftedOut(regs, c.cmd) ELSE 0
      BY <1>7 DEF out
    <3> QED  BY <1>4, <1>7, <3>1, <3>2, <3>3
  <2> QED  BY <2>6, <2>7
<1>8. CASE ~(n < 4) /\ ~Reads(c.cmd)
  <2>1. cmd = c.cmd /\ word = LowBits(c.word, n - 4) /\ out = 0
    BY <1>8 DEF cmd, word, out
  <2>2. bit = Bit(c.word, n - 4)
    BY <1>0, <1>8 DEF FrameBit
  <2>3. word + (bit * 2 ^ (n - 4)) = LowBits(c.word, n1 - 4)
    <3>1. n - 4 \in 0..15 /\ n1 - 4 = (n - 4) + 1
      BY <1>8
    <3>2. LowBits(c.word, (n - 4) + 1)
            = LowBits(c.word, n - 4) + (Bit(c.word, n - 4) * 2 ^ (n - 4))
      BY <1>3, <1>10, <3>1
    <3> QED  BY <2>1, <2>2, <3>1, <3>2
  <2>4. CASE n = 19
    <3>1. n1 = 20 /\ LowBits(c.word, n1 - 4) = c.word
      BY <1>9, <2>4
    <3>2. held = c.held
      BY <1>0, <2>4 DEF held
    <3>3. frame' = NoFrame /\ regs' = Execute(regs, c.cmd, c.word, c.held)
      BY <1>1, <1>8, <2>1, <2>3, <2>4, <3>1, <3>2, LatchedIs
    <3> QED  BY <1>1, <1>5, <3>1, <3>3
  <2>5. CASE n # 19
    <3>1. n \in 4..18 /\ n1 # 20 /\ ~(n1 < 4)
      BY <1>8, <2>5
    <3>2. frame' = FrameOf(n1, c.cmd, LowBits(c.word, n1 - 4), held, 0) /\ regs' = regs
      BY <1>1, <1>8, <2>1, <2>3, <3>1, LatchedIs
    <3> QED  BY <1>4, <1>8, <3>1, <3>2
  <2> QED  BY <2>4, <2>5
<1> QED  BY <1>6, <1>7, <1>8

\* The levels after a write.
LEMMA LevelIs ==
  ASSUME level \in [Lines -> {0, 1}], NEW pin \in Lines, NEW v \in {0, 1}
  PROVE  /\ [level EXCEPT ![pin] = v] \in [Lines -> {0, 1}]
         /\ [level EXCEPT ![pin] = v][pin] = v
         /\ \A p \in Lines : p # pin => [level EXCEPT ![pin] = v][p] = level[p]
OBVIOUS

\* Writing to PGD, or raising the clock, does nothing in the chip.
LEMMA WriteQuiet ==
  ASSUME Types, Operate, NEW pin \in {"pgc", "pgd"}, NEW v \in {0, 1}, Head(ops) = Write(pin, v),
         pin = "pgd" \/ v = 1 \/ mode = "run" \/ level["pgc"] = 0
  PROVE  /\ UNCHANGED Still /\ sampled' = sampled /\ outputs' = outputs
         /\ level' = [level EXCEPT ![pin] = v] /\ UNCHANGED chipVars
         /\ level'["mclr"] = level["mclr"] /\ level'[pin] = v
         /\ \A p \in {"pgc", "pgd"} : p # pin => level'[p] = level[p]
         /\ Types'
<1> DEFINE lev == [level EXCEPT ![pin] = v]
<1>1. /\ UNCHANGED Still /\ sampled' = sampled /\ outputs' = outputs
      /\ level' = lev /\ Chip(outputs, lev)
  BY WriteStep
<1>2. /\ level \in [Lines -> {0, 1}] /\ pin \in Lines
      /\ "pgc" \in Lines /\ "pgd" \in Lines /\ "mclr" \in Lines
  BY DEF Types, Lines
<1>3. /\ lev \in [Lines -> {0, 1}] /\ lev[pin] = v
      /\ \A p \in Lines : p # pin => lev[p] = level[p]
  BY <1>2, LevelIs
<1> HIDE DEF lev
<1>4. /\ lev["mclr"] = level["mclr"]
      /\ \A p \in {"pgc", "pgd"} : p # pin => lev[p] = level[p]
  BY <1>2, <1>3
<1>5. Seen("mclr", outputs, lev) = Seen("mclr", outputs, level)
  BY <1>4, SeenIs
<1>6. \/ Seen("pgc", outputs, lev) = Seen("pgc", outputs, level)
      \/ Seen("pgc", outputs, lev) = 1 \/ mode = "run"
  <2>1. CASE pin = "pgd"
    BY <1>4, <2>1, SeenIs
  <2>2. CASE pin = "pgc"
    BY <1>3, <2>2, SeenIs
  <2> QED  BY <2>1, <2>2
<1>7. UNCHANGED chipVars
  BY <1>1, <1>5, <1>6, ChipQuiet
<1>8. Types'
  BY <1>1, <1>3, <1>7 DEF Types, Still, chipVars
<1> QED  BY <1>1, <1>3, <1>4, <1>7, <1>8 DEF lev

\* On released lines nothing changes.
LEMMA ReleasedStays ==
  ASSUME Released, UNCHANGED Still, UNCHANGED chipVars, outputs' \subseteq {"pgd"}
  PROVE  Released'
BY DEF Released, Fresh, Still, chipVars

\* A command stays where it is when the chip has seen nothing.
LEMMA ProgrammingStays ==
  ASSUME NEW c, NEW a, NEW b, Programming(c, a), UNCHANGED Still, UNCHANGED chipVars,
         {"pgc", "mclr"} \subseteq outputs', level'["mclr"] = level["mclr"],
         b.out = 1 => "pgd" \in outputs', b.edges = a.edges, b.held = a.held
  PROVE  Programming(c, b)'
<1>1. InFrame(c, b)'
  BY DEF Programming, InFrame, Still, chipVars
<1> QED  BY <1>1 DEF Programming, Still, chipVars

\* What of a command in progress a step leaves alone.
LEMMA JobStays ==
  ASSUME NEW c, NEW a, NEW b, JobAt(c, a), UNCHANGED Still, UNCHANGED chipVars,
         level'["pgc"] = b.pgc, level'["pgd"] \in b.pgd, level'["mclr"] = level["mclr"],
         {"pgc", "mclr"} \cap outputs' = {"pgc", "mclr"} \cap outputs,
         b.out = 0 => "pgd" \notin outputs',
         b.out = 1 /\ a.out = 1 => ("pgd" \in outputs => "pgd" \in outputs'),
         b.out = 1 => a.out = 1 \/ "pgd" \in outputs',
         b.edges = a.edges, b.held = a.held, outputs \subseteq Lines, outputs' \subseteq Lines,
         sampled' = [j \in 1..b.samples |-> Bit(result[1], j - 1)]
  PROVE  JobAt(c, b)'
<1>0. result' = result
  BY DEF Still
<1>1. CASE Released /\ (Reads(c.cmd) => result = <<0>>)
  <2>1. outputs' \subseteq {"pgd"}
    BY <1>1 DEF Released, Lines
  <2>2. Released'
    BY <1>1, <2>1, ReleasedStays
  <2> QED  BY <1>0, <1>1, <2>2 DEF JobAt
<1>2. CASE Programming(c, a)
  <2>1. {"pgc", "mclr"} \subseteq outputs'
    BY <1>2 DEF Programming
  <2>2. b.out = 1 => "pgd" \in outputs'
    BY <1>2 DEF Programming
  <2>3. Programming(c, b)'
    BY <1>2, <2>1, <2>2, ProgrammingStays
  <2> QED  BY <1>0, <2>3 DEF JobAt
<1> QED  BY <1>1, <1>2 DEF JobAt

\* An operation that does not change what the chip sees of PGC and MCLR.
LEMMA SeenSame ==
  ASSUME NEW outs, {"pgc", "mclr"} \cap outs = {"pgc", "mclr"} \cap outputs
  PROVE  /\ Seen("mclr", outs, level) = Seen("mclr", outputs, level)
         /\ Seen("pgc", outs, level) = Seen("pgc", outputs, level)
<1>1. ("pgc" \in outs <=> "pgc" \in outputs) /\ ("mclr" \in outs <=> "mclr" \in outputs)
  OBVIOUS
<1> QED  BY <1>1, SeenIs

\* A list of the first values of a function, one longer.
LEMMA Grown ==
  ASSUME NEW S, NEW s \in Nat, NEW f \in [1..s + 1 -> S]
  PROVE  Append([j \in 1..s |-> f[j]], f[s + 1]) = [j \in 1..s + 1 |-> f[j]]
<1> DEFINE m == s + 1
           e == f[m]
           q == [j \in 1..s |-> f[j]]
           t == Append(q, e)
<1>1. m \in 1..m /\ e \in S /\ \A j \in 1..s : f[j] \in S /\ j \in 1..m
  OBVIOUS
<1>2. q \in Seq(S) /\ Len(q) = s /\ \A j \in 1..s : q[j] = f[j]
  <2>1. q \in [1..s -> S]
    BY <1>1
  <2> QED  BY <2>1
<1> HIDE DEF q, e
<1>3. /\ t \in Seq(S) /\ Len(t) = m
      /\ \A j \in 1..Len(q) : t[j] = q[j]
      /\ t[m] = e
  BY <1>1, <1>2, AppendProperties
<1> HIDE DEF t
<1>4. t = [j \in 1..m |-> t[j]]
  BY <1>3
<1>5. ASSUME NEW j \in 1..m PROVE t[j] = f[j]
  <2>1. j = m \/ j \in 1..s
    OBVIOUS
  <2> QED  BY <1>2, <1>3, <2>1 DEF e
<1> HIDE DEF m
<1>6. t = [j \in 1..m |-> f[j]]
  BY <1>4, <1>5
<1> QED  BY <1>6 DEF t, q, e, m

\* The bits read, one more.
LEMMA SamplesGrow ==
  ASSUME NEW r, NEW s \in Nat
  PROVE  Append([j \in 1..s |-> Bit(r, j - 1)], Bit(r, s)) = [j \in 1..s + 1 |-> Bit(r, j - 1)]
<1> DEFINE f == [j \in 1..s + 1 |-> Bit(r, j - 1)]
           S == {Bit(r, j - 1) : j \in 1..s + 1}
<1>1. f \in [1..s + 1 -> S]
  OBVIOUS
<1>2. [j \in 1..s |-> f[j]] = [j \in 1..s |-> Bit(r, j - 1)] /\ f[s + 1] = Bit(r, s)
  <2>1. \A j \in 1..s : j \in 1..s + 1
    OBVIOUS
  <2>2. s + 1 \in 1..s + 1 /\ (s + 1) - 1 = s
    OBVIOUS
  <2> QED  BY <2>1, <2>2
<1>3. [j \in 1..s + 1 |-> f[j]] = f
  OBVIOUS
<1> HIDE DEF S
<1>4. Append([j \in 1..s |-> f[j]], f[s + 1]) = [j \in 1..s + 1 |-> f[j]]
  <2> HIDE DEF f
  <2> QED  BY <1>1, Grown
<1> QED  BY <1>2, <1>3, <1>4

\* The hold the chip has seen is the one the call meant.
LEMMA HeldIs ==
  ASSUME NEW h \in Held, NEW p, h.high = (p = 1)
  PROVE  [high |-> p = 1, us |-> h.us] = h
BY DEF Held

\* Every operation of a command keeps its place on the wires.
LEMMA JobStep ==
  ASSUME NEW c \in JobCalls, NEW a \in Marks, NEW b \in Marks, Leads(c, a, Head(ops), b),
         Types, JobAt(c, a), Operate
  PROVE  JobAt(c, b)' /\ Types' /\ UNCHANGED <<calls>>
<1> DEFINE op == Head(ops)
<1>0. /\ outputs \subseteq Lines /\ level \in [Lines -> {0, 1}] /\ regs \in Registers
      /\ meant \in Registers
      /\ level["pgc"] = a.pgc /\ level["pgd"] \in a.pgd
      /\ a.out = 0 => "pgd" \notin outputs
      /\ sampled = [j \in 1..a.samples |-> Bit(result[1], j - 1)]
  BY DEF Types, JobAt
<1>1. ASSUME NEW v \in {0, 1}, op = Write("pgd", v), v \in b.pgd, b = [a EXCEPT !.pgd = b.pgd]
      PROVE  JobAt(c, b)' /\ Types' /\ UNCHANGED <<calls>>
  <2>1. /\ b.pgc = a.pgc /\ b.out = a.out /\ b.edges = a.edges /\ b.held = a.held
        /\ b.samples = a.samples
    BY <1>1 DEF Marks
  <2>2. /\ UNCHANGED Still /\ sampled' = sampled /\ outputs' = outputs /\ UNCHANGED chipVars
        /\ level'["mclr"] = level["mclr"] /\ level'["pgd"] = v /\ level'["pgc"] = level["pgc"]
        /\ Types'
    BY <1>1, WriteQuiet
  <2>3. JobAt(c, b)'
    BY <1>0, <1>1, <2>1, <2>2, JobStays
  <2> QED  BY <2>2, <2>3 DEF Still
<1>2. ASSUME op = Write("pgc", 1), b = [a EXCEPT !.pgc = 1]
      PROVE  JobAt(c, b)' /\ Types' /\ UNCHANGED <<calls>>
  <2>1. /\ b.pgc = 1 /\ b.pgd = a.pgd /\ b.out = a.out /\ b.edges = a.edges /\ b.held = a.held
        /\ b.samples = a.samples
    BY <1>2 DEF Marks
  <2>2. /\ UNCHANGED Still /\ sampled' = sampled /\ outputs' = outputs /\ UNCHANGED chipVars
        /\ level'["mclr"] = level["mclr"] /\ level'["pgc"] = 1 /\ level'["pgd"] = level["pgd"]
        /\ Types'
    BY <1>2, WriteQuiet
  <2>3. JobAt(c, b)'
    BY <1>0, <2>1, <2>2, JobStays
  <2> QED  BY <2>2, <2>3 DEF Still
<1>3. ASSUME op = Input("pgd"), b = [a EXCEPT !.out = 0]
      PROVE  JobAt(c, b)' /\ Types' /\ UNCHANGED <<calls>>
  <2>1. /\ b.pgc = a.pgc /\ b.pgd = a.pgd /\ b.out = 0 /\ b.edges = a.edges /\ b.held = a.held
        /\ b.samples = a.samples
    BY <1>3 DEF Marks
  <2>2. /\ UNCHANGED Still /\ sampled' = sampled /\ outputs' = outputs \ {"pgd"}
        /\ level' = level /\ Chip(outputs \ {"pgd"}, level)
    BY <1>3, InputStep
  <2>3. {"pgc", "mclr"} \cap (outputs \ {"pgd"}) = {"pgc", "mclr"} \cap outputs
    OBVIOUS
  <2>4. UNCHANGED chipVars
    BY <2>2, <2>3, SeenSame, ChipQuiet
  <2>5. JobAt(c, b)'
    BY <1>0, <2>1, <2>2, <2>3, <2>4, JobStays
  <2>6. Types'
    BY <1>0, <2>2, <2>4 DEF Types, Still, chipVars
  <2> QED  BY <2>2, <2>5, <2>6 DEF Still
<1>4. ASSUME op = Output("pgd"), b = [a EXCEPT !.out = 1]
      PROVE  JobAt(c, b)' /\ Types' /\ UNCHANGED <<calls>>
  <2>1. /\ b.pgc = a.pgc /\ b.pgd = a.pgd /\ b.out = 1 /\ b.edges = a.edges /\ b.held = a.held
        /\ b.samples = a.samples
    BY <1>4 DEF Marks
  <2>2. /\ UNCHANGED Still /\ sampled' = sampled /\ outputs' = outputs \cup {"pgd"}
        /\ level' = level /\ Chip(outputs \cup {"pgd"}, level)
    BY <1>4, OutputStep
  <2>3. {"pgc", "mclr"} \cap (outputs \cup {"pgd"}) = {"pgc", "mclr"} \cap outputs
    OBVIOUS
  <2>4. UNCHANGED chipVars
    BY <2>2, <2>3, SeenSame, ChipQuiet
  <2>5. outputs' \subseteq Lines
    BY <1>0, <2>2 DEF Lines
  <2>6. JobAt(c, b)'
    BY <1>0, <2>1, <2>2, <2>3, <2>4, <2>5, JobStays
  <2>7. Types'
    BY <1>0, <2>2, <2>4, <2>5 DEF Types, Still, chipVars
  <2> QED  BY <2>2, <2>6, <2>7 DEF Still
<1>5. ASSUME op = Write("pgc", 0), a.pgc = 1, a.edges < 20,
             a.edges < 4 \/ ~Reads(c.cmd) => a.pgd = {FrameBit(c, a.edges)} /\ a.out = 1,
             a.edges = 19 => a.held = 1 \/ c.held = NotHeld, a.pgd \subseteq b.pgd,
             b = Marked(0, b.pgd, a.out, a.edges + 1, a.held, a.samples)
      PROVE  JobAt(c, b)' /\ Types' /\ UNCHANGED <<calls>>
  <2>1. /\ b.pgc = 0 /\ b.out = a.out /\ b.edges = a.edges + 1 /\ b.held = a.held
        /\ b.samples = a.samples
    BY <1>5 DEF Marked
  <2> DEFINE lev == [level EXCEPT !["pgc"] = 0]
  <2>2. /\ UNCHANGED Still /\ sampled' = sampled /\ outputs' = outputs
        /\ level' = lev /\ Chip(outputs, lev)
    BY <1>5, WriteStep
  <2>3. "pgc" \in Lines /\ "pgd" \in Lines /\ "mclr" \in Lines
    BY DEF Lines
  <2>4. /\ lev \in [Lines -> {0, 1}] /\ lev["pgc"] = 0 /\ lev["pgd"] = level["pgd"]
        /\ lev["mclr"] = level["mclr"]
    BY <1>0, <2>3, LevelIs
  <2>5. CASE Released /\ (Reads(c.cmd) => result = <<0>>)
    <3>1. mode = "run" /\ outputs \subseteq {"pgd"}
      BY <2>5 DEF Released
    <3>2. UNCHANGED chipVars /\ Types'
      BY <1>5, <3>1, WriteQuiet
    <3>3. Released'
      BY <2>2, <2>5, <3>1, <3>2, ReleasedStays
    <3>4. JobAt(c, b)'
      BY <1>0, <1>5, <2>1, <2>2, <2>4, <2>5, <3>3 DEF JobAt, Still
    <3> QED  BY <2>2, <3>2, <3>4 DEF Still
  <2>6. CASE Programming(c, a)
    <3>1. /\ mode = "program" /\ {"pgc", "mclr"} \subseteq outputs /\ InFrame(c, a)
          /\ a.out = 1 => "pgd" \in outputs
      BY <2>6 DEF Programming
    <3> HIDE DEF lev
    <3>2. /\ Seen("mclr", outputs, lev) = Seen("mclr", outputs, level)
          /\ Seen("pgc", outputs, level) = 1 /\ Seen("pgc", outputs, lev) = 0
      BY <1>0, <1>5, <2>4, <3>1, SeenIs
    <3> DEFINE bit == Seen("pgd", outputs, lev)
    <3>3. Latched(bit) /\ UNCHANGED <<mode, key>>
      BY <2>2, <3>1, <3>2, ChipLatches
    <3>4. a.edges < 4 \/ ~Reads(c.cmd) => bit = FrameBit(c, a.edges)
      BY <1>0, <1>5, <2>4, <3>1, SeenIs
    <3> HIDE DEF bit
    <3>5. InFrame(c, b)' /\ (regs' = regs \/ regs' = meant)
      <4>1. UNCHANGED <<meant, result>>
        BY <2>2 DEF Still
      <4> QED  BY <1>5, <2>1, <3>1, <3>3, <3>4, <4>1, FrameStep
    <3>6. Programming(c, b)'
      BY <2>1, <2>2, <2>4, <2>6, <3>3, <3>5 DEF Programming, Still
    <3>7. JobAt(c, b)'
      BY <1>0, <1>5, <2>1, <2>2, <2>4, <3>6 DEF JobAt, Still
    <3>8. Types'
      BY <1>0, <2>2, <2>4, <3>5 DEF Types, Still
    <3> QED  BY <2>2, <3>7, <3>8 DEF Still
  <2> QED  BY <2>5, <2>6 DEF JobAt
<1>6. ASSUME op = Hold(c.held.us), c.held.high = (a.pgc = 1), a.edges \in {3, 4}, a.out = 1,
             ~Reads(c.cmd), b = [a EXCEPT !.held = 1]
      PROVE  JobAt(c, b)' /\ Types' /\ UNCHANGED <<calls>>
  <2>1. /\ b.pgc = a.pgc /\ b.pgd = a.pgd /\ b.out = a.out /\ b.edges = a.edges /\ b.held = 1
        /\ b.samples = a.samples
    BY <1>6 DEF Marks
  <2>2. /\ UNCHANGED Still /\ sampled' = sampled /\ outputs' = outputs /\ level' = level
        /\ IF mode = "program" /\ {"pgc", "pgd"} \subseteq outputs
           THEN /\ frame' = [frame EXCEPT !.held = [high |-> level["pgc"] = 1, us |-> c.held.us]]
                /\ UNCHANGED <<mode, key, regs>>
           ELSE Chip(outputs, level)
    BY <1>6, HoldStep
  <2>3. CASE Released /\ (Reads(c.cmd) => result = <<0>>)
    <3>1. mode # "program" /\ outputs \subseteq {"pgd"}
      BY <2>3 DEF Released
    <3>2. UNCHANGED chipVars
      BY <2>2, <3>1, ChipQuiet
    <3>3. Released'
      BY <2>2, <2>3, <3>1, <3>2, ReleasedStays
    <3>4. JobAt(c, b)'
      BY <1>0, <1>6, <2>1, <2>2, <2>3, <3>3 DEF JobAt, Still
    <3>5. Types'
      BY <1>0, <2>2, <3>2 DEF Types, Still, chipVars
    <3> QED  BY <2>2, <3>4, <3>5 DEF Still
  <2>4. CASE Programming(c, a)
    <3>1. /\ mode = "program" /\ {"pgc", "pgd"} \subseteq outputs /\ InFrame(c, a)
      BY <1>6, <2>4 DEF Programming
    <3>2. [high |-> a.pgc = 1, us |-> c.held.us] = c.held
      BY <1>6, JobCallIs, HeldIs
    <3>3. frame' = [frame EXCEPT !.held = c.held] /\ UNCHANGED <<mode, key, regs>>
      BY <1>0, <2>2, <3>1, <3>2
    <3>4. InFrame(c, b)'
      <4> DEFINE cmd == IF a.edges < 4 THEN LowBits(c.cmd, a.edges) ELSE c.cmd
                 word == IF a.edges < 4 \/ Reads(c.cmd) THEN 0 ELSE LowBits(c.word, a.edges - 4)
                 held == IF a.held = 1 THEN c.held ELSE NotHeld
                 out == IF Reads(c.cmd) /\ a.edges >= 12 THEN ShiftedOut(regs, c.cmd) ELSE 0
      <4>1. a.edges # 20
        BY <1>6
      <4>2. /\ frame = FrameOf(a.edges, cmd, word, held, out)
            /\ Execute(regs, c.cmd, c.word, c.held) = meant
        BY <3>1, <4>1 DEF InFrame
      <4>3. frame' = FrameOf(a.edges, cmd, word, c.held, out)
        <5> HIDE DEF cmd, word, held, out
        <5> QED  BY <3>3, <4>2 DEF FrameOf
      <4>4. regs' = regs /\ meant' = meant /\ result' = result
        BY <2>2, <3>3 DEF Still
      <4> QED  BY <1>6, <2>1, <4>1, <4>2, <4>3, <4>4 DEF InFrame
    <3>5. Programming(c, b)'
      BY <2>1, <2>2, <2>4, <3>3, <3>4 DEF Programming, Still
    <3>6. JobAt(c, b)'
      BY <1>0, <1>6, <2>1, <2>2, <3>5 DEF JobAt, Still
    <3>7. Types'
      BY <1>0, <2>2, <3>3 DEF Types, Still
    <3> QED  BY <2>2, <3>6, <3>7 DEF Still
  <2> QED  BY <2>3, <2>4 DEF JobAt
<1>7. ASSUME op = Sample, Reads(c.cmd), a.out = 0, a.samples < 8, a.edges = 12 + a.samples,
             b = [a EXCEPT !.samples = a.samples + 1]
      PROVE  JobAt(c, b)' /\ Types' /\ UNCHANGED <<calls>>
  <2>0. PICK s \in 0..7 : s = a.samples /\ s \in Nat
    <3>1. a.samples \in 0..8
      BY DEF Marks
    <3> QED  BY <1>7, <3>1
  <2>1. /\ b.pgc = a.pgc /\ b.pgd = a.pgd /\ b.out = 0 /\ b.edges = a.edges /\ b.held = a.held
        /\ b.samples = s + 1
    BY <1>7, <2>0 DEF Marks
  <2>2. /\ UNCHANGED Still /\ sampled' = Append(sampled, Seen("pgd", outputs, level))
        /\ outputs' = outputs /\ level' = level /\ Chip(outputs, level)
    BY <1>7, SampleStep
  <2>3. UNCHANGED chipVars
    BY <2>2, ChipQuiet
  <2>4. Seen("pgd", outputs, level) = Bit(result[1], s)
    <3>1. "pgd" \notin outputs
      BY <1>0, <1>7
    <3>2. CASE Released /\ (Reads(c.cmd) => result = <<0>>)
      <4>1. ~Answering /\ result[1] = 0
        BY <1>7, <3>2 DEF Released, Answering
      <4>2. Bit(0, s) = 0
        <5>1. s \in 0..15
          BY <2>0
        <5> QED  BY <5>1, ZeroBit
      <4> QED  BY <3>1, <4>1, <4>2, SeenIs
    <3>3. CASE Programming(c, a)
      <4> DEFINE word == IF a.edges < 4 \/ Reads(c.cmd) THEN 0 ELSE LowBits(c.word, a.edges - 4)
                 held == IF a.held = 1 THEN c.held ELSE NotHeld
                 out == ShiftedOut(regs, c.cmd)
      <4>1. a.edges = 12 + s /\ a.edges # 20 /\ ~(a.edges < 4) /\ a.edges >= 12
        BY <1>7, <2>0
      <4>2. frame = FrameOf(a.edges, c.cmd, word, held, out) /\ result = <<out>>
        BY <1>7, <3>3, <4>1 DEF Programming, InFrame
      <4> HIDE DEF word, held, out
      <4>3. frame.n = a.edges /\ frame.cmd = c.cmd /\ frame.out = out /\ result[1] = out
        BY <4>2 DEF FrameOf
      <4>4. Answering
        BY <1>7, <3>3, <4>1, <4>3 DEF Answering, Programming
      <4>5. frame.n - 12 = s
        BY <4>1, <4>3
      <4> QED  BY <3>1, <4>3, <4>4, <4>5, SeenIs
    <3> QED  BY <3>2, <3>3 DEF JobAt
  <2>5. sampled' = [j \in 1..b.samples |-> Bit(result[1], j - 1)]
    BY <1>0, <2>0, <2>1, <2>2, <2>4, SamplesGrow
  <2>6. JobAt(c, b)'
    BY <1>0, <1>7, <2>1, <2>2, <2>3, <2>5, JobStays
  <2>7. Types'
    BY <1>0, <2>2, <2>3 DEF Types, Still, chipVars
  <2> QED  BY <2>2, <2>6, <2>7 DEF Still
<1> QED  BY <1>1, <1>2, <1>3, <1>4, <1>5, <1>6, <1>7 DEF Leads

(***************************************************************************)
(* The calls that make a session.                                          *)
(***************************************************************************)

\* MCLR written: the clock does not move.
LEMMA MclrStep ==
  ASSUME Types, Operate, NEW v \in {0, 1}, Head(ops) = Write("mclr", v)
  PROVE  /\ UNCHANGED Still /\ sampled' = sampled /\ outputs' = outputs
         /\ level' \in [Lines -> {0, 1}] /\ level'["mclr"] = v
         /\ level'["pgc"] = level["pgc"] /\ level'["pgd"] = level["pgd"]
         /\ "mclr" \notin outputs \/ level["mclr"] = v => UNCHANGED chipVars
         /\ "mclr" \in outputs /\ level["mclr"] = 1 /\ v = 0 =>
              /\ mode' = "reset" /\ key' = <<>> /\ frame' = NoFrame
              /\ regs' = [PowerOn EXCEPT !.flash = regs.flash]
         /\ "mclr" \in outputs /\ level["mclr"] = 0 /\ v = 1 =>
              /\ mode' = IF key = EntryKey THEN "program" ELSE "run"
              /\ key' = <<>> /\ UNCHANGED <<frame, regs>>
<1> DEFINE lev == [level EXCEPT !["mclr"] = v]
<1>1. /\ UNCHANGED Still /\ sampled' = sampled /\ outputs' = outputs
      /\ level' = lev /\ Chip(outputs, lev)
  BY WriteStep
<1>2. /\ level \in [Lines -> {0, 1}] /\ "pgc" \in Lines /\ "pgd" \in Lines /\ "mclr" \in Lines
  BY DEF Types, Lines
<1>3. /\ lev \in [Lines -> {0, 1}] /\ lev["mclr"] = v
      /\ lev["pgc"] = level["pgc"] /\ lev["pgd"] = level["pgd"]
  BY <1>2, LevelIs
<1> HIDE DEF lev
<1>4. Seen("pgc", outputs, lev) = Seen("pgc", outputs, level)
  BY <1>3, SeenIs
<1>5. ASSUME "mclr" \notin outputs \/ level["mclr"] = v PROVE UNCHANGED chipVars
  <2>1. Seen("mclr", outputs, lev) = Seen("mclr", outputs, level)
    BY <1>3, <1>5, SeenIs
  <2> QED  BY <1>1, <1>4, <2>1, ChipQuiet
<1>6. ASSUME "mclr" \in outputs, level["mclr"] = 1, v = 0
      PROVE  /\ mode' = "reset" /\ key' = <<>> /\ frame' = NoFrame
             /\ regs' = [PowerOn EXCEPT !.flash = regs.flash]
  <2>1. Seen("mclr", outputs, lev) = 0 /\ Seen("mclr", outputs, level) = 1
    BY <1>3, <1>6, SeenIs
  <2> QED  BY <1>1, <1>4, <2>1, ChipFalls
<1>7. ASSUME "mclr" \in outputs, level["mclr"] = 0, v = 1
      PROVE  /\ mode' = IF key = EntryKey THEN "program" ELSE "run"
             /\ key' = <<>> /\ UNCHANGED <<frame, regs>>
  <2>1. Seen("mclr", outputs, lev) = 1 /\ Seen("mclr", outputs, level) = 0
    BY <1>3, <1>7, SeenIs
  <2> QED  BY <1>1, <1>4, <2>1, ChipRises
<1> QED  BY <1>1, <1>3, <1>5, <1>6, <1>7

\* A pin made an output or an input again.
LEMMA PinStep ==
  ASSUME Types, Operate, NEW pin \in Lines, NEW outs,
         \/ Head(ops) = Output(pin) /\ outs = outputs \cup {pin}
         \/ Head(ops) = Input(pin) /\ outs = outputs \ {pin}
  PROVE  /\ UNCHANGED Still /\ sampled' = sampled /\ outputs' = outs /\ level' = level
         /\ outs \subseteq Lines /\ Chip(outs, level)
<1>1. outputs \subseteq Lines
  BY DEF Types
<1>2. CASE Head(ops) = Output(pin) /\ outs = outputs \cup {pin}
  BY <1>1, <1>2, OutputStep
<1>3. CASE Head(ops) = Input(pin) /\ outs = outputs \ {pin}
  BY <1>1, <1>3, InputStep
<1> QED  BY <1>2, <1>3

\* A reset keeps the flash and loses the rest.
LEMMA FlashKept ==
  ASSUME NEW r \in Registers
  PROVE  /\ [PowerOn EXCEPT !.flash = r.flash] \in Registers
         /\ [PowerOn EXCEPT !.flash = r.flash].flash = r.flash
<1>1. r.flash \in [0..FlashBytes - 1 -> Byte]
  BY DEF Registers
<1>2. PowerOn \in Registers
  BY PowerOnTyped
<1> QED  BY <1>1, <1>2 DEF Registers

\* The key as it is clocked in, bit by bit.
LEMMA KeyGrows ==
  /\ KeyBits(0) = <<>> /\ KeyBits(32) = EntryKey /\ EntryKey # <<>>
  /\ \A i \in 0..31 : /\ Append(KeyBits(i), EntryKey[i + 1]) = KeyBits(i + 1)
                      /\ Len(KeyBits(i)) = i
<1>1. EntryKey \in [1..32 -> {0, 1}]
  BY EntryKeyTyped
<1>2. KeyBits(32) = EntryKey
  BY <1>1 DEF KeyBits
<1>3. KeyBits(0) = <<>>
  BY DEF KeyBits
<1>4. Len(EntryKey) = 32 /\ EntryKey # <<>>
  <2> DEFINE n == 32
  <2>1. n \in Nat /\ EntryKey \in [1..n -> {0, 1}]
    BY <1>1
  <2> HIDE DEF n
  <2>2. Len(EntryKey) = n /\ EntryKey \in Seq({0, 1})
    BY <2>1
  <2>3. EntryKey = <<>> <=> Len(EntryKey) = 0
    BY <2>2, EmptySeq
  <2>4. n # 0
    BY DEF n
  <2> QED  BY <2>2, <2>3, <2>4 DEF n
<1>6. ASSUME NEW i \in 0..31
      PROVE  Append(KeyBits(i), EntryKey[i + 1]) = KeyBits(i + 1) /\ Len(KeyBits(i)) = i
  <2> DEFINE f == [j \in 1..i + 1 |-> EntryKey[j]]
  <2>1. i \in Nat /\ \A j \in 1..i + 1 : j \in 1..32
    OBVIOUS
  <2>2. \A j \in 1..i + 1 : EntryKey[j] \in {0, 1}
    BY <1>1, <2>1
  <2>3. f \in [1..i + 1 -> {0, 1}] /\ \A j \in 1..i : j \in 1..i + 1 /\ f[j] = EntryKey[j]
    BY <2>1, <2>2
  <2>4. f[i + 1] = EntryKey[i + 1] /\ f = KeyBits(i + 1)
    BY <2>1 DEF KeyBits
  <2>5. KeyBits(i) = [j \in 1..i |-> f[j]]
    BY <2>3 DEF KeyBits
  <2>6. KeyBits(i + 1) = [j \in 1..i + 1 |-> f[j]]
    BY DEF KeyBits
  <2> HIDE DEF f
  <2>7. Append(KeyBits(i), EntryKey[i + 1]) = KeyBits(i + 1)
    BY <2>1, <2>3, <2>4, <2>5, <2>6, Grown
  <2>8. KeyBits(i) \in [1..i -> {0, 1}]
    BY <2>2, <2>3 DEF KeyBits
  <2>9. Len(KeyBits(i)) = i
    BY <2>1, <2>8
  <2> QED  BY <2>7, <2>9
<1> QED  BY <1>2, <1>3, <1>4, <1>6

\* Every operation of an exit keeps its place,
LEMMA ExitStep ==
  ASSUME Types, NEW k \in 0..3, ExitAt(k), Operate, Head(ops) = ExitScript[k]
  PROVE  ExitAt(k + 1)' /\ Types' /\ UNCHANGED calls
<1> USE DEF Lines
<1>0. /\ outputs \subseteq Lines /\ level \in [Lines -> {0, 1}] /\ regs \in Registers
      /\ meant \in Registers
  BY DEF Types
<1>1. CASE k = 0
  <2>1. Head(ops) = Write("mclr", 0)
    BY <1>1 DEF ExitScript
  <2>2. /\ UNCHANGED Still /\ sampled' = sampled /\ outputs' = outputs
        /\ level' \in [Lines -> {0, 1}] /\ level'["mclr"] = 0
        /\ level'["pgc"] = level["pgc"]
        /\ "mclr" \notin outputs => UNCHANGED chipVars
        /\ "mclr" \in outputs /\ level["mclr"] = 1 =>
             /\ mode' = "reset" /\ key' = <<>> /\ frame' = NoFrame
             /\ regs' = [PowerOn EXCEPT !.flash = regs.flash]
    BY <2>1, MclrStep
  <2>3. CASE mode = "run" /\ outputs \subseteq {"pgd"} /\ regs = meant
    <3>1. UNCHANGED chipVars
      BY <2>2, <2>3
    <3> QED  BY <1>0, <1>1, <2>2, <2>3, <3>1 DEF ExitAt, Fresh, Types, Still, chipVars
  <2>4. CASE mode = "program" /\ outputs = Lines /\ level["mclr"] = 1
    <3>1. /\ mode' = "reset" /\ key' = <<>> /\ frame' = NoFrame
          /\ regs' = [PowerOn EXCEPT !.flash = regs.flash]
      BY <2>2, <2>4
    <3>2. regs' = meant /\ regs'.flash = regs.flash /\ regs' \in Registers
      BY <1>0, <3>1, FlashKept DEF ExitAt, Fresh
    <3>3. Fresh'
      BY <2>2, <3>2 DEF ExitAt, Fresh, Still
    <3> QED  BY <1>0, <1>1, <2>2, <2>4, <3>1, <3>2, <3>3 DEF ExitAt, Types, Still
  <2> QED  BY <1>1, <2>3, <2>4 DEF ExitAt
<1>2. CASE k \in 1..2
  <2> DEFINE pin == IF k = 1 THEN "pgc" ELSE "pgd"
             outs == outputs \ {pin}
  <2>1. Head(ops) = Input(pin)
    BY <1>2 DEF ExitScript
  <2>2. /\ UNCHANGED Still /\ sampled' = sampled /\ outputs' = outs /\ level' = level
        /\ outs \subseteq Lines /\ Chip(outs, level)
    BY <1>2, <2>1, PinStep
  <2>3. level["pgc"] = 0 /\ ("mclr" \in outs <=> "mclr" \in outputs)
    BY <1>2 DEF ExitAt
  <2>4. /\ Seen("mclr", outs, level) = Seen("mclr", outputs, level)
        /\ Seen("pgc", outs, level) = Seen("pgc", outputs, level)
    BY <2>3, SeenIs
  <2>5. UNCHANGED chipVars
    BY <2>2, <2>4, ChipQuiet
  <2>6. CASE mode = "run" /\ outputs \subseteq {"pgd"} /\ regs = meant
    BY <1>0, <1>2, <2>2, <2>5, <2>6 DEF ExitAt, Fresh, Types, Still, chipVars
  <2>7. CASE /\ mode = "reset" /\ regs = meant /\ level["mclr"] = 0
             /\ outputs = IF k = 1 THEN Lines ELSE {"pgd", "mclr"}
    <3>1. outs = IF k = 1 THEN {"pgd", "mclr"} ELSE {"mclr"}
      BY <1>2, <2>7
    <3> QED  BY <1>0, <1>2, <2>2, <2>5, <2>7, <3>1 DEF ExitAt, Fresh, Types, Still, chipVars
  <2> QED  BY <1>2, <2>6, <2>7 DEF ExitAt
<1>3. CASE k = 3
  <2> DEFINE outs == outputs \ {"mclr"}
  <2>1. Head(ops) = Input("mclr")
    BY <1>3 DEF ExitScript
  <2>2. /\ UNCHANGED Still /\ sampled' = sampled /\ outputs' = outs /\ level' = level
        /\ outs \subseteq Lines /\ Chip(outs, level)
    BY <2>1, PinStep
  <2>3. level["pgc"] = 0
    BY DEF ExitAt
  <2>4. Seen("pgc", outs, level) = Seen("pgc", outputs, level)
    BY <2>3, SeenIs
  <2>5. CASE mode = "run" /\ outputs \subseteq {"pgd"} /\ regs = meant
    <3>1. Seen("mclr", outs, level) = Seen("mclr", outputs, level)
      BY <2>5, SeenIs
    <3>2. UNCHANGED chipVars
      BY <2>2, <2>4, <3>1, ChipQuiet
    <3> QED  BY <1>0, <1>3, <2>2, <2>5, <3>2 DEF ExitAt, Fresh, Types, Still, chipVars
  <2>6. CASE mode = "reset" /\ regs = meant /\ level["mclr"] = 0 /\ outputs = {"mclr"}
    <3>1. Seen("mclr", outs, level) = 1 /\ Seen("mclr", outputs, level) = 0
      BY <2>6, SeenIs
    <3>2. /\ mode' = IF key = EntryKey THEN "program" ELSE "run"
          /\ key' = <<>> /\ UNCHANGED <<frame, regs>>
      BY <2>2, <2>4, <3>1, ChipRises
    <3>3. mode' = "run"
      <4>1. key = <<>>
        BY DEF ExitAt
      <4> QED  BY <3>2, <4>1, KeyGrows
    <3>4. outs = {}
      BY <2>6
    <3> QED  BY <1>0, <1>3, <2>2, <2>6, <3>2, <3>3, <3>4 DEF ExitAt, Fresh, Types, Still
  <2> QED  BY <1>3, <2>5, <2>6 DEF ExitAt
<1> QED  BY <1>1, <1>2, <1>3

\* every one of an init,
LEMMA InitStep ==
  ASSUME Types, NEW k \in 0..5, InitAt(k), Operate, Head(ops) = InitScript[k]
  PROVE  InitAt(k + 1)' /\ Types' /\ UNCHANGED calls
<1> USE DEF Lines
<1>0. /\ outputs \subseteq Lines /\ level \in [Lines -> {0, 1}] /\ regs \in Registers
      /\ meant \in Registers
  BY DEF Types
<1>1. CASE k \in 0..1
  <2> DEFINE pin == IF k = 0 THEN "pgc" ELSE "pgd"
             outs == outputs \cup {pin}
  <2>1. Head(ops) = Output(pin)
    BY <1>1 DEF InitScript
  <2>2. /\ UNCHANGED Still /\ sampled' = sampled /\ outputs' = outs /\ level' = level
        /\ outs \subseteq Lines /\ Chip(outs, level)
    BY <1>1, <2>1, PinStep
  <2>3. level["pgc"] = 0 /\ ("mclr" \in outs <=> "mclr" \in outputs)
    BY <1>1 DEF InitAt
  <2>4. /\ Seen("mclr", outs, level) = Seen("mclr", outputs, level)
        /\ Seen("pgc", outs, level) = Seen("pgc", outputs, level)
    BY <2>3, SeenIs
  <2>5. UNCHANGED chipVars
    BY <2>2, <2>4, ChipQuiet
  <2> QED  BY <1>0, <1>1, <2>2, <2>5 DEF InitAt, Fresh, Types, Still, chipVars
<1>2. CASE k = 2
  <2> DEFINE outs == outputs \cup {"mclr"}
  <2>1. Head(ops) = Output("mclr")
    BY <1>2 DEF InitScript
  <2>2. /\ UNCHANGED Still /\ sampled' = sampled /\ outputs' = outs /\ level' = level
        /\ outs \subseteq Lines /\ Chip(outs, level)
    BY <2>1, PinStep
  <2>3. level["pgc"] = 0 /\ level["mclr"] = 0 /\ "mclr" \notin outputs
        /\ "pgc" \in outputs /\ "pgd" \in outputs
    BY <1>2 DEF InitAt
  <2>4. /\ Seen("mclr", outs, level) = 0 /\ Seen("mclr", outputs, level) = 1
        /\ Seen("pgc", outs, level) = Seen("pgc", outputs, level)
    BY <2>3, SeenIs
  <2>5. /\ mode' = "reset" /\ key' = <<>> /\ frame' = NoFrame
        /\ regs' = [PowerOn EXCEPT !.flash = regs.flash]
    BY <2>2, <2>4, ChipFalls
  <2>6. regs' = meant /\ regs'.flash = regs.flash /\ regs' \in Registers
    BY <1>0, <2>5, FlashKept DEF InitAt, Fresh
  <2>7. Fresh'
    BY <2>2, <2>6 DEF InitAt, Fresh, Still
  <2>8. outs = Lines
    BY <1>0, <2>3
  <2> QED  BY <1>0, <1>2, <2>2, <2>5, <2>6, <2>7, <2>8 DEF InitAt, Types, Still
<1>3. CASE k \in 3..4
  <2> DEFINE pin == IF k = 3 THEN "pgc" ELSE "pgd"
  <2>1. Head(ops) = Write(pin, 0) /\ pin \in {"pgc", "pgd"}
    BY <1>3 DEF InitScript
  <2>2. level["pgc"] = 0
    BY DEF InitAt
  <2>3. /\ UNCHANGED Still /\ sampled' = sampled /\ outputs' = outputs /\ UNCHANGED chipVars
        /\ level'["mclr"] = level["mclr"] /\ level'[pin] = 0
        /\ \A p \in {"pgc", "pgd"} : p # pin => level'[p] = level[p]
        /\ Types'
    BY <2>1, <2>2, WriteQuiet
  <2>4. level'["pgc"] = 0
    BY <2>2, <2>3
  <2> QED  BY <1>3, <2>3, <2>4 DEF InitAt, Fresh, Still, chipVars
<1>4. CASE k = 5
  <2>1. Head(ops) = Write("mclr", 0)
    BY <1>4 DEF InitScript
  <2>2. level["mclr"] = 0
    BY DEF InitAt
  <2>3. /\ UNCHANGED Still /\ sampled' = sampled /\ outputs' = outputs
        /\ level' \in [Lines -> {0, 1}] /\ level'["mclr"] = 0
        /\ level'["pgc"] = level["pgc"] /\ UNCHANGED chipVars
    BY <2>1, <2>2, MclrStep
  <2> QED  BY <1>0, <1>4, <2>3 DEF InitAt, Fresh, Types, Still, chipVars
<1> QED  BY <1>1, <1>2, <1>3, <1>4

\* The clock during the key.
LEMMA EnterClockIs ==
  /\ \A k \in {0, 1, 2, 3, 100, 101} : EnterClock(k) = 0 /\ EnterClock(k + 1) = 0
  /\ EnterClock(102) = 0
  /\ \A k \in 4..99 : /\ EnterClock(k) = IF (k - 4) % 3 = 2 THEN 1 ELSE 0
                      /\ EnterClock(k + 1) = IF (k - 4) % 3 = 1 THEN 1 ELSE 0
<1>1. \A k \in 4..99 : EnterClock(k + 1) = IF (k - 4) % 3 = 1 THEN 1 ELSE 0
  <2>1. ASSUME NEW k \in 4..98 PROVE EnterClock(k + 1) = IF (k - 4) % 3 = 1 THEN 1 ELSE 0
    <3>1. k + 1 \in 4..99 /\ (((k + 1) - 4) % 3 = 2 <=> (k - 4) % 3 = 1)
      OBVIOUS
    <3> QED  BY <3>1 DEF EnterClock
  <2>2. EnterClock(99 + 1) = 0 /\ (99 - 4) % 3 # 1
    BY DEF EnterClock
  <2>3. \A k \in 4..99 : k \in 4..98 \/ k = 99
    OBVIOUS
  <2> QED  BY <2>1, <2>2, <2>3
<1>2. /\ \A k \in {0, 1, 2, 3, 100, 101} : EnterClock(k) = 0 /\ EnterClock(k + 1) = 0
      /\ EnterClock(102) = 0
  BY DEF EnterClock
<1>3. \A k \in 4..99 : EnterClock(k) = IF (k - 4) % 3 = 2 THEN 1 ELSE 0
  BY DEF EnterClock
<1> QED  BY <1>1, <1>2, <1>3

\* What is left to say of an enter on driven lines, when the registers stay.
LEMMA EnterDrivenStays ==
  ASSUME NEW k \in 0..101, EnterDriven(k), UNCHANGED Still, outputs' = outputs,
         frame' = frame, regs' = regs,
         \/ k \in 0..1 /\ mode' = mode /\ level'["mclr"] = level["mclr"] /\ key' = key
         \/ k = 2 /\ mode' = "run" /\ level'["mclr"] = 1 /\ key' = <<>>
         \/ k \in 4..100 /\ Keying(k + 1)'
         \/ k = 101 /\ mode' = "program" /\ level'["mclr"] = 1 /\ key' = <<>>
  PROVE  EnterDriven(k + 1)'
<1> DEFINE m == k + 1
<1>1. /\ k \in 0..1 => k \in 0..2 /\ m \in 0..2 /\ k # 3 /\ k # 102 /\ k \notin 4..101
      /\ k = 2 => m = 3
      /\ k \in 4..100 => m \in 4..101
      /\ k = 101 => m = 102
  OBVIOUS
<1>2. /\ lines' = "driven" /\ target' = "program" /\ outputs' = Lines
      /\ frame' = NoFrame /\ regs' = meant' /\ Fresh'
  BY DEF EnterDriven, Fresh, Still
<1>3. k \in 0..1 => mode = "reset" /\ level["mclr"] = 0 /\ key = <<>>
  BY <1>1 DEF EnterDriven
<1> HIDE DEF m
<1>4. \/ m \in 0..2 /\ mode' = "reset" /\ level'["mclr"] = 0 /\ key' = <<>>
      \/ m = 3 /\ mode' = "run" /\ level'["mclr"] = 1 /\ key' = <<>>
      \/ m \in 4..101 /\ Keying(m)'
      \/ m = 102 /\ mode' = "program" /\ level'["mclr"] = 1 /\ key' = <<>>
  BY <1>1, <1>3 DEF m
<1>5. EnterDriven(m)'
  BY <1>2, <1>4 DEF EnterDriven
<1> QED  BY <1>5 DEF m

\* and every one of an enter: 32 bits later the chip is in program mode.
LEMMA EnterStep ==
  ASSUME Types, NEW k \in 0..101, EnterAt(k), Operate, Head(ops) = EnterScript[k]
  PROVE  EnterAt(k + 1)' /\ Types' /\ UNCHANGED calls
<1>0. /\ outputs \subseteq Lines /\ level \in [Lines -> {0, 1}] /\ regs \in Registers
      /\ meant \in Registers
  BY DEF Types
<1>a. ASSUME Released, UNCHANGED Still, UNCHANGED chipVars, sampled' = sampled,
             outputs' = outputs, level'["pgc"] = EnterClock(k + 1)
      PROVE  EnterAt(k + 1)'
  <2>1. Released'
    BY <1>a, ReleasedStays DEF Released
  <2> QED  BY <1>a, <2>1 DEF EnterAt
<1>b. /\ sampled = <<>> /\ level["pgc"] = EnterClock(k)
      /\ Released \/ EnterDriven(k)
  BY DEF EnterAt
<1>1. CASE k \in {0, 1, 100}
  <2> DEFINE pin == IF k = 0 THEN "pgc" ELSE "pgd"
  <2>1. Head(ops) = Write(pin, 0) /\ pin \in {"pgc", "pgd"}
    BY <1>1 DEF EnterScript
  <2>2. level["pgc"] = 0 /\ EnterClock(k + 1) = 0
    BY <1>1, <1>b, EnterClockIs
  <2>3. /\ UNCHANGED Still /\ sampled' = sampled /\ outputs' = outputs /\ UNCHANGED chipVars
        /\ level'["mclr"] = level["mclr"] /\ level'[pin] = 0
        /\ \A p \in {"pgc", "pgd"} : p # pin => level'[p] = level[p]
        /\ Types'
    BY <2>1, <2>2, WriteQuiet
  <2>4. level'["pgc"] = EnterClock(k + 1)
    BY <2>2, <2>3
  <2>5. CASE Released
    BY <1>a, <2>3, <2>4, <2>5 DEF Still
  <2>6. CASE EnterDriven(k)
    <3>1. CASE k \in 0..1
      <4>1. frame' = frame /\ regs' = regs /\ mode' = mode /\ key' = key
        BY <2>3 DEF chipVars
      <4>2. EnterDriven(k + 1)'
        BY <2>3, <2>6, <3>1, <4>1, EnterDrivenStays
      <4> QED  BY <1>b, <2>3, <2>4, <4>2 DEF EnterAt, Still
    <3>2. CASE k = 100
      <4>1. Keying(k)
        BY <2>6, <3>2 DEF EnterDriven
      <4>2. (k - 4) \div 3 = 32 /\ ((k + 1) - 4) \div 3 = 32
        BY <3>2
      <4>3. Keying(k + 1)'
        BY <2>3, <3>2, <4>1, <4>2 DEF Keying, KeyBits, chipVars
      <4>4. frame' = frame /\ regs' = regs /\ k \in 4..100
        BY <2>3, <3>2 DEF chipVars
      <4>5. EnterDriven(k + 1)'
        BY <2>3, <2>6, <4>3, <4>4, EnterDrivenStays
      <4> QED  BY <1>b, <2>3, <2>4, <4>5 DEF EnterAt, Still
    <3> QED  BY <1>1, <3>1, <3>2
  <2> QED  BY <1>b, <2>5, <2>6
<1>2. CASE k \in {2, 101}
  <2>1. Head(ops) = Write("mclr", 1)
    BY <1>2 DEF EnterScript
  <2>2. level["pgc"] = 0 /\ EnterClock(k + 1) = 0
    BY <1>2, <1>b, EnterClockIs
  <2>3. /\ UNCHANGED Still /\ sampled' = sampled /\ outputs' = outputs
        /\ level' \in [Lines -> {0, 1}] /\ level'["mclr"] = 1
        /\ level'["pgc"] = level["pgc"]
        /\ "mclr" \notin outputs => UNCHANGED chipVars
        /\ "mclr" \in outputs /\ level["mclr"] = 0 =>
              /\ mode' = IF key = EntryKey THEN "program" ELSE "run"
              /\ key' = <<>> /\ UNCHANGED <<frame, regs>>
    BY <2>1, MclrStep
  <2>4. CASE Released
    <3>1. UNCHANGED chipVars
      BY <2>3, <2>4 DEF Released
    <3>2. Types'
      BY <1>0, <2>3, <3>1 DEF Types, Still, chipVars
    <3> QED  BY <1>a, <2>2, <2>3, <2>4, <3>1, <3>2 DEF Still
  <2>5. CASE EnterDriven(k)
    <3>1. "mclr" \in outputs /\ level["mclr"] = 0
      BY <1>2, <2>5 DEF EnterDriven, Keying, Lines
    <3>2. /\ mode' = IF key = EntryKey THEN "program" ELSE "run"
          /\ key' = <<>> /\ UNCHANGED <<frame, regs>>
      BY <2>3, <3>1
    <3>3. mode' = IF k = 2 THEN "run" ELSE "program"
      <4>1. CASE k = 2
        <5>1. key = <<>>
          BY <2>5, <4>1 DEF EnterDriven
        <5> QED  BY <3>2, <4>1, <5>1, KeyGrows
      <4>2. CASE k = 101
        <5>1. key = KeyBits((k - 4) \div 3) /\ (k - 4) \div 3 = 32
          BY <2>5, <4>2 DEF EnterDriven, Keying
        <5> QED  BY <3>2, <4>2, <5>1, KeyGrows
      <4> QED  BY <1>2, <4>1, <4>2
    <3>4. EnterDriven(k + 1)'
      BY <1>2, <2>3, <2>5, <3>2, <3>3, EnterDrivenStays
    <3>5. Types'
      BY <1>0, <2>3, <3>2 DEF Types, Still
    <3> QED  BY <1>b, <2>2, <2>3, <3>4, <3>5 DEF EnterAt, Still
  <2> QED  BY <1>b, <2>4, <2>5
<1>3. CASE k = 3
  <2>1. Head(ops) = Write("mclr", 0)
    BY <1>3 DEF EnterScript
  <2>2. level["pgc"] = 0 /\ EnterClock(k + 1) = 0
    BY <1>3, <1>b, EnterClockIs
  <2>3. /\ UNCHANGED Still /\ sampled' = sampled /\ outputs' = outputs
        /\ level' \in [Lines -> {0, 1}] /\ level'["mclr"] = 0
        /\ level'["pgc"] = level["pgc"]
        /\ "mclr" \notin outputs => UNCHANGED chipVars
        /\ "mclr" \in outputs /\ level["mclr"] = 1 =>
              /\ mode' = "reset" /\ key' = <<>> /\ frame' = NoFrame
              /\ regs' = [PowerOn EXCEPT !.flash = regs.flash]
    BY <2>1, MclrStep
  <2>4. CASE Released
    <3>1. UNCHANGED chipVars
      BY <2>3, <2>4 DEF Released
    <3>2. Types'
      BY <1>0, <2>3, <3>1 DEF Types, Still, chipVars
    <3> QED  BY <1>a, <2>2, <2>3, <2>4, <3>1, <3>2 DEF Still
  <2>5. CASE EnterDriven(k)
    <3>1. "mclr" \in outputs /\ level["mclr"] = 1
      BY <1>3, <2>5 DEF EnterDriven, Lines
    <3>2. /\ mode' = "reset" /\ key' = <<>> /\ frame' = NoFrame
          /\ regs' = [PowerOn EXCEPT !.flash = regs.flash]
      BY <2>3, <3>1
    <3>3. regs' = meant /\ regs'.flash = regs.flash /\ regs' \in Registers
      BY <1>0, <2>5, <3>2, FlashKept DEF EnterDriven, Fresh
    <3>4. Fresh'
      BY <2>3, <2>5, <3>3 DEF EnterDriven, Fresh, Still
    <3>5. Keying(k + 1)'
      <4>1. ((k + 1) - 4) \div 3 = 0 /\ ((k + 1) - 4) % 3 = 0
        BY <1>3
      <4> QED  BY <2>3, <3>2, <4>1, KeyGrows DEF Keying, KeyBits
    <3>6. EnterDriven(k + 1)'
      BY <1>3, <2>3, <2>5, <3>2, <3>3, <3>4, <3>5 DEF EnterDriven, Still
    <3>7. Types'
      BY <1>0, <2>3, <3>3 DEF Types, Still
    <3> QED  BY <1>b, <2>2, <2>3, <3>6, <3>7 DEF EnterAt, Still
  <2> QED  BY <1>b, <2>4, <2>5
<1>4. CASE k \in 4..99
  <2> DEFINE i == (k - 4) \div 3
             r == (k - 4) % 3
             bit == EntryKey[i + 1]
  <2>1. i \in 0..31 /\ r \in 0..2 /\ i + 1 \in 1..32
    BY <1>4
  <2>2. bit \in {0, 1}
    BY <2>1, EntryKeyTyped
  <2>3. Head(ops) = IF r = 0 THEN Write("pgd", bit)
                    ELSE IF r = 1 THEN Write("pgc", 1) ELSE Write("pgc", 0)
    BY <1>4 DEF EnterScript, BitOp
  <2>4. /\ level["pgc"] = IF r = 2 THEN 1 ELSE 0
        /\ EnterClock(k + 1) = IF r = 1 THEN 1 ELSE 0
    BY <1>4, <1>b, EnterClockIs
  <2>5. /\ ((k + 1) - 4) \div 3 = IF r = 2 THEN i + 1 ELSE i
        /\ ((k + 1) - 4) % 3 = IF r = 2 THEN 0 ELSE r + 1
    BY <1>4
  <2> HIDE DEF i, r, bit
  <2>6. EnterDriven(k) => /\ mode = "reset" /\ level["mclr"] = 0 /\ key = KeyBits(i)
                          /\ r # 0 => level["pgd"] = bit
    BY <1>4 DEF EnterDriven, Keying, i, r, bit
  <2>7. CASE r \in {0, 1}
    <3> DEFINE pin == IF r = 0 THEN "pgd" ELSE "pgc"
               v == IF r = 0 THEN bit ELSE 1
    <3>1. /\ Head(ops) = Write(pin, v) /\ pin \in {"pgc", "pgd"} /\ v \in {0, 1}
          /\ pin = "pgd" \/ v = 1
      BY <2>2, <2>3, <2>7
    <3>2. /\ UNCHANGED Still /\ sampled' = sampled /\ outputs' = outputs /\ UNCHANGED chipVars
          /\ level'["mclr"] = level["mclr"] /\ level'[pin] = v
          /\ \A p \in {"pgc", "pgd"} : p # pin => level'[p] = level[p]
          /\ Types'
      BY <3>1, WriteQuiet
    <3>3. level'["pgc"] = EnterClock(k + 1) /\ level'["pgd"] = IF r = 0 THEN bit ELSE level["pgd"]
      BY <2>4, <2>7, <3>2
    <3>4. CASE Released
      BY <1>a, <3>2, <3>3, <3>4 DEF Still
    <3>5. CASE EnterDriven(k)
      <4>1. ((k + 1) - 4) \div 3 = i
        BY <2>5, <2>7
      <4>2. Keying(k + 1)'
        BY <2>6, <2>7, <3>2, <3>3, <3>5, <4>1 DEF Keying, KeyBits, chipVars, bit
      <4>3. EnterDriven(k + 1)'
        <5>1. frame' = frame /\ regs' = regs /\ k \in 4..100
          BY <1>4, <3>2 DEF chipVars
        <5> QED  BY <3>2, <3>5, <4>2, <5>1, EnterDrivenStays
      <4> QED  BY <1>b, <3>2, <3>3, <4>3 DEF EnterAt, Still
    <3> QED  BY <1>b, <3>4, <3>5
  <2>8. CASE r = 2
    <3>1. Head(ops) = Write("pgc", 0)
      BY <2>3, <2>8
    <3> DEFINE lev == [level EXCEPT !["pgc"] = 0]
    <3>2. /\ UNCHANGED Still /\ sampled' = sampled /\ outputs' = outputs
          /\ level' = lev /\ Chip(outputs, lev)
      BY <3>1, WriteStep
    <3>3. /\ "pgc" \in Lines /\ "pgd" \in Lines /\ "mclr" \in Lines
          /\ lev \in [Lines -> {0, 1}] /\ lev["pgc"] = 0
          /\ lev["pgd"] = level["pgd"] /\ lev["mclr"] = level["mclr"]
      BY <1>0, LevelIs DEF Lines
    <3> HIDE DEF lev
    <3>4. Seen("mclr", outputs, lev) = Seen("mclr", outputs, level)
      BY <3>3, SeenIs
    <3>5. level'["pgc"] = EnterClock(k + 1)
      BY <2>4, <2>8, <3>2, <3>3
    <3>6. CASE Released
      <4>1. mode = "run"
        BY <3>6 DEF Released
      <4>2. UNCHANGED chipVars
        BY <3>2, <3>4, <4>1, ChipQuiet
      <4>3. Types'
        BY <1>0, <3>2, <3>3, <4>2 DEF Types, Still, chipVars
      <4> QED  BY <1>a, <3>2, <3>5, <3>6, <4>2, <4>3 DEF Still
    <3>7. CASE EnterDriven(k)
      <4>1. /\ outputs = Lines /\ mode = "reset" /\ key = KeyBits(i) /\ level["pgd"] = bit
            /\ level["mclr"] = 0
        BY <2>6, <2>8, <3>7 DEF EnterDriven
      <4>2. /\ Seen("pgc", outputs, level) = 1 /\ Seen("pgc", outputs, lev) = 0
            /\ Seen("pgd", outputs, lev) = bit
        BY <2>4, <2>8, <3>3, <4>1, SeenIs
      <4>3. /\ key' = Append(IF Len(key) = 32 THEN Tail(key) ELSE key, bit)
            /\ UNCHANGED <<mode, frame, regs>>
        BY <3>2, <3>4, <4>1, <4>2, ChipKeyed
      <4>4. key' = KeyBits(i + 1)
        <5>1. Len(KeyBits(i)) = i /\ Append(KeyBits(i), bit) = KeyBits(i + 1)
          BY <2>1, KeyGrows DEF bit
        <5>2. i # 32
          BY <2>1
        <5> QED  BY <4>1, <4>3, <5>1, <5>2
      <4>5. ((k + 1) - 4) \div 3 = i + 1 /\ ((k + 1) - 4) % 3 = 0
        BY <2>5, <2>8
      <4>6. Keying(k + 1)'
        BY <3>2, <3>3, <4>1, <4>3, <4>4, <4>5 DEF Keying, KeyBits
      <4>7. EnterDriven(k + 1)'
        <5>1. frame' = frame /\ regs' = regs /\ k \in 4..100
          BY <1>4, <4>3
        <5> QED  BY <3>2, <3>7, <4>6, <5>1, EnterDrivenStays
      <4>8. Types'
        BY <1>0, <3>2, <3>3, <4>3 DEF Types, Still
      <4> QED  BY <1>b, <3>2, <3>5, <4>7, <4>8 DEF EnterAt, Still
    <3> QED  BY <1>b, <3>6, <3>7
  <2> QED  BY <2>1, <2>7, <2>8
<1> QED  BY <1>1, <1>2, <1>3, <1>4

(***************************************************************************)
(* Every step keeps the invariant.                                         *)
(***************************************************************************)

\* A call goes on.
LEMMA Onward ==
  ASSUME NEW c, NEW k \in 0..Len(PinOps(c)) - 1, PinOps(c) \in Seq(PinOp),
         ops' = After(PinOps(c), k + 1), During(c, k + 1)'
  PROVE  Situation'
<1> DEFINE m == k + 1
<1>1. Len(PinOps(c)) \in Nat
  OBVIOUS
<1>2. m \in 0..Len(PinOps(c))
  BY <1>1
<1> HIDE DEF m
<1>3. ops' = After(PinOps(c), m) /\ During(c, m)'
  BY DEF m
<1> QED  BY <1>2, <1>3 DEF Situation

\* An operation on the pins keeps the invariant.
LEMMA OperateKeeps ==
  ASSUME Types, Situation, Operate
  PROVE  Types' /\ Situation'
<1>0. PICK c : \E k \in 0..Len(PinOps(c)) : ops = After(PinOps(c), k) /\ During(c, k)
  BY DEF Situation
<1>1. PICK k \in 0..Len(PinOps(c)) : ops = After(PinOps(c), k) /\ During(c, k)
  BY <1>0
<1>2. ASSUME NEW n \in Nat, NEW m \in Nat, n = m + 1, NEW script, Lists(PinOps(c), n, script)
      PROVE  /\ PinOps(c) \in Seq(PinOp) /\ k \in 0..m /\ k \in 0..Len(PinOps(c)) - 1
             /\ Head(ops) = script[k]
             /\ ops' = After(PinOps(c), k + 1)
  <2>1. PinOps(c) \in Seq(PinOp) /\ Len(PinOps(c)) = n
    BY <1>2 DEF Lists
  <2>2. /\ k \in 0..Len(PinOps(c)) - 1 /\ Head(ops) = PinOps(c)[k + 1]
        /\ ops' = After(PinOps(c), k + 1)
    BY <1>1, <2>1, Moves
  <2>3. k \in 0..m
    BY <1>2, <2>1, <2>2
  <2>4. PinOps(c)[k + 1] = script[k]
    BY <1>2, <2>3, ListsAt
  <2> QED  BY <2>1, <2>2, <2>3, <2>4
<1>3. CASE /\ c = Session("exit") /\ ExitAt(k)
           /\ calls = <<>> \/ (k = 4 /\ (Entering(calls) \/ Starting(calls)))
  <2>1. 4 \in Nat /\ 3 \in Nat /\ 4 = 3 + 1
    OBVIOUS
  <2>2. /\ PinOps(c) \in Seq(PinOp) /\ k \in 0..3 /\ k \in 0..Len(PinOps(c)) - 1
        /\ Head(ops) = ExitScript[k] /\ ops' = After(PinOps(c), k + 1)
    BY <1>2, <1>3, <2>1, ExitIs
  <2>3. ExitAt(k + 1)' /\ Types' /\ calls' = calls
    BY <1>3, <2>2, ExitStep
  <2>4. calls = <<>>
    BY <1>3, <2>2
  <2>5. During(c, k + 1)'
    BY <1>3, <2>3, <2>4 DEF During
  <2> QED  BY <2>2, <2>3, <2>5, Onward
<1>4. CASE c = Session("init") /\ InitAt(k) /\ Entering(calls)
  <2>1. 6 \in Nat /\ 5 \in Nat /\ 6 = 5 + 1
    OBVIOUS
  <2>2. /\ PinOps(c) \in Seq(PinOp) /\ k \in 0..5 /\ k \in 0..Len(PinOps(c)) - 1
        /\ Head(ops) = InitScript[k] /\ ops' = After(PinOps(c), k + 1)
    BY <1>2, <1>4, <2>1, InitIs
  <2>3. InitAt(k + 1)' /\ Types' /\ calls' = calls
    BY <1>4, <2>2, InitStep
  <2>4. During(c, k + 1)'
    BY <1>4, <2>3 DEF During
  <2> QED  BY <2>2, <2>3, <2>4, Onward
<1>5. CASE c = Session("enter") /\ EnterAt(k) /\ Ends(calls)
  <2>1. 102 \in Nat /\ 101 \in Nat /\ 102 = 101 + 1
    OBVIOUS
  <2>2. /\ PinOps(c) \in Seq(PinOp) /\ k \in 0..101 /\ k \in 0..Len(PinOps(c)) - 1
        /\ Head(ops) = EnterScript[k] /\ ops' = After(PinOps(c), k + 1)
    BY <1>2, <1>5, <2>1, EnterIs
  <2>3. EnterAt(k + 1)' /\ Types' /\ calls' = calls
    BY <1>5, <2>2, EnterStep
  <2>4. During(c, k + 1)'
    BY <1>5, <2>3 DEF During
  <2> QED  BY <2>2, <2>3, <2>4, Onward
<1>6. CASE c \in JobCalls /\ JobAt(c, Mark(c, k)) /\ Ends(calls)
  <2>1. PICK n \in Nat :
          /\ PinOps(c) \in Seq(PinOp) /\ Len(PinOps(c)) = n
          /\ \A j \in 0..n - 1 : Leads(c, Mark(c, j), PinOps(c)[j + 1], Mark(c, j + 1))
          /\ \A j \in 0..n : /\ Mark(c, j) \in Marks
                             /\ ~Reads(c.cmd) => Mark(c, j).samples = 0
    BY <1>6, Scripted
  <2>2. /\ k \in 0..n - 1 /\ Head(ops) = PinOps(c)[k + 1]
        /\ ops' = After(PinOps(c), k + 1)
    BY <1>1, <2>1, Moves
  <2> DEFINE a == Mark(c, k)
             b == Mark(c, k + 1)
  <2>3. k \in 0..n /\ k + 1 \in 0..n
    BY <2>2
  <2>4. Leads(c, a, Head(ops), b) /\ a \in Marks /\ b \in Marks
    BY <2>1, <2>2, <2>3
  <2> HIDE DEF a, b
  <2>5. JobAt(c, a) /\ c \in JobCalls
    BY <1>6 DEF a
  <2>6. JobAt(c, b)' /\ Types' /\ calls' = calls
    BY <2>4, <2>5, JobStep
  <2>7. During(c, k + 1)'
    BY <1>6, <2>6 DEF During, b
  <2> QED  BY <2>1, <2>2, <2>6, <2>7, Onward
<1> QED  BY <1>1, <1>3, <1>4, <1>5, <1>6 DEF During

AnyCall == JobCalls \cup {Session("init"), Session("enter"), Session("exit")}

\* A sequence after its first element.
LEMMA FirstIs ==
  ASSUME NEW S, NEW e \in S, NEW s \in Seq(S)
  PROVE  /\ <<e>> \o s \in Seq(S) /\ <<e>> \o s # <<>>
         /\ Head(<<e>> \o s) = e /\ Tail(<<e>> \o s) = s
<1> DEFINE one == <<e>>
           t == one \o s
<1>1. one \in Seq(S) /\ Len(one) = 1 /\ one[1] = e
  OBVIOUS
<1> HIDE DEF one
<1>2. /\ t \in Seq(S) /\ Len(t) = 1 + Len(s) /\ Len(s) \in Nat
      /\ \A i \in 1..1 + Len(s) : t[i] = IF i <= 1 THEN one[i] ELSE s[i - 1]
  <2>1. /\ t \in Seq(S) /\ Len(t) = Len(one) + Len(s)
        /\ \A i \in 1..Len(one) + Len(s) :
             t[i] = IF i <= Len(one) THEN one[i] ELSE s[i - Len(one)]
    BY <1>1, ConcatProperties
  <2>2. Len(s) \in Nat
    OBVIOUS
  <2> HIDE DEF t
  <2> QED  BY <1>1, <2>1, <2>2
<1> HIDE DEF t
<1>3. t # <<>>
  <2>1. Len(t) # 0
    BY <1>2
  <2> QED  BY <1>2, <2>1, EmptySeq
<1>4. Head(t) = e
  BY <1>1, <1>2, <1>3
<1>5. Tail(t) = s
  <2>1. /\ Tail(t) \in Seq(S) /\ Len(Tail(t)) = Len(t) - 1
        /\ \A i \in 1..Len(Tail(t)) : Tail(t)[i] = t[i + 1]
    BY <1>2, <1>3, HeadTailProperties
  <2> DEFINE q == Tail(t)
             m == Len(s)
  <2>2. q \in Seq(S) /\ Len(q) = m /\ m \in Nat /\ \A i \in 1..m : q[i] = t[i + 1]
    BY <1>2, <2>1
  <2>3. \A i \in 1..m : t[i + 1] = s[i]
    <3>1. ASSUME NEW i \in 1..m PROVE t[i + 1] = s[i]
      <4>1. i + 1 \in 1..1 + m /\ ~(i + 1 <= 1) /\ (i + 1) - 1 = i
        BY <2>2
      <4> QED  BY <1>2, <4>1
    <3> QED  BY <3>1
  <2> HIDE DEF q, m
  <2>4. Len(s) = m
    BY DEF m
  <2> QED  BY <2>2, <2>3, <2>4, SeqEqual DEF q
<1> QED  BY <1>2, <1>3, <1>4, <1>5 DEF t, one

\* The call that is next.
LEMMA EndsIs ==
  ASSUME NEW cs, Ends(cs)
  PROVE  /\ cs # <<>> /\ cs \in Seq(AnyCall)
         /\ \/ Head(cs) = Session("exit") /\ Tail(cs) = <<>>
            \/ Head(cs) \in JobCalls /\ Ends(Tail(cs))
<1> DEFINE e == Session("exit")
           C == AnyCall
<1>1. PICK job \in Seq(JobCalls) : cs = job \o <<e>>
  BY DEF Ends
<1>2. e \in C /\ JobCalls \subseteq C
  BY DEF AnyCall
<1> HIDE DEF e, C
<1>3. job \in Seq(C)
  BY <1>2, SeqMonotonic
<1>4. cs = Append(job, e)
  BY <1>1, <1>2, <1>3, AppendIsConcat
<1>5. cs \in Seq(C) /\ cs # <<>>
  BY <1>2, <1>3, <1>4, AppendProperties
<1>6. /\ Head(cs) = IF job = <<>> THEN e ELSE Head(job)
      /\ Tail(cs) = IF job = <<>> THEN <<>> ELSE Append(Tail(job), e)
  BY <1>3, <1>4, HeadTailAppend
<1>7. ASSUME job # <<>> PROVE Head(cs) \in JobCalls /\ Ends(Tail(cs))
  <2>1. Head(job) \in JobCalls /\ Tail(job) \in Seq(JobCalls)
    BY <1>7, HeadTailProperties
  <2>2. Tail(job) \in Seq(C)
    BY <1>2, <2>1, SeqMonotonic
  <2>3. Append(Tail(job), e) = Tail(job) \o <<e>>
    BY <1>2, <2>2, AppendIsConcat
  <2> QED  BY <1>6, <1>7, <2>1, <2>3 DEF Ends, e
<1> QED  BY <1>5, <1>6, <1>7 DEF e, C

\* An enter comes first, the commands after it.
LEMMA EnteringIs ==
  ASSUME NEW cs, Entering(cs)
  PROVE  cs # <<>> /\ cs \in Seq(AnyCall) /\ Head(cs) = Session("enter") /\ Ends(Tail(cs))
<1>1. PICK rest : Ends(rest) /\ cs = <<Session("enter")>> \o rest
  BY DEF Entering
<1>2. rest \in Seq(AnyCall) /\ Session("enter") \in AnyCall
  BY <1>1, EndsIs DEF AnyCall
<1> QED  BY <1>1, <1>2, FirstIs

\* Or an init before it.
LEMMA StartingIs ==
  ASSUME NEW cs, Starting(cs)
  PROVE  cs # <<>> /\ Head(cs) = Session("init") /\ Entering(Tail(cs))
<1>1. PICK rest : Entering(rest) /\ cs = <<Session("init")>> \o rest
  BY DEF Starting
<1>2. rest \in Seq(AnyCall) /\ Session("init") \in AnyCall
  BY <1>1, EnteringIs DEF AnyCall
<1> QED  BY <1>1, <1>2, FirstIs

\* The calls of a new session.
LEMMA SessionIs ==
  ASSUME NEW job \in Jobs, NEW first \in {<<Session("init")>>, <<>>}, NEW cs,
         cs = first \o <<Session("enter")>> \o job \o <<Session("exit")>>
  PROVE  Entering(cs) \/ Starting(cs)
<1> DEFINE i == Session("init")
           n == Session("enter")
           e == Session("exit")
           C == AnyCall
           rest == job \o <<e>>
           more == <<n>> \o rest
<1>1. /\ i \in C /\ n \in C /\ e \in C /\ JobCalls \subseteq C /\ job \in Seq(JobCalls)
      /\ first \in {<<i>>, <<>>} /\ cs = first \o <<n>> \o job \o <<e>>
  BY JobsAssumption DEF AnyCall
<1>2. Ends(rest)
  BY <1>1 DEF Ends
<1>3. Entering(more)
  BY <1>2 DEF Entering
<1>4. Starting(<<i>> \o more)
  BY <1>3 DEF Starting
<1> HIDE DEF i, n, e, C
<1>5. job \in Seq(C)
  BY <1>1, SeqMonotonic
<1>6. /\ <<i>> \in Seq(C) /\ <<n>> \in Seq(C) /\ <<e>> \in Seq(C)
      /\ first \in Seq(C)
  <2>1. \A x \in C : <<x>> \in Seq(C)
    OBVIOUS
  <2>2. <<>> \in Seq(C)
    BY EmptySeq
  <2> QED  BY <1>1, <2>1, <2>2
<1> DEFINE a == first \o <<n>>
           j == job
           z == <<e>>
           b == <<n>>
<1>7. a \in Seq(C) /\ rest \in Seq(C)
  BY <1>5, <1>6, ConcatProperties
<1>8. cs = a \o rest
  <2>1. (a \o j) \o z = a \o (j \o z)
    <3> HIDE DEF a, j, z
    <3>1. a \in Seq(C) /\ j \in Seq(C) /\ z \in Seq(C)
      BY <1>5, <1>6, <1>7 DEF j, z
    <3> QED  BY <3>1, ConcatAssociative
  <2> QED  BY <1>1, <2>1
<1>9. cs = first \o more
  <2>1. (first \o b) \o rest = first \o (b \o rest)
    <3> HIDE DEF b, rest
    <3>1. b \in Seq(C)
      BY <1>6 DEF b
    <3> QED  BY <1>6, <1>7, <3>1, ConcatAssociative
  <2> QED  BY <1>8, <2>1
<1>10. CASE first = <<>>
  <2>1. more \in Seq(C)
    BY <1>6, <1>7, ConcatProperties
  <2>2. <<>> \o more = more
    <3> HIDE DEF more
    <3> QED  BY <2>1, ConcatEmptySeq
  <2> QED  BY <1>3, <1>9, <1>10, <2>2
<1>11. CASE first = <<i>>
  BY <1>4, <1>9, <1>11
<1> QED  BY <1>1, <1>10, <1>11

(***************************************************************************)
(* Between two calls.                                                      *)
(***************************************************************************)

\* The wires when a call has returned that leaves the session open.
Idle ==
  /\ level["pgc"] = 0 /\ frame = NoFrame /\ key = <<>> /\ regs = meant
  /\ \/ Released
     \/ /\ lines = "driven" /\ target = "program" /\ mode = "program"
        /\ outputs = Lines /\ level["mclr"] = 1

\* Nothing is left of a call that has done all its operations.
LEMMA Returned ==
  ASSUME Situation, ops = <<>>
  PROVE  \/ ExitAt(4) /\ (calls = <<>> \/ Entering(calls) \/ Starting(calls))
         \/ InitAt(6) /\ Entering(calls)
         \/ EnterAt(102) /\ Ends(calls)
         \/ \E c \in JobCalls, n \in Nat :
              n = Len(PinOps(c)) /\ JobAt(c, Mark(c, n)) /\ Ends(calls)
<1>0. PICK c : \E k \in 0..Len(PinOps(c)) : ops = After(PinOps(c), k) /\ During(c, k)
  BY DEF Situation
<1>1. PICK k \in 0..Len(PinOps(c)) : ops = After(PinOps(c), k) /\ During(c, k)
  BY <1>0
<1>2. ASSUME NEW n \in Nat, PinOps(c) \in Seq(PinOp), Len(PinOps(c)) = n
      PROVE  k = n
  BY <1>1, <1>2, AfterIs
<1>3. CASE /\ c = Session("exit") /\ ExitAt(k)
           /\ calls = <<>> \/ (k = 4 /\ (Entering(calls) \/ Starting(calls)))
  <2>1. k = 4
    <3>1. 4 \in Nat
      OBVIOUS
    <3> QED  BY <1>2, <1>3, <3>1, ExitIs DEF Lists
  <2> QED  BY <1>3, <2>1
<1>4. CASE c = Session("init") /\ InitAt(k) /\ Entering(calls)
  <2>1. k = 6
    <3>1. 6 \in Nat
      OBVIOUS
    <3> QED  BY <1>2, <1>4, <3>1, InitIs DEF Lists
  <2> QED  BY <1>4, <2>1
<1>5. CASE c = Session("enter") /\ EnterAt(k) /\ Ends(calls)
  <2>1. k = 102
    <3>1. 102 \in Nat
      OBVIOUS
    <3>2. PinOps(c) \in Seq(PinOp) /\ Len(PinOps(c)) = 102
      BY <1>5, EnterIs DEF Lists
    <3> QED  BY <1>2, <3>1, <3>2
  <2> QED  BY <1>5, <2>1
<1>6. CASE c \in JobCalls /\ JobAt(c, Mark(c, k)) /\ Ends(calls)
  <2>1. PICK n \in Nat : PinOps(c) \in Seq(PinOp) /\ Len(PinOps(c)) = n
    BY <1>6, Scripted
  <2>2. k = n
    BY <1>2, <2>1
  <2> QED  BY <1>6, <2>1, <2>2
<1> QED  BY <1>1, <1>3, <1>4, <1>5, <1>6 DEF During

\* An enter or a command leaves the wires idle.
LEMMA EnterIdle ==
  ASSUME EnterAt(102)
  PROVE  Idle
<1>1. EnterClock(102) = 0
  BY EnterClockIs
<1>2. EnterDriven(102) => /\ lines = "driven" /\ target = "program" /\ mode = "program"
                          /\ outputs = Lines /\ level["mclr"] = 1 /\ key = <<>>
                          /\ frame = NoFrame /\ regs = meant
  BY DEF EnterDriven
<1>3. Released => key = <<>> /\ frame = NoFrame /\ regs = meant
  BY DEF Released
<1> QED  BY <1>1, <1>2, <1>3 DEF EnterAt, Idle

\* So does a command that has shifted its twenty bits.
LEMMA JobIdle ==
  ASSUME Types, NEW c, NEW a, JobAt(c, a), a.pgc = 0, a.edges = 20, a.out = 1
  PROVE  Idle
<1>1. Programming(c, a) => /\ lines = "driven" /\ target = "program" /\ mode = "program"
                           /\ outputs = Lines /\ level["mclr"] = 1 /\ key = <<>>
                           /\ frame = NoFrame /\ regs = meant
  BY DEF Programming, InFrame, Types, Lines
<1>2. Released => key = <<>> /\ frame = NoFrame /\ regs = meant
  BY DEF Released
<1> QED  BY <1>1, <1>2 DEF JobAt, Idle

\* A call that has done nothing yet.
LEMMA Starts ==
  ASSUME NEW c, PinOps(c) \in Seq(PinOp), ops' = PinOps(c), During(c, 0)'
  PROVE  Situation'
<1>1. Len(PinOps(c)) \in Nat
  OBVIOUS
<1>2. 0 \in 0..Len(PinOps(c))
  BY <1>1
<1>3. After(PinOps(c), 0) = PinOps(c)
  BY <1>2, AfterIs
<1> QED  BY <1>2, <1>3 DEF Situation

\* What a session call means.
LEMMA MeansSession ==
  ASSUME NEW c, Means(c)
  PROVE  /\ c = Session("init") =>
              /\ lines' = "driven" /\ target' = "reset"
              /\ meant' = [PowerOn EXCEPT !.flash = meant.flash]
         /\ c = Session("enter") =>
              /\ lines' = lines /\ meant' = meant
              /\ target' = IF lines = "driven" THEN "program" ELSE target
         /\ c = Session("exit") =>
              /\ lines' = "released" /\ target' = "run"
              /\ meant' = [PowerOn EXCEPT !.flash = meant.flash]
BY SessionCallsAre DEF Means, IcspInit, IcspEnter, IcspExit, Driven

\* A session that ends.
LEMMA ExitBegins ==
  ASSUME Types, Idle, Begin, Head(calls) = Session("exit"), Tail(calls) = <<>>
  PROVE  Types' /\ Situation'
<1>1. /\ calls' = <<>> /\ ops' = PinOps(Session("exit")) /\ sampled' = <<>>
      /\ outputs' = outputs /\ level' = level
      /\ mode' = mode /\ key' = key /\ frame' = frame /\ regs' = regs
      /\ lines' = "released" /\ target' = "run"
      /\ meant' = [PowerOn EXCEPT !.flash = meant.flash]
  BY MeansSession DEF Begin, chipVars
<1>2. /\ level["pgc"] = 0 /\ frame = NoFrame /\ key = <<>> /\ regs = meant
      /\ meant \in Registers
  BY DEF Idle, Types
<1>3. Fresh' /\ meant' \in Registers
  BY <1>1, <1>2, FlashKept DEF Fresh
<1>4. ASSUME Released PROVE ExitAt(0)'
  <2>1. mode = "run" /\ outputs \subseteq {"pgd"} /\ meant = [PowerOn EXCEPT !.flash = regs.flash]
    BY <1>4 DEF Released, Fresh
  <2>2. regs' = meant'
    BY <1>1, <1>2, <2>1
  <2>3. ExitAt(0)'
    BY <1>1, <1>2, <1>3, <2>1, <2>2 DEF ExitAt
  <2> QED  BY <2>3
<1>5. ASSUME mode = "program", outputs = Lines, level["mclr"] = 1 PROVE ExitAt(0)'
  BY <1>1, <1>2, <1>3, <1>5 DEF ExitAt
<1>6. ExitAt(0)'
  BY <1>4, <1>5 DEF Idle
<1>7. During(Session("exit"), 0)'
  BY <1>1, <1>6 DEF During
<1>8. PinOps(Session("exit")) \in Seq(PinOp)
  BY ExitIs DEF Lists
<1>9. Types'
  BY <1>1, <1>3 DEF Types
<1> QED  BY <1>1, <1>7, <1>8, <1>9, Starts

\* What a command means.
LEMMA MeansJob ==
  ASSUME NEW c \in JobCalls, Means(c)
  PROVE  /\ UNCHANGED icspVars
         /\ meant' = IF target = "program" THEN Execute(meant, c.cmd, c.word, c.held) ELSE meant
         /\ Reads(c.cmd) =>
              result' = <<IF target = "program" THEN ShiftedOut(meant, c.cmd) ELSE 0>>
<1>1. c.fn \in {"word", "read", "prog_nop", "erase_nop"} /\ (Reads(c.cmd) => c.fn = "read")
  <2>1. ~Reads(0)
    BY DEF Reads
  <2>2. /\ c.fn \in {"word", "read", "prog_nop", "erase_nop"}
        /\ c.fn = "word" => ~Reads(c.cmd)
        /\ c.fn \in {"prog_nop", "erase_nop"} => c.cmd = 0
    BY JobCallIs
  <2> QED  BY <2>1, <2>2
<1> QED  BY <1>1 DEF Means

\* A session that goes on.
LEMMA JobBegins ==
  ASSUME Types, Idle, Begin, Head(calls) \in JobCalls, Ends(Tail(calls))
  PROVE  Types' /\ Situation'
<1> DEFINE c == Head(calls)
           a == Marked(0, {0, 1}, 1, 0, 0, 0)
<1>0. c \in JobCalls
  OBVIOUS
<1>1. /\ calls' = Tail(calls) /\ ops' = PinOps(c) /\ sampled' = <<>> /\ Means(c)
      /\ outputs' = outputs /\ level' = level
      /\ mode' = mode /\ key' = key /\ frame' = frame /\ regs' = regs
  BY DEF Begin, chipVars
<1> PICK d \in JobCalls : d = c
  BY <1>0
<1> HIDE DEF c, a
<1>2. /\ lines' = lines /\ target' = target
      /\ meant' = IF target = "program" THEN Execute(meant, d.cmd, d.word, d.held) ELSE meant
      /\ Reads(d.cmd) =>
           result' = <<IF target = "program" THEN ShiftedOut(meant, d.cmd) ELSE 0>>
  BY <1>1, MeansJob DEF icspVars
<1>3. /\ level["pgc"] = 0 /\ frame = NoFrame /\ key = <<>> /\ regs = meant
      /\ meant \in Registers /\ level \in [Lines -> {0, 1}]
  BY DEF Idle, Types
<1>4. d.cmd \in 0..15 /\ d.word \in Word /\ d.held \in Held
  BY JobCallIs
<1>5. /\ a.pgc = 0 /\ a.pgd = {0, 1} /\ a.out = 1 /\ a.edges = 0 /\ a.held = 0 /\ a.samples = 0
  BY DEF a, Marked
<1>6. Types'
  <2>1. Execute(meant, d.cmd, d.word, d.held) \in Registers
    BY <1>3, <1>4, ExecuteTyped
  <2>2. meant' \in Registers
    BY <1>2, <1>3, <2>1
  <2> QED  BY <1>1, <2>2 DEF Types
<1>7. Reads(d.cmd) => result' \in {<<b>> : b \in Byte}
  <2>1. Reads(d.cmd) => ShiftedOut(meant, d.cmd) \in Byte
    BY <1>3, ShiftedOutTyped
  <2>2. 0 \in Byte
    BY DEF Byte
  <2> QED  BY <1>2, <2>1, <2>2
<1>8. \/ Released' /\ (Reads(d.cmd) => result' = <<0>>)
      \/ Programming(d, a)'
  <2>1. CASE Released
    <3>1. target = "run" /\ Released'
      BY <1>1, <1>2, <2>1 DEF Released, Fresh
    <3> QED  BY <1>2, <3>1
  <2>2. CASE /\ lines = "driven" /\ target = "program" /\ mode = "program"
             /\ outputs = Lines /\ level["mclr"] = 1
    <3>1. LowBits(d.cmd, 0) = 0
      <4>1. d.cmd \in Nat
        BY JobCallIs
      <4> QED  BY <4>1, LowBitsEnds
    <3>2. NoFrame = FrameOf(0, 0, 0, NotHeld, 0)
      BY DEF NoFrame, FrameOf
    <3>3. InFrame(d, a)'
      BY <1>1, <1>2, <1>3, <1>5, <2>2, <3>1, <3>2 DEF InFrame
    <3>4. Programming(d, a)'
      BY <1>1, <1>2, <1>3, <2>2, <3>3 DEF Programming, Lines
    <3> QED  BY <3>4
  <2> QED  BY <2>1, <2>2 DEF Idle
<1>9. JobAt(d, a)'
  <2>1. level["pgd"] \in {0, 1}
    BY <1>3 DEF Lines
  <2>2. sampled' = [j \in 1..a.samples |-> Bit(result'[1], j - 1)]
    BY <1>1, <1>5
  <2> QED  BY <1>1, <1>3, <1>5, <1>7, <1>8, <2>1, <2>2 DEF JobAt
<1>10. PICK n \in Nat : PinOps(d) \in Seq(PinOp) /\ Mark(d, 0) = a
  BY Scripted DEF a
<1>11. During(d, 0)'
  BY <1>1, <1>9, <1>10 DEF During
<1> QED  BY <1>1, <1>6, <1>10, <1>11, Starts

\* An enter, after an init or after the exit of the session before.
LEMMA EnterBegins ==
  ASSUME Types, Begin, Entering(calls), ExitAt(4) \/ InitAt(6)
  PROVE  Types' /\ Situation'
<1> USE DEF Lines
<1>1. Head(calls) = Session("enter") /\ Ends(Tail(calls))
  BY EnteringIs
<1>2. /\ calls' = Tail(calls) /\ ops' = PinOps(Session("enter")) /\ sampled' = <<>>
      /\ outputs' = outputs /\ level' = level
      /\ mode' = mode /\ key' = key /\ frame' = frame /\ regs' = regs
      /\ lines' = lines /\ meant' = meant
      /\ target' = IF lines = "driven" THEN "program" ELSE target
  BY <1>1, MeansSession DEF Begin, chipVars
<1>3. level["pgc"] = 0 /\ EnterClock(0) = 0
  BY EnterClockIs DEF ExitAt, InitAt
<1>4. ASSUME ExitAt(4) PROVE Released'
  <2>1. Released
    BY <1>4 DEF ExitAt, Released
  <2>2. Released'
    BY <1>2, <2>1 DEF Released, Fresh
  <2> QED  BY <2>2
<1>5. ASSUME InitAt(6) PROVE EnterDriven(0)'
  <2>1. /\ lines = "driven" /\ outputs = Lines /\ mode = "reset" /\ regs = meant
        /\ frame = NoFrame /\ key = <<>> /\ level["mclr"] = 0 /\ Fresh
    BY <1>5 DEF InitAt
  <2>2. EnterDriven(0)'
    BY <1>2, <2>1 DEF EnterDriven, Fresh
  <2> QED  BY <2>2
<1>6. EnterAt(0)'
  BY <1>2, <1>3, <1>4, <1>5 DEF EnterAt
<1>7. During(Session("enter"), 0)'
  BY <1>1, <1>2, <1>6 DEF During
<1>8. PinOps(Session("enter")) \in Seq(PinOp)
  BY EnterIs DEF Lists
<1>9. Types'
  BY <1>2 DEF Types
<1> QED  BY <1>2, <1>7, <1>8, <1>9, Starts

\* An init, after the exit of the session before.
LEMMA InitBegins ==
  ASSUME Types, Begin, Starting(calls), ExitAt(4)
  PROVE  Types' /\ Situation'
<1>1. Head(calls) = Session("init") /\ Entering(Tail(calls))
  BY StartingIs
<1>2. /\ calls' = Tail(calls) /\ ops' = PinOps(Session("init")) /\ sampled' = <<>>
      /\ outputs' = outputs /\ level' = level
      /\ mode' = mode /\ key' = key /\ frame' = frame /\ regs' = regs
      /\ lines' = "driven" /\ target' = "reset"
      /\ meant' = [PowerOn EXCEPT !.flash = meant.flash]
  BY <1>1, MeansSession DEF Begin, chipVars
<1>3. /\ level["pgc"] = 0 /\ level["mclr"] = 0 /\ frame = NoFrame /\ key = <<>>
      /\ mode = "run" /\ outputs \subseteq {"pgd"} /\ regs = meant /\ meant \in Registers
  BY DEF ExitAt, Types
<1>4. Fresh' /\ meant' \in Registers
  BY <1>2, <1>3, FlashKept DEF Fresh
<1>5. InitAt(0)'
  BY <1>2, <1>3, <1>4 DEF InitAt
<1>6. During(Session("init"), 0)'
  BY <1>1, <1>2, <1>5 DEF During
<1>7. PinOps(Session("init")) \in Seq(PinOp)
  BY InitIs DEF Lists
<1>8. Types'
  BY <1>2, <1>4 DEF Types
<1> QED  BY <1>2, <1>6, <1>7, <1>8, Starts

\* The beginning of a call keeps the invariant.
LEMMA BeginKeeps ==
  ASSUME Types, Situation, Begin
  PROVE  Types' /\ Situation'
<1>1. ops = <<>> /\ calls # <<>>
  BY DEF Begin
<1>2. ASSUME Idle, Ends(calls) PROVE Types' /\ Situation'
  BY <1>2, EndsIs, ExitBegins, JobBegins
<1>3. CASE ExitAt(4) /\ (calls = <<>> \/ Entering(calls) \/ Starting(calls))
  BY <1>1, <1>3, EnterBegins, InitBegins
<1>4. CASE InitAt(6) /\ Entering(calls)
  BY <1>4, EnterBegins
<1>5. CASE EnterAt(102) /\ Ends(calls)
  BY <1>2, <1>5, EnterIdle
<1>6. ASSUME NEW c \in JobCalls, NEW n \in Nat, n = Len(PinOps(c)), JobAt(c, Mark(c, n)),
             Ends(calls)
      PROVE  Types' /\ Situation'
  <2>1. PICK m \in Nat :
          /\ Len(PinOps(c)) = m
          /\ Mark(c, m).pgc = 0 /\ Mark(c, m).edges = 20 /\ Mark(c, m).out = 1
    BY Scripted
  <2>2. Idle
    BY <1>6, <2>1, JobIdle
  <2> QED  BY <1>2, <1>6, <2>2
<1> QED  BY <1>1, <1>3, <1>4, <1>5, <1>6, Returned

\* A new session keeps it: the one before has ended in an exit.
LEMMA NewSessionKeeps ==
  ASSUME Types, Situation, NewSession
  PROVE  Types' /\ Situation'
<1>1. /\ calls = <<>> /\ ops = <<>> /\ ops' = ops
      /\ UNCHANGED <<lines, target, sampled, outputs, level, mode, key, frame, regs, meant>>
  BY DEF NewSession, icspVars, chipVars
<1>2. Entering(calls') \/ Starting(calls')
  BY SessionIs DEF NewSession
<1>3. ~Ends(calls) /\ ~Entering(calls)
  BY <1>1, EndsIs, EnteringIs
<1>4. ExitAt(4)
  BY <1>1, <1>3, Returned
<1>5. ExitAt(4)'
  BY <1>1, <1>4 DEF ExitAt, Fresh
<1>6. During(Session("exit"), 4)'
  BY <1>2, <1>5 DEF During, Entering, Starting, Ends
<1>7. PinOps(Session("exit")) \in Seq(PinOp) /\ Len(PinOps(Session("exit"))) = 4
  BY ExitIs DEF Lists
<1>9. 4 \in 0..Len(PinOps(Session("exit")))
  <2>1. 4 \in 0..4
    OBVIOUS
  <2> QED  BY <1>7, <2>1
<1>8. ops' = After(PinOps(Session("exit")), 4)
  BY <1>1, <1>7, <1>9, AfterIs
<1>10. Situation'
  BY <1>6, <1>8, <1>9 DEF Situation
<1>11. Types'
  BY <1>1 DEF Types
<1> QED  BY <1>10, <1>11

(***************************************************************************)
(* The invariant holds, and implies what is asked.                         *)
(***************************************************************************)

\* The first state is that after an exit.
LEMMA InitEstablishes == Init => ShiftInv
<1> SUFFICES ASSUME Init PROVE ShiftInv
  OBVIOUS
<1> USE DEF Lines
<1>1. Types
  <2>1. PowerOn \in Registers
    BY PowerOnTyped
  <2> QED  BY <2>1 DEF Init, Types
<1>2. Fresh
  <2>1. regs = PowerOn /\ meant = PowerOn /\ PowerOn = [PowerOn EXCEPT !.flash = PowerOn.flash]
    BY DEF Init, PowerOn
  <2> QED  BY <2>1 DEF Fresh
<1>3. ExitAt(4)
  BY <1>2 DEF Init, ExitAt
<1>4. During(Session("exit"), 4)
  BY <1>3 DEF Init, During
<1>5. PinOps(Session("exit")) \in Seq(PinOp) /\ Len(PinOps(Session("exit"))) = 4
  BY ExitIs DEF Lists
<1>6. 4 \in 0..Len(PinOps(Session("exit")))
  <2>1. 4 \in 0..4
    OBVIOUS
  <2> QED  BY <1>5, <2>1
<1>7. ops = After(PinOps(Session("exit")), 4)
  BY <1>5, <1>6, AfterIs DEF Init
<1> QED  BY <1>1, <1>4, <1>6, <1>7 DEF Situation, ShiftInv

\* So does every step.
LEMMA StepKeeps == ShiftInv /\ [Next]_vars => ShiftInv'
<1> SUFFICES ASSUME ShiftInv, [Next]_vars PROVE ShiftInv'
  OBVIOUS
<1>1. CASE NewSession
  BY <1>1, NewSessionKeeps DEF ShiftInv
<1>2. CASE Begin
  BY <1>2, BeginKeeps DEF ShiftInv
<1>3. CASE Operate
  BY <1>3, OperateKeeps DEF ShiftInv
<1>4. CASE UNCHANGED vars
  <2>1. /\ UNCHANGED <<lines, target, calls, ops, sampled, outputs, level>>
        /\ UNCHANGED <<mode, key, frame, regs, meant, result>>
    BY <1>4 DEF vars, icspVars, hostVars, chipVars
  <2>2. Types'
    BY <2>1 DEF ShiftInv, Types
  <2>3. PICK c : \E k \in 0..Len(PinOps(c)) : ops = After(PinOps(c), k) /\ During(c, k)
    BY DEF ShiftInv, Situation
  <2>4. PICK k \in 0..Len(PinOps(c)) : ops = After(PinOps(c), k) /\ During(c, k)
    BY <2>3
  <2>5. \A i : ExitAt(i)' <=> ExitAt(i)
    BY <2>1 DEF ExitAt, Fresh
  <2>6. \A i : InitAt(i)' <=> InitAt(i)
    BY <2>1 DEF InitAt, Fresh
  <2>7. Released' <=> Released
    BY <2>1 DEF Released, Fresh
  <2>8. \A i : EnterAt(i)' <=> EnterAt(i)
    BY <2>1, <2>7 DEF EnterAt, EnterDriven, Keying, KeyBits, Fresh, EnterClock
  <2>9. \A a : JobAt(c, a)' <=> JobAt(c, a)
    BY <2>1, <2>7 DEF JobAt, Programming, InFrame
  <2>10. During(c, k)'
    BY <2>1, <2>4, <2>5, <2>6, <2>8, <2>9 DEF During, Ends, Entering, Starting
  <2>11. Situation'
    BY <2>1, <2>4, <2>10 DEF Situation
  <2> QED  BY <2>2, <2>11 DEF ShiftInv
<1> QED  BY <1>1, <1>2, <1>3, <1>4 DEF Next

\* Where the session, the chip and the samples are, whatever the call.
LEMMA Places ==
  ASSUME Types, NEW c, NEW k \in 0..Len(PinOps(c)), During(c, k)
  PROVE  /\ lines \in {"driven", "released"} /\ target \in {"run", "reset", "program"}
         /\ mode \in {"run", "reset", "program"}
         /\ key = <<>> \/ \E i \in 0..32 : key = KeyBits(i)
         /\ \/ frame = NoFrame /\ sampled = <<>>
            \/ /\ c \in JobCalls /\ JobAt(c, Mark(c, k)) /\ Mark(c, k) \in Marks
               /\ LET a == Mark(c, k)
                  IN  Reads(c.cmd) /\ a.edges \in 12..19 /\ (a.pgc = 1 \/ a.edges > 12)
                        => a.out = 0
<1>1. CASE ExitAt(k)
  BY <1>1 DEF ExitAt
<1>2. CASE InitAt(k)
  BY <1>2 DEF InitAt
<1>3. CASE c = Session("enter") /\ EnterAt(k)
  <2>1. CASE Released
    BY <1>3, <2>1 DEF Released, EnterAt
  <2>2. CASE EnterDriven(k) /\ ~(k \in 4..101)
    BY <1>3, <2>2 DEF EnterDriven, EnterAt
  <2>3. CASE EnterDriven(k) /\ k \in 4..101
    <3>1. Keying(k) /\ lines = "driven" /\ target = "program" /\ frame = NoFrame /\ sampled = <<>>
      BY <1>3, <2>3 DEF EnterDriven, EnterAt
    <3>2. (k - 4) \div 3 \in 0..32
      BY <2>3
    <3> QED  BY <3>1, <3>2 DEF Keying
  <2> QED  BY <1>3, <2>1, <2>2, <2>3 DEF EnterAt
<1>4. CASE c \in JobCalls /\ JobAt(c, Mark(c, k))
  <2>1. PICK n \in Nat :
          /\ Len(PinOps(c)) = n
          /\ \A j \in 0..n :
               /\ Mark(c, j) \in Marks
               /\ LET a == Mark(c, j)
                  IN  Reads(c.cmd) /\ a.edges \in 12..19 /\ (a.pgc = 1 \/ a.edges > 12)
                        => a.out = 0
    BY <1>4, Scripted
  <2>2. CASE Released
    BY <1>4, <2>1, <2>2 DEF Released
  <2>3. CASE Programming(c, Mark(c, k))
    BY <1>4, <2>1, <2>3 DEF Programming
  <2> QED  BY <1>4, <2>2, <2>3 DEF JobAt
<1> QED  BY <1>1, <1>2, <1>3, <1>4 DEF During

\* The frame of a command, and the bits read.
LEMMA JobFrame ==
  ASSUME Types, NEW c \in JobCalls, NEW a \in Marks, JobAt(c, a)
  PROVE  /\ Len(sampled) <= 8
         /\ frame.n \in 0..19 /\ frame.out \in Byte
         /\ Answering => Reads(c.cmd) /\ a.edges = frame.n /\ a.edges \in 12..19
<1>1. a.samples \in 0..8 /\ a.edges \in 0..20
  BY DEF Marks
<1>2. Len(sampled) <= 8
  <2> PICK n \in 0..8 : n = a.samples
    BY <1>1
  <2> DEFINE F(j) == Bit(result[1], j - 1)
             S == {F(j) : j \in 1..n}
  <2>1. sampled = [j \in 1..n |-> F(j)]
    BY DEF JobAt
  <2>2. sampled \in [1..n -> S] /\ n \in Nat
    BY <2>1
  <2> HIDE DEF S
  <2>3. Len(sampled) = n
    BY <2>2
  <2> QED  BY <2>3
<1>3. CASE frame = NoFrame
  <2>1. frame.n = 0 /\ frame.out = 0 /\ ~Reads(frame.cmd) /\ 0 \in Byte
    BY <1>3 DEF NoFrame, Reads, Byte
  <2> QED  BY <1>2, <2>1 DEF Answering
<1>4. CASE Programming(c, a) /\ a.edges # 20
  <2> DEFINE cmd == IF a.edges < 4 THEN LowBits(c.cmd, a.edges) ELSE c.cmd
             word == IF a.edges < 4 \/ Reads(c.cmd) THEN 0 ELSE LowBits(c.word, a.edges - 4)
             held == IF a.held = 1 THEN c.held ELSE NotHeld
             out == IF Reads(c.cmd) /\ a.edges >= 12 THEN ShiftedOut(regs, c.cmd) ELSE 0
  <2>1. frame = FrameOf(a.edges, cmd, word, held, out)
    BY <1>4 DEF Programming, InFrame
  <2>2. out \in Byte
    <3>1. ShiftedOut(regs, c.cmd) \in Byte
      BY ShiftedOutTyped DEF Types
    <3>2. 0 \in Byte
      BY DEF Byte
    <3> QED  BY <3>1, <3>2
  <2>3. a.edges >= 12 => cmd = c.cmd /\ a.edges \in 12..19
    BY <1>1, <1>4
  <2> HIDE DEF cmd, word, held, out
  <2>4. frame.n = a.edges /\ frame.out = out /\ frame.cmd = cmd
    BY <2>1, FrameFields
  <2> QED  BY <1>1, <1>2, <1>4, <2>2, <2>3, <2>4 DEF Answering
<1> QED  BY <1>3, <1>4 DEF JobAt, Released, Programming, InFrame

\* The invariant implies the types,
LEMMA ShiftInvTyped == ShiftInv => TypeOK
<1> SUFFICES ASSUME Types, Situation PROVE TypeOK
  BY DEF ShiftInv
<1>0. PICK c : \E k \in 0..Len(PinOps(c)) : ops = After(PinOps(c), k) /\ During(c, k)
  BY DEF Situation
<1>1. PICK k \in 0..Len(PinOps(c)) : ops = After(PinOps(c), k) /\ During(c, k)
  BY <1>0
<1>2. IcspTypeOK /\ mode \in {"run", "reset", "program"}
  BY <1>1, Places DEF IcspTypeOK
<1>3. Len(key) <= 32
  <2>1. Len(<<>>) = 0
    OBVIOUS
  <2>2. ASSUME NEW i \in 0..32 PROVE Len(KeyBits(i)) <= 32
    <3>0. \A j \in 1..i : j \in 1..32
      OBVIOUS
    <3>1. KeyBits(i) \in [1..i -> {0, 1}]
      <4>1. \A j \in 1..i : EntryKey[j] \in {0, 1}
        BY <3>0, EntryKeyTyped
      <4> QED  BY <4>1 DEF KeyBits
    <3>2. i \in Nat /\ i <= 32
      OBVIOUS
    <3>3. Len(KeyBits(i)) = i
      BY <3>1, <3>2
    <3> QED  BY <3>2, <3>3
  <2>3. key = <<>> \/ \E i \in 0..32 : key = KeyBits(i)
    BY <1>1, Places
  <2>4. CASE key = <<>>
    BY <2>1, <2>4
  <2>5. CASE \E i \in 0..32 : key = KeyBits(i)
    BY <2>2, <2>5
  <2> QED  BY <2>3, <2>4, <2>5
<1>4. Len(sampled) <= 8 /\ frame.n \in 0..19 /\ frame.out \in Byte
  <2>1. CASE frame = NoFrame /\ sampled = <<>>
    BY <2>1 DEF NoFrame, Byte
  <2> QED  BY <1>1, <2>1, Places, JobFrame
<1>5. ASSUME NEW r \in Registers
      PROVE  /\ {r.wreg, r.tablat, r.bsr} \subseteq Byte /\ r.tblptr \in 0..2 ^ 22 - 1
             /\ r.flash \in [0..FlashBytes - 1 -> Byte] /\ r.latch \in [DOMAIN Blank -> Byte]
  <2>1. /\ r.wreg \in Byte /\ r.tablat \in Byte /\ r.bsr \in 0..15
        /\ r.tblptr \in Pointer /\ r.flash \in [0..FlashBytes - 1 -> Byte]
        /\ r.latch \in [0..BlockBytes - 1 -> Byte]
    BY DEF Registers
  <2>2. \A x \in 0..15 : x \in Byte
    BY DEF Byte
  <2>3. DOMAIN Blank = 0..BlockBytes - 1
    BY DEF Blank
  <2> QED  BY <2>1, <2>2, <2>3 DEF Pointer
<1>6. outputs \subseteq Lines /\ level \in [Lines -> {0, 1}]
  BY DEF Types
<1> QED  BY <1>2, <1>3, <1>4, <1>5, <1>6 DEF TypeOK, Types

\* that one end drives PGD,
LEMMA ShiftInvOneDriver == ShiftInv => OneDriver
<1> SUFFICES ASSUME Types, Situation, Answering, level["pgc"] = 1 \/ frame.n > 12
             PROVE  "pgd" \notin outputs
  BY DEF ShiftInv, OneDriver
<1>0. PICK c : \E k \in 0..Len(PinOps(c)) : ops = After(PinOps(c), k) /\ During(c, k)
  BY DEF Situation
<1>1. PICK k \in 0..Len(PinOps(c)) : ops = After(PinOps(c), k) /\ During(c, k)
  BY <1>0
<1>2. frame # NoFrame
  BY DEF Answering, NoFrame, Reads
<1> DEFINE a == Mark(c, k)
<1>3. /\ c \in JobCalls /\ JobAt(c, a) /\ a \in Marks
      /\ Reads(c.cmd) /\ a.edges \in 12..19 /\ (a.pgc = 1 \/ a.edges > 12) => a.out = 0
  BY <1>1, <1>2, Places
<1> HIDE DEF a
<1>4. Reads(c.cmd) /\ a.edges = frame.n /\ a.edges \in 12..19
  BY <1>3, JobFrame
<1>5. a.out = 0
  BY <1>3, <1>4 DEF JobAt
<1> QED  BY <1>3, <1>5 DEF JobAt

\* and that the chip follows the calls.
LEMMA ShiftInvFollows == ShiftInv => ChipFollows
<1> SUFFICES ASSUME Types, Situation, ops = <<>>
             PROVE  /\ mode = target /\ regs = meant
                    /\ mode = "program" => frame = NoFrame
                    /\ sampled # <<>> => <<Value(sampled)>> = result
  BY DEF ShiftInv, ChipFollows
<1>1. CASE ExitAt(4)
  BY <1>1 DEF ExitAt
<1>2. CASE InitAt(6)
  BY <1>2 DEF InitAt
<1>3. ASSUME Idle
      PROVE  mode = target /\ regs = meant /\ frame = NoFrame
  BY <1>3 DEF Idle, Released
<1>4. CASE EnterAt(102)
  <2>1. sampled = <<>>
    BY <1>4 DEF EnterAt
  <2> QED  BY <1>3, <1>4, <2>1, EnterIdle
<1>5. ASSUME NEW c \in JobCalls, NEW n \in Nat, n = Len(PinOps(c)), JobAt(c, Mark(c, n))
      PROVE  /\ mode = target /\ regs = meant
             /\ mode = "program" => frame = NoFrame
             /\ sampled # <<>> => <<Value(sampled)>> = result
  <2> DEFINE a == Mark(c, n)
  <2>1. /\ a.pgc = 0 /\ a.edges = 20 /\ a.out = 1
        /\ a.samples = IF Reads(c.cmd) THEN 8 ELSE 0
    BY <1>5, Scripted
  <2> HIDE DEF a
  <2>2. JobAt(c, a)
    BY <1>5 DEF a
  <2>3. Idle
    BY <2>1, <2>2, JobIdle
  <2>4. CASE Reads(c.cmd)
    <3>1. PICK b \in Byte : result = <<b>>
      BY <2>2, <2>4 DEF JobAt
    <3>2. sampled = [j \in 1..8 |-> Bit(b, j - 1)]
      BY <2>1, <2>2, <2>4, <3>1 DEF JobAt
    <3> QED  BY <1>3, <2>3, <3>1, <3>2, ByteIsItsBits
  <2>5. CASE ~Reads(c.cmd)
    <3>1. sampled = [j \in 1..0 |-> Bit(result[1], j - 1)]
      BY <2>1, <2>2, <2>5 DEF JobAt
    <3>2. sampled = <<>>
      BY <3>1
    <3> QED  BY <1>3, <2>3, <3>2
  <2> QED  BY <2>4, <2>5
<1> QED  BY <1>1, <1>2, <1>4, <1>5, Returned

\* Whatever the sessions and the operands of their commands, src/pic_icsp.c makes every
\* variable keep its type: in particular no command is ever more than its twenty bits, and
\* no read samples more than eight.
THEOREM ShiftTypeHolds == Spec => []TypeOK
<1>1. Init => ShiftInv
  BY InitEstablishes
<1>2. ShiftInv /\ [Next]_vars => ShiftInv'
  BY StepKeeps
<1>3. ShiftInv => TypeOK
  BY ShiftInvTyped
<1> QED  BY <1>1, <1>2, <1>3, PTL DEF Spec

\* Whatever the sessions and the operands of their commands, the chip is where the calls of
\* src/pic_icsp.c should have brought it whenever one returns, a read returns the byte it
\* asked for, and the two ends never drive PGD against each other.
THEOREM WiresHold == Spec => []WiresAgree
<1>1. Init => ShiftInv
  BY InitEstablishes
<1>2. ShiftInv /\ [Next]_vars => ShiftInv'
  BY StepKeeps
<1>3. ShiftInv => WiresAgree
  BY ShiftInvFollows, ShiftInvOneDriver DEF WiresAgree
<1> QED  BY <1>1, <1>2, <1>3, PTL DEF Spec

(***************************************************************************)
(* The callers of src/pic_icsp.c keep to such commands.                    *)
(***************************************************************************)

\* The commands the callers make.
LEMMA CommandsAre ==
  /\ \A w \in Word : core_inst(w) \in JobCalls
  /\ \A cmd \in {\b1100, \b1101, \b1111}, w \in Word : tblwt(cmd, w) \in JobCalls
  /\ read(\b1001) \in JobCalls /\ read(\b0010) \in JobCalls
  /\ \A us \in Nat : prog_nop(us) \in JobCalls /\ erase_nop(us) \in JobCalls
<1> DEFINE Shaped == [fn: {"word", "read", "prog_nop", "erase_nop"}, cmd: 0..15, word: Word,
                      held: [high: BOOLEAN, us: Nat]]
<1>1. NotHeld \in [high: BOOLEAN, us: Nat] /\ 0 \in Word
  BY RangesAre DEF NotHeld
<1>2. ASSUME NEW w \in Word PROVE core_inst(w) \in JobCalls
  <2>1. core_inst(w) \in Shaped /\ core_inst(w).word = w
    BY <1>1 DEF core_inst, Call
  <2> QED  BY <2>1 DEF JobCalls
<1>3. ASSUME NEW cmd \in {\b1100, \b1101, \b1111}, NEW w \in Word PROVE tblwt(cmd, w) \in JobCalls
  <2>1. tblwt(cmd, w) \in Shaped /\ tblwt(cmd, w).word = w /\ tblwt(cmd, w).cmd = cmd
    BY <1>1 DEF tblwt, Call
  <2> QED  BY <2>1 DEF JobCalls
<1>4. ASSUME NEW cmd \in {\b1001, \b0010} PROVE read(cmd) \in JobCalls
  <2>1. read(cmd) \in Shaped /\ read(cmd).cmd = cmd /\ Reads(cmd)
    BY <1>1 DEF read, Call, Reads
  <2> QED  BY <2>1 DEF JobCalls
<1>5. ASSUME NEW us \in Nat PROVE prog_nop(us) \in JobCalls /\ erase_nop(us) \in JobCalls
  <2>1. prog_nop(us) \in Shaped /\ prog_nop(us).held.us = us
    BY <1>1 DEF prog_nop, Call
  <2>2. erase_nop(us) \in Shaped /\ erase_nop(us).held.us = us
    BY <1>1 DEF erase_nop, Call
  <2> QED  BY <2>1, <2>2 DEF JobCalls
<1> QED  BY <1>2, <1>3, <1>4, <1>5

\* Six of them load the table pointer.
LEMMA SetTblptrSends ==
  ASSUME NEW addr \in Pointer
  PROVE  pic_icsp_set_tblptr(addr) \in Seq(JobCalls)
<1> DEFINE u == \h0E00 + (addr \div 65536)
           h == \h0E00 + ((addr \div 256) % 256)
           l == \h0E00 + (addr % 256)
<1>1. addr \in Nat /\ addr < 4194304
  BY PowersOfTwo DEF Pointer
<1>2. u \in Nat /\ u < 65536 /\ h \in Nat /\ h < 65536 /\ l \in Nat /\ l < 65536
  BY <1>1, SMT
<1>3. \A x \in {u, h, l, \h6EF8, \h6EF7, \h6EF6} : x \in Word
  BY <1>2, RangesAre, SMT
<1> HIDE DEF u, h, l
<1>4. \A x \in {u, h, l, \h6EF8, \h6EF7, \h6EF6} : core_inst(x) \in JobCalls
  BY <1>3, CommandsAre
<1>5. <<core_inst(u), core_inst(\h6EF8), core_inst(h), core_inst(\h6EF7),
        core_inst(l), core_inst(\h6EF6)>> \in Seq(JobCalls)
  BY <1>4
<1> QED  BY <1>5 DEF pic_icsp_set_tblptr, u, h, l

\* Every session the callers ask for is made of the commands of the theorems above,
\* whatever the address, the row and the words: pic_icsp_set_tblptr, the reads, the bulk
\* erase, a row of pic_prog_row_erase_range and a block of prog_write_file.
THEOREM CallersSendCommands ==
  ASSUME NEW addr \in Pointer, NEW data \in DataMemory, NEW words \in Seq(Word), words # <<>>
  PROVE  {pic_read_device_id, pic_icsp_set_tblptr(addr), pic_icsp_table_read,
          pic_icsp_read_data(data), pic_prog_bulk_erase, RowErase(addr), WriteBlock(addr, words)}
           \subseteq Seq(JobCalls)
<1> DEFINE C == JobCalls
<1>1. ASSUME NEW s \in Seq(C), NEW t \in Seq(C) PROVE s \o t \in Seq(C)
  <2> HIDE DEF C
  <2> QED  BY ConcatProperties
<1>2. \A c \in C : <<c>> \in Seq(C)
  <2> HIDE DEF C
  <2> QED  OBVIOUS
<1>3. pic_icsp_set_tblptr(addr) \in Seq(C)
  BY SetTblptrSends
<1>4. pic_icsp_table_read \in Seq(C)
  BY <1>2, CommandsAre DEF pic_icsp_table_read
<1>5. pic_read_device_id \in Seq(C)
  <2>1. DeviceIdAddr \in Pointer
    BY RangesAre, SMT DEF DeviceIdAddr
  <2>2. pic_icsp_set_tblptr(DeviceIdAddr) \in Seq(C)
    BY <2>1, SetTblptrSends
  <2> HIDE DEF C
  <2> QED  BY <1>1, <1>4, <2>2 DEF pic_read_device_id
<1>6. pic_icsp_read_data(data) \in Seq(C)
  <2> DEFINE bank == \h0100 + ((data \div 256) % 16)
             offset == \h5100 + (data % 256)
  <2>1. data \in Nat /\ data < 65536
    BY DEF DataMemory
  <2>2. bank \in Nat /\ bank < 65536 /\ offset \in Nat /\ offset < 65536
    BY <2>1, SMT
  <2> HIDE DEF bank, offset
  <2>3. bank \in Word /\ offset \in Word /\ \h6EF5 \in Word
    BY <2>2, RangesAre, SMT
  <2>4. core_inst(bank) \in C /\ core_inst(offset) \in C /\ core_inst(\h6EF5) \in C
        /\ read(\b0010) \in C
    BY <2>3, CommandsAre
  <2> HIDE DEF C
  <2>5. <<core_inst(bank), core_inst(offset), core_inst(\h6EF5), read(\b0010)>> \in Seq(C)
    BY <2>4
  <2> QED  BY <2>5 DEF pic_icsp_read_data, bank, offset
<1>7. pic_prog_bulk_erase \in Seq(C)
  <2>1. \h3C0005 \in Pointer /\ \h3C0004 \in Pointer /\ \h0101 \in Word /\ \h8080 \in Word
    BY RangesAre, SMT
  <2>2. 600000 \in Nat
    BY SMT
  <2>3. /\ pic_icsp_set_tblptr(\h3C0005) \in Seq(C) /\ pic_icsp_set_tblptr(\h3C0004) \in Seq(C)
    BY <2>1, SetTblptrSends, SMT
  <2>4. tblwt(\b1100, \h0101) \in C /\ tblwt(\b1100, \h8080) \in C /\ erase_nop(600000) \in C
    BY <2>1, <2>2, CommandsAre, SMT
  <2> DEFINE a == pic_icsp_set_tblptr(\h3C0005)
             b == <<tblwt(\b1100, \h0101)>>
             d == pic_icsp_set_tblptr(\h3C0004)
             e == <<tblwt(\b1100, \h8080), erase_nop(600000)>>
  <2>5. pic_prog_bulk_erase = ((a \o b) \o d) \o e
    BY DEF pic_prog_bulk_erase
  <2> HIDE DEF C
  <2>6. a \in Seq(C) /\ b \in Seq(C) /\ d \in Seq(C) /\ e \in Seq(C)
    BY <2>3, <2>4, SMT
  <2> HIDE DEF a, b, d, e
  <2> QED  BY <1>1, <2>5, <2>6
<1>8. WREN(TRUE) \in Seq(C) /\ WREN(FALSE) \in Seq(C)
  <2>1. \h84A6 \in Word /\ \h94A6 \in Word
    BY RangesAre, SMT
  <2>2. core_inst(\h84A6) \in C /\ core_inst(\h94A6) \in C
    BY <2>1, CommandsAre, SMT
  <2> HIDE DEF C
  <2> QED  BY <1>2, <2>2 DEF WREN
<1>9. RowErase(addr) \in Seq(C)
  <2>1. \h88A6 \in Word /\ \h82A6 \in Word
    BY RangesAre, SMT
  <2>2. 60000 \in Nat
    BY SMT
  <2>3. core_inst(\h88A6) \in C /\ core_inst(\h82A6) \in C /\ prog_nop(60000) \in C
    BY <2>1, <2>2, CommandsAre, SMT
  <2> DEFINE a == WREN(TRUE)
             b == pic_icsp_set_tblptr(addr)
             d == <<core_inst(\h88A6), core_inst(\h82A6), prog_nop(60000)>>
             e == WREN(FALSE)
  <2>4. RowErase(addr) = ((a \o b) \o d) \o e
    BY DEF RowErase
  <2> HIDE DEF C
  <2>5. a \in Seq(C) /\ b \in Seq(C) /\ e \in Seq(C)
    BY <1>3, <1>8
  <2>6. d \in Seq(C)
    <3> DEFINE x == core_inst(\h88A6)
               y == core_inst(\h82A6)
               z == prog_nop(60000)
    <3>1. x \in C /\ y \in C /\ z \in C
      BY <2>3
    <3> HIDE DEF x, y, z
    <3>2. <<x, y, z>> \in Seq(C)
      BY <3>1
    <3> QED  BY <3>2 DEF x, y, z
  <2> HIDE DEF a, b, d, e
  <2> QED  BY <1>1, <2>4, <2>5, <2>6
<1>10. WriteBlock(addr, words) \in Seq(C)
  <2>1. PICK n \in Nat : n = Len(words) /\ n # 0
    BY EmptySeq
  <2>2. \A k \in 1..n : words[k] \in Word
    BY <2>1
  <2>3. words[n] \in Word /\ \A k \in 1..n - 1 : words[k] \in Word
    BY <2>1, <2>2
  <2>4. 5000 \in Nat
    BY SMT
  <2>5. /\ \A k \in 1..n - 1 : tblwt(\b1101, words[k]) \in C
        /\ tblwt(\b1111, words[n]) \in C /\ prog_nop(5000) \in C
    BY <2>3, <2>4, CommandsAre, SMT
  <2> DEFINE a == WREN(TRUE)
             b == pic_icsp_set_tblptr(addr)
             d == [k \in 1..n - 1 |-> tblwt(\b1101, words[k])]
             e == <<tblwt(\b1111, words[n]), prog_nop(5000)>>
             f == pic_icsp_table_read
             g == WREN(FALSE)
  <2>6. WriteBlock(addr, words) = ((((((a \o b) \o d) \o e) \o b) \o f) \o f) \o g
    BY <2>1 DEF WriteBlock
  <2> HIDE DEF C
  <2>7. n - 1 \in Nat
    BY <2>1
  <2>8. d \in Seq(C)
    BY <2>5, <2>7
  <2>9. a \in Seq(C) /\ b \in Seq(C) /\ f \in Seq(C) /\ g \in Seq(C)
    BY <1>3, <1>4, <1>8
  <2>10. e \in Seq(C)
    <3> DEFINE x == tblwt(\b1111, words[n])
               y == prog_nop(5000)
    <3>1. x \in C /\ y \in C
      BY <2>5
    <3> HIDE DEF x, y
    <3>2. <<x, y>> \in Seq(C)
      BY <3>1
    <3> QED  BY <3>2 DEF x, y
  <2> HIDE DEF a, b, d, e, f, g
  <2> QED  BY <1>1, <2>6, <2>8, <2>9, <2>10
<1> QED  BY <1>3, <1>4, <1>5, <1>6, <1>7, <1>9, <1>10
================================================================================
