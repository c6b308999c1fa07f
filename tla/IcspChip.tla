------------------------------- MODULE IcspChip -------------------------------
(***************************************************************************)
(* external: a PIC18F67J60 in Program/Verify mode, one command at a time,   *)
(* as the comments of src/pic_icsp.c, src/pic_program.c and                 *)
(* src/pic_config.h quote it from DS39688D.  A command is its four bits, a  *)
(* 16-bit operand, and how the clock was held while it was given.          *)
(***************************************************************************)
EXTENDS Integers, Sequences

CONSTANTS
  FlashBytes,  \* 128 KB
  BlockBytes,  \* the write buffer: 64
  RowBytes,    \* 1024
  Ram          \* data memory: a function from its addresses to bytes

Byte == 0..255
Word == 0..2 ^ 16 - 1
DataMemory == 0..4095

ASSUME ChipAssumption ==
  /\ {FlashBytes, BlockBytes, RowBytes} \subseteq Nat \ {0}
  /\ Ram \in [DataMemory -> Byte]

Bit(x, n) == (x \div 2 ^ n) % 2

\* A number from its bits, least significant first.
Value(bits) ==
  LET low[n \in 0..Len(bits)] == IF n = 0 THEN 0 ELSE low[n - 1] + (bits[n] * 2 ^ (n - 1))
  IN  low[Len(bits)]

\* The bits that two bytes both have.
Common(x, y) == Value([i \in 1..8 |-> Bit(x, i - 1) * Bit(y, i - 1)])

DeviceIdAddr == \h3FFFFE
DeviceId == [a \in {DeviceIdAddr, DeviceIdAddr + 1} |-> IF a = DeviceIdAddr THEN \h23 ELSE \h1F]
Flash0 == [a \in 0..FlashBytes - 1 |-> 255 - (a % 256)]

Blank == [o \in 0..BlockBytes - 1 |-> 255]
NotHeld == [high |-> FALSE, us |-> 0]

PowerOn == [wreg |-> 0, tblptr |-> 0, tablat |-> 0, bsr |-> 0, wren |-> FALSE, free |-> FALSE,
            armed |-> "none", unlock |-> {}, latch |-> Blank, flash |-> Flash0]

\* Program memory as a table read sees it.
ReadAt(r, a) ==
  IF a \in DOMAIN r.flash THEN r.flash[a]
  ELSE IF a \in DOMAIN DeviceId THEN DeviceId[a] ELSE 255

(***************************************************************************)
(* Core instructions.                                                      *)
(***************************************************************************)

\* x with b for its byte of that weight.
SetByte(x, weight, b) == x - (((x \div weight) % 256) * weight) + (b * weight)

\* The table pointer has 22 bits.
Advance(tblptr, n) == (tblptr + n) % 2 ^ 22

\* The bits of EECON1.
Control(r, inst) ==
  CASE inst = \h84A6 -> [r EXCEPT !.wren = TRUE]
    [] inst = \h94A6 -> [r EXCEPT !.wren = FALSE]
    [] inst = \h88A6 -> [r EXCEPT !.free = TRUE]
    [] inst = \h82A6 -> [r EXCEPT !.armed = IF r.free THEN "row" ELSE @]
    [] OTHER         -> r

Core(r, inst) ==
  LET k == inst % 256
  IN  CASE inst \div 256 = \h0E -> [r EXCEPT !.wreg = k]
        [] inst \div 256 = \h01 -> [r EXCEPT !.bsr = k % 16]
        [] inst \div 256 = \h51 -> [r EXCEPT !.wreg = Ram[(256 * r.bsr) + k]]
        [] inst = \h6EF8 -> [r EXCEPT !.tblptr = SetByte(@, 65536, r.wreg % 64)]
        [] inst = \h6EF7 -> [r EXCEPT !.tblptr = SetByte(@, 256, r.wreg)]
        [] inst = \h6EF6 -> [r EXCEPT !.tblptr = SetByte(@, 1, r.wreg)]
        [] inst = \h6EF5 -> [r EXCEPT !.tablat = r.wreg]
        [] OTHER -> Control(r, inst)

(***************************************************************************)
(* A NOP starts what has been armed, if its clock is held long enough: high *)
(* for a block (P9) or a row (P10), low afterwards for the chip (P11).     *)
(***************************************************************************)

BulkUnlock == {<<\h3C0005, \h0101>>, <<\h3C0004, \h8080>>}

Within(a, at, size) == a \div size = at \div size

SelfTimed(r, held) ==
  LET programmed(a) == Common(r.flash[a], r.latch[a % BlockBytes])
      done(f) == [r EXCEPT !.flash = f, !.armed = "none", !.free = FALSE, !.unlock = {},
                           !.latch = Blank]
  IN  CASE r.armed = "block" /\ r.wren /\ held.high /\ held.us >= 3400 ->
             done([a \in DOMAIN r.flash |->
                     IF Within(a, r.tblptr, BlockBytes) THEN programmed(a) ELSE r.flash[a]])
        [] r.armed = "row" /\ r.wren /\ held.high /\ held.us >= 49000 ->
             done([a \in DOMAIN r.flash |->
                     IF Within(a, r.tblptr, RowBytes) THEN 255 ELSE r.flash[a]])
        [] r.armed = "none" /\ r.unlock = BulkUnlock /\ ~r.wren /\ ~held.high
             /\ held.us >= 475000 ->
             done([a \in DOMAIN r.flash |-> 255])
        [] OTHER -> r

(***************************************************************************)
(* Commands.                                                               *)
(***************************************************************************)

\* A table write fills two bytes of the write buffer; at the special addresses it is
\* part of the bulk-erase pattern.
Latch(r, word) ==
  LET o == r.tblptr % BlockBytes
  IN  IF r.tblptr >= \h3C0000
      THEN [r EXCEPT !.unlock = @ \cup {<<r.tblptr, word>>}]
      ELSE [r EXCEPT !.latch = [@ EXCEPT ![o] = word % 256, ![o + 1] = word \div 256]]

Reads(cmd) == cmd \in {\b1001, \b0010}

\* What a reading command shifts out ...
ShiftedOut(r, cmd) == IF cmd = \b1001 THEN ReadAt(r, r.tblptr) ELSE r.tablat

\* ... and what any command does to the chip.
Execute(r, cmd, word, held) ==
  CASE cmd = \b0000 /\ word = 0 -> SelfTimed(r, held)
    [] cmd = \b0000 /\ word # 0 -> Core(r, word)
    [] cmd = \b1001 -> [r EXCEPT !.tblptr = Advance(@, 1), !.tablat = ReadAt(r, r.tblptr)]
    [] cmd = \b1100 -> Latch(r, word)
    [] cmd = \b1101 -> [Latch(r, word) EXCEPT !.tblptr = Advance(@, 2)]
    [] cmd = \b1111 -> [Latch(r, word) EXCEPT !.armed = "block"]
    [] OTHER        -> r
=============================================================================
