------------------------------- MODULE IcspShift -------------------------------
(***************************************************************************)
(* The bits of src/pic_icsp.c: every call is a sequence of operations on    *)
(* three GPIO pins, and the chip at the other end makes commands of the     *)
(* edges it sees.  IcspChip says what a command does; Icsp says what the    *)
(* callers think of a session; here both are what the calls so far mean     *)
(* (`meant`, `target`), and the chip on the wires has to agree with them    *)
(* whenever a call returns.                                                *)
(*                                                                         *)
(* Microsecond delays are left out: an operation takes effect before the    *)
(* next.  The millisecond holds of a program or erase are operations.      *)
(***************************************************************************)
EXTENDS Icsp, IcspChip

CONSTANT Jobs   \* the sequences of calls a session may be used for

VARIABLES
  \* the host
  calls,     \* the calls still to come in this session, between enter and exit included
  ops,       \* the pin operations left of the current one
  sampled,   \* the bits it has read
  outputs,   \* the pins that are outputs
  level,     \* what was last written to each
  \* external: the chip
  mode,      \* "run", "reset", "program"
  key,       \* the last 32 bits clocked in while in reset
  frame,     \* the command being shifted: bits so far, command, operand, hold, byte out
  regs,
  \* what the calls mean
  meant, result

hostVars == <<calls, ops, sampled, outputs, level>>
chipVars == <<mode, key, frame, regs>>
vars == <<icspVars, hostVars, chipVars, meant, result>>

Lines == {"pgc", "pgd", "mclr"}

(***************************************************************************)
(* The calls as pin operations.                                            *)
(***************************************************************************)

Write(pin, v) == [op |-> "write", pin |-> pin, v |-> v]
Output(pin)   == [op |-> "output", pin |-> pin, v |-> 0]
Input(pin)    == [op |-> "input", pin |-> pin, v |-> 0]
Sample        == [op |-> "sample", pin |-> "pgd", v |-> 0]
Hold(us)      == [op |-> "hold", pin |-> "pgc", v |-> us]

Repeat(n, s) == [k \in 1..n * Len(s) |-> s[((k - 1) % Len(s)) + 1]]

pic_clock_bit(bit) == <<Write("pgd", bit), Write("pgc", 1), Write("pgc", 0)>>

\* One bit after the other.
ClockBits(bits) ==
  [k \in 1..3 * Len(bits) |-> pic_clock_bit(bits[((k - 1) \div 3) + 1])[((k - 1) % 3) + 1]]

pic_icsp_init ==
  <<Output("pgc"), Output("pgd"), Output("mclr"),
    Write("pgc", 0), Write("pgd", 0), Write("mclr", 0)>>

\* The key 0x4D434850, most significant bit first.
EntryKey == [i \in 1..32 |-> IF i <= 16 THEN Bit(\h4D43, 16 - i) ELSE Bit(\h4850, 32 - i)]

pic_icsp_enter ==
  <<Write("pgc", 0), Write("pgd", 0), Write("mclr", 1), Write("mclr", 0)>>
    \o ClockBits(EntryKey)
    \o <<Write("pgd", 0), Write("mclr", 1)>>

pic_icsp_exit == <<Write("mclr", 0), Input("pgc"), Input("pgd"), Input("mclr")>>

\* Least significant bit first.  Mutant: most significant first.
ShiftMsbFirst(x, n) == ClockBits([i \in 1..n |-> Bit(x, n - i)])
Shift(x, n) == ClockBits([i \in 1..n |-> Bit(x, i - 1)])

\* The operand window of a reading command: eight clocks with PGD low, the turnaround,
\* eight clocks that sample, PGD back.  Mutant: one clock too many.
WindowOfNine ==
  <<Write("pgd", 0)>> \o Repeat(8, <<Write("pgc", 1), Write("pgc", 0)>>)
    \o <<Input("pgd")>>
    \o Repeat(9, <<Write("pgc", 1), Sample, Write("pgc", 0)>>)
    \o <<Output("pgd"), Write("pgd", 0)>>
Window ==
  <<Write("pgd", 0)>> \o Repeat(8, <<Write("pgc", 1), Write("pgc", 0)>>)
    \o <<Input("pgd")>>
    \o Repeat(8, <<Write("pgc", 1), Sample, Write("pgc", 0)>>)
    \o <<Output("pgd"), Write("pgd", 0)>>

pic_icsp_prog_nop(us) ==
  Shift(0, 3)
    \o <<Write("pgd", 0), Write("pgc", 1), Hold(us), Write("pgc", 0)>>
    \o Shift(0, 16)

pic_icsp_erase_nop(us) ==
  Shift(0, 4) \o <<Write("pgd", 0), Hold(us)>> \o Shift(0, 16)

(***************************************************************************)
(* Calls: a name, the command sent, its operand, how the clock is held.    *)
(***************************************************************************)

Call(fn, cmd, word, held) == [fn |-> fn, cmd |-> cmd, word |-> word, held |-> held]
Session(fn)    == Call(fn, 0, 0, NotHeld)
core_inst(w)   == Call("word", \b0000, w, NotHeld)
tblwt(cmd, w)  == Call("word", cmd, w, NotHeld)
read(cmd)      == Call("read", cmd, 0, NotHeld)
prog_nop(us)   == Call("prog_nop", \b0000, 0, [high |-> TRUE, us |-> us])
erase_nop(us)  == Call("erase_nop", \b0000, 0, [high |-> FALSE, us |-> us])

\* The commands of a session.
JobCalls ==
  {c \in [fn: {"word", "read", "prog_nop", "erase_nop"}, cmd: 0..15, word: Word,
          held: [high: BOOLEAN, us: Nat]] :
     \/ c = core_inst(c.word)
     \/ c.cmd \in {\b1100, \b1101, \b1111} /\ c = tblwt(c.cmd, c.word)
     \/ Reads(c.cmd) /\ c = read(c.cmd)
     \/ c = prog_nop(c.held.us) \/ c = erase_nop(c.held.us)}

ASSUME JobsAssumption == Jobs \subseteq Seq(JobCalls)

PinOps(c) ==
  CASE c.fn = "init"      -> pic_icsp_init
    [] c.fn = "enter"     -> pic_icsp_enter
    [] c.fn = "exit"      -> pic_icsp_exit
    [] c.fn = "word"      -> Shift(c.cmd, 4) \o Shift(c.word, 16)
    [] c.fn = "read"      -> Shift(c.cmd, 4) \o Window
    [] c.fn = "prog_nop"  -> pic_icsp_prog_nop(c.held.us)
    [] c.fn = "erase_nop" -> pic_icsp_erase_nop(c.held.us)

pic_icsp_set_tblptr(addr) ==
  <<core_inst(\h0E00 + (addr \div 65536)), core_inst(\h6EF8),
    core_inst(\h0E00 + ((addr \div 256) % 256)), core_inst(\h6EF7),
    core_inst(\h0E00 + (addr % 256)), core_inst(\h6EF6)>>

pic_icsp_table_read == <<read(\b1001)>>

pic_icsp_read_data(addr) ==
  <<core_inst(\h0100 + ((addr \div 256) % 16)), core_inst(\h5100 + (addr % 256)),
    core_inst(\h6EF5), read(\b0010)>>

pic_read_device_id ==
  pic_icsp_set_tblptr(DeviceIdAddr) \o pic_icsp_table_read \o pic_icsp_table_read

WREN(w) == <<core_inst(IF w THEN \h84A6 ELSE \h94A6)>>

pic_prog_bulk_erase ==
  pic_icsp_set_tblptr(\h3C0005) \o <<tblwt(\b1100, \h0101)>>
    \o pic_icsp_set_tblptr(\h3C0004) \o <<tblwt(\b1100, \h8080), erase_nop(600000)>>

\* One row of pic_prog_row_erase_range.
RowErase(row) ==
  WREN(TRUE) \o pic_icsp_set_tblptr(row)
    \o <<core_inst(\h88A6), core_inst(\h82A6), prog_nop(60000)>> \o WREN(FALSE)

\* One block of prog_write_file, and the readback of its first bytes.
WriteBlock(addr, words) ==
  LET n == Len(words)
  IN  WREN(TRUE) \o pic_icsp_set_tblptr(addr)
        \o [k \in 1..n - 1 |-> tblwt(\b1101, words[k])]
        \o <<tblwt(\b1111, words[n]), prog_nop(5000)>>
        \o pic_icsp_set_tblptr(addr) \o pic_icsp_table_read \o pic_icsp_table_read
        \o WREN(FALSE)

(***************************************************************************)
(* external: the chip's side of the wires.                                 *)
(***************************************************************************)

NoFrame == [n |-> 0, cmd |-> 0, word |-> 0, held |-> NotHeld, out |-> 0]
Answering == mode = "program" /\ Reads(frame.cmd) /\ frame.n >= 12

\* What each pin is at.  Undriven, MCLR is pulled up (the board does), the others are low.
Seen(pin, outs, lev) ==
  IF pin \in outs THEN lev[pin]
  ELSE IF pin = "mclr" THEN 1
  ELSE IF pin = "pgd" /\ Answering THEN Bit(frame.out, frame.n - 12) ELSE 0

\* A falling clock edge: a bit of the key, of the command, of the operand, or the end of
\* one that was shifted out.
Latched(bit) ==
  LET n == frame.n
      f == CASE n < 4 -> [frame EXCEPT !.n = n + 1, !.cmd = @ + (bit * 2 ^ n)]
             [] n >= 4 /\ Reads(frame.cmd) ->
                  [frame EXCEPT !.n = n + 1,
                                !.out = IF n = 11 THEN ShiftedOut(regs, frame.cmd) ELSE @]
             [] OTHER -> [frame EXCEPT !.n = n + 1, !.word = @ + (bit * 2 ^ (n - 4))]
  IN  IF f.n = 20 THEN frame' = NoFrame /\ regs' = Execute(regs, f.cmd, f.word, f.held)
      ELSE frame' = f /\ UNCHANGED regs

\* The chip when the pins go from (outputs, level) to (outs, lev).
Chip(outs, lev) ==
  LET Rises(pin) == Seen(pin, outputs, level) = 0 /\ Seen(pin, outs, lev) = 1
      Falls(pin) == Seen(pin, outputs, level) = 1 /\ Seen(pin, outs, lev) = 0
  IN  \/ /\ Falls("mclr") /\ mode' = "reset" /\ key' = <<>> /\ frame' = NoFrame
         /\ regs' = [PowerOn EXCEPT !.flash = regs.flash]
      \/ /\ Rises("mclr") /\ mode' = IF key = EntryKey THEN "program" ELSE "run"
         /\ key' = <<>> /\ UNCHANGED <<frame, regs>>
      \/ /\ Falls("pgc") /\ mode = "reset"
         /\ key' = Append(IF Len(key) = 32 THEN Tail(key) ELSE key, Seen("pgd", outs, lev))
         /\ UNCHANGED <<mode, frame, regs>>
      \/ /\ Falls("pgc") /\ mode = "program"
         /\ Latched(Seen("pgd", outs, lev)) /\ UNCHANGED <<mode, key>>
      \/ /\ ~Falls("mclr") /\ ~Rises("mclr")
         /\ Falls("pgc") => mode = "run"
         /\ UNCHANGED chipVars

(***************************************************************************)
(* The host.                                                               *)
(***************************************************************************)

Init ==
  /\ lines = "released" /\ target = "run"
  /\ calls = <<>> /\ ops = <<>> /\ sampled = <<>>
  /\ outputs = {} /\ level = [pin \in Lines |-> 0]
  /\ mode = "run" /\ key = <<>> /\ frame = NoFrame /\ regs = PowerOn
  /\ meant = PowerOn /\ result = <<>>

\* A worker's session, from init to exit; or another enter after an exit without an init,
\* which is what the retries of pic_search_worker and enter_and_identify are.
NewSession ==
  /\ calls = <<>> /\ ops = <<>>
  /\ \E job \in Jobs, first \in {<<Session("init")>>, <<>>} :
       calls' = first \o <<Session("enter")>> \o job \o <<Session("exit")>>
  /\ UNCHANGED <<icspVars, ops, sampled, outputs, level, chipVars, meant, result>>

\* A call begins, and means something: a session step of Icsp, or a command for a chip
\* that is in program mode.
Means(c) ==
  \/ c.fn = "init"  /\ IcspInit /\ meant' = [PowerOn EXCEPT !.flash = meant.flash]
                    /\ UNCHANGED result
  \/ c.fn = "enter" /\ IcspEnter(TRUE) /\ UNCHANGED <<meant, result>>
  \/ c.fn = "exit"  /\ IcspExit /\ meant' = [PowerOn EXCEPT !.flash = meant.flash]
                    /\ UNCHANGED result
  \/ /\ c.fn \notin {"init", "enter", "exit"} /\ UNCHANGED icspVars
     /\ meant' = IF target = "program" THEN Execute(meant, c.cmd, c.word, c.held) ELSE meant
     /\ result' = IF c.fn = "read"
                  THEN <<IF target = "program" THEN ShiftedOut(meant, c.cmd) ELSE 0>>
                  ELSE <<>>

Begin ==
  /\ ops = <<>> /\ calls # <<>>
  /\ calls' = Tail(calls) /\ ops' = PinOps(Head(calls)) /\ sampled' = <<>>
  /\ Means(Head(calls))
  /\ UNCHANGED <<outputs, level, chipVars>>

\* One pin operation, and what the chip makes of it.
Operate ==
  /\ ops # <<>> /\ ops' = Tail(ops)
  /\ LET o    == Head(ops)
         outs == CASE o.op = "output" -> outputs \cup {o.pin}
                   [] o.op = "input"  -> outputs \ {o.pin}
                   [] OTHER           -> outputs
         lev  == IF o.op = "write" THEN [level EXCEPT ![o.pin] = o.v] ELSE level
     IN  /\ outputs' = outs /\ level' = lev
         /\ sampled' = IF o.op = "sample"
                       THEN Append(sampled, Seen("pgd", outputs, level)) ELSE sampled
         /\ IF o.op = "hold" /\ mode = "program" /\ {"pgc", "pgd"} \subseteq outputs
            THEN /\ frame' = [frame EXCEPT !.held = [high |-> level["pgc"] = 1, us |-> o.v]]
                 /\ UNCHANGED <<mode, key, regs>>
            ELSE Chip(outs, lev)
  /\ UNCHANGED <<icspVars, calls, meant, result>>

Next == NewSession \/ Begin \/ Operate

Spec == Init /\ [][Next]_vars

(***************************************************************************)
(* Properties.                                                             *)
(***************************************************************************)

\* Every variable has its type, and a frame is at most twenty bits.
TypeOK ==
  /\ IcspTypeOK /\ mode \in {"run", "reset", "program"}
  /\ outputs \subseteq Lines /\ level \in [Lines -> {0, 1}]
  /\ Len(key) <= 32 /\ Len(sampled) <= 8 /\ frame.n \in 0..19 /\ frame.out \in Byte
  /\ \A r \in {regs, meant} :
       /\ {r.wreg, r.tablat, r.bsr} \subseteq Byte /\ r.tblptr \in 0..2 ^ 22 - 1
       /\ r.flash \in [0..FlashBytes - 1 -> Byte] /\ r.latch \in [DOMAIN Blank -> Byte]

\* When a call has returned, the chip is where the calls so far should have brought it
\* (the mode, the registers, the flash, no bit left over), and a read has returned the
\* byte that was asked for.
ChipFollows ==
  ops = <<>> =>
    /\ mode = target /\ regs = meant
    /\ mode = "program" => frame = NoFrame
    /\ sampled # <<>> => <<Value(sampled)>> = result

\* The chip answers from the ninth rising edge of the operand to the last falling one;
\* PGD is an input then.
OneDriver ==
  Answering /\ (level["pgc"] = 1 \/ frame.n > 12) => "pgd" \notin outputs

\* The wires carry what the callers of pic_icsp.c mean, in every session they have, and
\* the two ends never drive PGD against each other.
WiresAgree == ChipFollows /\ OneDriver
=============================================================================
