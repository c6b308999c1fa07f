---------------------------- MODULE MCPicProgram ----------------------------
(***************************************************************************)
(* A chip of three erase rows of two blocks; the boot region is the last    *)
(* row, an SD chunk is three blocks, so the chunk that ends the application *)
(* range is a partial one, as on the real geometry.                         *)
(***************************************************************************)
EXTENDS PicProgram

CONSTANTS cp0, unimpl, d     \* the bits: code-protect, unimplemented, data

MCBits   == {cp0, unimpl, d}
MCUnimpl == {unimpl}

Flash(app, boot, config) ==
  [b \in Blocks |-> IF b = Cfg THEN config ELSE IF b >= BootBlock THEN boot ELSE app]

\* A full image with a gap, one that enables code-protect, one whose Config
\* Words are blank, one whose Config Words the chip cannot hold, an application-
\* only image, a stub, an empty file.
Full      == [size |-> NBlocks,
              data |-> [Flash({d}, {d}, {unimpl}) EXCEPT ![1] = {unimpl}, ![2] = {}]]
Protects  == [size |-> NBlocks, data |-> Flash({d}, {}, {unimpl, cp0})]
BlankConf == [size |-> NBlocks, data |-> Flash({}, {d}, {})]
OddConf   == [size |-> NBlocks, data |-> Flash({d}, {}, {d})]
AppOnly   == [size |-> BootBlock, data |-> Flash({unimpl}, {}, {})]
Echo      == [size |-> NBlocks, data |-> [Flash({}, {}, {d}) EXCEPT ![2] = {unimpl}]]
Stub      == [size |-> 1, data |-> Flash({d}, {}, {})]
Empty     == [size |-> 0, data |-> Flash({}, {}, {})]

MCImages     == {Full, Protects, BlankConf, AppOnly, Stub, Empty}
FewImages    == {Full, Protects, OddConf, Stub}
CardImages   == FewImages \cup {Echo}
ShortImages  == {AppOnly, Stub}

\* What the chip may hold: nothing, a firmware, a code-protected firmware.
MCFactory == {Flash({}, {}, {}), Flash({unimpl}, {d}, {}), Flash({unimpl}, {}, {cp0})}
=============================================================================
