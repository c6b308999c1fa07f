----------------------------- MODULE PicProgram -----------------------------
(***************************************************************************)
(* The write/flash engine: pic_prog_run and pic_prog_verify of              *)
(* src/pic_program.c, under the worker thread of src/pic_jobs.c that builds *)
(* the request and turns its outcome into the result screen.                *)
(*                                                                         *)
(* Data.  The unit of address is the 64-byte write block.  A block's        *)
(* content is the set of its bits that read 0, so {} is 0xFF..FF (blank),   *)
(* programming can only add elements, and erasing empties the set.  The     *)
(* last block holds the Config Words: some of its bits are unimplemented    *)
(* and read 0 even when erased (pic_program.c: "An erased CONFIG1H reads    *)
(* 0x04, not 0xFF"), and clearing its bit CP0 enables code-protect.         *)
(*                                                                         *)
(* Faults.  The lines, the flash and the SD card may misbehave; a run       *)
(* chooses the kinds it allows and how many may happen (FaultKinds,         *)
(* MaxFaults).                                                              *)
(***************************************************************************)
EXTENDS Icsp, Integers

CONSTANTS
  NBlocks,      \* write blocks of program flash (2048 on the chip)
  RowBlocks,    \* write blocks per erase row    (16: 1024 / 64 bytes)
  ChunkBlocks,  \* write blocks per SD read      (64: 4096 / 64 bytes)
  BootBlock,    \* first block of the boot region (0x1E800 / 64)
  Bits,         \* the bits of a block
  CP0,          \* the code-protect bit of the config block (0 = protected)
  Unimpl,       \* bits of the config block that always read 0
  EnterTries,   \* 6: enter_and_identify
  EraseTries,   \* 4: the bulk-erase loop
  BlockTries,   \* 5: the program / read-back loop
  Images,       \* the .bin files on the card: [size, data]
  Factory,      \* what the flash may hold before the first job
  FaultKinds,   \* the faults that can happen
  MaxFaults     \* BOUND: how many of them do

Blocks  == 0 .. NBlocks - 1
Cfg     == NBlocks - 1          \* the block that holds CONFIG1H (0x1FFF9)
Content == SUBSET Bits
Kinds   == {"enter", "erase", "weak", "program", "open", "read", "short"}
Modes   == {"full", "app", "verify"}
Parts   == {"67J60", "other", "none"}
NoFail  == -1                   \* PIC_PROG_NO_FAIL

\* Does block b start an erase row?
OnRow(b) == \E k \in 0 .. NBlocks : b = RowBlocks * k

\* The last conjunct is the _Static_assert of pic_config.h: the boot region starts
\* on a row boundary.
ASSUME GeometryAssumption ==
  /\ NBlocks \in Nat /\ RowBlocks \in Nat \ {0} /\ ChunkBlocks \in Nat \ {0}
  /\ BootBlock \in 1 .. NBlocks - 1
  /\ OnRow(BootBlock)

ASSUME DataAssumption ==
  /\ CP0 \in Bits /\ Unimpl \subseteq Bits \ {CP0}
  /\ Images \subseteq [size : Nat, data : [Blocks -> Content]]
  /\ Factory \subseteq [Blocks -> Content]

ASSUME TriesAssumption ==
  /\ EnterTries \in Nat \ {0} /\ EraseTries \in Nat \ {0}
  /\ BlockTries \in Nat \ {0}
  /\ FaultKinds \subseteq Kinds /\ MaxFaults \in Nat

VARIABLES
  flash,       \* external: the chip's program flash
  protected,   \* external: read protection, latched by the last device reset
  part,        \* external: what is wired: the expected family, another, nothing
  faults,      \* external: faults still allowed to happen
  mode,        \* verify_only / keep_boot of the request
  image,       \* the file at bin_path
  end,         \* r->end, inclusive
  cancel,      \* ops->cancel
  device_id,   \* r->device_id: which part answered last
  fail_addr,   \* r->fail_addr
  cp_refused,  \* r->cp_refused
  ok,          \* the engine's return value
  outcome,     \* the result screen
  pc,          \* where the worker is
  try,         \* the attempt counter of the loop the worker is in
  cur,         \* row or `processed`, in blocks
  off,         \* offset in the chunk, in blocks
  buf,         \* the SD chunk: expected contents of blocks cur ..
  pos,         \* position of the open file
  lim,         \* external: how much of the open file reads before it errors
  flash0       \* history: the flash when the job started

chipVars == <<flash, protected>>
reqVars  == <<part, mode, image, end, flash0>>
resVars  == <<device_id, fail_addr, cp_refused, ok>>
fileVars == <<buf, pos, lim>>
vars == <<icspVars, chipVars, reqVars, resVars, fileVars,
          faults, cancel, outcome, pc, try, cur, off>>

Smaller(a, b) == IF a < b THEN a ELSE b

(***************************************************************************)
(* The chip and the card.                                                  *)
(***************************************************************************)

\* The bits of block b that read 0 over ICSP.
ReadBlock(fl, prot, b) ==
  IF prot THEN Bits
  ELSE IF b = Cfg THEN fl[b] \cup Unimpl ELSE fl[b]
Readout(b) == ReadBlock(flash, protected, b)

\* What the file says block b must read: past its end, 0xFF.
ImageAt(b) == IF b < image.size THEN image.data[b] ELSE {}

\* A fault of this kind happens / none does.
Fault(kind) == kind \in FaultKinds /\ faults > 0 /\ faults' = faults - 1
NoFault == UNCHANGED faults

\* storage_file_open + seek: the handle reads the whole file, or dies early.
OpenFile ==
  /\ pos' = 0
  /\ \/ NoFault /\ lim' = Smaller(image.size, NBlocks)
     \/ Fault("read") /\ lim' \in 0 .. Smaller(image.size, NBlocks) - 1

\* The size of the current chunk, and what is left of the file for it.
Want  == Smaller(ChunkBlocks, end + 1 - cur)
Avail == Smaller(Want, IF pos < lim THEN lim - pos ELSE 0)

\* memset(buf, 0xFF) and a read that delivers the first got blocks.
ReadChunk(got) ==
  /\ buf' = [i \in 0 .. ChunkBlocks - 1 |->
               IF i < got THEN image.data[pos + i] ELSE {}]
  /\ pos' = pos + got
  /\ UNCHANGED lim

\* One storage_file_read, which may deliver less than the file still has.
OneRead ==
  \/ NoFault /\ ReadChunk(Avail)
  \/ Fault("short") /\ \E got \in 0 .. Avail - 1 : ReadChunk(got)

\* The loop of prog_write_file, which reads until `want` or a zero return: short
\* reads do not matter to it.  Mutant: a single read.
FullReadOnce == OneRead
FullRead == NoFault /\ ReadChunk(Avail)

(***************************************************************************)
(* pic_prog_worker: build the request.                                     *)
(***************************************************************************)

\* Mutants: the size of a verified file taken for its last block; BootBlock taken for
\* the last application block.
RangeEndIsSize(m, img) ==
  IF m = "verify" THEN Smaller(img.size, NBlocks)
  ELSE IF m = "app" THEN BootBlock - 1 ELSE NBlocks - 1
RangeEndIsBoot(m, img) ==
  IF m = "verify" /\ img.size # 0 THEN Smaller(img.size, NBlocks) - 1
  ELSE IF m = "app" THEN BootBlock ELSE NBlocks - 1
RangeEnd(m, img) ==
  CASE m = "full"   -> NBlocks - 1
    [] m = "app"    -> BootBlock - 1
    [] m = "verify" -> IF img.size = 0 THEN NBlocks - 1
                       ELSE Smaller(img.size, NBlocks) - 1

Start(m, img, p) ==
  /\ pc = "idle"
  /\ IcspInit
  /\ mode' = m /\ image' = img /\ part' = p
  /\ \/ NoFault /\ end' = RangeEnd(m, img)
     \/ m = "verify" /\ Fault("open") /\ end' = NBlocks - 1  \* stat failed
  /\ flash0' = flash
  /\ cancel' = FALSE /\ ok' = FALSE /\ outcome' = "none"
  /\ device_id' = "none" /\ fail_addr' = NoFail /\ cp_refused' = FALSE
  /\ pc' = "enter" /\ try' = 0
  /\ UNCHANGED <<chipVars, fileVars, cur, off>>

\* The input thread asks for the job to stop; the engine only polls the flag.
Cancel ==
  /\ pc # "idle" /\ ~cancel
  /\ cancel' = TRUE
  /\ UNCHANGED <<icspVars, chipVars, reqVars, resVars, fileVars, faults,
                 outcome, pc, try, cur, off>>

(***************************************************************************)
(* enter_and_identify.                                                     *)
(***************************************************************************)

\* is_67j60.  Mutant: any part that answers will do.
IsAnyPart(p) == p # "none"
Is67J60(p)   == p = "67J60"

\* Whether this attempt's key reaches a part that answers.
Answers == NoFault /\ EnterLatches(part # "none")
\* ... and whether it does not.
NoAnswer ==
  \/ Fault("enter")
  \/ NoFault /\ ~EnterLatches(part # "none")

\* The device reset on the way in loads the protection from the config block.
Identified ==
  /\ pc = "enter" /\ Answers /\ Is67J60(part)
  /\ IcspEnter(TRUE)
  /\ device_id' = part
  /\ protected' = (CP0 \in flash[Cfg])
  /\ pc' = IF mode = "verify" THEN "vopen" ELSE "preflight"
  /\ UNCHANGED <<flash, reqVars, fail_addr, cp_refused, ok, fileVars, cancel,
                 outcome, try, cur, off>>

\* A failed attempt ends with pic_icsp_exit, the last one with the error exit.
NotIdentified ==
  /\ pc = "enter"
  /\ \/ Answers /\ ~Is67J60(part) /\ device_id' = part
     \/ NoAnswer /\ device_id' = "none"
  /\ IcspExit
  /\ try' = try + 1
  /\ pc' = IF try' = EnterTries THEN "exit" ELSE "enter"
  /\ UNCHANGED <<chipVars, reqVars, fail_addr, cp_refused, ok, fileVars,
                 cancel, outcome, cur, off>>

(***************************************************************************)
(* source_preflight: the image opens, and does not enable code-protect.    *)
(***************************************************************************)

\* Every early return of the engine: error exit with `false`.  Mutant: an early
\* return that forgets pic_icsp_exit.
AbortWithoutExit == pc' = "report" /\ ok' = FALSE
Abort == pc' = "exit" /\ ok' = FALSE

\* Is CONFIG1H in the range?  Mutant: end taken for exclusive.
CoversConfigStrictly == end > Cfg
CoversConfig == end >= Cfg

Preflight ==
  /\ pc = "preflight"
  /\ \/ Fault("open") /\ Abort /\ UNCHANGED <<cp_refused, try, cur>>
     \/ \* CONFIG1H not in range, or it could not be read (b stays 0xFF), or fine
        /\ \/ NoFault /\ (CoversConfig => CP0 \notin ImageAt(Cfg))
           \/ Fault("read") /\ CoversConfig
        /\ pc' = IF mode = "app" THEN "row" ELSE "bulk"
        /\ try' = 0 /\ cur' = 0
        /\ UNCHANGED <<cp_refused, ok>>
     \/ /\ NoFault /\ CoversConfig /\ CP0 \in ImageAt(Cfg)
        /\ cp_refused' = TRUE
        /\ Abort /\ UNCHANGED <<try, cur>>
  /\ UNCHANGED <<icspVars, chipVars, reqVars, device_id, fail_addr, fileVars,
                 cancel, outcome, off>>

(***************************************************************************)
(* Erase: bulk (whole chip) or row by row below the boot region.           *)
(***************************************************************************)

\* The erased cells are blank except the blocks in missed; protection is
\* re-evaluated from the config block.
EraseExcept(missed) ==
  /\ flash' = [b \in Blocks |-> IF b \in missed THEN flash[b] ELSE {}]
  /\ protected' = (protected /\ CP0 \in flash'[Cfg])

\* An erase of the blocks in range: complete, rejected by the chip, or weak.
Erase(range) ==
  \/ NoFault /\ EraseExcept(Blocks \ range)
  \/ Fault("erase") /\ EraseExcept(Blocks)
  \/ Fault("weak") /\ \E missed \in SUBSET range :
                        EraseExcept((Blocks \ range) \cup missed)

\* The in-session check: CONFIG1H reads CP0 = 1, then block 0 reads blank.  Mutant:
\* block 0 is not looked at.
LooksUnprotected == CP0 \notin Readout(Cfg)
LooksErased == CP0 \notin Readout(Cfg) /\ Readout(0) = {}

BulkErase ==
  /\ pc = "bulk"
  /\ Erase(Blocks)
  /\ try' = try + 1
  /\ pc' = IF LooksErased' THEN "wopen"
           ELSE IF try' = EraseTries THEN "exit" ELSE "bulk"
  /\ UNCHANGED <<icspVars, reqVars, resVars, fileVars, cancel, outcome, cur, off>>

\* One row of pic_prog_row_erase_range, and the poll of the cancel flag after it.
RowErase ==
  /\ pc = "row"
  /\ Erase(cur .. cur + RowBlocks - 1)
  /\ cur' = cur + RowBlocks
  /\ pc' = IF cancel THEN "exit" ELSE IF cur' > end THEN "wopen" ELSE "row"
  /\ UNCHANGED <<icspVars, reqVars, resVars, fileVars, cancel, outcome, try, off>>

(***************************************************************************)
(* prog_write_file.                                                        *)
(***************************************************************************)

\* pic_prog_run skips the stage when cancelled; the file may fail to open.
WriteOpen ==
  /\ pc = "wopen"
  /\ \/ cancel /\ NoFault /\ Abort /\ UNCHANGED <<pos, lim, cur>>
     \/ ~cancel /\ Fault("open") /\ Abort /\ UNCHANGED <<pos, lim, cur>>
     \/ ~cancel /\ OpenFile /\ pc' = "wread" /\ cur' = 0 /\ UNCHANGED ok
  /\ UNCHANGED <<icspVars, chipVars, reqVars, device_id, fail_addr, cp_refused,
                 buf, cancel, outcome, try, off>>

WriteRead ==
  /\ pc = "wread"
  /\ FullRead
  /\ pc' = "wblock" /\ off' = 0 /\ try' = 0
  /\ UNCHANGED <<icspVars, chipVars, reqVars, resVars, cancel, outcome, cur>>

NextBlock ==
  /\ off' = off + 1 /\ try' = 0
  /\ pc' = IF off' = Want THEN "wpoll" ELSE "wblock"
  /\ UNCHANGED fail_addr

\* A blank block is skipped: erased cells already read 0xFF.
SkipBlank ==
  /\ pc = "wblock" /\ buf[off] = {}
  /\ NextBlock
  /\ UNCHANGED <<icspVars, chipVars, reqVars, device_id, cp_refused, ok,
                 fileVars, faults, cancel, outcome, cur>>

\* Programming clears bits and never sets them; a bad write clears only some.
ProgramBlock(b, content) ==
  \/ NoFault /\ flash' = [flash EXCEPT ![b] = @ \cup content]
  \/ /\ Fault("program")
     /\ \E taken \in SUBSET content : flash' = [flash EXCEPT ![b] = @ \cup taken]

\* One attempt: program the block, read it back.
WriteBlock ==
  /\ pc = "wblock" /\ buf[off] # {}
  /\ ProgramBlock(cur + off, buf[off])
  /\ \/ ReadBlock(flash', protected, cur + off) = buf[off] /\ NextBlock
     \/ /\ ReadBlock(flash', protected, cur + off) # buf[off]
        /\ try' = try + 1
        /\ IF try' = BlockTries THEN fail_addr' = cur + off /\ pc' = "exit"
                                ELSE UNCHANGED <<fail_addr, pc>>
        /\ UNCHANGED off
  /\ UNCHANGED <<icspVars, protected, reqVars, device_id, cp_refused, ok,
                 fileVars, cancel, outcome, cur>>

\* The end of a chunk: the cancel flag is polled, then the next one is read.
\* Mutant: `processed` is not advanced.
WritePollStuck ==
  /\ pc = "wpoll" /\ pc' = IF cancel THEN "exit" ELSE "wread"
  /\ UNCHANGED <<icspVars, chipVars, reqVars, resVars, fileVars, faults, cancel,
                 outcome, try, off, cur>>
WritePoll ==
  /\ pc = "wpoll"
  /\ cur' = cur + Want
  /\ pc' = IF cancel THEN "exit" ELSE IF cur' > end THEN "vopen" ELSE "wread"
  /\ UNCHANGED <<icspVars, chipVars, reqVars, resVars, fileVars, faults, cancel,
                 outcome, try, off>>

(***************************************************************************)
(* prog_verify_file.                                                       *)
(***************************************************************************)

VerifyOpen ==
  /\ pc = "vopen"
  /\ \/ cancel /\ mode # "verify" /\ NoFault /\ Abort /\ UNCHANGED <<pos, lim, cur>>
     \/ /\ cancel => mode = "verify"
        /\ Fault("open") /\ Abort /\ UNCHANGED <<pos, lim, cur>>
     \/ /\ cancel => mode = "verify"
        /\ OpenFile /\ pc' = "vread" /\ cur' = 0 /\ UNCHANGED ok
  /\ UNCHANGED <<icspVars, chipVars, reqVars, device_id, fail_addr, cp_refused,
                 buf, cancel, outcome, try, off>>

\* The offsets in the chunk just read where the chip differs from it.  Mutants: the
\* last block is not compared; the chip is read from the start for every chunk.
MismatchesButLast   == {i \in 0 .. Want - 2 : Readout(cur + i) # buf'[i]}
MismatchesFromStart == {i \in 0 .. Want - 1 : Readout(i) # buf'[i]}
Mismatches == {i \in 0 .. Want - 1 : Readout(cur + i) # buf'[i]}

\* The result of the one read per chunk is not looked at.
VerifyChunk ==
  /\ pc = "vread"
  /\ OneRead
  /\ cur' = cur + Want
  /\ \/ /\ \E i \in Mismatches :
             (\A j \in Mismatches : i <= j) /\ fail_addr' = cur + i
        /\ Abort
     \/ /\ Mismatches = {}
        /\ UNCHANGED fail_addr
        /\ \/ cancel /\ Abort
           \/ ~cancel /\ cur' <= end /\ UNCHANGED <<pc, ok>>
           \/ ~cancel /\ cur' > end /\ pc' = "exit" /\ ok' = TRUE
  /\ UNCHANGED <<icspVars, chipVars, reqVars, device_id, cp_refused, cancel,
                 outcome, try, off>>

(***************************************************************************)
(* The way out, the result screen, and the specification.                  *)
(***************************************************************************)

\* The loop counters and the file buffer are locals of functions that returned.
NoBuf == [i \in 0 .. ChunkBlocks - 1 |-> {}]

Exit ==
  /\ pc = "exit"
  /\ IcspExit
  /\ pc' = "report"
  /\ buf' = NoBuf /\ pos' = 0 /\ lim' = 0 /\ try' = 0 /\ cur' = 0 /\ off' = 0
  /\ UNCHANGED <<chipVars, reqVars, resVars, faults, cancel, outcome>>

\* The screen pic_prog_worker shows, in the order it looks at the results.  Mutant: a
\* job that failed for another reason than a mismatch is taken for done.
ResultWithoutIoError ==
  IF cancel THEN "cancelled"
  ELSE IF device_id = "none" THEN "no_device"
  ELSE IF device_id = "other" THEN "wrong_chip"
  ELSE IF cp_refused THEN "cp_refused"
  ELSE IF ~ok /\ fail_addr # NoFail THEN "verify_fail"
  ELSE "done"
Result ==
  IF cancel THEN "cancelled"
  ELSE IF device_id = "none" THEN "no_device"
  ELSE IF device_id = "other" THEN "wrong_chip"
  ELSE IF cp_refused THEN "cp_refused"
  ELSE IF ~ok THEN IF fail_addr # NoFail THEN "verify_fail" ELSE "io_error"
  ELSE "done"

Report ==
  /\ pc = "report"
  /\ outcome' = Result
  /\ pc' = "idle"
  /\ UNCHANGED <<icspVars, chipVars, reqVars, resVars, fileVars, faults, cancel,
                 try, cur, off>>

Init ==
  /\ lines = "released" /\ target = "run"
  /\ flash \in Factory /\ protected = (CP0 \in flash[Cfg])
  /\ flash0 = flash
  /\ part = "none" /\ mode = "full" /\ image \in Images /\ end = NBlocks - 1
  /\ device_id = "none" /\ fail_addr = NoFail /\ cp_refused = FALSE /\ ok = FALSE
  /\ faults = MaxFaults /\ cancel = FALSE /\ outcome = "none" /\ pc = "idle"
  /\ buf = NoBuf /\ pos = 0 /\ lim = 0 /\ try = 0 /\ cur = 0 /\ off = 0

Engine ==
  \/ Identified \/ NotIdentified \/ Preflight \/ BulkErase \/ RowErase
  \/ WriteOpen \/ WriteRead \/ SkipBlank \/ WriteBlock \/ WritePoll
  \/ VerifyOpen \/ VerifyChunk \/ Exit \/ Report

Next ==
  \/ \E m \in Modes, img \in Images, p \in Parts : Start(m, img, p)
  \/ Cancel
  \/ Engine

\* The scheduler keeps running the worker thread; nothing makes the user start
\* or cancel a job.
Spec == Init /\ [][Next]_vars /\ WF_vars(Engine)

(***************************************************************************)
(* Properties.                                                             *)
(***************************************************************************)

Touching == {"preflight", "bulk", "row", "wopen", "wread", "wblock", "wpoll",
             "vopen", "vread"}

\* Every variable has its type; positions stay inside the range of the request,
\* so no buffer, file or flash access is out of bounds.
TypeOK ==
  /\ IcspTypeOK
  /\ flash \in [Blocks -> Content] /\ flash0 \in [Blocks -> Content]
  /\ protected \in BOOLEAN /\ part \in Parts /\ faults \in 0 .. MaxFaults
  /\ mode \in Modes /\ image \in Images /\ end \in Blocks
  /\ cancel \in BOOLEAN /\ device_id \in Parts
  /\ fail_addr \in Blocks \cup {NoFail}
  /\ cp_refused \in BOOLEAN /\ ok \in BOOLEAN
  /\ outcome \in {"none", "cancelled", "no_device", "wrong_chip", "cp_refused",
                  "verify_fail", "io_error", "done"}
  /\ pc \in Touching \cup {"idle", "enter", "exit", "report"}
  /\ buf \in [0 .. ChunkBlocks - 1 -> Content]
  /\ pos \in 0 .. NBlocks /\ lim \in 0 .. NBlocks
  /\ try \in Nat /\ cur \in 0 .. NBlocks /\ off \in 0 .. ChunkBlocks

\* pic_prog_run is "one enter()/exit() bracket": the chip is only touched while
\* it is in program mode on driven lines and has identified itself, and once the
\* job reports, on every error path, the lines are released and the target runs.
Bracketed ==
  /\ pc \in Touching => lines = "driven" /\ target = "program" /\ part = "67J60"
  /\ pc \in {"report", "idle"} => lines = "released" /\ target = "run"

\* "Done" means the chip reads back as the image over the whole range (past the
\* end of the file: 0xFF).
VerifiedMatches ==
  outcome = "done" => \A b \in 0 .. end : Readout(b) = ImageAt(b)

\* A failed verify names a block that really differs, and one that was never
\* confirmed earlier: in a verify job everything below it matches.
FirstMismatch ==
  outcome = "verify_fail" =>
    /\ Readout(fail_addr) # ImageAt(fail_addr)
    /\ mode = "verify" => \A b \in 0 .. fail_addr - 1 : Readout(b) = ImageAt(b)

\* A "keep bootloader" write leaves the boot region and the Config Words as they
\* were, whatever fails and whenever it is cancelled.
BootUntouched ==
  mode = "app" => \A b \in BootBlock .. NBlocks - 1 : flash[b] = flash0[b]

\* A verify job, a job whose part did not identify (nothing is wired, another part is,
\* or no entry latched) and a job refused for code-protect leave the chip as it was.
RefusalLeavesChip ==
  \/ mode = "verify" \/ part # "67J60"
  \/ outcome \in {"no_device", "wrong_chip", "cp_refused"}
  => flash = flash0

\* The engine implements its contract: seen from outside, whatever fails, a job only
\* blanks blocks of its range or gives them bits of its image, and its verdict is true
\* of the chip it leaves.
Contract == INSTANCE FlashContract WITH
  readout <- [b \in Blocks |-> Readout(b)],
  busy    <- pc # "idle",
  job     <- [mode |-> mode, image |-> image, before |-> flash0],
  verdict <- outcome

ImplementsContract == Contract!Spec

\* No job turns code-protect on: the CP0 bit is never newly cleared.
NoCodeProtect == CP0 \in flash[Cfg] => CP0 \in flash0[Cfg]

\* Sporadic erase and program failures are healed by the retry loops: with fewer
\* of them than attempts, a full write of an image whose Config Words the chip
\* can hold succeeds, unless it is cancelled (or refused).
ConfigHolds == image.size = NBlocks /\ Unimpl \subseteq image.data[Cfg]
HealedWrite ==
  outcome \in {"verify_fail", "io_error"} /\ mode = "full" /\ ConfigHolds
    => flash0[0] = {}   \* a rejected bulk erase is only noticed if block 0 was not

\* Whatever the card does (a handle that dies, short reads), a write that ends well
\* has put no block at a wrong address: each reads as the image or is erased.
WrittenOrBlank ==
  outcome = "done" /\ mode # "verify" =>
    \A b \in 0 .. end : Readout(b) = ImageAt(b) \/ flash[b] = {}

\* What the header says of the source image: bytes past EOF are treated as 0xFF,
\* which erased cells already read, so on a chip where nothing fails a full write
\* of a short image verifies.
ShortImageFlashes ==
  mode = "full" /\ image.size < NBlocks => outcome # "verify_fail"

\* A job always ends: whatever fails, the result screen is reached.
Terminates == pc # "idle" ~> pc = "idle"
=============================================================================
