# picflipper: a TLA+ model of the application

picflipper is a Flipper Zero application that dumps and flashes PIC18F97J60
microcontrollers over ICSP. This directory holds TLA+ models of it, TLC
configurations that check them, and proofs, checked by TLAPS, about the write engine, the
operations controller, the app that composes it with the wiring view, the bits on the
wires, the serial console, the dump files, the hash and the wrapping of text. `PROJECT.json` maps every definition to the source
lines it stands for and lists the runs, the mutants, the hazards, the findings and the
theorems. Paths below are relative to the repository's
`src/` unless they say otherwise.

## 1. The system

| Component | State | Operations | Interacts with |
|---|---|---|---|
| ICSP transport (`pic_icsp.c`, `pic_dump.c`) | direction and level of PGC, PGD, MCLR (no variable of its own) | init, enter, exit, table read/write, device ID, bulk and row erase, block write | every worker, the wiring view |
| Write engine (`pic_program.c`) | the chip's flash, an open file, a chunk buffer, the result record | `pic_prog_run`, `pic_prog_verify` | transport, SD card, the cancel flag, a progress callback |
| Workers (`pic_jobs.c`) | locals; they set `phase`, `worker_active` | dump, RAM capture, write/verify | engine, transport, dump files, the model of the dump view |
| Operations controller (`pic_ops.c`) | `struct PicOps`: op, job, request, `cancel`, `worker_active`, worker handle, hold, timer | menu entry points, `dump_input_cb`, `anim_timer_cb`, the search worker | starts and joins the workers |
| Shell (`main.c`) | current view | menu, back navigation, clean-up | all views |
| Dump files (`dump_writer.c`) | two file handles, hex accumulator, sticky error | open, append, close | dump worker |
| Image store (`dump_store.c`) | none | names, picker, hash of a file | controller, SHA-256 |
| SHA-256 (`sha256.c`) | 64-byte buffer, length, digest words | init, update, final | image store |
| Progress mapping (`prog_progress.h`) | none | stage to label and scale | write worker |
| Wiring view (`view_pins.c`) | probe result, tick, timer | probe on opening, on OK and on a 500 ms timer | the ICSP pins |
| Console view (`view_console.c`) | stream buffer, line buffer, byte count, drain thread | UART interrupt, drain, baud rate, start/stop | the UART |
| About view and wrapping (`view_about.c`, `ui_wrap.h`, `app_ui.c`) | scroll position | wrap, scroll, draw | none |

Three threads matter: the **input thread** (GUI dispatcher: menu and key
handlers), the **timer task** (the 50 ms callback that draws the spinner and
counts the write hold) and **one worker thread** at a time. They share
`struct PicOps` and the view model; only the view model has a lock. Workers are
told to stop with `cancel`, say they run with `worker_active`, and are joined by
whoever starts the next one. `cancel` and `worker_active` are plain `volatile`
flags. The wiring view probes the chip on the input thread and on the timer task; the
console has an interrupt and a drain thread of its own.

What makes it hard:

* **Interleaving.** Handlers copy `phase` under the model lock and act on the copy
  after releasing it; the timer callback decides under the lock and acts after it;
  workers publish phases while both run.
* **Partial failure.** The engine has about a dozen error exits between "lines
  driven" and "lines released". The wiring may lose the entry key, an erase may be
  rejected or partial, a block write may take only some bits, the card may fail to
  open a file, return less than asked, or nothing.
* **Retries** on state the previous attempt left behind (line directions,
  half-programmed blocks, latched read protection).
* **Boundaries.** Inclusive ends of ranges, erase rows against the boot region, files
  shorter or longer than the chip, the Config Words in the last block.
* **Keys that nobody handles.** A short Back cancels a running job; a long Back is not
  consumed by the dump view, so the dispatcher leaves for the menu and the job runs on.
* **Ordering.** Which of `worker_active` and `phase` is written first; the protect
  guard before the erase.

What correctness means, per component:

| Component | Properties |
|---|---|
| Write engine | every touch of the chip inside one enter/exit bracket, on every path; "done" means the chip equals the image; a failed verify names a real mismatch; "keep bootloader" never changes the boot region; refused or verify-only jobs change nothing; code-protect is never turned on; sporadic faults are healed; every job ends |
| Controller and workers | a write starts only on a decision taken after its hold; a cancel is never lost; who changes the request of a running worker stops it first; joins return; a running screen gives way; "Done" was not cut short; nothing is used after it is freed; a prompt does not move the target |
| Dump files | the .hex decodes to the target's bytes at their addresses; "done" means both files are complete; an error sticks |
| Console | no byte lost or reordered between interrupt and line, except by a full buffer; nothing is freed in use; closing returns |
| Wiring view | a search that was given up leaves the pins to the view; with nothing under way they are released; the badge follows the wiring |
| Transport | what a call means to its caller is what the chip makes of the edges; the two ends never drive PGD together |
| SHA-256, wrapping | streaming equals one-shot; the wrapped lines are the text |

## 2. Modules

| Module | What it is | Uses |
|---|---|---|
| `Icsp` | who drives the three lines, and what mode that puts the target in | |
| `IcspChip` | the chip in Program/Verify mode, one command at a time (external) | |
| `IcspShift` | the calls of `pic_icsp.c` bit by bit on the pins | `Icsp`, `IcspChip` |
| `PicProgram` | the write engine under its worker | `Icsp`, `FlashContract` (INSTANCE) |
| `FlashContract` | what the engine promises its caller: the abstract specification | |
| `PicOps` | controller, timer task and worker threads | `Icsp` |
| `PinsView` | the wiring view | `Icsp` |
| `PicApp` | controller and wiring view in one app | `PicOps`, `PinsView` (INSTANCE) |
| `ConsoleView` | the serial monitor | |
| `DumpWriter`, `Sha256` | the .bin/.hex writer and the streaming hash, as operators | |
| `DumpFiles` | the dump workers' files, and the hash of one that is picked | both |
| `TextWrap` | the two wrapping algorithms and the About view's scrolling | |
| `MC*` | instances for TLC | |
| `PicProgramProofs` | theorems about `PicProgram`: positions, the bracket, what the image and the chip hold, the contract; what the retries and the verify make of faults | |
| `PicOpsProofs` | theorems about `PicOps` | |
| `PicAppProofs` | theorems about `PicApp` | `PicOpsProofs` |
| `Recursion` | induction over the naturals and definition by recursion, with sets and functions | |
| `IcspShiftProofs` | theorems about `IcspShift` | `Recursion` |
| `ConsoleViewProofs` | theorems about `ConsoleView` | `Recursion` |
| `DumpFilesProofs` | theorems about `DumpFiles`, the writer and the hash | `Recursion` |
| `TextWrapProofs` | theorems about `TextWrap` | `Recursion` |

### Icsp, IcspChip, IcspShift

In `Icsp`, `lines` is `driven` after `pic_icsp_init` and `released` after
`pic_icsp_exit`. `pic_icsp_enter` only writes pin *levels*: `EnterLatches` says it
reaches the target only while the lines are outputs. `target` is the mode the wired chip
is in as a consequence (`run`, `reset`, `program`).

`IcspShift` justifies that abstraction. There every call of `pic_icsp.c`, and every
command sequence of `pic_program.c` and `pic_dump.c` (read, bulk erase, row erase, block write),
is a list of pin operations (`PinOps`): output, input, write a level, sample, hold. One
step, `Operate`, does one of them, and the chip's side (`Chip`) sees the edges: it
recognises the entry key, shifts in four command bits and sixteen operand bits, or shifts a
byte out, and then executes (`IcspChip`). In parallel, `meant` and `target` are what the
calls mean to their caller. `WiresAgree` says that the two coincide whenever a call
returns. The command set of `IcspChip` (core instructions MOVLW, MOVWF, MOVF, MOVLB, BSF,
BCF on the registers used; table reads and writes; WREN, FREE, the erase registers and the
hold times) is taken from how the code uses the part and from the data sheet numbers it quotes.
Masks and shifts are arithmetic on the bits of a number (`Bit`, `Value`, `Common`,
`SetByte`), so that they can be proved about.

### PicProgram and FlashContract

The unit of address is the 64-byte write block. A block's content is the set of its
bits that read **0**: `{}` is blank, programming is set union, erasing empties the
set, so "programming only clears bits" is not an assumption that the code could break
but the physics the model gives the chip. The last block holds the Config Words;
`Unimpl` are bits of it that always read 0; `CP0` is the code-protect bit. Read
protection (`protected`) is latched by the device reset of an entry and re-evaluated by an
erase; a protected chip reads all 0.

| Actions | Code |
|---|---|
| `Start` | `pic_prog_worker` builds the request: range, keep-boot, verify-only |
| `Identified`, `NotIdentified` | one attempt of `enter_and_identify` |
| `Preflight` | `source_preflight`: opens the image, code-protect guard |
| `BulkErase`, `RowErase` | the erase loop and its in-session check; one row of `pic_prog_row_erase_range` |
| `WriteOpen`, `WriteRead`, `SkipBlank`, `WriteBlock`, `WritePoll` | `prog_write_file` |
| `VerifyOpen`, `VerifyChunk` | `prog_verify_file` |
| `Exit`, `Report` | the common way out; the result screen of `pic_prog_worker` |
| `Cancel` | `ops->cancel`, at any moment |

Faults are choices of the actions: `enter` (key lost), `erase` (rejected), `weak`
(some cells missed), `program` (some bits not taken), `open`, `read` (the
handle dies at some position), `short` (one read call delivers less). A run names the kinds
and how many may occur.

`FlashContract` forgets sessions, attempts, chunks and files: a job begins, blanks
blocks of its range or gives them bits of its image, and ends with a verdict that is true of
the chip (`Truthful`): "done" means the range reads back as the image, "Verify FAIL"
means something differs, a refusal means nothing was changed. The refinement mapping is in
`PicProgram` (`Contract`): `readout` is what the chip shows over ICSP, `busy` is
`pc # "idle"`, `verdict` is `outcome`.

### PicOps

Each field of `struct PicOps` that decides something is a variable of the same name.
The input thread is `gui` (`ready`, handling an event, in the modal file picker, in a
`furi_thread_join`, in the clean-up, gone) with `cont`, what it goes on with
afterwards. A key handler is two steps (`Input`: the phase is copied to `seen`; then
`Back`, `PressAtConfirm`, ... act on `seen`). The worker is `kind` and `wpc`; one step ends
where it touches a shared field. The timer callback is `TimerDecide` (under the lock)
and `TimerStop` or `TimerFire` (after it).

* Back comes as a short or as a long key. `LongBack` is the fall-through of `dump_input_cb`
  for the long one: nothing is cancelled, and the dispatcher, which goes to the menu on an
  unconsumed Back of either type, is modelled from outside `src/` (external). Only the confirm
  screen swallows it. So any worker can be running at the menu, uncancelled; the entries that
  can be picked then cancel and join it, or refuse (`MenuPick`).
* The rounds of a search start in `first` and later in `loop`; the two differ in the lines,
  which only `SearchBegin` drives.
* `holding` and `held` are reset together: a hold that was dropped leaves no count.
* `Preempt` says whether the input thread may run between the two halves of the timer
  callback. On the device it has the higher priority, so it may, in a window of a few
  instructions. `ops_threads` has `Preempt = TRUE`, which includes every behaviour of
  `FALSE`, and `WriteIsDecided` says what holds of the hold gate there: the decision is right
  when it is taken. That it is still right when it is acted on (`WriteNeedsHold`) and that
  prompts leave the target alone whatever was decided before (`PromptLeavesTarget`) do not
  survive a callback that acts late; they are checked with `FALSE`, in `app`.
* `JustStarted` is a timing assumption: between the start of a write worker and
  its first screen, microseconds later, no callback of a new hold is counted. Without it
  the model would let a hold progress for 5 s while a started thread executes nothing.
* The write engine is abstracted to "shows progress a few times, then ends good or bad";
  `PicProgram` says what happens inside.

### PinsView and PicApp

`PinsView` has one probe sequence (`ProbeInit`, `ProbeEnter`, `ProbeRead`, `ProbeExit`,
`Publish`, one call into `pic_icsp.c` each) that runs on the input thread when the view
opens (`Open`) or OK is pressed (`ForceCheck`), and on the timer task on every second tick
(`TimerTick`). Nothing in the code keeps the two apart: when both are in a session
(`Clash`) a read may deliver anything but an ID that nobody sent.

`PicApp` conjoins it with `PicOps`: same pins (`Icsp`), same `view`, same chip
(`wired`), and one timer task that runs one callback at a time. `PinsFree` is the part of the
clean-up after `pic_ops_free`; `Unplug` lets the chip come off while the badge is watched.
`Plug` is the controller's.

* A job that a long Back left running can be in a session (`WorkerSession`) while the view
  probes. `PinsView` sees that as `busy`: its read may deliver anything but an ID that
  nobody sent. `Spoiled` is the other side: the worker that is reading the ID of a chip that
  answers reads something else. What the probes do to the lines and to the mode of the target
  is modelled for either; what they do to the data of a dump or to the commands of a
  write that is past its identification is not.
* `HumanPace` is a timing assumption about the user: no Back of either kind reaches a
  search before its first check (less than a millisecond after the key that started it), and
  no menu entry is picked within the few milliseconds for which the round of a search that was
  given up, or a probe of the view that was left, goes on.

### ConsoleView

`RxIrq` is `console_rx_irq`; `DrainHead`, `Idle`, `Receive`, `Publish` are one round
of `console_drain`; `Open`, `Acquire`, `Show`, `Tune`, `Retune`, `StopSerial`,
`StopDrain`, `Join` are the callbacks on the input thread, cut where another thread can
see the difference. `taken` is a history of the bytes received, and lines hold positions in it, so a
line says which bytes it shows and not only what they look like.

### DumpWriter, Sha256, DumpFiles

`DumpWriter` and `Sha256` are operators with the names of the C functions on a record
with the fields of the C struct; `Decode` is a reader of Intel HEX, `Digest` the
FIPS 180-4 padding and blocking over an abstract compression. The loops over bytes and
records (`FeedAll`, `sha256_update`, `Decoded`, and `Assembled` in `ConsoleView`) are
recursive functions on an initial segment of the naturals, so that they can be proved about.
`DumpFiles` runs both dump
workers with them: `OpenFiles`, `ReadChunk`, `Poll`, `WriteTail`, `Close` are
`pic_dump_worker`; `ReadRam`, `SaveBin`, `SaveHex` are `pic_ram_worker`; `HashOpen`,
`HashRead`, `HashEnd` are `dump_store_hash_sha256`. A card fails to open any of the
files, or at one of its writes, with or without leaving part of it.

### TextWrap

`ui_wrap_hard` and `about_wrap` as operators, and the screens that use them. The loops are
recursive functions of the number of rounds, with one operator for a round (`HardLine`;
`AboutRound`, which is a line break, `Indent` or `Word`). A round takes at least one character
or finds the loop at its end, so as many rounds as the text has characters are all of them.
`RoomForALine` says that a line fills up by its width before its buffer does. In the app
(118 pixels, 43 characters) a font whose glyphs all have three pixels or more meets it. Nothing
in `src/` guarantees that of the proportional font it uses, so this is an assumption: a line with
many narrower glyphs could be cut. `Ordinary` is the other limit: the words and indents of the
text fit a line. A longer word is hard-broken only where it opens a line; after other text
`about_wrap` puts it on a line of its own cut to the buffer (`src/view_about.c:136-142`), wider
than the screen.

### Differences from the code, deliberately

* Microsecond delays, the progress percentages, labels and logging are left out.
* The .bin on the card does not change while it is used, and the part that is wired does
  not change during one engine job.
* Worker creation and the allocations of the views succeed; the allocations whose failure
  the code handles (the dump buffer, the hash buffer) may fail.
* In `PinsView`, `Close` resets the badge and the tick, which nobody reads before `Open`
  resets them.
* A .bin that could not be created is an empty one to the hash loop of `DumpFiles`.

## 3. Runs

### Bounds

| Constant | App | Model | Why it is enough |
|---|---|---|---|
| `NBlocks` | 2048 | 6 | two full chunks; each of application, boot and config has its own blocks |
| `RowBlocks` | 16 | 2 | a row is more than a block, three rows |
| `ChunkBlocks` | 64 | 3 | a chunk is not a multiple of a row, and the chunk that ends the application range (4 blocks) is partial, as on the chip |
| `BootBlock` | 0x1E800/64 | 4 | the boot region is a whole row and shares it with the Config Words |
| attempts | 6, 4, 5 | 6, 4, 5 | exact |
| `Bits` | 512 | 3 | one per role: protect, unimplemented, data |
| `MaxFaults` | none | 0 to 3 | two faults at two different stages, or three of one retry loop; the theorems remove the bound |
| `Images` | any | 2 to 6 | full with a gap, protecting, blank or unholdable Config Words, application only, one block, empty |
| `Factory` | any | 3 | blank, firmware with bootloader, code-protected |
| `HoldTicks` | 100 | 2 | progress and completion are different callbacks |
| `NChunks` | 32 | 2 (`app`: 1) | a dump can be cut short after its first chunk |
| `Paths` | any | 2 (`app`: 1) | a request that changes can be told from one that does not |
| `RxSize`, `ChunkMax`, `LineCap` | 512, 64, 159 | 3, 2, 2 | every buffer can be full, and a batch can end a line in its middle |
| `NBauds` | 5 | 3 | a step down is not a step up |
| `MaxBytes` | none | 7 | as many as the stream, a batch and a line hold together, so a byte can be lost with each of them full |
| `RecBytes`, `PageBytes` | 16, 64 KB | 4, 8 | three pages, a partial last record |
| `CodeBytes`, `ChunkBytes` | 128 KB, 4 KB | 22, 9 | two chunks and a tail, chunks that do not end with a record |
| `RamStart`, `RamBytes`, `PollBytes` | 0, 3936, 256 | 4, 13, 5 | a start inside a page, a partial last poll |
| `BlockBytes`, `LenBytes`, `HashChunk` | 64, 8, 4 KB | 8, 2, 6 | tails on both sides of the second padding block |
| `MaxWrites` | none | 16 | the failing write can be any write of a dump |
| `FlashBytes`, `BlockBytes`, `RowBytes` (`IcspShift`) | 128 KB, 64, 1 KB | 16, 4, 8 | commands, operands, key and addresses have their real widths; only the loops are shorter |
| texts | a page | all of up to 7 characters of 4 kinds | every order of words, spaces and breaks around the ends of three lines of width 4 |

Jobs, dumps, sessions and openings of a view repeat without bound: the chip keeps what the last
job left, and the bound on faults is over the whole behaviour. `HoldTicks`, `NChunks` and
the sizes are the code's own limits scaled down, not cut-offs; `MaxFaults`, `MaxBytes` and
`MaxWrites` are cut-offs.

`CHECK_DEADLOCK FALSE` is set for `PicOps` and `PicApp` (the application ends) and for
`TextWrap` (a message stays as drawn). The other runs check deadlock.

### Fairness

* `PicProgram`: `WF_vars(Engine)`, the scheduler keeps running the worker.
* `PicOps`: weak fairness for each of the three threads, which the RTOS scheduler provides:
  each blocks in waits and delays and has CPU time when ready. Nothing makes the user
  press, cancel or start anything.
* `PicApp`: the probes of the wiring view on the input thread, and the two callbacks of the
  timer task, which is all its only liveness property needs.
* `ConsoleView`: the drain thread, and the callbacks of the input thread once one has begun.
  Nothing makes bytes arrive or the user close the view.

The liveness properties hold because of what the threads then do: `JoinReturns` needs the
search loop to look at `cancel`, `HoldFires` needs the press to start the timer,
`CloseReturns` needs the drain loop to look at `drain_run` between two batches.

### What passes

* **`engine_faults`** Lost entries, rejected and partial erases, bad block writes, files
  that do not open, two per behaviour, with a cancel at any step: `TypeOK`, `Bracketed`,
  `VerifiedMatches`, `FirstMismatch`, `BootUntouched`, `RefusalLeavesChip`,
  `NoCodeProtect`, and `ImplementsContract`, the refinement of `FlashContract`.
* **`engine_heal`** Up to three rejected erases or bad writes: `HealedWrite` (a full write
  of an image the chip can hold does not fail) and `Terminates`. `HealedWrite` has an
  exception spelled out in it: when block 0 was blank before, the in-session check
  (`src/pic_program.c:422-442`) cannot notice a rejected bulk erase, and the verify
  fails instead.
* **`engine_card`** A card that does not open, dies or reads short: `WrittenOrBlank`, after a
  write that ends well each block of the range reads as the image there or is erased, so none
  holds data that belongs elsewhere. (The two differ for a blank block on a chip that is
  still read-protected, which reads as zeros: only an image of zeros verifies there.)
* **`ops_threads`** (`Preempt = TRUE`) `TypeOK`, `FoundAcceptsOk`, `DoneIsComplete`,
  `JoinIsShort`, `FreedAlone`, `CancelSticks`; `WriteIsDecided`: a write starts only on a
  decision of the timer callback that was taken on its confirm screen with OK down for the
  whole hold; `NewRequestStops`: whoever changes the image, the range or the verify flag
  of a running write or verify tells it to stop and waits for it; and the liveness
  properties `JoinReturns`, `ScreenSettles` and `HoldFires` (a hold that is not given up ends
  in its write). All of them with workers that a long Back left
  running at the menu.
* **`app`** (`Preempt = FALSE`) The composition: `SessionsApart` (a search that was given up is
  in no session under the wiring view), `QuietReleased` (nothing under way, nothing
  driven), the controller's `WriteNeedsHold` and `PromptLeavesTarget` beside the view, and
  `BadgeSettles`: while no job runs, the badge ends up following the wiring even after probes
  on two threads, or a probe and a job left running, have spoiled each other.
* **`console`** `StreamOutlives`, `LogIsFaithful` (order, gaps, lengths), `CloseReturns`,
  `PartialShows`.
* **`files`** `HexIsTrue` (whatever fails, the .hex decodes to the target's bytes at their
  addresses, and one with an end record is as long as the .bin), `DoneIsSaved`,
  `HashIsOfTheFile`.
* **`icsp`** `WiresAgree`, for sessions with and without `pic_icsp_init`, of every kind of
  call sequence that `pic_program.c`, `pic_dump.c` and `pic_jobs.c` use.
* **`text`** `ScreenShowsText`: the comment of `ui_wrap_hard` as it stands; for
  `about_wrap`, that no word is lost, split or joined in a text whose words fit a line; and
  that scrolling stays on the text.

### What the code does not do

Each of these runs states what a comment or the README says, and TLC shows the
behaviour that contradicts it. `findings` in `PROJECT.json` quotes the lines.

* **`ops_retry`** In the detection loop `pic_icsp_exit` makes the lines inputs and only
  `pic_icsp_init`, before the loop, makes them outputs: a chip connected after the
  first probe is not found.
* **`engine_short_image`** With no fault at all, a full write of an image shorter than the chip
  ends in "Verify FAIL": past its end 0xFF is expected, and the unimplemented bits of the
  Config Words never read 1.
* **`ops_ungated`** A cancelled flash dump shows the RAM prompt, and OK there starts a flash
  dump without detection.

### Known limits of the code

Each of these is a hypothesis or an exception in a property above, found because the
property fails without it:

* The retries of `enter_and_identify` reach nothing either, for the same reason as
  `ops_retry`: one lost entry is "No device" (`src/pic_program.c:49`,
  `src/pic_icsp.c:78`).
* A read that returns 0 is taken for the end of the file, in the write and in the verify
  (`src/pic_program.c:147`, `:284`): a card that fails twice at one place gives "done". This is
  why `VerifiedMatches`, `FirstMismatch` and the contract are about a card that delivers
  (`SteadyCard`).
* If the preflight cannot read CONFIG1H, the code-protect guard passes
  (`src/pic_program.c:344`); hence `ReadableCard`.
* A Back or a release handled between the decision of the timer callback and its action
  does not stop the write (`src/pic_ops.c:212-217`): it starts wherever the user has gone
  meanwhile. Hence `Preempt = FALSE`. Likewise a callback that found no hold may stop the
  timer after a new press has started it (`src/pic_ops.c:218-222`), and that hold
  never ends in a write; hence the exception in `HoldFires`.
* A long Back during a search, a dump or a write leads to the menu with the worker running and
  not cancelled (`src/pic_ops.c:239`, `:328`). "Dump flash" and "Dump RAM" then change the request
  under it (`:338`, `:347`) before they cancel and join it. The model does both in one step;
  in the code they are a few instructions apart. A worker picks its range and its engine entry
  by `verify_only` right after its start (`src/pic_jobs.c:320-355`), long before a held Back can
  lead to the menu, but one that is at its result in between may word it by the new flag
  (`src/pic_jobs.c:361-407`). "Wiring" does not stop the worker at all: the probes of the view run
  inside its session. Hence `SessionsApart` is only about a search that was cancelled, and
  `BadgeSettles` about a view under which no job runs.
* A search that is cancelled before its first check leaves the lines driven, with MCLR low
  (`src/pic_ops.c:57`); hence `HumanPace`.
* The drain thread may publish a count before `console_enter_cb` writes the 0 of the new opening
  over it (`src/view_console.c:237`): the screen then shows 0 until the next byte comes. No
  property is about the count.
* With a full stream buffer the interrupt drops bytes without a trace
  (`src/view_console.c:47`), and the byte that finds a full line buffer is dropped;
  `LogIsFaithful` says which bytes can be missing.
* `about_wrap` measures a line after cutting it to its buffer (`src/view_about.c:126-130`);
  hence `RoomForALine`. It hard-breaks an over-long word only at the start of a line
  (`src/view_about.c:136-142`); hence `Ordinary`.

### Mutants

Every property of a passing run has a mutant: a plausible slip in one mapped definition
(an exclusive bound, a missing exit, a worker not joined, a flag not polled) with which
TLC finds the property violated. The mutant operators stand before their originals, with
a comment that says what they get wrong; nothing uses them in the specifications.

## 4. Proofs

For every value of the constants: every geometry, image, attempt count and number of faults;
every length of the hold and of a dump; every size of a buffer, a record, a page, a hash block
or a memory, and any number of bytes; every session on the wires, with any operands; every
text, as far as the assumptions about its words and the font go.

| Theorem | States | Assumes beyond the constants' ASSUMEs |
|---|---|---|
| `TypeCorrect` | `Spec => []TypeOK` (`PicProgram`) | none |
| `BracketHolds` | `Spec => []Bracketed` | none |
| `BootHolds` | `Spec => []BootUntouched` | none |
| `RefusalHolds` | `Spec => []RefusalLeavesChip` | none |
| `GuardHolds` | `Spec => []NoCodeProtect` | `ReadableCard`: the card's handles do not die |
| `VerifyHolds` | `Spec => []VerifiedMatches` | `SteadyCard`: nor does one read call come back short |
| `MismatchHolds` | `Spec => []FirstMismatch` | `SteadyCard` |
| `ContractHolds` | `Spec => ImplementsContract` | `SteadyCard` |
| `HealHolds` | `Spec => []HealedWrite` | `Sporadic`: only erases and block writes are rejected, fewer times than each is tried |
| `PlacedHolds` | `Spec => []WrittenOrBlank` | `ErasesWork`: no erase is rejected or partial; anything else may fail, as often as it likes |
| `TypeHolds` | `Spec => []TypeOK` (`PicOps`) | none |
| `JoinHolds` | `Spec => []JoinIsShort` | none |
| `FreedHolds` | `Spec => []FreedAlone` | none |
| `FoundHolds` | `Spec => []FoundAcceptsOk` | none |
| `DoneHolds` | `Spec => []DoneIsComplete` | none |
| `CancelHolds` | `Spec => CancelSticks` | none |
| `DecisionHolds` | `Spec => WriteIsDecided` | none |
| `RequestHolds` | `Spec => NewRequestStops` | none |
| `PromptHolds` | `Spec => PromptLeavesTarget` | `~Preempt` |
| `ShiftTypeHolds` | `Spec => []TypeOK` (`IcspShift`) | none |
| `WiresHold` | `Spec => []WiresAgree` | none |
| `CallersSendCommands` | the callers' sequences are in `Seq(JobCalls)` | addresses, data addresses and words in range |
| `AppTypeHolds` | `AppSpec => []AppTypeOK` | none (`HumanPace` is part of `AppSpec`) |
| `ApartHolds` | `AppSpec => []SessionsApart` | none (`HumanPace` is part of `AppSpec`) |
| `QuietHolds` | `AppSpec => []QuietReleased` | none (`HumanPace` is part of `AppSpec`) |
| `AppDecisionHolds` | `AppSpec => WriteIsDecided` | none |
| `AppRequestHolds` | `AppSpec => NewRequestStops` | none |
| `AppPromptHolds` | `AppSpec => PromptLeavesTarget` | `~Preempt` |
| `StreamHolds` | `Spec => []StreamOutlives` | none |
| `LogHolds` | `Spec => []LogIsFaithful` | none |
| `ConsoleTypeHolds` | `Spec => []TypeOK` (`ConsoleView`) | none |
| `DumpTypeHolds` | `Spec => []TypeOK` (`DumpFiles`) | none |
| `HexHolds` | `Spec => []HexIsTrue` | none |
| `SavedHolds` | `Spec => []DoneIsSaved` | none |
| `HashHolds` | `Spec => []HashIsOfTheFile` | none |
| `ScreenHolds` | `Spec => []ScreenShowsText` | `RoomForALine`; its word-wrapping part is about texts that are `Ordinary` |

The constants' assumptions: `GeometryAssumption` (sizes are positive, the boot region
starts on a row boundary inside the chip, which is the `_Static_assert` of
`pic_config.h`), `DataAssumption` (types; CP0 is implemented), `TriesAssumption`,
`OpsAssumption` and `ConsoleAssumption` (sizes are positive), `ChipAssumption` (sizes are
positive, data memory holds bytes), `JobsAssumption` (a session is a sequence of the
commands that `pic_icsp.h` offers; `CallersSendCommands` says that the code's are),
`DumpAssumption`,
`RecordAssumption` and `ShaAssumption` (sizes are positive; both ranges start on a record
boundary, a page is a whole number of records, and the length that ends the padding is
shorter than a block: 16 bytes, 64 KB, 8 and 64 in the code), `WrapAssumption` (sizes and
widths are positive, the space and the line break are characters) and `RoomForALine` (above).
The hypotheses in the third
column are what the corresponding run has too, without its bounds; "Known limits" says why
`SteadyCard`, `ReadableCard` and `~Preempt` cannot be dropped. Without `Sporadic` a write may
of course fail; without `ErasesWork` an erase may leave the old contents of a block that the
card then never delivers data for.

### The engine

1. **Types** (`PicProgramProofs`). `TypeOK` is not inductive: nothing in it keeps `cur +
   off` inside the flash or `pos` inside the file. `Positions` adds that: `cur <= end`
   where a chunk or row is being worked on, `off < Want` in a chunk, a row-erase
   position is on a row boundary and in an application-only job, `pos <= lim <=
   image.size`. `TypeInv == TypeOK /\ Positions` is inductive. `RowFits` (a row that
   starts below the boot region ends below it) and `WantFits` (a chunk is not empty and
   ends inside the range) are where the geometry is used.
2. **Bracket**. `Bracketed` is inductive by itself: each action that
   moves `pc` into the stages that touch the chip comes from one, or is `Identified`.
3. **Boot region.** Only three actions change the flash (`FlashSteps`); with keep-boot
   each addresses a block below `BootBlock` (`RowFits`, `WantFits`).
4. **Refusals.** `Refusals` adds what orders the guard before the erase: while entering
   or in the preflight the flash is `flash0`, and a refusal is only ever followed by the
   way out.
5. **Guard**. `CodeGuard` adds the data flow: past the preflight,
   if the range reaches the Config Words the image does not clear CP0; the file position
   is that of `cur`; the buffer holds the image's blocks. So what is programmed into the
   config block never contains CP0.
6. **Verify.** `Verified`: while the verify runs, every block below `cur` has been
   compared and nothing changes the flash after it; `ok` implies all of the range
   matched.
7. **First mismatch**. `Failed`: a fail address is set only on the
   way out, names a block that differs, and in a verify job all below it matched.
8. **Contract.** With the invariants of 1 to 7 and `Covers` (the engine's range and image
   are the contract's), every action of the engine is `Begin` (`StartBegins`), `Work`
   (`FlashWork`: the steps that change the flash; `QuietWork`: the other steps of a
   running job), `Finish` (`ReportFinishes`) or a stutter of `FlashContract` under the
   mapping.
9. **Healing**. `HealInv` relates the retry counters to the faults that
   are left: in the erase loop and at a block that is being programmed, `try + faults <=
   MaxFaults`, because a rejected attempt moves one unit from `faults` to `try`; so the last
   try is never reached. `WrittenTo(n)` is the picture of the chip meanwhile: the image
   below block n, blank above it, and at n some of the image's zeros (a rejected write leaves a
   subset of the bits, which the next attempt completes). It ends in `Matched(NBlocks)`, so
   the verify finds nothing. It rests on `CodeGuard` of 5 for the buffer and the file
   position.
10. **Placing**. A faulty card makes `CodeGuard` false, so this starts anew. `Aligned(c)`:
   the file position is that of the chunk, except that a file that ended stays at its end
   (what is read there is nothing, so the buffer's blocks are the image's or blank).
   `PlacedTo(n, m)`: blocks below n read as the image or are erased, those from m on are
   erased; it is what each good read-back adds to. A chip that is still read-protected after
   the erase reads as zeros whatever it holds: there a passing verify means the image is zeros
   (`ZerosTo`), and then every block does read as the image.

### The controller

`PicOpsProofs`: `OpsInv` is the types, and two parts. `Handover` relates the threads:
a thread that exists has its handle (`Handle`); a search shows Found only at its very end, after
`worker_active` was cleared (`Searched`); in the clean-up the timer is off before the
worker is joined (`Resumes`); with `JoinIsShort` and `FreedAlone` themselves. `Counting`
relates a worker's chunks to where it is, so that Done implies all of them. Each of the
four lemma families (flags, fields, hand-over, counting) is proved for the input thread, the
user, the timer task and the workers, one step per action. `CancelSticks` follows because
whoever clears `cancel` has joined, and by `Handle` nobody is left to be joined. None of this
uses `Preempt`.

`HoldInv` adds what makes the hold gate work, again wherever the callback is:
the request follows the operation (`Asked`), the input thread is where its continuation
says (`Where`), screens and the phase a handler has copied fit the operation and only the input
thread brings up a confirm or a search screen (`Screens`), the worker of a dump view fits its
operation (`Fits`), and a hold in progress is on the confirm screen of a write with OK
down or its release being handled (`Holds`). `WriteIsDecided` follows: `TimerDecide` sets
`tmr` to `fire` only where `Holds` says what it needs, and of the steps that launch a
write worker the input thread's are for a verify (`Asked`, `Where`), which leaves the
callback's. `NewRequestStops` is about two actions, `MenuDump` and `Picked`: both join, and tell
a worker that is there to stop, which by `Handle` is any that runs. For `PromptLeavesTarget`
`Firing` is added under `~Preempt`: between a decision and its action the confirm screen is
still there, so the write worker it starts fits the screen.

### The app

`PicAppProofs` carries these over to the composition and adds what it is about. `AppInv` is
`OpsInv /\ HoldInv` with five parts. `Placed` says where a probe can be under way: the
input thread's only in the wiring view; the timer's also after that view was left, but then
nothing has been picked since (`HumanPace`). `SearchBody` says where a search worker can be,
and `Starting` that one which has not made its first check was not given up (`HumanPace`
again), so that `SessionsApart` is inductive with them: a search that was given up outside its
session does not open another, since it looks at `cancel` first. `Released`: with neither a
probe nor a worker session under way, the lines are released, and then the target runs. The
controller's steps keep the invariant by one lemma per part and kind of thread
(`ControllerPlaced`, `ControllerApart`, `WorkerPlaced`, `WorkerSearch`, `WorkerReleased`, ...),
the view's by `PinsKeepsOps` (they leave everything `OpsInv` and `HoldInv` are about alone,
`view` apart) and `PinsMoves` (what they do to the lines), and `Spoiled` by `SpoiledInv`: to the
controller it is one more outcome of a worker's step. The three action properties
follow from the lemmas that prove them for `PicOps`, since steps of the view leave the
request and, in the dump view, the target alone.

### The wires

`IcspShiftProofs` is about every session, of any length and with any operands. `ShiftInv` is
the types and `Situation`, which says where the current call is: `k` of its operations are done
(`ops = After(PinOps(c), k)`), and the two ends are as they must be after that many
(`During`). For a command that is `JobAt`, which rests on two descriptions.

* `Mark(c, k)` is what the pins have come to: the level of PGC, what PGD may be at, which
  end drives it, how many falling edges and samples there were, whether the clock was held.
  The operations of each call are listed by their position (`WordIs`: 60 of them, `ProgIs` 61,
  `EraseIs` 62, `ReadIs` 56), and `Leads` is what one may do to a mark:
  in particular, when the chip takes a bit, PGD is at that bit of the command and the host drives it,
  and when the chip answers, the host does not.
* `InFrame` is what the chip has made of the edges: its frame holds that many of the
  command's bits (`LowBits`), the byte it shifts out is the one that is asked for, the samples so
  far are its low bits, and its registers are those from which executing the whole command
  gives `meant`. With the twentieth edge it executes, and `regs = meant`.

`ExitAt`, `InitAt` and `EnterAt` are the same for the calls that make a session. In an entry
the chip collects the key, so `EnterAt` relates the bits of `key` to the position; that it ends
with `EntryKey` is why the target is in program mode when, and only when, the lines were driven.
Each operation keeps this (`JobStep`, `ExitStep`, `InitStep`, `EnterStep`), each call
begins where the one before has left the wires (`Idle`, `BeginKeeps`), and at the end of a call
`ChipFollows` is what is left of `During`. That the command set keeps the types
(`ExecuteTyped`) needs the bytes that `Common` and `SetByte` make to be bytes, for which
`Recursion` gives induction over the bits.

Writing it down made two places of the model explicit: the arms of `Latched` and `Execute`
overlapped, and said what was meant only because TLC takes the first that applies; and the
table pointer had no width, where the part's has 22 bits.

### The console

`ConsoleViewProofs`: `Lifetime` (the stream exists exactly while the view is not closed;
the receiver is off and the thread gone before it is freed) is inductive by itself, and so are
`Received` and `Bounds` for the types.
`Assembly` is the log's invariant: `LineInv` holds of the line buffer, the log and the bytes
taken, that is, the lines shown are `Faithful` to those bytes and the open line ends with the
last of them. `AssembleFaithful` (one byte keeps it, a case for each branch of `Assemble`:
the byte is dropped, opens a line, or extends the open one) and induction over the batch
(`BatchFaithful`) give it for `Assembled`.

### Recursion

The library's induction theorems take the property as an operator, which none of the provers
can instantiate. `Recursion` states the same with sets and functions, which they can:
a non-empty set of naturals has a least element (from the library's `WFMin`, whose
parameters are sets), so a set that is closed under successor is all of them; and a recursion
given by a function `step` has a value (`RecursionExists`), by the same induction over the
lengths that have one. A loop of the model is an instance of it, and its lemma is proved for
one more element and lifted by `InductionUpTo`.

### The dump files and the hash

`DumpFilesProofs`, in five parts.

1. **The hash while it reads.** `Absorbed(c, msg)`: the digest words are those of the whole
   blocks of `msg`, `buffer` holds the rest, `buflen` its length, less than a block.
   `PutAbsorbs` is one byte (the block fills, or not), `UpdateAbsorbs` a call of
   `sha256_update`.
2. **The padding.** `FinalIsDigest`: `sha256_final` of a context that absorbed `msg` is
   `Digest(msg)`. The two cases of `HasRoom` are whether the rest, the 0x80 and the length
   fit one block; `Padding` gives the number of blocks of the padded message in either case,
   and `PaddedIs` its bytes.
3. **The reader.** `DecodedAppend`: decoding one record more is one `Read` more.
4. **The writer.** `Streams(d, n)`: the .hex decodes to the first n bytes of the range at
   their addresses; while the writer is good, they and the bytes in the record buffer make up
   `pos`, the next record starts on a record boundary, and once a record was written
   the reader's page is the one the writer wrote last. `FlushIs` (with or without an
   upper-address record, with either of its writes failing), `FeedStreams`, `AppendIs`,
   `CloseIs` and `OpenIs` are one lemma for each operation. `WholeBin` and `WholeHex` are
   the one-shot writers of the RAM dump.
5. **The workers.** `FilesInv` says at each `pc` how far the files have come (`FreshInv`,
   `LoopInv`, `CloseInv`, `HexInv`, `EndInv`, `PlaceInv`, with the types), and `HashInv` that
   the context has absorbed what the loop has read.

### The wrapping

`TextWrapProofs`. The screens are simple: `WrapInv` says which algorithm the lines on the screen
come from, and that the scroll position is on them; a redraw brings it back. The work is in
the algorithms, each by induction over its rounds.

* **`ui_wrap_hard`.** `Packed(ls, rest, s, cap)`: the lines and what is left make up the
  text, each line is one character or fits, and none could have taken the character after it,
  be that on the next line or in the rest. `CutsPack` is one round (`FirstFitsIs` says what
  fits: the least prefix that cannot grow), `HardPacks` the loop. It ends with an empty rest or
  with every line used.
* **Words.** `Words` grows the last word or opens a new one (`WordsIs`), so it distributes over
  a concatenation that does not join two letters (`WordsConcat`), in particular over lines
  put below each other (`WordsBelow`) and over a text cut `Between` words (`WordsAhead`).
* **`about_wrap`.** `Boxed`: the position is in the text, the lines in their array, each line in its
  buffer; it needs nothing of the text (`RoundBoxed`). `Kept`, for an `Ordinary` text: the lines
  fit the width and, with the line being made, have exactly the words of what was read, which ends
  between words. Its steps are `BreakKeeps`, `IndentKeeps` and `WordKeeps`. The last is where
  `RoomForALine` comes in: a candidate that was cut to the buffer is too wide
  (`FittingIsShort`), so one that fits is whole; and where `Ordinary` does: a word is one of the
  text's (`WordOfText`), so it fits a line of its own and is never hard-broken.

### Only model-checked

* Liveness under fairness is out of TLAPS' reach: `Terminates`, `JoinReturns`, `ScreenSettles`,
`HoldFires`, `BadgeSettles`, `CloseReturns`, `PartialShows`.
* `WriteNeedsHold` is checked in `app` for a callback that acts at once, and not proved: the
  theorem is `DecisionHolds`, which needs no such assumption.

Every other invariant and action property of a passing run is a theorem.

## 5. Not modelled

* Drawing (`app_ui.c` and the draw callbacks, except for what they wrap and clamp), texts, icons.
* File names from the wall clock and the file picker (`dump_store.c`): I/O; the picked path
  is a model value.
* The 64 rounds of SHA-256: straight-line arithmetic that the repository tests with vectors;
  `Sha256` has an abstract compression in their place.
* The text and the checksum of a .hex record.
* The progress counters and stage names of `prog_progress.h`: display. The phase they come
  with is in `PicOps`.
* The timing of the ICSP waveforms, which only a scope can check.
