---------------------------- MODULE FlashContract ----------------------------
(***************************************************************************)
(* What the write/flash engine promises whoever starts a job: the abstract  *)
(* specification that PicProgram implements.  A job begins, works on the    *)
(* chip, and ends with a verdict; nothing is said of sessions, attempts,    *)
(* chunks or files.                                                        *)
(***************************************************************************)
EXTENDS Integers

CONSTANTS
  Blocks,     \* the write blocks of the chip, 0 ..
  Content,    \* what a block can hold: the set of its bits that read 0
  BootBlock,  \* first block of the boot region
  Images      \* the files a job can be given: [size, data]

VARIABLES
  flash,      \* the chip's flash
  readout,    \* what the chip shows of it over ICSP
  busy,       \* a job is running
  job,        \* the last job: its mode, its image, the flash it started from
  verdict     \* what it ended with

cvars == <<flash, readout, busy, job, verdict>>

\* The blocks the job is about, and what each must read when it is done.
Range ==
  CASE job.mode = "full"   -> Blocks
    [] job.mode = "app"    -> {b \in Blocks : b < BootBlock}
    [] job.mode = "verify" -> IF job.image.size = 0 THEN Blocks
                              ELSE {b \in Blocks : b < job.image.size}
Wanted(b) == IF b < job.image.size THEN job.image.data[b] ELSE {}

Init ==
  /\ ~busy /\ verdict = "none"
  /\ job.before = flash

Begin ==
  /\ ~busy /\ busy'
  /\ \E m \in {"full", "app", "verify"}, img \in Images :
       job' = [mode |-> m, image |-> img, before |-> flash]
  /\ verdict' = "none"
  /\ UNCHANGED <<flash, readout>>

\* Blocks are blanked, or take bits of the image: only in the range of a write.
Work ==
  /\ busy /\ busy'
  /\ flash' \in [Blocks -> Content]
  /\ \A b \in Blocks :
       \/ flash'[b] = flash[b]
       \/ /\ job.mode # "verify" /\ b \in Range
          /\ flash'[b] = {} \/ flash'[b] \subseteq flash[b] \cup Wanted(b)
  /\ UNCHANGED <<job, verdict>>

Truthful(v) ==
  /\ v = "done" => \A b \in Range : readout[b] = Wanted(b)
  /\ v = "verify_fail" => \E b \in Blocks : readout[b] # Wanted(b)
  /\ v \in {"no_device", "wrong_chip", "cp_refused"} => flash = job.before

Finish ==
  /\ busy /\ ~busy'
  /\ verdict' \in {"cancelled", "no_device", "wrong_chip", "cp_refused", "verify_fail",
                   "io_error", "done"}
  /\ Truthful(verdict')
  /\ UNCHANGED <<flash, readout, job>>

Next == Begin \/ Work \/ Finish

Spec == Init /\ [][Next]_cvars
=============================================================================
