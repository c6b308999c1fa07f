-------------------------------- MODULE Icsp --------------------------------
(***************************************************************************)
(* The ICSP line discipline of src/pic_icsp.c as its callers see it: who    *)
(* drives PGC, PGD and MCLR, and what that makes the target do.  The bits   *)
(* shifted inside one call are abstracted; what matters to every caller is  *)
(* that pic_icsp_init makes the lines outputs, pic_icsp_exit makes them     *)
(* inputs again, and pic_icsp_enter only writes levels: it has an effect on *)
(* the target only while the lines are outputs.  (pic_icsp_table_read hands  *)
(* PGD back as an output even then; without PGC and MCLR it moves nothing.)  *)
(***************************************************************************)

VARIABLES
  lines,    \* "driven": PGC, PGD, MCLR are push-pull outputs; "released": inputs
  target    \* external: the wired chip is in "run", "reset" or "program" mode

icspVars == <<lines, target>>

Driven == lines = "driven"

\* pic_icsp_init: three outputs, all low; MCLR low holds the target in reset.
IcspInit ==
  /\ lines' = "driven"
  /\ target' = "reset"

\* pic_icsp_enter followed by a command: MCLR pulse, key, MCLR held high.  The
\* target ends in Program/Verify mode iff it saw the key (answers); otherwise
\* the high MCLR lets it run.  On released lines nothing reaches the target.
IcspEnter(answers) ==
  /\ target' = IF ~Driven THEN target
               ELSE IF answers THEN "program" ELSE "run"
  /\ UNCHANGED lines

\* Does an enter issued in this state put a target that answers into program mode?
EnterLatches(answers) == Driven /\ answers

\* pic_icsp_exit: MCLR dropped, everything back to high impedance; the board's
\* own MCLR pull-up then restarts the target's firmware.
IcspExit ==
  /\ lines' = "released"
  /\ target' = "run"

IcspTypeOK ==
  /\ lines \in {"driven", "released"}
  /\ target \in {"run", "reset", "program"}
=============================================================================
