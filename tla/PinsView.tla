------------------------------- MODULE PinsView -------------------------------
(***************************************************************************)
(* The wiring view of src/view_pins.c.  Its badge comes from probes of the  *)
(* device ID: one as the view opens, one for every OK key, both on the      *)
(* input thread, and one on every second tick of a 500 ms timer, on the     *)
(* timer task.  Nothing keeps two probes apart: each is a sequence of calls *)
(* into pic_icsp.c, and the other may run between any two of them.          *)
(***************************************************************************)
EXTENDS Icsp, Integers

VARIABLES
  view,     \* external: the dispatcher's current view
  wired,    \* external: a chip that answers is connected
  busy,     \* external: another part of the app is in an ICSP session
  badge,    \* what PinsModel.probed and .devid show: "ok" or "searching"
  tick,     \* p->tick, modulo the 2 it is compared with
  ptimer,   \* p->timer: "off", "on", "freed"
  ppc,      \* for each thread, where its call of pins_probe is
  got       \* ... and the device ID it read: is it the expected family's?

pinsVars == <<badge, tick, ptimer, ppc, got>>

Threads == {"input", "timer"}
InSession == {"enter", "read", "exit"}   \* after pic_icsp_init, before pic_icsp_exit

PinsInit ==
  /\ badge = "searching" /\ tick = 0 /\ ptimer = "off"
  /\ ppc = [t \in Threads |-> "idle"] /\ got = [t \in Threads |-> FALSE]

At(t, step) == ppc[t] = step
Goto(t, step) == ppc' = [ppc EXCEPT ![t] = step]

\* pins_tristate, which pic_icsp_exit has usually done already.
Tristate == IcspExit

(***************************************************************************)
(* pins_probe, on either thread.                                           *)
(***************************************************************************)

ProbeInit(t) ==
  /\ At(t, "init") /\ Goto(t, "enter")
  /\ IcspInit
  /\ UNCHANGED <<view, wired, badge, tick, ptimer, got>>

ProbeEnter(t) ==
  /\ At(t, "enter") /\ Goto(t, "read")
  /\ IcspEnter(wired)
  /\ UNCHANGED <<view, wired, badge, tick, ptimer, got>>

\* pic_read_device_id reads the ID of a chip that is in program mode on driven lines;
\* when another thread clocks the same lines it may read anything but an ID that nobody
\* sent.
Clash(t) == \E u \in Threads \ {t} : ppc[u] \in InSession
ProbeRead(t) ==
  /\ At(t, "read") /\ Goto(t, "exit")
  /\ LET latched == Driven /\ target = "program" /\ wired
     IN  \E id \in {latched} \cup (IF Clash(t) \/ busy THEN {FALSE} ELSE {}) :
           got' = [got EXCEPT ![t] = id]
  /\ UNCHANGED <<icspVars, view, wired, badge, tick, ptimer>>

\* Mutant: the lines are left to the next pic_icsp_init.
ProbeKeepsLines(t) ==
  /\ At(t, "exit") /\ Goto(t, "publish")
  /\ UNCHANGED <<icspVars, view, wired, badge, tick, ptimer, got>>
ProbeExit(t) ==
  /\ At(t, "exit") /\ Goto(t, "publish")
  /\ IcspExit
  /\ UNCHANGED <<view, wired, badge, tick, ptimer, got>>

\* The result goes into the model under its lock.  When the opening probe is over the
\* timer starts; after a later one it is running already.
Publish(t) ==
  /\ At(t, "publish") /\ Goto(t, "idle")
  /\ badge' = IF got[t] THEN "ok" ELSE "searching"
  /\ got' = [got EXCEPT ![t] = FALSE]
  /\ ptimer' = IF t = "input" THEN "on" ELSE ptimer
  /\ UNCHANGED <<icspVars, view, wired, tick>>

Probing(t) ==
  ProbeInit(t) \/ ProbeEnter(t) \/ ProbeRead(t) \/ ProbeExit(t) \/ Publish(t)

(***************************************************************************)
(* The view's callbacks.                                                   *)
(***************************************************************************)

\* pins_enter_cb.
Open ==
  /\ view = "menu" /\ view' = "pins"
  /\ tick' = 0 /\ badge' = "searching"
  /\ Tristate
  /\ At("input", "idle") /\ Goto("input", "init")
  /\ UNCHANGED <<wired, ptimer, got>>

\* pins_input_cb: OK forces an immediate re-check.
ForceCheck ==
  /\ view = "pins" /\ At("input", "idle") /\ Goto("input", "init")
  /\ UNCHANGED <<icspVars, view, wired, badge, tick, ptimer, got>>

\* Back: pins_exit_cb.  A timer callback in progress goes on.  (The badge and the tick
\* keep their values, but nobody reads them before pins_enter_cb resets them: the
\* model resets them here.)
Forget == tick' = 0 /\ badge' = "searching"
Close ==
  /\ view = "pins" /\ At("input", "idle")
  /\ view' = "menu" /\ ptimer' = "off"
  /\ Tristate /\ Forget
  /\ UNCHANGED <<wired, ppc, got>>

\* pins_timer_cb: every second tick probes.  Mutants: the tick is not taken modulo 2; no
\* tick probes.
TimerTickUp ==
  /\ ptimer = "on" /\ At("timer", "idle")
  /\ tick' = tick + 1
  /\ IF tick' = 2 THEN Goto("timer", "init") ELSE UNCHANGED ppc
  /\ UNCHANGED <<icspVars, view, wired, badge, ptimer, got>>
TimerTickOnly ==
  /\ ptimer = "on" /\ At("timer", "idle")
  /\ tick' = 1 - tick
  /\ UNCHANGED <<icspVars, view, wired, badge, ptimer, ppc, got>>
TimerTick ==
  /\ ptimer = "on" /\ At("timer", "idle")
  /\ tick' = 1 - tick
  /\ IF tick' = 0 THEN Goto("timer", "init") ELSE UNCHANGED ppc
  /\ UNCHANGED <<icspVars, view, wired, badge, ptimer, got>>

\* pic_pins_view_free: the timer is stopped and freed, after its callback.
Free ==
  /\ ptimer # "freed" /\ At("timer", "idle")
  /\ ptimer' = "freed"
  /\ UNCHANGED <<icspVars, view, wired, badge, tick, ppc, got>>

PinsTypeOK ==
  /\ badge \in {"ok", "searching"} /\ tick \in {0, 1} /\ ptimer \in {"off", "on", "freed"}
  /\ ppc \in [Threads -> {"idle", "init", "publish"} \cup InSession]
  /\ got \in [Threads -> BOOLEAN]
=============================================================================
