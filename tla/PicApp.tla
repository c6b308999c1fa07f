-------------------------------- MODULE PicApp --------------------------------
(***************************************************************************)
(* The operations controller and the wiring view in one app: src/main.c     *)
(* gives both the same three ICSP pins, the same dispatcher and the same    *)
(* timer task, and nothing keeps them apart.  PicOps and PinsView are       *)
(* composed over Icsp; the timer task runs one callback at a time.          *)
(*                                                                         *)
(* A job that a held Back left running can be in its session when the       *)
(* wiring view opens and probes: the model has what both do to the lines,   *)
(* to the mode of the target and to the ID either reads, but not what the   *)
(* clash does to the data or the flash commands of a job that is past it.   *)
(***************************************************************************)
EXTENDS PicOps

VARIABLES badge, tick, ptimer, ppc, got

\* The worker is between its pic_icsp_init, or the pic_icsp_enter of a later round, and
\* its pic_icsp_exit.
WorkerSession ==
  wpc \in {"first", "exit", "probe", "nodev", "id", "chunk", "connect", "enter", "engine"}

Pins == INSTANCE PinsView WITH busy <- WorkerSession

pinsVars == <<badge, tick, ptimer, ppc, got>>
\* The controller's state apart from what the two components share.
controllerVars == <<gui, cont, event, seen, key, phase, opVars, cancel, worker_active,
                    threadVars, holdVars, timerVars>>
appVars == <<vars, pinsVars>>

AppInit == Init /\ Pins!PinsInit

(***************************************************************************)
(* TIMING.  A probe takes 5 ms and a worker thread starts within one; the   *)
(* keys of one user are further apart than that.                            *)
(***************************************************************************)

\* The search worker has not made its first check.
SearchStarting == kind = "search" /\ wpc \in {"begin", "first"}
\* A search that Back gave up is still in the middle of a round.
SearchEnding == kind = "search" /\ wpc = "exit" /\ cancel

\* No Back reaches a search before its first check, and no menu entry is picked while the
\* round of a search that was given up, or the probe of the wiring view that was left,
\* goes on.
HumanPace ==
  /\ gui = "ready" /\ event' \in {"back", "long"} => ~SearchStarting
  /\ AtMenu /\ (gui' \in {"pick", "join"} \/ view' = "pins")
       => ~SearchEnding /\ ppc["timer"] = "idle"

(***************************************************************************)
(* The composition.                                                        *)
(***************************************************************************)

\* The controller's steps.  The timer task takes one callback at a time.
Controller ==
  /\ \/ InputThread \/ User \/ Worker \/ Plug
     \/ ppc["timer"] = "idle" /\ TimerTask
  /\ UNCHANGED pinsVars
  /\ HumanPace

\* menu_cb MenuPins, when the input thread is waiting at the menu; the other keys of
\* the wiring view.
PinsUser ==
  /\ \/ AtMenu /\ key = "up" /\ Pins!Open
     \/ Pins!ForceCheck
     \/ Pins!Close
  /\ UNCHANGED controllerVars
  /\ HumanPace

Probes == \E t \in Pins!Threads : ppc[t] \in Pins!InSession

\* external: a probe of the view clocks the lines while a worker reads the ID of a chip
\* that answers, and the worker reads something else.
Spoiled ==
  /\ Probes /\ EnterLatches(wired) /\ IcspEnter(TRUE)
  /\ \/ SearchRound /\ ~cancel /\ Goto("exit") /\ good' = FALSE
     \/ kind \in Dumps /\ wpc = "probe" /\ Goto("nodev") /\ UNCHANGED good
     \/ At("prog", "enter") /\ Goto("exit") /\ good' = FALSE
  /\ UNCHANGED <<phase, cancel, worker_active, count, otherVars, pinsVars>>

PinsInput == Pins!Probing("input") /\ UNCHANGED controllerVars

PinsTimer ==
  /\ \/ tmr = "idle" /\ Pins!TimerTick
     \/ Pins!Probing("timer")
  /\ UNCHANGED controllerVars

\* The last of the cleanup in picflipper_app: pic_ops_free has returned.
PinsFree == gui = "gone" /\ Pins!Free /\ UNCHANGED controllerVars

\* external: the chip comes off while the user is watching the badge.
Unplug ==
  /\ view = "pins" /\ wired /\ wired' = FALSE
  /\ UNCHANGED <<icspVars, view, pinsVars, controllerVars>>

AppNext ==
  Controller \/ Spoiled \/ PinsUser \/ PinsInput \/ PinsTimer \/ PinsFree \/ Unplug

\* The input thread and the timer task get to run; the badge needs no more.
AppFairness ==
  /\ WF_appVars(PinsInput) /\ WF_appVars(PinsTimer)
  /\ WF_appVars(ppc["timer"] = "idle" /\ TimerTask /\ UNCHANGED pinsVars)

AppSpec == AppInit /\ [][AppNext]_appVars /\ AppFairness

(***************************************************************************)
(* Properties.                                                             *)
(***************************************************************************)

\* Every variable of both has its type, and the wiring view has the input thread to itself.
AppTypeOK ==
  /\ FieldTypes /\ CounterTypes /\ view \in {"menu", "dump", "pins"}
  /\ Pins!PinsTypeOK
  /\ view = "pins" => gui = "ready"

\* While the wiring view is open and drives the lines, a search that Back gave up is in no
\* session and opens none again.  (A job that a held Back left running may be in one.)
SessionsApart ==
  view = "pins" /\ kind = "search" /\ cancel => ~WorkerSession

\* When nothing probes and no worker runs, on every screen and after the app has
\* gone, the lines are released and the target runs its own firmware.
QuietReleased == ~Alive /\ ~Probes => lines = "released" /\ target = "run"

\* The badge follows the wiring: while the view stays open, OK is let alone and no job was
\* left running, it ends up showing whether the chip answers, and stays there, even when
\* a probe forced by OK spoiled the timer's.
Watching(w) == view = "pins" /\ (wired <=> w) /\ ppc["input"] = "idle" /\ ~Alive
BadgeSettles ==
  /\ <>[]Watching(TRUE) => <>[](badge = "ok")
  /\ <>[]Watching(FALSE) => <>[](badge = "searching")
=============================================================================
