------------------------------- MODULE PicOps -------------------------------
(***************************************************************************)
(* The operations controller of src/pic_ops.c and the worker threads it     *)
(* starts (src/pic_ops.c, src/pic_jobs.c), under the view dispatcher that   *)
(* src/main.c configures.  Three threads share struct PicOps: the input     *)
(* thread (menu and dump_input_cb), the timer task (anim_timer_cb) and one  *)
(* worker thread.                                                           *)
(*                                                                         *)
(* Grain.  A worker step ends where it reads or writes a shared field; an   *)
(* input handler is two steps, because it copies the phase under the model  *)
(* lock and acts on the copy after releasing it, plus one step for every    *)
(* furi_thread_join or modal dialog it blocks in.  The timer callback       *)
(* decides under the model lock and acts after it: Preempt says whether the *)
(* input thread may run in between (on the device it has the higher         *)
(* priority, so it may).  The flash engine is abstracted here to "some      *)
(* steps, then ok or not"; PicProgram models it.                            *)
(***************************************************************************)
EXTENDS Icsp, Integers

CONSTANTS
  HoldTicks,   \* callbacks of the 50 ms timer that make up the 5 s hold
  NChunks,     \* progress points of a dump
  Paths,       \* .bin files the picker offers
  Preempt      \* may input run between the timer's decision and its action?

ASSUME OpsAssumption ==
  /\ HoldTicks \in Nat \ {0} /\ NChunks \in Nat \ {0}
  /\ Preempt \in BOOLEAN /\ Paths # {}

VARIABLES
  view,        \* external: the dispatcher's current view: "menu" or "dump"
  gui,         \* where the input thread is
  cont,        \* what it goes on with after a dialog or a join
  event, seen, \* the input event being handled, and the phase copied for it
  key,         \* external: the OK key: "up", "pressed", "shorted" (Short sent)
  phase,       \* AppState.phase
  op, job, verify_only, keep_boot, write_path,
  cancel, worker_active,
  worker,      \* ops->worker is not NULL
  kind, wpc,   \* the thread's body, and where it is in it
  count, good, \* its locals: chunks done, ok
  holding, held,   \* ops->holding; while it is set, callbacks since hold_start
  timerOn, tmr,    \* the timer is running; where its callback is
  wired        \* external: a chip that answers is connected

uiVars    == <<view, gui, cont, event, seen, key>>
opVars    == <<op, job, verify_only, keep_boot, write_path>>
threadVars == <<worker, kind, wpc, count, good>>
holdVars  == <<holding, held>>
timerVars == <<timerOn, tmr>>
vars == <<icspVars, uiVars, phase, opVars, cancel, worker_active, threadVars,
          holdVars, timerVars, wired>>

Phases == {"Idle", "Searching", "Found", "Connecting", "Dumping", "Confirm",
           "Writing", "Done", "Error"}
Writes == {"WriteFull", "WriteApp"}
Ops    == {"DumpFlash", "DumpRam", "Verify"} \cup Writes

Alive == wpc \notin {"none", "done"}

Init ==
  /\ lines = "released" /\ target = "run"
  /\ view = "menu" /\ gui = "ready" /\ cont = "none" /\ event = "none"
  /\ seen = "Idle" /\ key = "up" /\ phase = "Idle"
  /\ op = "DumpFlash" /\ job = "code" /\ verify_only = FALSE /\ keep_boot = FALSE
  /\ write_path \in Paths
  /\ cancel = FALSE /\ worker_active = FALSE /\ worker = FALSE
  /\ kind = "none" /\ wpc = "none" /\ count = 0 /\ good = TRUE
  /\ holding = FALSE /\ held = 0 /\ timerOn = FALSE /\ tmr = "idle"
  /\ wired \in BOOLEAN

\* external: the user connects the chip.
Plug ==
  /\ ~wired /\ wired' = TRUE
  /\ UNCHANGED <<icspVars, uiVars, phase, opVars, cancel, worker_active,
                 threadVars, holdVars, timerVars>>

(***************************************************************************)
(* Starting threads, on the input thread or on the timer task.             *)
(***************************************************************************)

\* furi_thread_alloc_ex + furi_thread_start, with the flags set before them.
Launch(body) ==
  /\ cancel' = FALSE /\ worker_active' = TRUE
  /\ worker' = TRUE /\ kind' = body /\ wpc' = "begin" /\ count' = 0 /\ good' = TRUE

\* furi_thread_join + furi_thread_free.  Mutant: the handle is dropped, not joined.
NotJoined == TRUE
Joined == worker => wpc = "done"
Freed  == worker' = FALSE /\ wpc' = "none" /\ kind' = "none" /\ count' = 0 /\ good' = TRUE

\* enter_search, enter_ram_ready, enter_confirm: `if(ops->worker)` cancel it and
\* join; dump_start, prog_start: join only.  The join blocks in gui = "join".
\* Mutant: the worker is not told to stop.
JoinThenOnly(next, stop) ==
  /\ gui' = "join" /\ cont' = next
  /\ event' = "none" /\ seen' = "Idle"
  /\ UNCHANGED <<cancel, worker_active, threadVars>>
JoinThen(next, stop) ==
  /\ gui' = "join" /\ cont' = next
  /\ cancel' = IF stop /\ worker THEN TRUE ELSE cancel
  /\ event' = "none" /\ seen' = "Idle"
  /\ UNCHANGED <<worker_active, threadVars>>

\* The rest of the three enter_ functions, after the join.
Entered(p) ==
  /\ gui = "join" /\ Joined
  /\ gui' = "ready" /\ cont' = "none" /\ view' = "dump" /\ phase' = p
  /\ holding' = FALSE /\ held' = 0
  /\ UNCHANGED <<icspVars, event, seen, key, opVars, tmr, wired>>

EnterSearch ==
  /\ cont = "search" /\ Entered("Searching")
  /\ Launch("search") /\ timerOn' = TRUE

EnterPrompt ==
  /\ \/ cont = "ram" /\ Entered("Idle")
     \/ cont = "confirm" /\ Entered("Confirm")
  /\ Freed /\ cancel' = FALSE /\ timerOn' = FALSE
  /\ UNCHANGED worker_active

\* dump_start and prog_start after their join.
StartJob ==
  /\ gui = "join" /\ Joined
  /\ \/ cont = "dump" /\ Launch(job)
     \/ cont = "prog" /\ Launch("prog")
  /\ gui' = "ready" /\ cont' = "none"
  /\ UNCHANGED <<icspVars, view, event, seen, key, phase, opVars, holdVars,
                 timerVars, wired>>

(***************************************************************************)
(* The menu (main.c menu_cb) and the entry points it calls.                *)
(***************************************************************************)

AtMenu == gui = "ready" /\ view = "menu"

\* pic_ops_start_dump_flash and pic_ops_start_dump_ram.
MenuDump ==
  /\ AtMenu
  /\ \/ op' = "DumpFlash" /\ job' = "code" /\ JoinThen("search", TRUE)
     \/ op' = "DumpRam" /\ job' = "ram" /\ JoinThen("ram", TRUE)
  /\ verify_only' = FALSE
  /\ UNCHANGED <<icspVars, view, key, phase, keep_boot, write_path, holdVars,
                 timerVars, wired>>

\* pic_ops_start_write and pic_ops_start_verify: refused while a worker runs, then
\* the modal file browser.
MenuPick ==
  /\ AtMenu /\ ~worker_active
  /\ gui' = "pick" /\ cont' \in Writes \cup {"Verify"}
  /\ UNCHANGED <<icspVars, view, event, seen, key, phase, opVars, cancel,
                 worker_active, threadVars, holdVars, timerVars, wired>>

Picked ==
  /\ gui = "pick"
  /\ write_path' \in Paths
  /\ op' = cont /\ keep_boot' = (cont = "WriteApp") /\ verify_only' = (cont = "Verify")
  /\ JoinThen("confirm", TRUE)
  /\ UNCHANGED <<icspVars, view, key, phase, job, holdVars, timerVars, wired>>

PickAborted ==
  /\ gui = "pick" /\ gui' = "ready" /\ cont' = "none"
  /\ UNCHANGED <<icspVars, view, event, seen, key, phase, opVars, cancel,
                 worker_active, threadVars, holdVars, timerVars, wired>>

\* Back at the menu ends the dispatcher; pic_ops_free stops and frees the timer,
\* which waits for a callback in progress, then cancels and joins the worker.
Leave ==
  /\ AtMenu
  /\ gui' = "free" /\ timerOn' = FALSE
  /\ UNCHANGED <<icspVars, view, cont, event, seen, key, phase, opVars, cancel,
                 worker_active, threadVars, holdVars, tmr, wired>>

\* Mutant: the worker is not joined.
FreeTimerOnly ==
  /\ gui = "free" /\ tmr = "idle" /\ gui' = "gone"
  /\ UNCHANGED <<icspVars, view, cont, event, seen, key, phase, opVars, cancel,
                 worker_active, threadVars, holdVars, timerVars, wired>>
FreeTimer ==
  /\ gui = "free" /\ tmr = "idle"
  /\ JoinThen("free", TRUE)
  /\ UNCHANGED <<icspVars, view, key, phase, opVars, holdVars, timerVars, wired>>

Gone ==
  /\ gui = "join" /\ cont = "free" /\ Joined
  /\ gui' = "gone" /\ cont' = "none" /\ Freed
  /\ UNCHANGED <<icspVars, view, event, seen, key, phase, opVars, cancel,
                 worker_active, holdVars, timerVars, wired>>

(***************************************************************************)
(* dump_input_cb.                                                          *)
(***************************************************************************)

\* An event arrives and the phase is copied under the lock.  OK comes as Press,
\* then Short if it was brief, then Release; Back as its Short event, or as Long when it
\* is held.  Nothing looks at the other types and keys, and the confirm screen swallows
\* a Long Back without effect.
Input(e, k) ==
  /\ gui = "ready" /\ view = "dump"
  /\ gui' = "input" /\ event' = e /\ seen' = phase /\ key' = k
  /\ UNCHANGED <<icspVars, view, cont, phase, opVars, cancel, worker_active,
                 threadVars, holdVars, timerVars, wired>>

UserInput ==
  \/ key = "up" /\ Input("press", "pressed")
  \/ key = "pressed" /\ Input("short", "shorted")
  \/ key \in {"pressed", "shorted"} /\ Input("release", "up")
  \/ Input("back", key)
  \/ phase # "Confirm" /\ Input("long", key)

\* The key is released while the menu is shown: the dispatcher still delivers it
\* to the dump view, where only the confirm screen would look at it.
ReleaseAtMenu ==
  /\ AtMenu /\ key # "up"
  /\ gui' = "input" /\ event' = "release" /\ seen' = phase /\ key' = "up"
  /\ UNCHANGED <<icspVars, view, cont, phase, opVars, cancel, worker_active,
                 threadVars, holdVars, timerVars, wired>>

Handling(e) == gui = "input" /\ event = e
Handled == gui' = "ready" /\ event' = "none" /\ seen' = "Idle"

\* Back cancels what runs, or leaves the view.
Back ==
  /\ Handling("back") /\ Handled
  /\ holding' = FALSE /\ held' = 0
  /\ \/ /\ seen = "Searching"
        /\ cancel' = TRUE /\ phase' = "Idle" /\ view' = "menu"
     \/ /\ seen # "Searching" /\ worker_active
        /\ cancel' = TRUE /\ UNCHANGED <<phase, view>>
     \/ /\ seen # "Searching" /\ ~worker_active
        /\ view' = "menu" /\ UNCHANGED <<cancel, phase>>
  /\ UNCHANGED <<icspVars, cont, key, opVars, worker_active, threadVars, timerVars, wired>>

\* A held Back is none of the handler's cases, so it is not consumed, and the dispatcher
\* (external) goes to the menu on an unconsumed Back of either type: whatever runs goes
\* on, and is not told.
LongBack ==
  /\ Handling("long") /\ Handled
  /\ view' = "menu"
  /\ UNCHANGED <<icspVars, cont, key, phase, opVars, cancel, worker_active, threadVars,
                 holdVars, timerVars, wired>>

\* The hold gate: a press starts the hold and the 50 ms timer, a release ends it.
\* Mutants: the timer is not started; the release is not looked at.
PressOnly ==
  /\ Handling("press") /\ seen = "Confirm" /\ ~verify_only /\ Handled
  /\ holding' = TRUE /\ held' = 0
  /\ UNCHANGED <<icspVars, view, cont, key, phase, opVars, cancel, worker_active,
                 threadVars, timerVars, wired>>
PressAtConfirm ==
  /\ Handling("press") /\ seen = "Confirm" /\ ~verify_only /\ Handled
  /\ holding' = TRUE /\ held' = 0 /\ timerOn' = TRUE
  /\ UNCHANGED <<icspVars, view, cont, key, phase, opVars, cancel, worker_active,
                 threadVars, tmr, wired>>

ReleaseOnly ==
  /\ Handling("release") /\ seen = "Confirm" /\ ~verify_only /\ Handled
  /\ UNCHANGED <<icspVars, view, cont, key, phase, opVars, cancel, worker_active,
                 threadVars, holdVars, timerVars, wired>>
ReleaseAtConfirm ==
  /\ Handling("release") /\ seen = "Confirm" /\ ~verify_only /\ Handled
  /\ holding' = FALSE /\ held' = 0
  /\ UNCHANGED <<icspVars, view, cont, key, phase, opVars, cancel, worker_active,
                 threadVars, timerVars, wired>>

\* OK on a screen that starts a job; dump_start and prog_start are busy-guarded.
OkStarts ==
  /\ Handling("short") /\ ~worker_active
  /\ \/ seen = "Confirm" /\ verify_only /\ JoinThen("prog", FALSE)
     \/ seen \in {"Idle", "Found"} /\ JoinThen("dump", FALSE)
  /\ UNCHANGED <<icspVars, view, key, phase, opVars, holdVars, timerVars, wired>>

\* OK on a result: back to the prompt of the operation.  Mutant: a RAM dump goes
\* back to detection.
OkSearchesAgain ==
  /\ Handling("short") /\ seen \in {"Done", "Error"}
  /\ JoinThen(IF op \in Writes \cup {"Verify"} THEN "confirm" ELSE "search", TRUE)
  /\ UNCHANGED <<icspVars, view, key, phase, opVars, holdVars, timerVars, wired>>
OkAgain ==
  /\ Handling("short") /\ seen \in {"Done", "Error"}
  /\ \/ op = "DumpRam" /\ JoinThen("ram", TRUE)
     \/ op \in Writes \cup {"Verify"} /\ JoinThen("confirm", TRUE)
     \/ op = "DumpFlash" /\ JoinThen("search", TRUE)
  /\ UNCHANGED <<icspVars, view, key, phase, opVars, holdVars, timerVars, wired>>

\* Everything else is swallowed or ignored.
Ignored ==
  /\ \/ event \in {"press", "release"} /\ (seen # "Confirm" \/ verify_only)
     \/ event = "short" /\ \/ seen \in {"Searching", "Connecting", "Dumping", "Writing"}
                           \/ seen = "Confirm" /\ (~verify_only \/ worker_active)
                           \/ seen \in {"Idle", "Found"} /\ worker_active
  /\ gui = "input" /\ Handled
  /\ UNCHANGED <<icspVars, view, cont, key, phase, opVars, cancel, worker_active,
                 threadVars, holdVars, timerVars, wired>>

(***************************************************************************)
(* anim_timer_cb, on the timer task.                                       *)
(***************************************************************************)

\* TIMING: callbacks are 50 ms apart, and a write worker that was started shows
\* StConnecting within microseconds: no hold progresses before it has.
JustStarted == kind = "prog" /\ wpc \in {"begin", "connect"}

\* Has OK been held for HOLD_MS?  Mutant: one callback more.
HoldPassed == held > HoldTicks
HoldDone   == held = HoldTicks

\* The part under the model lock.  The spinner only moves pixels.
TimerDecide ==
  /\ timerOn /\ tmr = "idle" /\ gui \notin {"input", "gone"}
  /\ \/ /\ phase = "Confirm" /\ holding /\ ~JustStarted
        /\ \/ ~HoldDone /\ held' = held + 1 /\ UNCHANGED tmr
           \/ HoldDone /\ tmr' = "fire" /\ UNCHANGED held
     \/ /\ phase # "Searching" /\ ~(phase = "Confirm" /\ holding)
        /\ tmr' = "stop" /\ UNCHANGED held
  /\ UNCHANGED <<icspVars, uiVars, phase, opVars, cancel, worker_active, threadVars,
                 holding, timerOn, wired>>

\* ... and after it: neither spinner nor hold, stop.
TimerStop ==
  /\ tmr = "stop"
  /\ tmr' = "idle" /\ timerOn' = FALSE
  /\ UNCHANGED <<icspVars, uiVars, phase, opVars, cancel, worker_active, threadVars,
                 holdVars, wired>>

\* The hold is complete: stop and start the write.  It does not look again at the
\* phase or at holding.  It is ready to run as soon as the input thread waits for its
\* next event, so never while that thread is already in the join of a later one.
TimerFire ==
  /\ tmr = "fire" /\ gui \notin {"input", "join"}
  /\ tmr' = "idle" /\ timerOn' = FALSE /\ holding' = FALSE /\ held' = 0
  /\ \/ worker_active /\ UNCHANGED <<cancel, worker_active, threadVars>>
     \/ ~worker_active /\ Joined /\ Launch("prog")
  /\ UNCHANGED <<icspVars, uiVars, phase, opVars, wired>>

(***************************************************************************)
(* The worker threads.                                                     *)
(***************************************************************************)

At(k, w) == kind = k /\ wpc = w
Goto(w)  == wpc' = w /\ UNCHANGED <<worker, kind>>

otherVars == <<uiVars, opVars, holdVars, timerVars, wired>>

\* pic_icsp_enter + pic_read_device_id: does the chip answer?
Probe(yes, no) ==
  \/ EnterLatches(wired) /\ IcspEnter(TRUE) /\ Goto(yes)
  \/ ~EnterLatches(wired) /\ IcspEnter(FALSE) /\ Goto(no)

InitLines(k, w) ==
  /\ At(k, "begin") /\ IcspInit /\ Goto(w)
  /\ UNCHANGED <<phase, cancel, worker_active, count, good, otherVars>>

\* pic_search_worker: the lines are initialised before the first round only.
SearchBegin == InitLines("search", "first")
SearchRound == kind = "search" /\ wpc \in {"first", "loop"}

\* The loop runs until it is cancelled.  Mutant: the flag is not looked at.
SearchProbeOnly ==
  /\ SearchRound
  /\ Probe("exit", "exit") /\ good' = EnterLatches(wired)
  /\ UNCHANGED <<phase, cancel, worker_active, count, otherVars>>
SearchProbe ==
  /\ SearchRound
  /\ \/ cancel /\ Goto("inactive") /\ UNCHANGED icspVars
     \/ ~cancel /\ Probe("exit", "exit")
  /\ good' = (~cancel /\ EnterLatches(wired))
  /\ UNCHANGED <<phase, cancel, worker_active, count, otherVars>>

\* pic_icsp_exit, then either report the chip (worker_active first) or wait.
\* Mutant: worker_active is not cleared first.
SearchExitBusy ==
  /\ At("search", "exit")
  /\ IcspExit /\ Goto(IF good THEN "publish" ELSE "loop")
  /\ UNCHANGED <<phase, cancel, worker_active, count, good, otherVars>>
SearchExit ==
  /\ At("search", "exit")
  /\ IcspExit
  /\ \/ good /\ worker_active' = FALSE /\ Goto("publish")
     \/ ~good /\ Goto("loop") /\ UNCHANGED worker_active
  /\ UNCHANGED <<phase, cancel, count, good, otherVars>>

SearchPublish ==
  /\ At("search", "publish")
  /\ phase' = "Found" /\ Goto("done")
  /\ UNCHANGED <<icspVars, cancel, worker_active, count, good, otherVars>>

\* pic_dump_worker and pic_ram_worker.
Dumps == {"code", "ram"}

DumpBegin ==
  /\ kind \in Dumps /\ wpc = "begin"
  /\ phase' = "Connecting"
  /\ Goto("alloc")
  /\ UNCHANGED <<icspVars, cancel, worker_active, count, good, otherVars>>

\* The buffer may not fit the heap; else pic_icsp_init, enter, device ID.
DumpAlloc ==
  /\ kind \in Dumps /\ wpc = "alloc"
  /\ \/ phase' = "Error" /\ Goto("inactive") /\ UNCHANGED icspVars
     \/ IcspInit /\ Goto("probe") /\ UNCHANGED phase
  /\ UNCHANGED <<cancel, worker_active, count, good, otherVars>>

DumpProbe ==
  /\ kind \in Dumps /\ wpc = "probe"
  /\ Probe("id", "nodev")
  /\ UNCHANGED <<phase, cancel, worker_active, count, good, otherVars>>

DumpNoDevice ==
  /\ kind \in Dumps /\ wpc = "nodev"
  /\ IcspExit /\ phase' = "Error" /\ Goto("inactive")
  /\ UNCHANGED <<cancel, worker_active, count, good, otherVars>>

\* The StDumping screen; the flash dump then opens its files, which may fail.
DumpId ==
  /\ kind \in Dumps /\ wpc = "id"
  /\ phase' = "Dumping"
  /\ \/ Goto("chunk") /\ UNCHANGED good
     \/ kind = "code" /\ good' = FALSE /\ Goto("exit")
  /\ UNCHANGED <<icspVars, cancel, worker_active, count, otherVars>>

\* One chunk is read, appended (flash), shown; then the cancel flag is polled.
DumpChunk ==
  /\ kind \in Dumps /\ wpc = "chunk"
  /\ \/ /\ count' = count + 1 /\ UNCHANGED good
        /\ Goto(IF cancel \/ count' = NChunks THEN "exit" ELSE "chunk")
     \/ kind = "code" /\ good' = FALSE /\ Goto("exit") /\ UNCHANGED count
  /\ UNCHANGED <<icspVars, phase, cancel, worker_active, otherVars>>

\* pic_icsp_exit; the flash files are closed; RAM is saved unless cancelled.
DumpExit ==
  /\ kind \in Dumps /\ wpc = "exit"
  /\ IcspExit
  /\ \/ UNCHANGED good
     \/ good' = FALSE
  /\ Goto("result")
  /\ UNCHANGED <<phase, cancel, worker_active, count, otherVars>>

\* The result screen, or back to the prompt when cancelled.  Mutants: a cancelled
\* dump looks done; it keeps its screen.
DumpResultAnyway ==
  /\ kind \in Dumps /\ wpc = "result"
  /\ phase' = (IF good THEN "Done" ELSE "Error") /\ Goto("inactive")
  /\ UNCHANGED <<icspVars, cancel, worker_active, count, good, otherVars>>
DumpResultUnlessCancelled ==
  /\ kind \in Dumps /\ wpc = "result"
  /\ phase' = (IF cancel THEN phase ELSE IF good THEN "Done" ELSE "Error")
  /\ Goto("inactive")
  /\ UNCHANGED <<icspVars, cancel, worker_active, count, good, otherVars>>
DumpResult ==
  /\ kind \in Dumps /\ wpc = "result"
  /\ phase' = (IF cancel THEN "Idle" ELSE IF good THEN "Done" ELSE "Error")
  /\ Goto("inactive")
  /\ UNCHANGED <<icspVars, cancel, worker_active, count, good, otherVars>>

\* pic_prog_worker around pic_prog_run / pic_prog_verify.
ProgBegin == InitLines("prog", "connect")

ProgConnect ==
  /\ At("prog", "connect")
  /\ phase' = "Connecting" /\ Goto("enter")
  /\ UNCHANGED <<icspVars, cancel, worker_active, count, good, otherVars>>

ProgEnter ==
  /\ At("prog", "enter")
  /\ Probe("engine", "exit")
  /\ good' = FALSE
  /\ UNCHANGED <<phase, cancel, worker_active, count, otherVars>>

\* The engine shows its progress, and ends: good, bad, or at a poll of cancel.
ProgEngine ==
  /\ At("prog", "engine")
  /\ \/ count < NChunks /\ phase' = "Writing" /\ count' = count + 1
        /\ UNCHANGED <<good, wpc, worker, kind>>
     \/ count = NChunks /\ good' = TRUE /\ Goto("exit") /\ UNCHANGED <<phase, count>>
     \/ Goto("exit") /\ UNCHANGED <<phase, count, good>>
  /\ UNCHANGED <<icspVars, cancel, worker_active, otherVars>>

ProgExit ==
  /\ At("prog", "exit")
  /\ IcspExit /\ Goto("result")
  /\ UNCHANGED <<phase, cancel, worker_active, count, good, otherVars>>

ProgResult ==
  /\ At("prog", "result")
  /\ phase' = IF good /\ ~cancel THEN "Done" ELSE "Error"
  /\ Goto("inactive")
  /\ UNCHANGED <<icspVars, cancel, worker_active, count, good, otherVars>>

\* Every worker ends by clearing worker_active and returning.
WorkerReturns ==
  /\ wpc = "inactive"
  /\ worker_active' = FALSE /\ Goto("done")
  /\ UNCHANGED <<icspVars, phase, cancel, count, good, otherVars>>

(***************************************************************************)
(* The specification.                                                      *)
(***************************************************************************)

\* What the input thread does by itself once it has something to do ...
InputThread ==
  /\ Preempt \/ tmr = "idle"
  /\ \/ EnterSearch \/ EnterPrompt \/ StartJob \/ FreeTimer \/ Gone
     \/ Back \/ LongBack \/ PressAtConfirm \/ ReleaseAtConfirm
     \/ OkStarts \/ OkAgain \/ Ignored

\* ... and what the user makes it do.
User ==
  /\ Preempt \/ tmr = "idle"
  /\ \/ MenuDump \/ MenuPick \/ Picked \/ PickAborted \/ Leave
     \/ UserInput \/ ReleaseAtMenu

TimerTask == TimerDecide \/ TimerStop \/ TimerFire

Search == SearchBegin \/ SearchProbe \/ SearchExit \/ SearchPublish
Dump == DumpBegin \/ DumpAlloc \/ DumpProbe \/ DumpNoDevice \/ DumpId \/ DumpChunk
        \/ DumpExit \/ DumpResult
Prog == ProgBegin \/ ProgConnect \/ ProgEnter \/ ProgEngine \/ ProgExit \/ ProgResult
Worker == Search \/ Dump \/ Prog \/ WorkerReturns

Next == InputThread \/ User \/ TimerTask \/ Worker \/ Plug

\* Every thread that can run does; the user need not do anything.
Spec == Init /\ [][Next]_vars
             /\ WF_vars(InputThread) /\ WF_vars(TimerTask) /\ WF_vars(Worker)

(***************************************************************************)
(* Properties.                                                             *)
(***************************************************************************)

\* Every variable has its type: the fields of struct PicOps and of the threads (the view
\* apart, which others switch too) ...
FieldTypes ==
  /\ IcspTypeOK
  /\ gui \in {"ready", "input", "pick", "join", "free", "gone"}
  /\ cont \in {"none", "search", "ram", "confirm", "dump", "prog", "free", "Verify"}
             \cup Writes
  /\ event \in {"none", "press", "short", "release", "back", "long"}
  /\ key \in {"up", "pressed", "shorted"}
  /\ phase \in Phases /\ seen \in Phases
  /\ op \in Ops /\ job \in Dumps
  /\ verify_only \in BOOLEAN /\ keep_boot \in BOOLEAN /\ write_path \in Paths
  /\ cancel \in BOOLEAN /\ worker_active \in BOOLEAN /\ worker \in BOOLEAN
  /\ kind \in Dumps \cup {"none", "search", "prog"}
  /\ wpc \in {"none", "begin", "first", "loop", "exit", "publish", "alloc", "probe",
             "nodev", "id", "chunk", "result", "connect", "enter", "engine", "inactive",
             "done"}
  /\ good \in BOOLEAN /\ holding \in BOOLEAN
  /\ timerOn \in BOOLEAN /\ tmr \in {"idle", "stop", "fire"}
  /\ wired \in BOOLEAN

\* ... and its counters, which do not pass what they count to.
CounterTypes == count \in 0 .. NChunks /\ held \in 0 .. HoldTicks
TypeOK == FieldTypes /\ CounterTypes /\ view \in {"menu", "dump"}

Launching(k) == wpc' = "begin" /\ wpc # "begin" /\ kind' = k

\* A write starts only on a decision of the timer callback, and that decision is taken on
\* the confirm screen of a write, while OK is down and has been for the whole hold
\* (pic_ops.c: "OK must be held continuously for 5 s").
WriteIsDecided ==
  [][/\ tmr' = "fire" /\ tmr # "fire" =>
          view = "dump" /\ phase = "Confirm" /\ op \in Writes
          /\ key # "up" /\ holding /\ held = HoldTicks
     /\ Launching("prog") /\ ~verify_only => tmr = "fire"]_vars

\* Whoever changes the image, the range or the verify flag that a running write or verify
\* may still read tells it to stop in the same handler, and waits for it.
NewRequestStops ==
  [][Alive /\ kind = "prog" /\ ~UNCHANGED <<verify_only, keep_boot, write_path>> =>
       cancel' /\ gui' = "join"]_vars

\* The next two hold when the timer callback acts at once on what it decided; a late one
\* starts its write from wherever the user has gone meanwhile.

\* A write starts only from its confirm screen, while OK is down and has been for the
\* whole hold.
WriteNeedsHold ==
  [][Launching("prog") /\ ~verify_only =>
       view = "dump" /\ phase = "Confirm" /\ op \in Writes
       /\ key # "up" /\ holding /\ held = HoldTicks]_vars

\* "They must not reset the target just by opening the view": on the RAM, write
\* and verify screens nothing but the job the user committed to moves the target.
PromptLeavesTarget ==
  [][view = "dump" /\ op # "DumpFlash" /\ target' # target =>
       kind = IF op = "DumpRam" THEN "ram" ELSE "prog"]_vars

\* A cancel is never lost: only a worker that is not running is behind it when the
\* flag is cleared for the next one.
CancelSticks == [][cancel /\ ~cancel' => ~Alive]_vars

\* "so a fast OK isn't rejected by the dump_start busy-guard".
FoundAcceptsOk ==
  view = "dump" /\ phase = "Found" /\ kind = "search" => ~worker_active

\* A result screen that says Done follows a dump of every chunk, or a good engine
\* run, never one cut short.
DoneIsComplete ==
  phase = "Done" /\ kind # "none" /\ wpc \in {"inactive", "done"} =>
    good /\ count = NChunks

\* The input thread only ever waits for a worker that is stopping or has stopped.
JoinIsShort == gui = "join" /\ worker => cancel \/ ~worker_active

\* When the controller is freed, no thread and no timer callback uses it.
FreedAlone == gui = "gone" => ~worker /\ ~Alive /\ tmr = "idle" /\ ~timerOn

\* The input thread always comes back from a join.
JoinReturns == gui = "join" ~> gui # "join"

\* A screen that shows a job running gives way to its result.
ScreenSettles ==
  phase \in {"Connecting", "Dumping", "Writing"} ~> phase \in {"Idle", "Done", "Error"}

\* A hold that is not given up fires the write and so ends with the screen, unless the
\* callback that stops the timer for want of a hold was under way when it began.
HoldFires ==
  Handling("press") /\ seen = "Confirm" /\ ~verify_only /\ tmr # "stop"
    ~> key = "up" \/ phase # "Confirm" \/ view # "dump"

\* The search finds a chip that gets connected while it runs, or is given up.
SearchFinds ==
  phase = "Searching" /\ view = "dump" /\ wired ~> phase # "Searching" \/ view # "dump"

\* The flash dump is only asked for where the detection gate has confirmed a chip.
FlashDumpGated == [][cont' = "dump" /\ cont # "dump" /\ job = "code" => seen = "Found"]_vars
=============================================================================
