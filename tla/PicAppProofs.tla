---------------------------- MODULE PicAppProofs ----------------------------
(***************************************************************************)
(* Theorems about the composed app, for every length of the hold and of a  *)
(* dump and every set of images: whose turn it is on the ICSP pins, and    *)
(* that what PicOpsProofs proves of the controller alone survives the      *)
(* wiring view beside it.                                                  *)
(***************************************************************************)
EXTENDS PicApp, PicOpsProofs

-----------------------------------------------------------------------------
(* The inductive invariant, on top of OpsInv and HoldInv.                  *)

\* Where a probe can be under way: the input thread's only in the wiring view; the
\* timer's also after the view was left, but then nothing has been picked since.
Placed ==
  /\ view = "pins" => gui = "ready"
  /\ gui = "free" => view = "menu"
  /\ ptimer = "on" => view = "pins"
  /\ ppc["input"] # "idle" => view = "pins"
  /\ ppc["timer"] # "idle" =>
       /\ view # "dump" /\ gui # "pick"
       /\ gui = "join" => cont = "free"

\* Where a search can be.
SearchBody ==
  kind = "search" =>
    wpc \in {"none", "begin", "first", "exit", "loop", "publish", "inactive", "done"}

\* Before its first check nothing has told a search to stop, nor is about to.
Starting ==
  SearchStarting =>
    /\ ~cancel /\ view = "dump" /\ phase = "Searching"
    /\ gui \in {"ready", "input"}
    /\ gui = "input" => event \notin {"back", "long"} /\ seen = "Searching"

\* Outside every session the lines are released; released lines leave the target running.
Released ==
  /\ lines = "released" => target = "run"
  /\ ~Probes /\ ~WorkerSession => lines = "released"

AppInv == OpsInv /\ HoldInv /\ Pins!PinsTypeOK /\ Placed /\ SearchBody /\ Starting
          /\ SessionsApart /\ Released /\ view \in {"menu", "dump", "pins"}

-----------------------------------------------------------------------------
(* The controller's steps.                                                 *)

\* The other threads leave a worker that runs where it is.
LEMMA OthersLeaveWorker ==
  ASSUME OpsInv, InputThread \/ User \/ TimerTask \/ Plug
  PROVE  UNCHANGED <<kind, wpc>> \/ (~Alive /\ wpc' \in {"none", "begin"})
<1>1. Joined => ~Alive
  BY DEF OpsInv, Handover, Handle, Joined, Alive
<1> USE DEF threadVars
<1>2. CASE InputThread
  <2>1. CASE EnterSearch  BY <1>1, <2>1 DEF EnterSearch, Entered, Launch
  <2>2. CASE EnterPrompt  BY <1>1, <2>2 DEF EnterPrompt, Entered, Freed
  <2>3. CASE StartJob  BY <1>1, <2>3 DEF StartJob, Launch
  <2>4. CASE FreeTimer  BY <1>1, <2>4 DEF FreeTimer, JoinThen
  <2>5. CASE Gone  BY <1>1, <2>5 DEF Gone, Freed
  <2>6. CASE Back  BY <1>1, <2>6 DEF Back, Handled
  <2>7. CASE LongBack  BY <1>1, <2>7 DEF LongBack, Handled
  <2>8. CASE PressAtConfirm  BY <1>1, <2>8 DEF PressAtConfirm, Handled
  <2>9. CASE ReleaseAtConfirm  BY <1>1, <2>9 DEF ReleaseAtConfirm, Handled
  <2>10. CASE OkStarts  BY <1>1, <2>10 DEF OkStarts, JoinThen
  <2>11. CASE OkAgain  BY <1>1, <2>11 DEF OkAgain, JoinThen
  <2>12. CASE Ignored  BY <1>1, <2>12 DEF Ignored, Handled
  <2> QED  BY <1>2, <2>1, <2>2, <2>3, <2>4, <2>5, <2>6, <2>7, <2>8, <2>9, <2>10, <2>11,
      <2>12 DEF InputThread
<1>3. CASE User
  <2>1. CASE MenuDump  BY <2>1 DEF MenuDump, JoinThen
  <2>2. CASE MenuPick  BY <2>2 DEF MenuPick
  <2>3. CASE Picked  BY <2>3 DEF Picked, JoinThen
  <2>4. CASE PickAborted  BY <2>4 DEF PickAborted
  <2>5. CASE Leave  BY <2>5 DEF Leave
  <2>6. CASE UserInput  BY <2>6 DEF UserInput, Input
  <2>7. CASE ReleaseAtMenu  BY <2>7 DEF ReleaseAtMenu
  <2> QED  BY <1>3, <2>1, <2>2, <2>3, <2>4, <2>5, <2>6, <2>7 DEF User
<1>4. CASE TimerTask
  BY <1>1, <1>4 DEF TimerTask, TimerDecide, TimerStop, TimerFire, Launch
<1>5. CASE Plug
  BY <1>5 DEF Plug
<1> QED  BY <1>2, <1>3, <1>4, <1>5

\* The controller's threads other than the worker keep the places.
LEMMA ControllerPlaced ==
  ASSUME AppInv, UNCHANGED pinsVars, HumanPace,
         InputThread \/ User \/ TimerTask \/ Plug
  PROVE  Placed'
<1> USE DEF AppInv, HoldInv, Where, Placed, pinsVars, AtMenu, HumanPace, Handling
<1>1. CASE InputThread
  <2>1. CASE EnterSearch  BY <2>1 DEF EnterSearch, Entered, Launch
  <2>2. CASE EnterPrompt  BY <2>2 DEF EnterPrompt, Entered, Freed
  <2>3. CASE StartJob  BY <2>3 DEF StartJob, Launch
  <2>4. CASE FreeTimer  BY <2>4 DEF FreeTimer, JoinThen
  <2>5. CASE Gone  BY <2>5 DEF Gone, Freed
  <2>6. CASE Back  BY <2>6 DEF Back, Handled
  <2>7. CASE LongBack  BY <2>7 DEF LongBack, Handled
  <2>8. CASE PressAtConfirm  BY <2>8 DEF PressAtConfirm, Handled
  <2>9. CASE ReleaseAtConfirm  BY <2>9 DEF ReleaseAtConfirm, Handled
  <2>10. CASE OkStarts  BY <2>10 DEF OkStarts, JoinThen
  <2>11. CASE OkAgain  BY <2>11 DEF OkAgain, JoinThen
  <2>12. CASE Ignored  BY <2>12 DEF Ignored, Handled
  <2> QED  BY <1>1, <2>1, <2>2, <2>3, <2>4, <2>5, <2>6, <2>7, <2>8, <2>9, <2>10, <2>11,
      <2>12 DEF InputThread
<1>2. CASE User
  <2>1. CASE MenuDump  BY <2>1 DEF MenuDump, JoinThen
  <2>2. CASE MenuPick  BY <2>2 DEF MenuPick
  <2>3. CASE Picked  BY <2>3 DEF Picked, JoinThen
  <2>4. CASE PickAborted  BY <2>4 DEF PickAborted
  <2>5. CASE Leave  BY <2>5 DEF Leave
  <2>6. CASE UserInput  BY <2>6 DEF UserInput, Input
  <2>7. CASE ReleaseAtMenu  BY <2>7 DEF ReleaseAtMenu
  <2> QED  BY <1>2, <2>1, <2>2, <2>3, <2>4, <2>5, <2>6, <2>7 DEF User
<1>3. CASE TimerTask \/ Plug
  BY <1>3 DEF TimerTask, TimerDecide, TimerStop, TimerFire, Plug, uiVars
<1> QED  BY <1>1, <1>2, <1>3

\* They leave a search before its first check alone, and start one uncancelled.
LEMMA ControllerStarting ==
  ASSUME AppInv, HumanPace, InputThread \/ User \/ TimerTask \/ Plug
  PROVE  Starting'
<1>1. job \in Dumps /\ worker_active \in BOOLEAN /\ cancel \in BOOLEAN
  BY DEF AppInv, OpsInv, FieldTypes
<1>2. SearchStarting => Alive /\ worker_active
  BY DEF AppInv, HoldInv, Fits, SearchStarting, Alive
<1> USE DEF uiVars, threadVars, Handling, AtMenu, AppInv, HoldInv, Where, Starting,
    SearchStarting, HumanPace, Dumps
<1>3. CASE InputThread
  <2>1. CASE EnterSearch  BY <1>1, <1>2, <2>1 DEF EnterSearch, Entered, Launch
  <2>2. CASE EnterPrompt  BY <1>1, <1>2, <2>2 DEF EnterPrompt, Entered, Freed
  <2>3. CASE StartJob  BY <1>1, <1>2, <2>3 DEF StartJob, Launch
  <2>4. CASE FreeTimer  BY <1>1, <1>2, <2>4 DEF FreeTimer, JoinThen
  <2>5. CASE Gone  BY <1>1, <1>2, <2>5 DEF Gone, Freed
  <2>6. CASE Back  BY <1>1, <1>2, <2>6 DEF Back, Handled
  <2>7. CASE LongBack  BY <1>1, <1>2, <2>7 DEF LongBack, Handled
  <2>8. CASE PressAtConfirm  BY <1>1, <1>2, <2>8 DEF PressAtConfirm, Handled
  <2>9. CASE ReleaseAtConfirm  BY <1>1, <1>2, <2>9 DEF ReleaseAtConfirm, Handled
  <2>10. CASE OkStarts  BY <1>1, <1>2, <2>10 DEF OkStarts, JoinThen
  <2>11. CASE OkAgain  BY <1>1, <1>2, <2>11 DEF OkAgain, JoinThen
  <2>12. CASE Ignored  BY <1>1, <1>2, <2>12 DEF Ignored, Handled
  <2> QED  BY <1>3, <2>1, <2>2, <2>3, <2>4, <2>5, <2>6, <2>7, <2>8, <2>9, <2>10, <2>11,
      <2>12 DEF InputThread
<1>4. CASE User
  <2>1. CASE MenuDump  BY <2>1 DEF MenuDump, JoinThen
  <2>2. CASE MenuPick  BY <2>2 DEF MenuPick
  <2>3. CASE Picked  BY <2>3 DEF Picked, JoinThen
  <2>4. CASE PickAborted  BY <2>4 DEF PickAborted
  <2>5. CASE Leave  BY <2>5 DEF Leave
  <2>6. CASE UserInput  BY <2>6 DEF UserInput, Input
  <2>7. CASE ReleaseAtMenu  BY <2>7 DEF ReleaseAtMenu
  <2> QED  BY <1>4, <2>1, <2>2, <2>3, <2>4, <2>5, <2>6, <2>7 DEF User
<1>5. CASE TimerTask
  BY <1>2, <1>5 DEF TimerTask, TimerDecide, TimerStop, TimerFire, Launch
<1>6. CASE Plug
  BY <1>6 DEF Plug
<1> QED  BY <1>3, <1>4, <1>5, <1>6

\* While the wiring view is open they give up no search and start none.
LEMMA ControllerApart ==
  ASSUME AppInv, InputThread \/ User \/ TimerTask \/ Plug
  PROVE  SessionsApart'
<1> SUFFICES ASSUME view' = "pins" PROVE (kind = "search" /\ cancel => ~WorkerSession)'
  BY DEF SessionsApart
<1>1. view = "pins" /\ gui = "ready"
  BY NextView DEF Next, AppInv, Placed
<1>2. UNCHANGED <<kind, wpc, cancel>> \/ kind' = "prog"
  <2> USE <1>1 DEF threadVars, Handling, AtMenu
  <2>1. CASE InputThread
    BY <2>1 DEF InputThread, EnterSearch, EnterPrompt, Entered, StartJob, FreeTimer, Gone,
       Back, LongBack, PressAtConfirm, ReleaseAtConfirm, OkStarts, OkAgain, Ignored
  <2>2. CASE User
    BY <2>2 DEF User, MenuDump, MenuPick, Picked, PickAborted, Leave, UserInput, Input,
       ReleaseAtMenu
  <2>3. CASE TimerTask
    BY <2>3 DEF TimerTask, TimerDecide, TimerStop, TimerFire, Launch
  <2>4. CASE Plug
    BY <2>4 DEF Plug
  <2> QED  BY <2>1, <2>2, <2>3, <2>4
<1> QED  BY <1>1, <1>2 DEF AppInv, SessionsApart, WorkerSession

\* They leave the lines to the worker and its session open.
LEMMA ControllerReleased ==
  ASSUME AppInv, UNCHANGED pinsVars, InputThread \/ User \/ TimerTask \/ Plug
  PROVE  SearchBody' /\ Released'
<1>1. UNCHANGED <<lines, target, Probes>>
  BY OthersLeaveTarget DEF icspVars, pinsVars, Probes
<1>2. UNCHANGED <<kind, wpc>> \/ (~Alive /\ wpc' \in {"none", "begin"})
  BY OthersLeaveWorker DEF AppInv
<1>3. WorkerSession => WorkerSession'
  BY <1>2 DEF WorkerSession, Alive
<1> QED  BY <1>1, <1>2, <1>3 DEF AppInv, SearchBody, Released

\* A worker thread keeps the places: it touches nothing they are about.
LEMMA WorkerPlaced == ASSUME AppInv, Worker, UNCHANGED pinsVars PROVE Placed'
BY WorkerLeaves DEF AppInv, Placed, pinsVars, otherVars, uiVars

\* How a search steps: it opens a round only when it has not been told to stop.
LEMMA SearchSteps ==
  ASSUME AppInv, Worker, kind = "search"
  PROVE  /\ wpc' \in {"first", "exit", "loop", "publish", "inactive", "done"}
         /\ wpc' = "first" => wpc = "begin" /\ UNCHANGED phase
         /\ wpc' = "exit" => ~cancel
<1> USE DEF At, Goto, Dumps, AppInv, SearchBody
<1>1. CASE SearchBegin  BY <1>1 DEF SearchBegin, InitLines
<1>2. CASE SearchProbe  BY <1>2 DEF SearchProbe, SearchRound, Probe
<1>3. CASE SearchExit  BY <1>3 DEF SearchExit
<1>4. CASE SearchPublish  BY <1>4 DEF SearchPublish
<1>5. CASE DumpBegin  BY <1>5 DEF DumpBegin
<1>6. CASE DumpAlloc  BY <1>6 DEF DumpAlloc
<1>7. CASE DumpProbe  BY <1>7 DEF DumpProbe, Probe
<1>8. CASE DumpNoDevice  BY <1>8 DEF DumpNoDevice
<1>9. CASE DumpId  BY <1>9 DEF DumpId
<1>10. CASE DumpChunk  BY <1>10 DEF DumpChunk
<1>11. CASE DumpExit  BY <1>11 DEF DumpExit
<1>12. CASE DumpResult  BY <1>12 DEF DumpResult
<1>13. CASE ProgBegin  BY <1>13 DEF ProgBegin, InitLines
<1>14. CASE ProgConnect  BY <1>14 DEF ProgConnect
<1>15. CASE ProgEnter  BY <1>15 DEF ProgEnter, Probe
<1>16. CASE ProgEngine  BY <1>16 DEF ProgEngine
<1>17. CASE ProgExit  BY <1>17 DEF ProgExit
<1>18. CASE ProgResult  BY <1>18 DEF ProgResult
<1>19. CASE WorkerReturns  BY <1>19 DEF WorkerReturns
<1> QED  BY <1>1, <1>2, <1>3, <1>4, <1>5, <1>6, <1>7, <1>8, <1>9, <1>10, <1>11, <1>12,
    <1>13, <1>14, <1>15, <1>16, <1>17, <1>18, <1>19 DEF Worker, Search, Dump, Prog

\* So it keeps what is known of searches.
LEMMA WorkerSearch ==
  ASSUME AppInv, Worker
  PROVE  SearchBody' /\ Starting' /\ SessionsApart'
<1>1. UNCHANGED <<view, gui, event, seen, cancel, kind>>
  BY WorkerLeaves DEF otherVars, uiVars
<1>2. CASE kind = "search"
  <2>1. wpc' = "first" => wpc = "begin" /\ UNCHANGED phase
    BY <1>2, SearchSteps
  <2>2. /\ wpc' \in {"first", "exit", "loop", "publish", "inactive", "done"}
        /\ wpc' = "exit" => ~cancel
    BY <1>2, SearchSteps
  <2>3. SearchBody' /\ Starting'
    BY <1>1, <1>2, <2>1, <2>2 DEF AppInv, SearchBody, Starting, SearchStarting
  <2>4. SessionsApart'
    BY <1>1, <1>2, <2>1, <2>2 DEF AppInv, Starting, SearchStarting, SessionsApart,
       WorkerSession
  <2> QED  BY <2>3, <2>4
<1>3. CASE kind # "search"
  BY <1>1, <1>3 DEF SearchBody, Starting, SearchStarting, SessionsApart
<1> QED  BY <1>2, <1>3

\* A worker thread leaves the lines released where it ends a session.
LEMMA WorkerReleased ==
  ASSUME AppInv, Worker, UNCHANGED pinsVars
  PROVE  Released'
<1>1. Probes' = Probes
  BY DEF pinsVars, Probes
<1>2. lines \in {"driven", "released"}
  BY DEF AppInv, OpsInv, FieldTypes, IcspTypeOK
<1> USE DEF At, Goto, AppInv, Released, WorkerSession, Driven, IcspInit, IcspEnter,
    IcspExit, icspVars
<1>3. lines' = "released" => target' = "run"
  <2>1. CASE SearchBegin  BY <1>2, <2>1 DEF SearchBegin, InitLines
  <2>2. CASE SearchProbe  BY <1>2, <2>2 DEF SearchProbe, SearchRound, Probe
  <2>3. CASE SearchExit  BY <1>2, <2>3 DEF SearchExit
  <2>4. CASE SearchPublish  BY <1>2, <2>4 DEF SearchPublish
  <2>5. CASE DumpBegin  BY <1>2, <2>5 DEF DumpBegin
  <2>6. CASE DumpAlloc  BY <1>2, <2>6 DEF DumpAlloc
  <2>7. CASE DumpProbe  BY <1>2, <2>7 DEF DumpProbe, Probe
  <2>8. CASE DumpNoDevice  BY <1>2, <2>8 DEF DumpNoDevice
  <2>9. CASE DumpId  BY <1>2, <2>9 DEF DumpId
  <2>10. CASE DumpChunk  BY <1>2, <2>10 DEF DumpChunk
  <2>11. CASE DumpExit  BY <1>2, <2>11 DEF DumpExit
  <2>12. CASE DumpResult  BY <1>2, <2>12 DEF DumpResult
  <2>13. CASE ProgBegin  BY <1>2, <2>13 DEF ProgBegin, InitLines
  <2>14. CASE ProgConnect  BY <1>2, <2>14 DEF ProgConnect
  <2>15. CASE ProgEnter  BY <1>2, <2>15 DEF ProgEnter, Probe
  <2>16. CASE ProgEngine  BY <1>2, <2>16 DEF ProgEngine
  <2>17. CASE ProgExit  BY <1>2, <2>17 DEF ProgExit
  <2>18. CASE ProgResult  BY <1>2, <2>18 DEF ProgResult
  <2>19. CASE WorkerReturns  BY <1>2, <2>19 DEF WorkerReturns
  <2> QED  BY <2>1, <2>2, <2>3, <2>4, <2>5, <2>6, <2>7, <2>8, <2>9, <2>10, <2>11, <2>12,
      <2>13, <2>14, <2>15, <2>16, <2>17, <2>18, <2>19 DEF Worker, Search, Dump, Prog
<1>4. ~Probes /\ ~WorkerSession' => lines' = "released"
  <2> USE DEF Starting, SearchStarting
  <2>1. CASE SearchBegin  BY <2>1 DEF SearchBegin, InitLines
  <2>2. CASE SearchProbe  BY <2>2 DEF SearchProbe, SearchRound, Probe
  <2>3. CASE SearchExit  BY <2>3 DEF SearchExit
  <2>4. CASE SearchPublish  BY <2>4 DEF SearchPublish
  <2>5. CASE DumpBegin  BY <2>5 DEF DumpBegin
  <2>6. CASE DumpAlloc  BY <2>6 DEF DumpAlloc
  <2>7. CASE DumpProbe  BY <2>7 DEF DumpProbe, Probe
  <2>8. CASE DumpNoDevice  BY <2>8 DEF DumpNoDevice
  <2>9. CASE DumpId  BY <2>9 DEF DumpId
  <2>10. CASE DumpChunk  BY <2>10 DEF DumpChunk
  <2>11. CASE DumpExit  BY <2>11 DEF DumpExit
  <2>12. CASE DumpResult  BY <2>12 DEF DumpResult
  <2>13. CASE ProgBegin  BY <2>13 DEF ProgBegin, InitLines
  <2>14. CASE ProgConnect  BY <2>14 DEF ProgConnect
  <2>15. CASE ProgEnter  BY <2>15 DEF ProgEnter, Probe
  <2>16. CASE ProgEngine  BY <2>16 DEF ProgEngine
  <2>17. CASE ProgExit  BY <2>17 DEF ProgExit
  <2>18. CASE ProgResult  BY <2>18 DEF ProgResult
  <2>19. CASE WorkerReturns  BY <2>19 DEF WorkerReturns
  <2> QED  BY <2>1, <2>2, <2>3, <2>4, <2>5, <2>6, <2>7, <2>8, <2>9, <2>10, <2>11, <2>12,
      <2>13, <2>14, <2>15, <2>16, <2>17, <2>18, <2>19 DEF Worker, Search, Dump, Prog
<1> QED  BY <1>1, <1>3, <1>4

\* A step of the controller keeps the invariant.
LEMMA ControllerInv == ASSUME AppInv, Controller PROVE AppInv'
<1>1. Next /\ UNCHANGED pinsVars /\ HumanPace
  BY DEF Controller, Next
<1>2. OpsInv' /\ HoldInv'
  BY <1>1, NextInv, HoldNext DEF AppInv
<1>3. Pins!PinsTypeOK'
  BY <1>1 DEF AppInv, pinsVars, Pins!PinsTypeOK
<1>4. Placed' /\ SearchBody' /\ Starting' /\ SessionsApart' /\ Released'
  <2>1. CASE Worker
    BY <1>1, <2>1, WorkerPlaced, WorkerSearch, WorkerReleased
  <2>2. CASE InputThread \/ User \/ TimerTask \/ Plug
    BY <1>1, <2>2, ControllerPlaced, ControllerStarting, ControllerApart,
       ControllerReleased
  <2> QED  BY <1>1, <2>1, <2>2 DEF Next
<1>5. view' \in {"menu", "dump", "pins"}
  BY <1>1, NextView DEF AppInv
<1> QED  BY <1>2, <1>3, <1>4, <1>5 DEF AppInv
-----------------------------------------------------------------------------
(* The wiring view's steps.                                                *)

\* The keys of the wiring view, a step of a probe, a tick of the timer, the cleanup.
PinsStep ==
  \/ PinsUser
  \/ \E t \in Pins!Threads : Pins!Probing(t) /\ UNCHANGED controllerVars
  \/ Pins!TimerTick /\ UNCHANGED controllerVars
  \/ PinsFree
  \/ Unplug

LEMMA OthersStep == PinsInput \/ PinsTimer \/ PinsUser \/ PinsFree \/ Unplug => PinsStep
BY DEF PinsStep, PinsInput, PinsTimer, Pins!Threads

\* A probe is only under way off the dump view.
LEMMA ProbingWhere ==
  ASSUME AppInv, NEW t \in Pins!Threads, ppc[t] # "idle"
  PROVE  view # "dump"
BY DEF AppInv, Placed, Pins!Threads

\* They leave the controller's variables alone, switch between the menu and the wiring
\* view only, and touch the lines only off the dump view.
LEMMA PinsLeaves ==
  ASSUME AppInv, PinsStep
  PROVE  /\ UNCHANGED controllerVars
         /\ \/ view' = view
            \/ view \in {"menu", "pins"} /\ view' \in {"menu", "pins"} /\ gui = "ready"
         /\ view = "dump" => UNCHANGED icspVars
         /\ wired' \in BOOLEAN
         /\ IcspTypeOK'
<1> USE DEF IcspTypeOK, icspVars
<1>1. wired \in BOOLEAN /\ IcspTypeOK /\ (view = "pins" => gui = "ready")
  BY DEF AppInv, OpsInv, FieldTypes, Placed
<1>2. CASE PinsUser
  BY <1>1, <1>2 DEF PinsUser, AtMenu, Pins!Open, Pins!ForceCheck, Pins!Close, Pins!Tristate,
     Pins!IcspExit, Pins!icspVars, icspVars
<1>3. ASSUME NEW t \in Pins!Threads, Pins!Probing(t), UNCHANGED controllerVars
      PROVE  /\ UNCHANGED <<view, wired>> /\ IcspTypeOK' /\ view # "dump"
  <2>1. ppc[t] # "idle"
    BY <1>3 DEF Pins!Probing, Pins!ProbeInit, Pins!ProbeEnter, Pins!ProbeRead,
       Pins!ProbeExit, Pins!Publish, Pins!At
  <2>2. view # "dump"
    BY <2>1, ProbingWhere
  <2> QED  BY <1>1, <1>3, <2>2 DEF Pins!Probing, Pins!ProbeInit, Pins!ProbeEnter,
      Pins!ProbeRead, Pins!ProbeExit, Pins!Publish, Pins!IcspInit, Pins!IcspEnter,
      Pins!IcspExit, Pins!icspVars
<1>4. CASE (Pins!TimerTick \/ Pins!Free) /\ UNCHANGED controllerVars
  BY <1>1, <1>4 DEF Pins!TimerTick, Pins!Free, Pins!icspVars
<1>5. CASE Unplug
  BY <1>1, <1>5 DEF Unplug
<1> QED  BY <1>1, <1>2, <1>3, <1>4, <1>5 DEF PinsStep, PinsFree

\* So what is known of the controller alone stays known.
LEMMA PinsKeepsOps == ASSUME AppInv, PinsStep PROVE OpsInv' /\ HoldInv'
<1>1. UNCHANGED controllerVars /\ wired' \in BOOLEAN /\ IcspTypeOK'
  BY PinsLeaves
<1>2. (view' = "dump") = (view = "dump")
  BY PinsLeaves
<1>3. OpsInv'
  BY <1>1 DEF AppInv, OpsInv, FieldTypes, Handover, Handle, Searched, Resumes, JoinIsShort,
     FreedAlone, Alive, Counting, Counted, DoneIsComplete, controllerVars, opVars,
     threadVars, holdVars, timerVars
<1>4. Asked' /\ Where'
  BY <1>1, PinsLeaves DEF AppInv, HoldInv, Asked, Where, controllerVars, opVars
<1>5. Screens'
  BY <1>1, <1>2 DEF AppInv, HoldInv, Screens, controllerVars, opVars
<1>6. Fits'
  BY <1>1, <1>2 DEF AppInv, HoldInv, Fits, Alive, JustStarted, controllerVars, opVars,
     threadVars
<1>7. Holds'
  BY <1>1, <1>2 DEF AppInv, HoldInv, Holds, Alive, controllerVars, opVars, threadVars,
     holdVars, timerVars
<1> QED  BY <1>3, <1>4, <1>5, <1>6, <1>7 DEF HoldInv

\* What a step does to the probes: opening and OK begin one on the input thread, a tick
\* one on the timer's; a probe drives the lines, reads, and releases them.
LEMMA PinsMoves ==
  ASSUME AppInv, PinsStep
  PROVE  /\ Pins!PinsTypeOK' /\ Placed'
         /\ lines' = "driven" => Probes' \/ (UNCHANGED lines /\ ~Probes)
         /\ lines' = "released" => target' = "run"
         /\ ~Probes' => lines' = "released" \/ (UNCHANGED lines /\ ~Probes)
<1> DEFINE Does == /\ Pins!PinsTypeOK' /\ Placed'
                   /\ lines' = "driven" => Probes' \/ (UNCHANGED lines /\ ~Probes)
                   /\ lines' = "released" => target' = "run"
                   /\ ~Probes' => lines' = "released" \/ (UNCHANGED lines /\ ~Probes)
<1> USE DEF Pins!PinsTypeOK, Placed, Probes, Pins!Threads, Pins!InSession, Pins!At,
    Pins!Goto, Released, Pins!icspVars
<1>1. /\ Pins!PinsTypeOK /\ Placed /\ Released /\ lines \in {"driven", "released"}
      /\ view \in {"menu", "dump", "pins"}
  BY DEF AppInv, OpsInv, FieldTypes, IcspTypeOK
<1>2. CASE Pins!Open /\ UNCHANGED controllerVars /\ AtMenu /\ HumanPace
  <2>1. ppc["timer"] = "idle"
    BY <1>2 DEF HumanPace, Pins!Open
  <2> QED  BY <1>1, <1>2, <2>1 DEF Pins!Open, Pins!Tristate, Pins!IcspExit, controllerVars,
      AtMenu
<1>3. CASE Pins!ForceCheck /\ UNCHANGED controllerVars
  BY <1>1, <1>3 DEF Pins!ForceCheck, controllerVars
<1>4. CASE Pins!Close /\ UNCHANGED controllerVars
  BY <1>1, <1>4 DEF Pins!Close, Pins!Forget, Pins!Tristate, Pins!IcspExit, controllerVars
<1>5. ASSUME NEW t \in Pins!Threads, Pins!Probing(t), UNCHANGED controllerVars PROVE Does
  <2>1. CASE Pins!ProbeInit(t)
    BY <1>1, <1>5, <2>1 DEF Pins!ProbeInit, Pins!IcspInit, controllerVars
  <2>2. CASE Pins!ProbeEnter(t)
    BY <1>1, <1>5, <2>2 DEF Pins!ProbeEnter, Pins!IcspEnter, Pins!Driven, controllerVars
  <2>3. CASE Pins!ProbeRead(t)
    <3>1. /\ ppc[t] = "read" /\ ppc' = [ppc EXCEPT ![t] = "exit"]
          /\ UNCHANGED <<lines, target, view>>
      BY <2>3 DEF Pins!ProbeRead
    <3>2. PICK id \in BOOLEAN : got' = [got EXCEPT ![t] = id]
      BY <2>3 DEF Pins!ProbeRead
    <3>3. UNCHANGED <<wired, badge, tick, ptimer>>
      BY <2>3 DEF Pins!ProbeRead
    <3> QED  BY <1>1, <1>5, <3>1, <3>2, <3>3 DEF controllerVars
  <2>4. CASE Pins!ProbeExit(t)
    BY <1>1, <1>5, <2>4 DEF Pins!ProbeExit, Pins!IcspExit, controllerVars
  <2>5. CASE Pins!Publish(t)
    BY <1>1, <1>5, <2>5 DEF Pins!Publish, controllerVars
  <2> QED  BY <1>5, <2>1, <2>2, <2>3, <2>4, <2>5 DEF Pins!Probing
<1>6. CASE Pins!TimerTick /\ UNCHANGED controllerVars
  BY <1>1, <1>6 DEF Pins!TimerTick, controllerVars
<1>7. CASE Pins!Free /\ UNCHANGED controllerVars
  BY <1>1, <1>7 DEF Pins!Free, controllerVars
<1>8. CASE Unplug
  BY <1>1, <1>8 DEF Unplug, controllerVars, icspVars, pinsVars
<1> QED  BY <1>2, <1>3, <1>4, <1>5, <1>6, <1>7, <1>8 DEF PinsStep, PinsUser, PinsFree

\* Only pins_enter_cb brings the wiring view up, from the menu.
LEMMA PinsOpens ==
  ASSUME PinsStep, view' = "pins", view # "pins"
  PROVE  ~SearchEnding
<1>1. PinsUser
  BY DEF PinsStep, PinsFree, Unplug, Pins!Probing, Pins!ProbeInit, Pins!ProbeEnter,
     Pins!ProbeRead, Pins!ProbeExit, Pins!Publish, Pins!TimerTick, Pins!Free
<1>2. AtMenu /\ HumanPace
  BY <1>1 DEF PinsUser, Pins!ForceCheck, Pins!Close
<1> QED  BY <1>2 DEF HumanPace

\* A step of the wiring view keeps the invariant.
LEMMA PinsInv == ASSUME AppInv, PinsStep PROVE AppInv'
<1>1. OpsInv' /\ HoldInv'
  BY PinsKeepsOps
<1>2. Pins!PinsTypeOK' /\ Placed' /\ view' \in {"menu", "dump", "pins"}
  BY PinsMoves, PinsLeaves DEF AppInv
<1>3. UNCHANGED <<gui, event, seen, kind, wpc, phase, cancel>>
  BY PinsLeaves DEF controllerVars, threadVars
<1>4. view' = view \/ (view # "dump" /\ view' # "dump")
  BY PinsLeaves
<1>5. SearchBody' /\ Starting'
  BY <1>3, <1>4 DEF AppInv, SearchBody, Starting, SearchStarting
<1>6. SessionsApart'
  <2>1. CASE view = "pins"
    BY <1>3, <2>1 DEF AppInv, SessionsApart, WorkerSession
  <2>2. CASE view # "pins" /\ view' = "pins"
    BY <1>3, <2>2, PinsOpens DEF AppInv, SearchBody, Starting, SearchStarting, SearchEnding,
       SessionsApart, WorkerSession
  <2> QED  BY <2>1, <2>2 DEF SessionsApart
<1>7. Released'
  <2>1. lines' = "released" \/ (UNCHANGED lines /\ ~Probes) \/ Probes'
    BY PinsMoves
  <2>2. WorkerSession => WorkerSession'
    BY <1>3 DEF WorkerSession
  <2> QED  BY <2>1, <2>2, PinsMoves DEF AppInv, Released
<1> QED  BY <1>1, <1>2, <1>5, <1>6, <1>7 DEF AppInv

-----------------------------------------------------------------------------
(* A worker's probe that the wiring view spoils.                           *)

\* It moves a worker that has just entered its session to the end of it; no such worker
\* is on the dump view or under a decision of the timer callback.
LEMMA SpoiledMoves ==
  ASSUME AppInv, Spoiled
  PROVE  /\ UNCHANGED <<phase, cancel, worker_active, worker, kind, count, otherVars>>
         /\ UNCHANGED pinsVars /\ UNCHANGED lines
         /\ Probes /\ view # "dump" /\ lines = "driven" /\ target' = "program"
         /\ \/ SearchRound /\ ~cancel /\ wpc' = "exit" /\ good' = FALSE
            \/ kind \in Dumps /\ wpc = "probe" /\ wpc' = "nodev" /\ UNCHANGED good
            \/ At("prog", "enter") /\ wpc' = "exit" /\ good' = FALSE
<1>1. Probes /\ lines = "driven" /\ target' = "program" /\ UNCHANGED lines
  BY DEF Spoiled, EnterLatches, IcspEnter, Driven
<1>2. view # "dump"
  <2>1. PICK t \in Pins!Threads : ppc[t] \in Pins!InSession
    BY <1>1 DEF Probes
  <2> QED  BY <2>1, ProbingWhere DEF Pins!InSession
<1> QED  BY <1>1, <1>2 DEF Spoiled, Goto

LEMMA SpoiledInv == ASSUME AppInv, Spoiled PROVE AppInv'
<1> USE DEF AppInv
<1>1. /\ UNCHANGED <<phase, cancel, worker_active, worker, kind, count, otherVars>>
      /\ UNCHANGED pinsVars /\ UNCHANGED lines
      /\ Probes /\ view # "dump" /\ lines = "driven" /\ target' = "program"
  BY SpoiledMoves
<1>2. \/ /\ kind = "search" /\ wpc \in {"first", "loop"} /\ ~cancel
         /\ wpc' = "exit" /\ good' = FALSE
      \/ kind \in Dumps /\ wpc = "probe" /\ wpc' = "nodev" /\ UNCHANGED good
      \/ kind = "prog" /\ wpc = "enter" /\ wpc' = "exit" /\ good' = FALSE
  BY SpoiledMoves DEF SearchRound, At
<1>3. wpc \in {"first", "loop", "probe", "enter"} /\ wpc' \in {"exit", "nodev"}
  BY <1>2
<1> USE DEF otherVars, uiVars, opVars, holdVars, timerVars
<1>4. FieldTypes'
  <2>1. FieldTypes /\ IcspTypeOK'
    BY <1>1 DEF OpsInv, IcspTypeOK
  <2>2. good' \in BOOLEAN
    BY <1>2, <2>1 DEF FieldTypes
  <2> QED  BY <1>1, <1>3, <2>1, <2>2 DEF FieldTypes, Phases, Ops, Writes
<1>5. Handover'
  BY <1>1, <1>3 DEF OpsInv, Handover, Handle, Searched, Resumes, JoinIsShort, FreedAlone,
     Alive
<1>6. Counting' /\ held' \in 0 .. HoldTicks
  BY <1>1, <1>2 DEF OpsInv, Counting, Counted, DoneIsComplete, Dumps
<1>7. Asked' /\ Where' /\ Screens' /\ Holds'
  BY <1>1 DEF HoldInv, Asked, Where, Screens, Holds
<1>8. Fits'
  BY <1>1, <1>3 DEF HoldInv, Fits, Alive, JustStarted
<1>9. Pins!PinsTypeOK' /\ Placed' /\ view' \in {"menu", "dump", "pins"}
  BY <1>1 DEF Pins!PinsTypeOK, Placed, pinsVars
<1>10. SearchBody' /\ Starting' /\ SessionsApart'
  BY <1>1, <1>2 DEF SearchBody, Starting, SearchStarting, SessionsApart, WorkerSession,
     Dumps
<1>11. Released'
  BY <1>1 DEF Released, Probes, pinsVars
<1> QED  BY <1>4, <1>5, <1>6, <1>7, <1>8, <1>9, <1>10, <1>11 DEF OpsInv, HoldInv

-----------------------------------------------------------------------------
(* The invariant holds.                                                    *)

LEMMA AppInitInv == AppInit => AppInv
<1> SUFFICES ASSUME AppInit PROVE AppInv
  OBVIOUS
<1>1. OpsInv /\ HoldInv
  BY InitInv, HoldInit DEF AppInit
<1> USE DEF AppInit, Init, Pins!PinsInit, Pins!Threads
<1>2. Pins!PinsTypeOK /\ Placed /\ view \in {"menu", "dump", "pins"}
  BY DEF Pins!PinsTypeOK, Placed
<1>3. SearchBody /\ Starting /\ SessionsApart /\ Released
  BY DEF SearchBody, Starting, SearchStarting, SessionsApart, Released
<1> QED  BY <1>1, <1>2, <1>3 DEF AppInv

LEMMA AppStutterInv == ASSUME AppInv, UNCHANGED appVars PROVE AppInv'
<1>1. UNCHANGED vars /\ UNCHANGED pinsVars
  BY DEF appVars
<1>2. OpsInv'
  BY <1>1, NextInv DEF AppInv
<1>3. HoldInv'
  BY <1>1, HoldIdle DEF AppInv
<1>4. Pins!PinsTypeOK'
  BY <1>1 DEF AppInv, Pins!PinsTypeOK, pinsVars
<1>5. UNCHANGED <<lines, target, Probes>>
  BY <1>1 DEF vars, icspVars, pinsVars, Probes
<1>6. UNCHANGED <<view, gui, cont, event, seen, phase, cancel, kind, wpc>>
  BY <1>1 DEF vars, uiVars, threadVars
<1>7. Placed'
  BY <1>1, <1>6 DEF AppInv, Placed, pinsVars
<1>8. SearchBody' /\ Starting' /\ SessionsApart'
  BY <1>6 DEF AppInv, SearchBody, Starting, SearchStarting, SessionsApart, WorkerSession
<1>9. Released'
  BY <1>5, <1>6 DEF AppInv, Released, WorkerSession
<1> QED  BY <1>2, <1>3, <1>4, <1>6, <1>7, <1>8, <1>9 DEF AppInv

LEMMA AppInvariant == AppSpec => []AppInv
<1>1. AppInv /\ [AppNext]_appVars => AppInv'
  BY ControllerInv, SpoiledInv, PinsInv, OthersStep, AppStutterInv DEF AppNext
<1> QED  BY <1>1, AppInitInv, PTL DEF AppSpec

\* Every step of the app is one of the controller, a spoiled probe, one of the wiring view,
\* or none.
LEMMA AppSteps == [AppNext]_appVars => Next \/ Spoiled \/ PinsStep \/ UNCHANGED vars
BY OthersStep DEF AppNext, Controller, Next, appVars

\* When the timer callback acts at once, what PicOpsProofs adds for that case stays too.
LEMMA AppFiring == ASSUME ~Preempt PROVE AppSpec => [](AppInv /\ Firing)
<1>1. ASSUME AppInv, Firing, Next PROVE Firing'
  BY <1>1, FiringNext DEF AppInv
<1>2. ASSUME AppInv, Firing, PinsStep PROVE Firing'
  <2>1. UNCHANGED controllerVars /\ (view' = view \/ (view # "dump" /\ view' # "dump"))
    BY <1>2, PinsLeaves
  <2> QED  BY <1>2, <2>1 DEF Firing, Alive, controllerVars, opVars, threadVars, holdVars,
      timerVars
<1>3. ASSUME AppInv, Firing, Spoiled PROVE Firing'
  <2>1. wpc \in {"first", "loop", "probe", "enter"}
    BY <1>3, SpoiledMoves DEF SearchRound, At
  <2> QED  BY <1>3, <2>1, SpoiledMoves DEF Firing, Alive, otherVars, uiVars, timerVars
<1>4. AppInv /\ Firing /\ [AppNext]_appVars => Firing'
  BY <1>1, <1>2, <1>3, AppSteps, HoldIdle
<1>5. AppInit => Firing
  BY HoldInit DEF AppInit
<1> QED  BY <1>4, <1>5, AppInvariant, PTL DEF AppSpec

-----------------------------------------------------------------------------
(* The theorems.                                                           *)

\* Every variable of both has its type, and the wiring view has the input thread to itself.
THEOREM AppTypeHolds == AppSpec => []AppTypeOK
<1>1. AppInv => AppTypeOK
  BY DEF AppInv, OpsInv, Counting, Placed, AppTypeOK, CounterTypes
<1> QED  BY <1>1, AppInvariant, PTL

\* While the wiring view drives the lines, a search that Back gave up is in no session and
\* opens none again.
THEOREM ApartHolds == AppSpec => []SessionsApart
<1>1. AppInv => SessionsApart
  BY DEF AppInv
<1> QED  BY <1>1, AppInvariant, PTL

\* With no probe and no worker under way, the lines are released and the target runs, on
\* every screen and after the app has gone.
THEOREM QuietHolds == AppSpec => []QuietReleased
<1>1. AppInv => QuietReleased
  BY DEF AppInv, Released, WorkerSession, Alive, QuietReleased
<1> QED  BY <1>1, AppInvariant, PTL

\* A step of the wiring view, or a probe it spoils, starts no worker, takes no decision and
\* leaves the request alone.
LEMMA PinsLeavesRequest ==
  ASSUME AppInv, PinsStep \/ Spoiled
  PROVE  UNCHANGED <<tmr, verify_only, keep_boot, write_path>> /\ ~Launching("prog")
<1>1. CASE PinsStep
  BY <1>1, PinsLeaves DEF controllerVars, opVars, threadVars, timerVars, Launching
<1>2. CASE Spoiled
  BY <1>2, SpoiledMoves DEF otherVars, opVars, timerVars, Launching
<1> QED  BY <1>1, <1>2

\* The hold gate holds beside the wiring view: a write starts only on the timer callback's
\* decision, taken on its confirm screen with OK down for the whole hold.
THEOREM AppDecisionHolds == AppSpec => WriteIsDecided
<1>1. AppInv /\ [AppNext]_appVars =>
        [/\ tmr' = "fire" /\ tmr # "fire" =>
              view = "dump" /\ phase = "Confirm" /\ op \in Writes
              /\ key # "up" /\ holding /\ held = HoldTicks
         /\ Launching("prog") /\ ~verify_only => tmr = "fire"]_vars
  BY AppSteps, DecidedAfterHold, PinsLeavesRequest DEF AppInv
<1> QED  BY <1>1, AppInvariant, PTL DEF AppSpec, WriteIsDecided

\* Nor does the wiring view change the request of a write or verify: who changes it tells a
\* running one to stop and waits for it.
THEOREM AppRequestHolds == AppSpec => NewRequestStops
<1>1. AppInv /\ [AppNext]_appVars =>
        [Alive /\ kind = "prog" /\ ~UNCHANGED <<verify_only, keep_boot, write_path>> =>
           cancel' /\ gui' = "join"]_vars
  BY AppSteps, RequestStops, PinsLeavesRequest DEF AppInv
<1> QED  BY <1>1, AppInvariant, PTL DEF AppSpec, NewRequestStops

\* And no probe reaches the target on the RAM, write and verify screens.
THEOREM AppPromptHolds == ASSUME ~Preempt PROVE AppSpec => PromptLeavesTarget
<1>1. ASSUME AppInv, PinsStep \/ Spoiled, view = "dump" PROVE UNCHANGED target
  BY <1>1, PinsLeaves, SpoiledMoves DEF icspVars
<1>2. AppInv /\ Firing /\ [AppNext]_appVars =>
        [view = "dump" /\ op # "DumpFlash" /\ target' # target =>
           kind = IF op = "DumpRam" THEN "ram" ELSE "prog"]_vars
  BY <1>1, AppSteps, TargetKept DEF AppInv
<1> QED  BY <1>2, AppFiring, PTL DEF AppSpec, PromptLeavesTarget
=============================================================================
