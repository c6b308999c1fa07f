---------------------------- MODULE PicOpsProofs ----------------------------
(***************************************************************************)
(* Theorems about the controller, for every length of the hold, of a dump  *)
(* and every set of images.  Whether or not the timer callback can be      *)
(* preempted: its types, the hand-over between workers, the decision that  *)
(* starts a write, and that no running write is left with a new request.   *)
(* When the callback acts at once on what it decided: a screen that only   *)
(* asks leaves the target alone.                                           *)
(***************************************************************************)
EXTENDS PicOps, TLAPS

-----------------------------------------------------------------------------
(* The inductive invariant.                                                *)

\* ops->worker is the handle of the thread there is.
Handle == wpc # "none" => worker

\* A dump counts its chunks: it is in the loop until all are read or it is cancelled or
\* fails; an engine run is good only when it has gone all the way.
Counted ==
  /\ kind \in Dumps /\ wpc \in {"begin", "alloc", "probe", "id"} => count = 0
  /\ kind \in Dumps /\ wpc = "chunk" => count < NChunks
  /\ kind \in Dumps /\ wpc \in {"exit", "result"} => ~good \/ cancel \/ count = NChunks
  /\ kind = "prog" /\ wpc = "engine" => ~good
  /\ kind = "prog" /\ wpc \in {"exit", "result"} /\ good => count = NChunks

\* A search shows Found at its very end, after worker_active was cleared, and no other
\* result.
Searched ==
  kind = "search" =>
    /\ phase \in {"Searching", "Idle", "Found"}
    /\ phase = "Found" => wpc = "done"
    /\ wpc \in {"publish", "done"} => ~worker_active

\* What the input thread goes on with; in the cleanup the timer is off, and once it
\* waits for the worker no callback is in progress.
Resumes ==
  /\ gui = "pick" => cont \in Writes \cup {"Verify"}
  /\ gui = "free" \/ (gui = "join" /\ cont = "free") => ~timerOn
  /\ gui = "join" /\ cont = "free" => tmr = "idle"

Handover == Handle /\ Searched /\ Resumes /\ JoinIsShort /\ FreedAlone
Counting == count \in 0 .. NChunks /\ Counted /\ DoneIsComplete

OpsInv == FieldTypes /\ held \in 0 .. HoldTicks /\ Handover /\ Counting

LEMMA InitInv == Init => OpsInv
<1> SUFFICES ASSUME Init PROVE OpsInv
  OBVIOUS
<1>1. FieldTypes
  BY DEF Init, FieldTypes, IcspTypeOK, Phases, Ops, Writes, Dumps
<1>2. Handover
  BY DEF Init, Handover, Handle, Searched, Resumes, JoinIsShort, FreedAlone, Alive, Writes
<1>3. held \in 0 .. HoldTicks /\ Counting
  BY OpsAssumption DEF Init, Counting, Counted, DoneIsComplete, Dumps
<1> QED  BY <1>1, <1>2, <1>3 DEF OpsInv

-----------------------------------------------------------------------------
(* Each thread keeps it.                                                   *)

\* The flags keep being flags: stated apart, for the provers to take them as Booleans.
Flags ==
  /\ verify_only \in BOOLEAN /\ keep_boot \in BOOLEAN /\ cancel \in BOOLEAN
  /\ worker_active \in BOOLEAN /\ worker \in BOOLEAN /\ good \in BOOLEAN
  /\ holding \in BOOLEAN /\ timerOn \in BOOLEAN /\ wired \in BOOLEAN

\* A worker thread keeps the flags Boolean.
LEMMA WorkerFlags == ASSUME FieldTypes, Worker PROVE Flags'
<1> USE DEF FieldTypes, Flags, Goto, otherVars, opVars, holdVars, timerVars
<1>1. CASE SearchBegin  BY <1>1 DEF SearchBegin, InitLines
<1>2. CASE SearchProbe  BY <1>2 DEF SearchProbe, SearchRound, Probe
<1>3. CASE SearchExit  BY <1>3 DEF SearchExit
<1>4. CASE SearchPublish  BY <1>4 DEF SearchPublish
<1>5. CASE DumpBegin  BY <1>5 DEF DumpBegin
<1>6. CASE DumpAlloc  BY <1>6 DEF DumpAlloc
<1>7. CASE DumpProbe  BY <1>7 DEF DumpProbe, Probe
<1>8. CASE DumpNoDevice  BY <1>8 DEF DumpNoDevice
<1>9. CASE DumpId  BY <1>9 DEF DumpId
<1>10. CASE DumpChunk  BY <1>10 DEF DumpChunk
<1>11. CASE DumpExit  BY <1>11 DEF DumpExit
<1>12. CASE DumpResult  BY <1>12 DEF DumpResult
<1>13. CASE ProgBegin  BY <1>13 DEF ProgBegin, InitLines
<1>14. CASE ProgConnect  BY <1>14 DEF ProgConnect
<1>15. CASE ProgEnter  BY <1>15 DEF ProgEnter, Probe
<1>16. CASE ProgEngine  BY <1>16 DEF ProgEngine
<1>17. CASE ProgExit  BY <1>17 DEF ProgExit
<1>18. CASE ProgResult  BY <1>18 DEF ProgResult
<1>19. CASE WorkerReturns  BY <1>19 DEF WorkerReturns
<1> QED  BY <1>1, <1>2, <1>3, <1>4, <1>5, <1>6, <1>7, <1>8, <1>9, <1>10, <1>11, <1>12,
    <1>13, <1>14, <1>15, <1>16, <1>17, <1>18, <1>19 DEF Worker, Search, Dump, Prog

\* A worker thread keeps the types.
LEMMA WorkerFields == ASSUME FieldTypes, Worker, Flags' PROVE FieldTypes'
<1> USE DEF FieldTypes, Flags, At, Goto, otherVars, uiVars, opVars, holdVars, timerVars,
    IcspInit, IcspExit,
            IcspEnter, IcspTypeOK, icspVars, Phases, Ops, Writes, Dumps, EnterLatches,
                Driven
<1>1. CASE SearchBegin  BY <1>1 DEF SearchBegin, InitLines
<1>2. CASE SearchProbe  BY <1>2 DEF SearchProbe, SearchRound, Probe
<1>3. CASE SearchExit  BY <1>3 DEF SearchExit
<1>4. CASE SearchPublish  BY <1>4 DEF SearchPublish
<1>5. CASE DumpBegin  BY <1>5 DEF DumpBegin
<1>6. CASE DumpAlloc  BY <1>6 DEF DumpAlloc
<1>7. CASE DumpProbe  BY <1>7 DEF DumpProbe, Probe
<1>8. CASE DumpNoDevice  BY <1>8 DEF DumpNoDevice
<1>9. CASE DumpId  BY <1>9 DEF DumpId
<1>10. CASE DumpChunk  BY <1>10 DEF DumpChunk
<1>11. CASE DumpExit  BY <1>11 DEF DumpExit
<1>12. CASE DumpResult  BY <1>12 DEF DumpResult
<1>13. CASE ProgBegin  BY <1>13 DEF ProgBegin, InitLines
<1>14. CASE ProgConnect  BY <1>14 DEF ProgConnect
<1>15. CASE ProgEnter  BY <1>15 DEF ProgEnter, Probe
<1>16. CASE ProgEngine  BY <1>16 DEF ProgEngine
<1>17. CASE ProgExit  BY <1>17 DEF ProgExit
<1>18. CASE ProgResult  BY <1>18 DEF ProgResult
<1>19. CASE WorkerReturns  BY <1>19 DEF WorkerReturns
<1> QED  BY <1>1, <1>2, <1>3, <1>4, <1>5, <1>6, <1>7, <1>8, <1>9, <1>10, <1>11, <1>12,
    <1>13, <1>14, <1>15, <1>16, <1>17, <1>18, <1>19 DEF Worker, Search, Dump, Prog

\* A worker thread keeps the hand-over.
LEMMA WorkerHandover == ASSUME FieldTypes, Handover, Worker, Flags' PROVE Handover'
<1> USE DEF FieldTypes, Flags, Dumps, Handover, Handle, Searched, Resumes, JoinIsShort,
    FreedAlone, Alive, At, Goto, otherVars, uiVars, opVars, holdVars, timerVars
<1>1. CASE SearchBegin  BY <1>1 DEF SearchBegin, InitLines
<1>2. CASE SearchProbe
  <2>1. UNCHANGED <<gui, cont, worker, kind, cancel, tmr, timerOn>> /\ UNCHANGED phase
    BY <1>2 DEF SearchProbe, Probe
  <2>2. kind = "search" /\ wpc \in {"first", "loop"} /\ UNCHANGED worker_active
    BY <1>2 DEF SearchProbe, SearchRound
  <2>3. wpc' \in {"inactive", "exit"}
    BY <1>2 DEF SearchProbe, Probe
  <2> QED  BY <2>1, <2>2, <2>3
<1>3. CASE SearchExit
  <2>1. UNCHANGED <<gui, cont, worker, kind, cancel, tmr, timerOn>> /\ UNCHANGED phase
    BY <1>3 DEF SearchExit
  <2>2. kind = "search" /\ wpc = "exit"
    BY <1>3 DEF SearchExit
  <2>3. CASE wpc' = "loop" /\ UNCHANGED worker_active
    BY <2>1, <2>2, <2>3
  <2>4. CASE wpc' = "publish" /\ worker_active' = FALSE
    BY <2>1, <2>2, <2>4
  <2> QED  BY <1>3, <2>3, <2>4 DEF SearchExit
<1>4. CASE SearchPublish  BY <1>4 DEF SearchPublish
<1>5. CASE DumpBegin  BY <1>5 DEF DumpBegin
<1>6. CASE DumpAlloc
  <2>1. UNCHANGED <<gui, cont, worker, worker_active, kind, cancel, tmr, timerOn>>
    BY <1>6 DEF DumpAlloc
  <2>2. kind \in Dumps /\ wpc = "alloc" /\ wpc' \in {"inactive", "probe"}
    BY <1>6 DEF DumpAlloc
  <2> QED  BY <2>1, <2>2
<1>7. CASE DumpProbe
  <2>1. UNCHANGED <<gui, cont, worker, worker_active, kind, cancel, tmr, timerOn>>
    BY <1>7 DEF DumpProbe, Probe
  <2>2. kind \in Dumps /\ wpc = "probe" /\ wpc' \in {"id", "nodev"}
    BY <1>7 DEF DumpProbe, Probe
  <2> QED  BY <2>1, <2>2
<1>8. CASE DumpNoDevice  BY <1>8 DEF DumpNoDevice
<1>9. CASE DumpId
  <2>1. UNCHANGED <<gui, cont, worker, worker_active, kind, cancel, tmr, timerOn>>
    BY <1>9 DEF DumpId
  <2>2. kind \in Dumps /\ wpc = "id" /\ wpc' \in {"chunk", "exit"}
    BY <1>9 DEF DumpId
  <2> QED  BY <2>1, <2>2
<1>10. CASE DumpChunk
  <2>1. UNCHANGED <<gui, cont, worker, worker_active, kind, cancel, tmr, timerOn>>
    BY <1>10 DEF DumpChunk
  <2>2. kind \in Dumps /\ wpc = "chunk" /\ wpc' \in {"chunk", "exit"}
    BY <1>10 DEF DumpChunk
  <2> QED  BY <2>1, <2>2
<1>11. CASE DumpExit  BY <1>11 DEF DumpExit
<1>12. CASE DumpResult  BY <1>12 DEF DumpResult
<1>13. CASE ProgBegin  BY <1>13 DEF ProgBegin, InitLines
<1>14. CASE ProgConnect  BY <1>14 DEF ProgConnect
<1>15. CASE ProgEnter  BY <1>15 DEF ProgEnter, Probe
<1>16. CASE ProgEngine  BY <1>16 DEF ProgEngine
<1>17. CASE ProgExit  BY <1>17 DEF ProgExit
<1>18. CASE ProgResult  BY <1>18 DEF ProgResult
<1>19. CASE WorkerReturns  BY <1>19 DEF WorkerReturns
<1> QED  BY <1>1, <1>2, <1>3, <1>4, <1>5, <1>6, <1>7, <1>8, <1>9, <1>10, <1>11, <1>12,
    <1>13, <1>14, <1>15, <1>16, <1>17, <1>18, <1>19 DEF Worker, Search, Dump, Prog

\* A worker thread keeps the workers' counts and the hold's.
LEMMA WorkerCounting ==
  ASSUME FieldTypes, Counting, Searched, Worker, Flags'
  PROVE  Counting' /\ held' = held
<1> USE OpsAssumption DEF FieldTypes, Flags, Counting, Counted, Searched, DoneIsComplete,
    Dumps, At, Goto, otherVars, uiVars, opVars, holdVars, timerVars
<1>1. CASE SearchBegin  BY <1>1 DEF SearchBegin, InitLines
<1>2. CASE SearchProbe  BY <1>2 DEF SearchProbe, SearchRound, Probe
<1>3. CASE SearchExit  BY <1>3 DEF SearchExit
<1>4. CASE SearchPublish  BY <1>4 DEF SearchPublish
<1>5. CASE DumpBegin  BY <1>5 DEF DumpBegin
<1>6. CASE DumpAlloc  BY <1>6 DEF DumpAlloc
<1>7. CASE DumpProbe  BY <1>7 DEF DumpProbe, Probe
<1>8. CASE DumpNoDevice  BY <1>8 DEF DumpNoDevice
<1>9. CASE DumpId  BY <1>9 DEF DumpId
<1>10. CASE DumpChunk  BY <1>10 DEF DumpChunk
<1>11. CASE DumpExit  BY <1>11 DEF DumpExit
<1>12. CASE DumpResult  BY <1>12 DEF DumpResult
<1>13. CASE ProgBegin  BY <1>13 DEF ProgBegin, InitLines
<1>14. CASE ProgConnect  BY <1>14 DEF ProgConnect
<1>15. CASE ProgEnter  BY <1>15 DEF ProgEnter, Probe
<1>16. CASE ProgEngine  BY <1>16 DEF ProgEngine
<1>17. CASE ProgExit  BY <1>17 DEF ProgExit
<1>18. CASE ProgResult  BY <1>18 DEF ProgResult
<1>19. CASE WorkerReturns  BY <1>19 DEF WorkerReturns
<1> QED  BY <1>1, <1>2, <1>3, <1>4, <1>5, <1>6, <1>7, <1>8, <1>9, <1>10, <1>11, <1>12,
    <1>13, <1>14, <1>15, <1>16, <1>17, <1>18, <1>19 DEF Worker, Search, Dump, Prog

\* The input thread's own steps keep the flags Boolean.
LEMMA InputFlags == ASSUME FieldTypes, InputThread PROVE Flags'
<1> USE DEF FieldTypes, Flags, uiVars, opVars, threadVars, holdVars, timerVars
<1>1. CASE EnterSearch  BY <1>1 DEF EnterSearch, Entered, Launch
<1>2. CASE EnterPrompt  BY <1>2 DEF EnterPrompt, Entered, Freed
<1>3. CASE StartJob  BY <1>3 DEF StartJob, Launch
<1>4. CASE FreeTimer  BY <1>4 DEF FreeTimer, JoinThen
<1>5. CASE Gone  BY <1>5 DEF Gone, Freed
<1>6. CASE Back  BY <1>6 DEF Back, Handled
<1>7. CASE LongBack  BY <1>7 DEF LongBack, Handled
<1>8. CASE PressAtConfirm  BY <1>8 DEF PressAtConfirm, Handled
<1>9. CASE ReleaseAtConfirm  BY <1>9 DEF ReleaseAtConfirm, Handled
<1>10. CASE OkStarts  BY <1>10 DEF OkStarts, JoinThen
<1>11. CASE OkAgain  BY <1>11 DEF OkAgain, JoinThen
<1>12. CASE Ignored  BY <1>12 DEF Ignored, Handled
<1> QED  BY <1>1, <1>2, <1>3, <1>4, <1>5, <1>6, <1>7, <1>8, <1>9, <1>10, <1>11, <1>12 DEF
    InputThread

\* The input thread's own steps keep the types.
LEMMA InputFields == ASSUME FieldTypes, Flags', Resumes, InputThread PROVE FieldTypes'
<1> USE DEF FieldTypes, Flags, uiVars, opVars, threadVars, holdVars, timerVars,
    IcspTypeOK, icspVars, Phases, Ops, Writes, Dumps, Resumes
<1>1. CASE EnterSearch  BY <1>1 DEF EnterSearch, Entered, Launch
<1>2. CASE EnterPrompt  BY <1>2 DEF EnterPrompt, Entered, Freed
<1>3. CASE StartJob  BY <1>3 DEF StartJob, Launch
<1>4. CASE FreeTimer
  <2>1. gui' = "join" /\ event' = "none" /\ seen' = "Idle" /\ cont' = "free"
    BY <1>4 DEF FreeTimer, JoinThen
  <2>2. UNCHANGED <<icspVars, view, key, phase, opVars, kind, wpc, timerVars>>
    BY <1>4 DEF FreeTimer, JoinThen
  <2> QED  BY <2>1, <2>2
<1>5. CASE Gone  BY <1>5 DEF Gone, Freed
<1>6. CASE Back  BY <1>6 DEF Back, Handled
<1>7. CASE LongBack  BY <1>7 DEF LongBack, Handled
<1>8. CASE PressAtConfirm  BY <1>8 DEF PressAtConfirm, Handled
<1>9. CASE ReleaseAtConfirm  BY <1>9 DEF ReleaseAtConfirm, Handled
<1>10. CASE OkStarts  BY <1>10 DEF OkStarts, JoinThen
<1>11. CASE OkAgain
  <2>1. /\ gui' = "join" /\ event' = "none" /\ seen' = "Idle"
        /\ cont' \in {"ram", "confirm", "search"}
    BY <1>11 DEF OkAgain, JoinThen
  <2>2. UNCHANGED <<icspVars, view, key, phase, opVars, kind, wpc, timerVars>>
    BY <1>11 DEF OkAgain, JoinThen
  <2> QED  BY <2>1, <2>2
<1>12. CASE Ignored  BY <1>12 DEF Ignored, Handled
<1> QED  BY <1>1, <1>2, <1>3, <1>4, <1>5, <1>6, <1>7, <1>8, <1>9, <1>10, <1>11, <1>12 DEF
    InputThread

\* The input thread's own steps keep the hand-over.
LEMMA InputHandover == ASSUME FieldTypes, Flags', Handover, InputThread PROVE Handover'
<1> USE DEF FieldTypes, Flags, uiVars, opVars, threadVars, holdVars, timerVars, Dumps,
    Writes, Handover, Handle, Searched, Resumes, JoinIsShort, FreedAlone, Alive, AtMenu
<1>1. CASE EnterSearch  BY <1>1 DEF EnterSearch, Entered, Launch
<1>2. CASE EnterPrompt  BY <1>2 DEF EnterPrompt, Entered, Freed
<1>3. CASE StartJob  BY <1>3 DEF StartJob, Launch
<1>4. CASE FreeTimer  BY <1>4 DEF FreeTimer, JoinThen
<1>5. CASE Gone  BY <1>5 DEF Gone, Freed
<1>6. CASE Back  BY <1>6 DEF Back, Handled
<1>7. CASE LongBack  BY <1>7 DEF LongBack, Handled
<1>8. CASE PressAtConfirm  BY <1>8 DEF PressAtConfirm, Handled
<1>9. CASE ReleaseAtConfirm  BY <1>9 DEF ReleaseAtConfirm, Handled
<1>10. CASE OkStarts  BY <1>10 DEF OkStarts, JoinThen
<1>11. CASE OkAgain
  <2>1. gui' = "join" /\ cont' \in {"ram", "confirm", "search"}
    BY <1>11 DEF OkAgain, JoinThen
  <2>2. UNCHANGED <<phase, worker_active, worker, kind, wpc, timerVars>>
    BY <1>11 DEF OkAgain, JoinThen
  <2>3. worker => cancel'
    BY <1>11 DEF OkAgain, JoinThen
  <2> QED  BY <2>1, <2>2, <2>3
<1>12. CASE Ignored  BY <1>12 DEF Ignored, Handled
<1> QED  BY <1>1, <1>2, <1>3, <1>4, <1>5, <1>6, <1>7, <1>8, <1>9, <1>10, <1>11, <1>12 DEF
    InputThread

\* The input thread's own steps keep the workers' counts and the hold's.
LEMMA InputCounting ==
  ASSUME FieldTypes, Flags', Counting, held \in 0 .. HoldTicks, InputThread
  PROVE  Counting' /\ held' \in 0 .. HoldTicks
<1> USE OpsAssumption DEF FieldTypes, Flags, uiVars, opVars, threadVars, holdVars,
    timerVars, Dumps, Counting, Counted, DoneIsComplete
<1>1. CASE EnterSearch  BY <1>1 DEF EnterSearch, Entered, Launch
<1>2. CASE EnterPrompt  BY <1>2 DEF EnterPrompt, Entered, Freed
<1>3. CASE StartJob  BY <1>3 DEF StartJob, Launch
<1>4. CASE FreeTimer  BY <1>4 DEF FreeTimer, JoinThen
<1>5. CASE Gone  BY <1>5 DEF Gone, Freed
<1>6. CASE Back  BY <1>6 DEF Back, Handled
<1>7. CASE LongBack  BY <1>7 DEF LongBack, Handled
<1>8. CASE PressAtConfirm  BY <1>8 DEF PressAtConfirm, Handled
<1>9. CASE ReleaseAtConfirm  BY <1>9 DEF ReleaseAtConfirm, Handled
<1>10. CASE OkStarts  BY <1>10 DEF OkStarts, JoinThen
<1>11. CASE OkAgain
  <2>1. UNCHANGED <<phase, kind, wpc, count, good, held>>
    BY <1>11 DEF OkAgain, JoinThen
  <2>2. cancel => cancel'
    BY <1>11 DEF OkAgain, JoinThen
  <2> QED  BY <2>1, <2>2
<1>12. CASE Ignored  BY <1>12 DEF Ignored, Handled
<1> QED  BY <1>1, <1>2, <1>3, <1>4, <1>5, <1>6, <1>7, <1>8, <1>9, <1>10, <1>11, <1>12 DEF
    InputThread

\* What the user makes the input thread do keep the flags Boolean.
LEMMA UserFlags == ASSUME FieldTypes, User PROVE Flags'
<1> USE DEF FieldTypes, Flags, uiVars, opVars, threadVars, holdVars, timerVars
<1>1. CASE MenuDump  BY <1>1 DEF MenuDump, JoinThen
<1>2. CASE MenuPick  BY <1>2 DEF MenuPick
<1>3. CASE Picked  BY <1>3 DEF Picked, JoinThen
<1>4. CASE PickAborted  BY <1>4 DEF PickAborted
<1>5. CASE Leave  BY <1>5 DEF Leave
<1>6. CASE UserInput  BY <1>6 DEF UserInput, Input
<1>7. CASE ReleaseAtMenu  BY <1>7 DEF ReleaseAtMenu
<1> QED  BY <1>1, <1>2, <1>3, <1>4, <1>5, <1>6, <1>7 DEF User

\* What the user makes the input thread do keep the types.
LEMMA UserFields == ASSUME FieldTypes, Flags', Resumes, User PROVE FieldTypes'
<1> USE DEF FieldTypes, Flags, uiVars, opVars, threadVars, holdVars, timerVars,
    IcspTypeOK, icspVars, Phases, Ops, Writes, Dumps, Resumes
<1>1. CASE MenuDump
  <2>1. gui' = "join" /\ event' = "none" /\ seen' = "Idle" /\ cont' \in {"ram", "search"}
    BY <1>1 DEF MenuDump, JoinThen
  <2>2. op' \in {"DumpFlash", "DumpRam"} /\ job' \in Dumps
    BY <1>1 DEF MenuDump
  <2>3. UNCHANGED <<icspVars, view, key, phase, write_path, kind, wpc, timerVars>>
    BY <1>1 DEF MenuDump, JoinThen
  <2> QED  BY <2>1, <2>2, <2>3
<1>2. CASE MenuPick  BY <1>2 DEF MenuPick
<1>3. CASE Picked
  <2>1. gui' = "join" /\ event' = "none" /\ seen' = "Idle" /\ cont' = "confirm"
    BY <1>3 DEF Picked, JoinThen
  <2>2. op' \in Writes \cup {"Verify"} /\ write_path' \in Paths
    BY <1>3 DEF Picked
  <2>3. UNCHANGED <<icspVars, view, key, phase, job, kind, wpc, timerVars>>
    BY <1>3 DEF Picked, JoinThen
  <2> QED  BY <2>1, <2>2, <2>3
<1>4. CASE PickAborted  BY <1>4 DEF PickAborted
<1>5. CASE Leave  BY <1>5 DEF Leave
<1>6. CASE UserInput  BY <1>6 DEF UserInput, Input
<1>7. CASE ReleaseAtMenu  BY <1>7 DEF ReleaseAtMenu
<1> QED  BY <1>1, <1>2, <1>3, <1>4, <1>5, <1>6, <1>7 DEF User

\* What the user makes the input thread do keep the hand-over.
LEMMA UserHandover == ASSUME FieldTypes, Flags', Handover, User PROVE Handover'
<1> USE DEF FieldTypes, Flags, uiVars, opVars, threadVars, holdVars, timerVars, Dumps,
    Writes, Handover, Handle, Searched, Resumes, JoinIsShort, FreedAlone, Alive, AtMenu
<1>1. CASE MenuDump  BY <1>1 DEF MenuDump, JoinThen
<1>2. CASE MenuPick  BY <1>2 DEF MenuPick
<1>3. CASE Picked  BY <1>3 DEF Picked, JoinThen
<1>4. CASE PickAborted  BY <1>4 DEF PickAborted
<1>5. CASE Leave  BY <1>5 DEF Leave
<1>6. CASE UserInput  BY <1>6 DEF UserInput, Input
<1>7. CASE ReleaseAtMenu  BY <1>7 DEF ReleaseAtMenu
<1> QED  BY <1>1, <1>2, <1>3, <1>4, <1>5, <1>6, <1>7 DEF User

\* What the user makes the input thread do keep the workers' counts and the hold's.
LEMMA UserCounting ==
  ASSUME FieldTypes, Flags', Counting, held \in 0 .. HoldTicks, User
  PROVE  Counting' /\ held' \in 0 .. HoldTicks
<1> USE OpsAssumption DEF FieldTypes, Flags, uiVars, opVars, threadVars, holdVars,
    timerVars, Dumps, Counting, Counted, DoneIsComplete
<1>1. CASE MenuDump
  <2>1. UNCHANGED <<phase, kind, wpc, count, good, held>>
    BY <1>1 DEF MenuDump, JoinThen
  <2>2. cancel => cancel'
    BY <1>1 DEF MenuDump, JoinThen
  <2> QED  BY <2>1, <2>2
<1>2. CASE MenuPick  BY <1>2 DEF MenuPick
<1>3. CASE Picked  BY <1>3 DEF Picked, JoinThen
<1>4. CASE PickAborted  BY <1>4 DEF PickAborted
<1>5. CASE Leave  BY <1>5 DEF Leave
<1>6. CASE UserInput  BY <1>6 DEF UserInput, Input
<1>7. CASE ReleaseAtMenu  BY <1>7 DEF ReleaseAtMenu
<1> QED  BY <1>1, <1>2, <1>3, <1>4, <1>5, <1>6, <1>7 DEF User

\* The timer task keeps the flags Boolean.
LEMMA TimerFlags == ASSUME FieldTypes, TimerTask PROVE Flags'
<1> USE DEF FieldTypes, Flags, uiVars, opVars, threadVars, holdVars, timerVars
<1>1. CASE TimerDecide  BY <1>1 DEF TimerDecide, HoldDone
<1>2. CASE TimerStop  BY <1>2 DEF TimerStop
<1>3. CASE TimerFire  BY <1>3 DEF TimerFire, Launch
<1> QED  BY <1>1, <1>2, <1>3 DEF TimerTask

\* The timer task keeps the types.
LEMMA TimerFields == ASSUME FieldTypes, Flags', Resumes, TimerTask PROVE FieldTypes'
<1> USE DEF FieldTypes, Flags, uiVars, opVars, threadVars, holdVars, timerVars,
    IcspTypeOK, icspVars, Phases, Ops, Writes, Dumps, Resumes
<1>1. CASE TimerDecide  BY <1>1 DEF TimerDecide, HoldDone
<1>2. CASE TimerStop  BY <1>2 DEF TimerStop
<1>3. CASE TimerFire  BY <1>3 DEF TimerFire, Launch
<1> QED  BY <1>1, <1>2, <1>3 DEF TimerTask

\* The timer task keeps the hand-over.
LEMMA TimerHandover == ASSUME FieldTypes, Flags', Handover, TimerTask PROVE Handover'
<1> USE DEF FieldTypes, Flags, uiVars, opVars, threadVars, holdVars, timerVars, Dumps,
    Writes, Handover, Handle, Searched, Resumes, JoinIsShort, FreedAlone, Alive
<1>1. CASE TimerDecide  BY <1>1 DEF TimerDecide, HoldDone
<1>2. CASE TimerStop  BY <1>2 DEF TimerStop
<1>3. CASE TimerFire  BY <1>3 DEF TimerFire, Launch
<1> QED  BY <1>1, <1>2, <1>3 DEF TimerTask

\* The timer task keeps the workers' counts and the hold's.
LEMMA TimerCounting ==
  ASSUME FieldTypes, Flags', Counting, held \in 0 .. HoldTicks, TimerTask
  PROVE  Counting' /\ held' \in 0 .. HoldTicks
<1> USE OpsAssumption DEF FieldTypes, Flags, uiVars, opVars, threadVars, holdVars,
    timerVars, Dumps, Counting, Counted, DoneIsComplete
<1>1. CASE TimerDecide  BY <1>1 DEF TimerDecide, HoldDone
<1>2. CASE TimerStop  BY <1>2 DEF TimerStop
<1>3. CASE TimerFire  BY <1>3 DEF TimerFire, Launch
<1> QED  BY <1>1, <1>2, <1>3 DEF TimerTask


-----------------------------------------------------------------------------
(* Every step keeps the invariant.                                         *)

LEMMA StutterInv == ASSUME OpsInv, UNCHANGED vars PROVE OpsInv'
<1> USE DEF vars, icspVars, uiVars, opVars, threadVars, holdVars, timerVars
<1>1. FieldTypes' /\ held' \in 0 .. HoldTicks
  BY DEF OpsInv, FieldTypes, IcspTypeOK, Phases, Ops, Writes, Dumps
<1>2. Handover'
  BY DEF OpsInv, Handover, Handle, Searched, Resumes, JoinIsShort, FreedAlone, Alive, Writes
<1>3. Counting'
  BY DEF OpsInv, Counting, Counted, DoneIsComplete, Dumps
<1> QED  BY <1>1, <1>2, <1>3 DEF OpsInv

LEMMA PlugInv == ASSUME OpsInv, Plug PROVE OpsInv'
<1> USE DEF Plug, icspVars, uiVars, opVars, threadVars, holdVars, timerVars
<1>1. FieldTypes' /\ held' \in 0 .. HoldTicks
  BY DEF OpsInv, FieldTypes, IcspTypeOK, Phases, Ops, Writes, Dumps
<1>2. Handover'
  BY DEF OpsInv, Handover, Handle, Searched, Resumes, JoinIsShort, FreedAlone, Alive, Writes
<1>3. Counting'
  BY DEF OpsInv, Counting, Counted, DoneIsComplete, Dumps
<1> QED  BY <1>1, <1>2, <1>3 DEF OpsInv

LEMMA NextInv == OpsInv /\ [Next]_vars => OpsInv'
<1> SUFFICES ASSUME OpsInv, [Next]_vars PROVE OpsInv'
  OBVIOUS
<1>0. FieldTypes /\ Handover /\ Resumes /\ Searched /\ Counting /\ held \in 0 .. HoldTicks
  BY DEF OpsInv, Handover
<1>1. CASE InputThread
  BY <1>0, <1>1, InputFlags, InputFields, InputHandover, InputCounting DEF OpsInv
<1>2. CASE User
  BY <1>0, <1>2, UserFlags, UserFields, UserHandover, UserCounting DEF OpsInv
<1>3. CASE TimerTask
  BY <1>0, <1>3, TimerFlags, TimerFields, TimerHandover, TimerCounting DEF OpsInv
<1>4. CASE Worker
  BY <1>0, <1>4, WorkerFlags, WorkerFields, WorkerHandover, WorkerCounting DEF OpsInv
<1>5. CASE Plug
  BY <1>5, PlugInv
<1>6. CASE UNCHANGED vars
  BY <1>6, StutterInv
<1> QED  BY <1>1, <1>2, <1>3, <1>4, <1>5, <1>6 DEF Next

\* The controller only ever switches between the menu and its own view.
LEMMA NextView == [Next]_vars => view' \in {view, "menu", "dump"}
<1> SUFFICES ASSUME [Next]_vars PROVE view' \in {view, "menu", "dump"}
  OBVIOUS
<1> USE DEF uiVars, otherVars
<1>1. CASE InputThread
  BY <1>1 DEF InputThread, EnterSearch, EnterPrompt, Entered, StartJob, FreeTimer, Gone,
      Back, LongBack,
     PressAtConfirm, ReleaseAtConfirm, OkStarts, OkAgain, Ignored
<1>2. CASE User
  BY <1>2 DEF User, MenuDump, MenuPick, Picked, PickAborted, Leave, UserInput, Input,
     ReleaseAtMenu
<1>3. CASE TimerTask \/ Plug \/ UNCHANGED vars
  BY <1>3 DEF TimerTask, TimerDecide, TimerStop, TimerFire, Plug, vars
<1>4. CASE Search \/ Dump
  BY <1>4 DEF Search, SearchBegin, SearchProbe, SearchRound, SearchExit, SearchPublish,
      InitLines, Dump,
     DumpBegin, DumpAlloc, DumpProbe, DumpNoDevice, DumpId, DumpChunk, DumpExit, DumpResult
<1>5. CASE Prog \/ WorkerReturns
  BY <1>5 DEF Prog, ProgBegin, ProgConnect, ProgEnter, ProgEngine, ProgExit, ProgResult,
     InitLines, WorkerReturns
<1> QED  BY <1>1, <1>2, <1>3, <1>4, <1>5 DEF Next, Worker

LEMMA OpsInvariant == Spec => []OpsInv
BY InitInv, NextInv, PTL DEF Spec

-----------------------------------------------------------------------------
(* The theorems.                                                           *)

\* Every field has its type and no counter passes its limit.
THEOREM TypeHolds == Spec => []TypeOK
<1> DEFINE ViewOK == view \in {"menu", "dump"}
<1>1. Init => ViewOK
  BY DEF Init
<1>2. ViewOK /\ [Next]_vars => ViewOK'
  BY NextView
<1>3. OpsInv /\ ViewOK => TypeOK
  BY DEF OpsInv, TypeOK, CounterTypes, Counting
<1> QED  BY <1>1, <1>2, <1>3, OpsInvariant, PTL DEF Spec

\* The input thread only ever waits for a worker that is told to stop or has stopped.
THEOREM JoinHolds == Spec => []JoinIsShort
<1>1. OpsInv => JoinIsShort
  BY DEF OpsInv, Handover
<1> QED  BY <1>1, OpsInvariant, PTL

\* When pic_ops_free has returned, no thread and no timer callback uses the controller.
THEOREM FreedHolds == Spec => []FreedAlone
<1>1. OpsInv => FreedAlone
  BY DEF OpsInv, Handover
<1> QED  BY <1>1, OpsInvariant, PTL

\* On the Found screen of a search the busy guard of dump_start lets OK through.
THEOREM FoundHolds == Spec => []FoundAcceptsOk
<1>1. OpsInv => FoundAcceptsOk
  BY DEF OpsInv, Handover, Searched, FoundAcceptsOk
<1> QED  BY <1>1, OpsInvariant, PTL

\* A Done screen follows a complete dump or a good engine run.
THEOREM DoneHolds == Spec => []DoneIsComplete
<1>1. OpsInv => DoneIsComplete
  BY DEF OpsInv, Counting
<1> QED  BY <1>1, OpsInvariant, PTL

\* Who clears the flag has joined the worker it was set for.
LEMMA ClearedAlone == ASSUME OpsInv, Next, cancel, ~cancel' PROVE ~Alive
<1>1. Joined => ~Alive
  BY DEF OpsInv, Handover, Handle, Joined, Alive
<1>2. CASE InputThread
  <2>1. CASE EnterSearch  BY <1>1, <2>1 DEF EnterSearch, Entered, Launch
  <2>2. CASE EnterPrompt  BY <1>1, <2>2 DEF EnterPrompt, Entered
  <2>3. CASE StartJob  BY <1>1, <2>3 DEF StartJob, Launch
  <2>4. CASE FreeTimer  BY <1>1, <2>4 DEF FreeTimer, JoinThen
  <2>5. CASE Gone  BY <1>1, <2>5 DEF Gone
  <2>6. CASE Back  BY <1>1, <2>6 DEF Back
  <2>7. CASE LongBack  BY <1>1, <2>7 DEF LongBack
  <2>8. CASE PressAtConfirm  BY <1>1, <2>8 DEF PressAtConfirm
  <2>9. CASE ReleaseAtConfirm  BY <1>1, <2>9 DEF ReleaseAtConfirm
  <2>10. CASE OkStarts  BY <1>1, <2>10 DEF OkStarts, JoinThen
  <2>11. CASE OkAgain  BY <1>1, <2>11 DEF OkAgain, JoinThen
  <2>12. CASE Ignored  BY <1>1, <2>12 DEF Ignored
  <2> QED  BY <1>2, <2>1, <2>2, <2>3, <2>4, <2>5, <2>6, <2>7, <2>8, <2>9, <2>10, <2>11,
      <2>12 DEF
      InputThread
<1>3. CASE User
  <2>1. CASE MenuDump  BY <1>1, <2>1 DEF MenuDump, JoinThen
  <2>2. CASE MenuPick  BY <1>1, <2>2 DEF MenuPick
  <2>3. CASE Picked  BY <1>1, <2>3 DEF Picked, JoinThen
  <2>4. CASE PickAborted  BY <1>1, <2>4 DEF PickAborted
  <2>5. CASE Leave  BY <1>1, <2>5 DEF Leave
  <2>6. CASE UserInput  BY <1>1, <2>6 DEF UserInput, Input
  <2>7. CASE ReleaseAtMenu  BY <1>1, <2>7 DEF ReleaseAtMenu
  <2> QED  BY <1>3, <2>1, <2>2, <2>3, <2>4, <2>5, <2>6, <2>7 DEF User
<1>4. CASE TimerTask
  BY <1>1, <1>4 DEF TimerTask, TimerDecide, TimerStop, TimerFire
<1>5. CASE Search
  BY <1>5 DEF Search, SearchBegin, SearchProbe, SearchRound, SearchExit, SearchPublish,
      InitLines
<1>6. CASE Dump
  BY <1>6 DEF Dump, DumpBegin, DumpAlloc, DumpProbe, DumpNoDevice, DumpId, DumpChunk,
      DumpExit, DumpResult
<1>7. CASE Prog \/ WorkerReturns
  BY <1>7 DEF Prog, ProgBegin, ProgConnect, ProgEnter, ProgEngine, ProgExit, ProgResult,
      InitLines, WorkerReturns
<1>8. CASE Plug
  BY <1>8 DEF Plug
<1> QED  BY <1>2, <1>3, <1>4, <1>5, <1>6, <1>7, <1>8 DEF Next, Worker

\* A cancel is cleared only when the worker it was meant for has ended.
THEOREM CancelHolds == Spec => CancelSticks
<1>1. OpsInv /\ [Next]_vars => [cancel /\ ~cancel' => ~Alive]_vars
  BY ClearedAlone
<1> QED  BY <1>1, OpsInvariant, PTL DEF Spec, CancelSticks

-----------------------------------------------------------------------------
(* The hold gate and the request: the inductive invariant, over OpsInv.    *)

\* What the controller was asked: verify_only and job follow the operation.
DumpOps == {"DumpFlash", "DumpRam"}
ProgOps == Writes \cup {"Verify"}

Asked ==
  /\ verify_only <=> op = "Verify"
  /\ op = "DumpRam" => job = "ram"
  /\ op = "DumpFlash" => job = "code"

\* Where the input thread is: menus and pickers at the menu, jobs on the dump view; what
\* it waits in a join for fits the operation.
Where ==
  /\ gui = "pick" => view = "menu"
  /\ gui = "input" /\ event # "release" => view = "dump"
  /\ gui = "input" /\ event = "press" => key # "up"
  /\ gui = "join" /\ cont = "search" => op = "DumpFlash"
  /\ gui = "join" /\ cont = "ram" => op = "DumpRam"
  /\ gui = "join" /\ cont = "confirm" => op \in ProgOps
  /\ gui = "join" /\ cont = "dump" =>
       view = "dump" /\ op \in DumpOps /\ phase \notin {"Searching", "Confirm"}
  /\ gui = "join" /\ cont = "prog" =>
       view = "dump" /\ op = "Verify" /\ phase # "Searching"

\* The screens fit the operation, also the one an input handler copied; only the input
\* thread brings up the search or the confirm screen.
Screens ==
  /\ view = "dump" => /\ phase \in {"Idle", "Found"} => op \in DumpOps
                      /\ phase = "Searching" => op = "DumpFlash"
                      /\ phase = "Confirm" => op \in ProgOps
  /\ gui = "input" =>
       /\ phase \in {"Searching", "Confirm"} => seen = phase
       /\ event = "long" => phase # "Confirm"
       /\ view = "dump" => /\ seen \in {"Idle", "Found"} => op \in DumpOps
                           /\ seen = "Searching" => op = "DumpFlash"
                           /\ seen = "Confirm" => op \in ProgOps

\* The worker fits the operation on its screen; on the confirm screen none is past its start.
Fits ==
  Alive =>
    /\ worker_active \/ (kind = "search" /\ wpc = "publish")
    /\ view = "dump" => /\ kind = "search" => op = "DumpFlash"
                        /\ kind \in Dumps => op \in DumpOps /\ kind = job
    /\ phase = "Confirm" => JustStarted

\* A hold in progress is on the confirm screen of a write with OK down, or its release is
\* being handled.
Holds ==
  holding /\ phase = "Confirm" =>
    /\ view = "dump" /\ op \in Writes /\ gui \in {"ready", "input"}
    /\ key # "up" \/ (gui = "input" /\ event = "release")

HoldInv == Asked /\ Where /\ Screens /\ Fits /\ Holds

\* What a callback that acts at once adds: a decision has not been overtaken, and a write or
\* verify runs on no other screen than its own.
Firing ==
  /\ tmr = "fire" => phase = "Confirm" /\ holding /\ gui = "ready" /\ ~Alive
  /\ Alive /\ view = "dump" /\ kind = "prog" => op \in ProgOps

-----------------------------------------------------------------------------
(* Each thread keeps each part.                                            *)

\* The input thread's own steps keep the request consistent.
LEMMA InputAsked ==
  ASSUME FieldTypes, Flags', Handover, HoldInv, InputThread PROVE Asked'
<1> USE DEF FieldTypes, Flags, uiVars, opVars, threadVars, holdVars, timerVars, Handling,
    Dumps, Writes, DumpOps, ProgOps, HoldInv, Asked
<1>1. CASE EnterSearch  BY <1>1 DEF EnterSearch, Entered, Launch
<1>2. CASE EnterPrompt  BY <1>2 DEF EnterPrompt, Entered, Freed
<1>3. CASE StartJob  BY <1>3 DEF StartJob, Launch
<1>4. CASE FreeTimer  BY <1>4 DEF FreeTimer, JoinThen
<1>5. CASE Gone  BY <1>5 DEF Gone, Freed
<1>6. CASE Back  BY <1>6 DEF Back, Handled
<1>7. CASE LongBack  BY <1>7 DEF LongBack, Handled
<1>8. CASE PressAtConfirm  BY <1>8 DEF PressAtConfirm, Handled
<1>9. CASE ReleaseAtConfirm  BY <1>9 DEF ReleaseAtConfirm, Handled
<1>10. CASE OkStarts  BY <1>10 DEF OkStarts, JoinThen
<1>11. CASE OkAgain  BY <1>11 DEF OkAgain, JoinThen
<1>12. CASE Ignored  BY <1>12 DEF Ignored, Handled
<1> QED  BY <1>1, <1>2, <1>3, <1>4, <1>5, <1>6, <1>7, <1>8, <1>9, <1>10, <1>11, <1>12 DEF
    InputThread

\* The input thread's own steps keep the place of the input thread consistent.
LEMMA InputWhere ==
  ASSUME FieldTypes, Flags', Handover, HoldInv, InputThread PROVE Where'
<1> USE DEF FieldTypes, Flags, uiVars, opVars, threadVars, holdVars, timerVars, Handling,
    Dumps, Writes, DumpOps, ProgOps, HoldInv, Asked, Where, Screens, Alive, Handover,
    Resumes
<1>1. CASE EnterSearch  BY <1>1 DEF EnterSearch, Entered, Launch
<1>2. CASE EnterPrompt  BY <1>2 DEF EnterPrompt, Entered, Freed
<1>3. CASE StartJob  BY <1>3 DEF StartJob, Launch
<1>4. CASE FreeTimer  BY <1>4 DEF FreeTimer, JoinThen
<1>5. CASE Gone  BY <1>5 DEF Gone, Freed
<1>6. CASE Back  BY <1>6 DEF Back, Handled
<1>7. CASE LongBack  BY <1>7 DEF LongBack, Handled
<1>8. CASE PressAtConfirm  BY <1>8 DEF PressAtConfirm, Handled
<1>9. CASE ReleaseAtConfirm  BY <1>9 DEF ReleaseAtConfirm, Handled
<1>10. CASE OkStarts  BY <1>10 DEF OkStarts, JoinThen
<1>11. CASE OkAgain  BY <1>11 DEF OkAgain, JoinThen
<1>12. CASE Ignored  BY <1>12 DEF Ignored, Handled
<1> QED  BY <1>1, <1>2, <1>3, <1>4, <1>5, <1>6, <1>7, <1>8, <1>9, <1>10, <1>11, <1>12 DEF
    InputThread

\* The input thread's own steps keep the screens consistent.
LEMMA InputScreens ==
  ASSUME FieldTypes, Flags', Handover, HoldInv, InputThread PROVE Screens'
<1> USE DEF FieldTypes, Flags, uiVars, opVars, threadVars, holdVars, timerVars, Handling,
    Dumps, Writes, DumpOps, ProgOps, HoldInv, Where, Screens, Fits, Alive, Handover,
    Resumes
<1>1. CASE EnterSearch  BY <1>1 DEF EnterSearch, Entered, Launch
<1>2. CASE EnterPrompt  BY <1>2 DEF EnterPrompt, Entered, Freed
<1>3. CASE StartJob  BY <1>3 DEF StartJob, Launch
<1>4. CASE FreeTimer  BY <1>4 DEF FreeTimer, JoinThen
<1>5. CASE Gone  BY <1>5 DEF Gone, Freed
<1>6. CASE Back  BY <1>6 DEF Back, Handled
<1>7. CASE LongBack  BY <1>7 DEF LongBack, Handled
<1>8. CASE PressAtConfirm  BY <1>8 DEF PressAtConfirm, Handled
<1>9. CASE ReleaseAtConfirm  BY <1>9 DEF ReleaseAtConfirm, Handled
<1>10. CASE OkStarts  BY <1>10 DEF OkStarts, JoinThen
<1>11. CASE OkAgain  BY <1>11 DEF OkAgain, JoinThen
<1>12. CASE Ignored  BY <1>12 DEF Ignored, Handled
<1> QED  BY <1>1, <1>2, <1>3, <1>4, <1>5, <1>6, <1>7, <1>8, <1>9, <1>10, <1>11, <1>12 DEF
    InputThread

\* The input thread's own steps keep the worker consistent.
LEMMA InputFits ==
  ASSUME FieldTypes, Flags', Handover, HoldInv, InputThread PROVE Fits'
<1> USE DEF FieldTypes, Flags, uiVars, opVars, threadVars, holdVars, timerVars, Handling,
    Dumps, Writes, DumpOps, ProgOps, HoldInv, Where, Screens, Fits, Holds, Alive,
    JustStarted, Handover, Searched
<1>1. CASE EnterSearch  BY <1>1 DEF EnterSearch, Entered, Launch, Joined
<1>2. CASE EnterPrompt  BY <1>2 DEF EnterPrompt, Entered, Freed, Joined
<1>3. CASE StartJob
  <2>1. gui' = "ready" /\ worker_active' /\ UNCHANGED <<view, op, phase>> /\ view = "dump"
    BY <1>3 DEF StartJob, Launch
  <2>2. CASE cont = "dump" /\ Launch(job)
    <3>1. kind' = job /\ job' = job /\ job \in Dumps
      BY <1>3, <2>2 DEF StartJob, Launch
    <3>2. op \in DumpOps /\ phase # "Confirm"
      BY <1>3, <2>2 DEF StartJob
    <3> QED  BY <2>1, <3>1, <3>2
  <2>3. CASE cont = "prog" /\ Launch("prog")
    BY <1>3, <2>1, <2>3 DEF StartJob, Launch
  <2> QED  BY <1>3, <2>2, <2>3 DEF StartJob
<1>4. CASE FreeTimer  BY <1>4 DEF FreeTimer, JoinThen
<1>5. CASE Gone  BY <1>5 DEF Gone, Freed, Joined
<1>6. CASE Back  BY <1>6 DEF Back, Handled
<1>7. CASE LongBack  BY <1>7 DEF LongBack, Handled
<1>8. CASE PressAtConfirm  BY <1>8 DEF PressAtConfirm, Handled
<1>9. CASE ReleaseAtConfirm  BY <1>9 DEF ReleaseAtConfirm, Handled
<1>10. CASE OkStarts  BY <1>10 DEF OkStarts, JoinThen
<1>11. CASE OkAgain
  <2>1. gui' = "join" /\ UNCHANGED <<view, op, job, phase, kind, wpc, worker_active>>
    BY <1>11 DEF OkAgain, JoinThen
  <2> QED  BY <2>1
<1>12. CASE Ignored  BY <1>12 DEF Ignored, Handled
<1> QED  BY <1>1, <1>2, <1>3, <1>4, <1>5, <1>6, <1>7, <1>8, <1>9, <1>10, <1>11, <1>12 DEF
    InputThread

\* The input thread's own steps keep the hold consistent.
LEMMA InputHolds ==
  ASSUME FieldTypes, Flags', Handover, HoldInv, InputThread PROVE Holds'
<1> USE DEF FieldTypes, Flags, uiVars, opVars, threadVars, holdVars, timerVars, Handling,
    Dumps, Writes, DumpOps, ProgOps, HoldInv, Asked, Where, Screens, Fits, Holds, Alive,
    JustStarted, Handover, Searched
<1>1. CASE EnterSearch  BY <1>1 DEF EnterSearch, Entered, Launch
<1>2. CASE EnterPrompt  BY <1>2 DEF EnterPrompt, Entered, Freed
<1>3. CASE StartJob  BY <1>3 DEF StartJob, Launch
<1>4. CASE FreeTimer  BY <1>4 DEF FreeTimer, JoinThen
<1>5. CASE Gone  BY <1>5 DEF Gone, Freed
<1>6. CASE Back  BY <1>6 DEF Back, Handled
<1>7. CASE LongBack  BY <1>7 DEF LongBack, Handled
<1>8. CASE PressAtConfirm  BY <1>8 DEF PressAtConfirm, Handled
<1>9. CASE ReleaseAtConfirm  BY <1>9 DEF ReleaseAtConfirm, Handled
<1>10. CASE OkStarts  BY <1>10 DEF OkStarts, JoinThen
<1>11. CASE OkAgain  BY <1>11 DEF OkAgain, JoinThen
<1>12. CASE Ignored  BY <1>12 DEF Ignored, Handled
<1> QED  BY <1>1, <1>2, <1>3, <1>4, <1>5, <1>6, <1>7, <1>8, <1>9, <1>10, <1>11, <1>12 DEF
    InputThread

\* What the user makes the input thread do keep the request consistent.
LEMMA UserAsked ==
  ASSUME FieldTypes, Flags', Handover, HoldInv, User PROVE Asked'
<1> USE DEF FieldTypes, Flags, uiVars, opVars, threadVars, holdVars, timerVars, AtMenu,
    Dumps, Writes, DumpOps, ProgOps, HoldInv, Asked
<1>1. CASE MenuDump  BY <1>1 DEF MenuDump, JoinThen
<1>2. CASE MenuPick  BY <1>2 DEF MenuPick
<1>3. CASE Picked  BY <1>3 DEF Picked, JoinThen
<1>4. CASE PickAborted  BY <1>4 DEF PickAborted
<1>5. CASE Leave  BY <1>5 DEF Leave
<1>6. CASE UserInput  BY <1>6 DEF UserInput, Input
<1>7. CASE ReleaseAtMenu  BY <1>7 DEF ReleaseAtMenu
<1> QED  BY <1>1, <1>2, <1>3, <1>4, <1>5, <1>6, <1>7 DEF User

\* What the user makes the input thread do keep the place of the input thread consistent.
LEMMA UserWhere ==
  ASSUME FieldTypes, Flags', Handover, HoldInv, User PROVE Where'
<1> USE DEF FieldTypes, Flags, uiVars, opVars, threadVars, holdVars, timerVars, AtMenu,
    Dumps, Writes, DumpOps, ProgOps, HoldInv, Asked, Where, Screens, Alive, Handover,
    Resumes
<1>1. CASE MenuDump  BY <1>1 DEF MenuDump, JoinThen
<1>2. CASE MenuPick  BY <1>2 DEF MenuPick
<1>3. CASE Picked  BY <1>3 DEF Picked, JoinThen
<1>4. CASE PickAborted  BY <1>4 DEF PickAborted
<1>5. CASE Leave  BY <1>5 DEF Leave
<1>6. CASE UserInput  BY <1>6 DEF UserInput, Input
<1>7. CASE ReleaseAtMenu  BY <1>7 DEF ReleaseAtMenu
<1> QED  BY <1>1, <1>2, <1>3, <1>4, <1>5, <1>6, <1>7 DEF User

\* What the user makes the input thread do keep the screens consistent.
LEMMA UserScreens ==
  ASSUME FieldTypes, Flags', Handover, HoldInv, User PROVE Screens'
<1> USE DEF FieldTypes, Flags, uiVars, opVars, threadVars, holdVars, timerVars, AtMenu,
    Dumps, Writes, DumpOps, ProgOps, HoldInv, Where, Screens, Fits, Alive, Handover,
    Resumes
<1>1. CASE MenuDump  BY <1>1 DEF MenuDump, JoinThen
<1>2. CASE MenuPick  BY <1>2 DEF MenuPick
<1>3. CASE Picked  BY <1>3 DEF Picked, JoinThen
<1>4. CASE PickAborted  BY <1>4 DEF PickAborted
<1>5. CASE Leave  BY <1>5 DEF Leave
<1>6. CASE UserInput  BY <1>6 DEF UserInput, Input
<1>7. CASE ReleaseAtMenu  BY <1>7 DEF ReleaseAtMenu
<1> QED  BY <1>1, <1>2, <1>3, <1>4, <1>5, <1>6, <1>7 DEF User

\* What the user makes the input thread do keep the worker consistent.
LEMMA UserFits ==
  ASSUME FieldTypes, Flags', Handover, HoldInv, User PROVE Fits'
<1> USE DEF FieldTypes, Flags, uiVars, opVars, threadVars, holdVars, timerVars, AtMenu,
    Dumps, Writes, DumpOps, ProgOps, HoldInv, Where, Screens, Fits, Holds, Alive,
    JustStarted, Handover, Searched
<1>1. CASE MenuDump  BY <1>1 DEF MenuDump, JoinThen
<1>2. CASE MenuPick  BY <1>2 DEF MenuPick
<1>3. CASE Picked  BY <1>3 DEF Picked, JoinThen
<1>4. CASE PickAborted  BY <1>4 DEF PickAborted
<1>5. CASE Leave  BY <1>5 DEF Leave
<1>6. CASE UserInput  BY <1>6 DEF UserInput, Input
<1>7. CASE ReleaseAtMenu  BY <1>7 DEF ReleaseAtMenu
<1> QED  BY <1>1, <1>2, <1>3, <1>4, <1>5, <1>6, <1>7 DEF User

\* What the user makes the input thread do keep the hold consistent.
LEMMA UserHolds ==
  ASSUME FieldTypes, Flags', Handover, HoldInv, User PROVE Holds'
<1> USE DEF FieldTypes, Flags, uiVars, opVars, threadVars, holdVars, timerVars, AtMenu,
    Dumps, Writes, DumpOps, ProgOps, HoldInv, Asked, Where, Screens, Fits, Holds, Alive,
    JustStarted, Handover, Searched
<1>1. CASE MenuDump  BY <1>1 DEF MenuDump, JoinThen
<1>2. CASE MenuPick  BY <1>2 DEF MenuPick
<1>3. CASE Picked  BY <1>3 DEF Picked, JoinThen
<1>4. CASE PickAborted  BY <1>4 DEF PickAborted
<1>5. CASE Leave  BY <1>5 DEF Leave
<1>6. CASE UserInput  BY <1>6 DEF UserInput, Input
<1>7. CASE ReleaseAtMenu  BY <1>7 DEF ReleaseAtMenu
<1> QED  BY <1>1, <1>2, <1>3, <1>4, <1>5, <1>6, <1>7 DEF User

\* The timer task keeps the request consistent.
LEMMA TimerAsked == ASSUME FieldTypes, Flags', Handover, HoldInv, TimerTask PROVE Asked'
<1> USE DEF FieldTypes, Flags, uiVars, opVars, threadVars, holdVars, timerVars, Dumps,
    Writes, DumpOps, ProgOps, HoldInv, Asked
<1>1. CASE TimerDecide  BY <1>1 DEF TimerDecide, HoldDone
<1>2. CASE TimerStop  BY <1>2 DEF TimerStop
<1>3. CASE TimerFire  BY <1>3 DEF TimerFire, Launch
<1> QED  BY <1>1, <1>2, <1>3 DEF TimerTask

\* The timer task keeps the place of the input thread consistent.
LEMMA TimerWhere == ASSUME FieldTypes, Flags', Handover, HoldInv, TimerTask PROVE Where'
<1> USE DEF FieldTypes, Flags, uiVars, opVars, threadVars, holdVars, timerVars, Dumps,
    Writes, DumpOps, ProgOps, HoldInv, Asked, Where, Screens, Alive, Handover, Resumes
<1>1. CASE TimerDecide  BY <1>1 DEF TimerDecide, HoldDone
<1>2. CASE TimerStop  BY <1>2 DEF TimerStop
<1>3. CASE TimerFire  BY <1>3 DEF TimerFire, Launch
<1> QED  BY <1>1, <1>2, <1>3 DEF TimerTask

\* The timer task keeps the screens consistent.
LEMMA TimerScreens == ASSUME FieldTypes, Flags', Handover, HoldInv, TimerTask PROVE Screens'
<1> USE DEF FieldTypes, Flags, uiVars, opVars, threadVars, holdVars, timerVars, Dumps,
    Writes, DumpOps, ProgOps, HoldInv, Where, Screens, Fits, Alive, Handover, Resumes
<1>1. CASE TimerDecide  BY <1>1 DEF TimerDecide, HoldDone
<1>2. CASE TimerStop  BY <1>2 DEF TimerStop
<1>3. CASE TimerFire  BY <1>3 DEF TimerFire, Launch
<1> QED  BY <1>1, <1>2, <1>3 DEF TimerTask

\* The timer task keeps the worker consistent.
LEMMA TimerFits == ASSUME FieldTypes, Flags', Handover, HoldInv, TimerTask PROVE Fits'
<1> USE DEF FieldTypes, Flags, uiVars, opVars, threadVars, holdVars, timerVars, Dumps,
    Writes, DumpOps, ProgOps, HoldInv, Where, Screens, Fits, Holds, Alive, JustStarted,
    Handover, Searched
<1>1. CASE TimerDecide  BY <1>1 DEF TimerDecide, HoldDone
<1>2. CASE TimerStop  BY <1>2 DEF TimerStop
<1>3. CASE TimerFire  BY <1>3 DEF TimerFire, Launch, Joined
<1> QED  BY <1>1, <1>2, <1>3 DEF TimerTask

\* The timer task keeps the hold consistent.
LEMMA TimerHolds == ASSUME FieldTypes, Flags', Handover, HoldInv, TimerTask PROVE Holds'
<1> USE DEF FieldTypes, Flags, uiVars, opVars, threadVars, holdVars, timerVars, Dumps,
    Writes, DumpOps, ProgOps, HoldInv, Asked, Where, Screens, Fits, Holds, Alive,
    JustStarted, Handover, Searched
<1>1. CASE TimerDecide  BY <1>1 DEF TimerDecide, HoldDone
<1>2. CASE TimerStop  BY <1>2 DEF TimerStop
<1>3. CASE TimerFire  BY <1>3 DEF TimerFire, Launch
<1> QED  BY <1>1, <1>2, <1>3 DEF TimerTask

\* A worker thread keeps the request consistent.
LEMMA WorkerAsked == ASSUME FieldTypes, Flags', Handover, HoldInv, Worker PROVE Asked'
<1> USE DEF FieldTypes, Flags, uiVars, opVars, threadVars, holdVars, timerVars, otherVars,
    At, Goto, Dumps, Writes, DumpOps, ProgOps, HoldInv, Asked
<1>1. CASE SearchBegin  BY <1>1 DEF SearchBegin, InitLines
<1>2. CASE SearchProbe  BY <1>2 DEF SearchProbe, SearchRound, Probe
<1>3. CASE SearchExit  BY <1>3 DEF SearchExit
<1>4. CASE SearchPublish  BY <1>4 DEF SearchPublish
<1>5. CASE DumpBegin  BY <1>5 DEF DumpBegin
<1>6. CASE DumpAlloc  BY <1>6 DEF DumpAlloc
<1>7. CASE DumpProbe  BY <1>7 DEF DumpProbe, Probe
<1>8. CASE DumpNoDevice  BY <1>8 DEF DumpNoDevice
<1>9. CASE DumpId  BY <1>9 DEF DumpId
<1>10. CASE DumpChunk  BY <1>10 DEF DumpChunk
<1>11. CASE DumpExit  BY <1>11 DEF DumpExit
<1>12. CASE DumpResult  BY <1>12 DEF DumpResult
<1>13. CASE ProgBegin  BY <1>13 DEF ProgBegin, InitLines
<1>14. CASE ProgConnect  BY <1>14 DEF ProgConnect
<1>15. CASE ProgEnter  BY <1>15 DEF ProgEnter, Probe
<1>16. CASE ProgEngine  BY <1>16 DEF ProgEngine
<1>17. CASE ProgExit  BY <1>17 DEF ProgExit
<1>18. CASE ProgResult  BY <1>18 DEF ProgResult
<1>19. CASE WorkerReturns  BY <1>19 DEF WorkerReturns
<1> QED  BY <1>1, <1>2, <1>3, <1>4, <1>5, <1>6, <1>7, <1>8, <1>9, <1>10, <1>11, <1>12,
    <1>13, <1>14, <1>15, <1>16, <1>17, <1>18, <1>19 DEF Worker, Search, Dump, Prog

\* A worker thread keeps the place of the input thread consistent.
LEMMA WorkerWhere == ASSUME FieldTypes, Flags', Handover, HoldInv, Worker PROVE Where'
<1> USE DEF FieldTypes, Flags, uiVars, opVars, threadVars, holdVars, timerVars, otherVars,
    At, Goto, Dumps, Writes, DumpOps, ProgOps, HoldInv, Asked, Where, Screens, Alive,
    Handover, Resumes
<1>1. CASE SearchBegin  BY <1>1 DEF SearchBegin, InitLines
<1>2. CASE SearchProbe  BY <1>2 DEF SearchProbe, SearchRound, Probe
<1>3. CASE SearchExit  BY <1>3 DEF SearchExit
<1>4. CASE SearchPublish  BY <1>4 DEF SearchPublish
<1>5. CASE DumpBegin  BY <1>5 DEF DumpBegin
<1>6. CASE DumpAlloc  BY <1>6 DEF DumpAlloc
<1>7. CASE DumpProbe  BY <1>7 DEF DumpProbe, Probe
<1>8. CASE DumpNoDevice  BY <1>8 DEF DumpNoDevice
<1>9. CASE DumpId  BY <1>9 DEF DumpId
<1>10. CASE DumpChunk  BY <1>10 DEF DumpChunk
<1>11. CASE DumpExit  BY <1>11 DEF DumpExit
<1>12. CASE DumpResult  BY <1>12 DEF DumpResult
<1>13. CASE ProgBegin  BY <1>13 DEF ProgBegin, InitLines
<1>14. CASE ProgConnect  BY <1>14 DEF ProgConnect
<1>15. CASE ProgEnter  BY <1>15 DEF ProgEnter, Probe
<1>16. CASE ProgEngine  BY <1>16 DEF ProgEngine
<1>17. CASE ProgExit  BY <1>17 DEF ProgExit
<1>18. CASE ProgResult  BY <1>18 DEF ProgResult
<1>19. CASE WorkerReturns  BY <1>19 DEF WorkerReturns
<1> QED  BY <1>1, <1>2, <1>3, <1>4, <1>5, <1>6, <1>7, <1>8, <1>9, <1>10, <1>11, <1>12,
    <1>13, <1>14, <1>15, <1>16, <1>17, <1>18, <1>19 DEF Worker, Search, Dump, Prog

\* A worker thread keeps the screens consistent.
LEMMA WorkerScreens == ASSUME FieldTypes, Flags', Handover, HoldInv, Worker PROVE Screens'
<1> USE DEF FieldTypes, Ops, Flags, uiVars, opVars, threadVars, holdVars, timerVars,
    otherVars, At, Goto, Dumps, Writes, DumpOps, ProgOps, HoldInv, Where, Screens, Fits,
    Alive, Handover, Resumes
<1>1. CASE SearchBegin  BY <1>1 DEF SearchBegin, InitLines
<1>2. CASE SearchProbe  BY <1>2 DEF SearchProbe, SearchRound, Probe
<1>3. CASE SearchExit  BY <1>3 DEF SearchExit
<1>4. CASE SearchPublish  BY <1>4 DEF SearchPublish
<1>5. CASE DumpBegin  BY <1>5 DEF DumpBegin
<1>6. CASE DumpAlloc  BY <1>6 DEF DumpAlloc
<1>7. CASE DumpProbe  BY <1>7 DEF DumpProbe, Probe
<1>8. CASE DumpNoDevice  BY <1>8 DEF DumpNoDevice
<1>9. CASE DumpId  BY <1>9 DEF DumpId
<1>10. CASE DumpChunk  BY <1>10 DEF DumpChunk
<1>11. CASE DumpExit  BY <1>11 DEF DumpExit
<1>12. CASE DumpResult
  <2>1. phase' \in {"Idle", "Done", "Error"} /\ UNCHANGED <<view, gui, seen, op>>
    BY <1>12 DEF DumpResult
  <2>2. view = "dump" => op \in DumpOps
    BY <1>12 DEF DumpResult
  <2> QED  BY <2>1, <2>2
<1>13. CASE ProgBegin  BY <1>13 DEF ProgBegin, InitLines
<1>14. CASE ProgConnect  BY <1>14 DEF ProgConnect
<1>15. CASE ProgEnter  BY <1>15 DEF ProgEnter, Probe
<1>16. CASE ProgEngine  BY <1>16 DEF ProgEngine
<1>17. CASE ProgExit  BY <1>17 DEF ProgExit
<1>18. CASE ProgResult  BY <1>18 DEF ProgResult
<1>19. CASE WorkerReturns  BY <1>19 DEF WorkerReturns
<1> QED  BY <1>1, <1>2, <1>3, <1>4, <1>5, <1>6, <1>7, <1>8, <1>9, <1>10, <1>11, <1>12,
    <1>13, <1>14, <1>15, <1>16, <1>17, <1>18, <1>19 DEF Worker, Search, Dump, Prog

\* A worker thread keeps the worker consistent.
LEMMA WorkerFits == ASSUME FieldTypes, Flags', Handover, HoldInv, Worker PROVE Fits'
<1> USE DEF FieldTypes, Flags, uiVars, opVars, threadVars, holdVars, timerVars, otherVars,
    At, Goto, Dumps, Writes, DumpOps, ProgOps, HoldInv, Where, Screens, Fits, Holds,
    Alive, JustStarted, Handover, Searched
<1>1. CASE SearchBegin  BY <1>1 DEF SearchBegin, InitLines
<1>2. CASE SearchProbe  BY <1>2 DEF SearchProbe, SearchRound, Probe
<1>3. CASE SearchExit
  <2>1. UNCHANGED <<view, gui, seen, op, phase, kind>> /\ kind = "search"
    BY <1>3 DEF SearchExit
  <2>2. CASE wpc' = "loop" /\ UNCHANGED worker_active
    BY <1>3, <2>1, <2>2 DEF SearchExit
  <2>3. CASE wpc' = "publish"
    BY <1>3, <2>1, <2>3 DEF SearchExit
  <2> QED  BY <1>3, <2>2, <2>3 DEF SearchExit
<1>4. CASE SearchPublish  BY <1>4 DEF SearchPublish
<1>5. CASE DumpBegin  BY <1>5 DEF DumpBegin
<1>6. CASE DumpAlloc  BY <1>6 DEF DumpAlloc
<1>7. CASE DumpProbe  BY <1>7 DEF DumpProbe, Probe
<1>8. CASE DumpNoDevice  BY <1>8 DEF DumpNoDevice
<1>9. CASE DumpId  BY <1>9 DEF DumpId
<1>10. CASE DumpChunk  BY <1>10 DEF DumpChunk
<1>11. CASE DumpExit  BY <1>11 DEF DumpExit
<1>12. CASE DumpResult  BY <1>12 DEF DumpResult
<1>13. CASE ProgBegin  BY <1>13 DEF ProgBegin, InitLines
<1>14. CASE ProgConnect  BY <1>14 DEF ProgConnect
<1>15. CASE ProgEnter  BY <1>15 DEF ProgEnter, Probe
<1>16. CASE ProgEngine  BY <1>16 DEF ProgEngine
<1>17. CASE ProgExit  BY <1>17 DEF ProgExit
<1>18. CASE ProgResult  BY <1>18 DEF ProgResult
<1>19. CASE WorkerReturns  BY <1>19 DEF WorkerReturns
<1> QED  BY <1>1, <1>2, <1>3, <1>4, <1>5, <1>6, <1>7, <1>8, <1>9, <1>10, <1>11, <1>12,
    <1>13, <1>14, <1>15, <1>16, <1>17, <1>18, <1>19 DEF Worker, Search, Dump, Prog

\* A worker thread keeps the hold consistent.
LEMMA WorkerHolds == ASSUME FieldTypes, Flags', Handover, HoldInv, Worker PROVE Holds'
<1> USE DEF FieldTypes, Flags, uiVars, opVars, threadVars, holdVars, timerVars, otherVars,
    At, Goto, Dumps, Writes, DumpOps, ProgOps, HoldInv, Asked, Where, Screens, Fits,
    Holds, Alive, JustStarted, Handover, Searched
<1>1. CASE SearchBegin  BY <1>1 DEF SearchBegin, InitLines
<1>2. CASE SearchProbe  BY <1>2 DEF SearchProbe, SearchRound, Probe
<1>3. CASE SearchExit  BY <1>3 DEF SearchExit
<1>4. CASE SearchPublish  BY <1>4 DEF SearchPublish
<1>5. CASE DumpBegin  BY <1>5 DEF DumpBegin
<1>6. CASE DumpAlloc  BY <1>6 DEF DumpAlloc
<1>7. CASE DumpProbe  BY <1>7 DEF DumpProbe, Probe
<1>8. CASE DumpNoDevice  BY <1>8 DEF DumpNoDevice
<1>9. CASE DumpId  BY <1>9 DEF DumpId
<1>10. CASE DumpChunk  BY <1>10 DEF DumpChunk
<1>11. CASE DumpExit  BY <1>11 DEF DumpExit
<1>12. CASE DumpResult  BY <1>12 DEF DumpResult
<1>13. CASE ProgBegin  BY <1>13 DEF ProgBegin, InitLines
<1>14. CASE ProgConnect  BY <1>14 DEF ProgConnect
<1>15. CASE ProgEnter  BY <1>15 DEF ProgEnter, Probe
<1>16. CASE ProgEngine  BY <1>16 DEF ProgEngine
<1>17. CASE ProgExit  BY <1>17 DEF ProgExit
<1>18. CASE ProgResult  BY <1>18 DEF ProgResult
<1>19. CASE WorkerReturns  BY <1>19 DEF WorkerReturns
<1> QED  BY <1>1, <1>2, <1>3, <1>4, <1>5, <1>6, <1>7, <1>8, <1>9, <1>10, <1>11, <1>12,
    <1>13, <1>14, <1>15, <1>16, <1>17, <1>18, <1>19 DEF Worker, Search, Dump, Prog

-----------------------------------------------------------------------------
(* The invariant holds.                                                    *)

LEMMA HoldInit == Init => HoldInv /\ Firing
BY DEF Init, HoldInv, Asked, Where, Screens, Fits, Holds, Firing, Alive, DumpOps, ProgOps,
   Writes

\* Connecting the chip and stuttering leave what the invariant reads.
LEMMA HoldIdle ==
  ASSUME Plug \/ UNCHANGED vars
  PROVE  (HoldInv => HoldInv') /\ (Firing => Firing')
<1>1. UNCHANGED <<uiVars, phase, opVars, worker_active, kind, wpc, holdVars, tmr>>
  BY DEF Plug, vars, threadVars, timerVars
<1>2. Asked /\ Where => Asked' /\ Where'
  BY <1>1 DEF Asked, Where, uiVars, opVars, DumpOps, ProgOps, Writes
<1>3. Screens => Screens'
  BY <1>1 DEF Screens, uiVars, opVars, DumpOps, ProgOps, Writes
<1>4. Fits => Fits'
  BY <1>1 DEF Fits, Alive, JustStarted, uiVars, opVars, DumpOps
<1>5. Holds => Holds'
  BY <1>1 DEF Holds, uiVars, opVars, holdVars, Writes
<1>6. Firing => Firing'
  BY <1>1 DEF Firing, Alive, uiVars, opVars, holdVars, ProgOps
<1> QED  BY <1>2, <1>3, <1>4, <1>5, <1>6 DEF HoldInv

LEMMA HoldNext == OpsInv /\ HoldInv /\ [Next]_vars => HoldInv'
<1> SUFFICES ASSUME OpsInv, HoldInv, [Next]_vars PROVE HoldInv'
  OBVIOUS
<1>1. FieldTypes /\ Handover
  BY DEF OpsInv
<1>2. CASE InputThread
  BY <1>1, <1>2, InputFlags, InputAsked, InputWhere, InputScreens, InputFits, InputHolds
      DEF HoldInv
<1>3. CASE User
  BY <1>1, <1>3, UserFlags, UserAsked, UserWhere, UserScreens, UserFits, UserHolds DEF
      HoldInv
<1>4. CASE TimerTask
  BY <1>1, <1>4, TimerFlags, TimerAsked, TimerWhere, TimerScreens, TimerFits, TimerHolds
      DEF HoldInv
<1>5. CASE Worker
  BY <1>1, <1>5, WorkerFlags, WorkerAsked, WorkerWhere, WorkerScreens, WorkerFits,
      WorkerHolds DEF HoldInv
<1>6. CASE Plug \/ UNCHANGED vars
  BY <1>6, HoldIdle
<1> QED  BY <1>2, <1>3, <1>4, <1>5, <1>6 DEF Next

LEMMA HoldInvariant == Spec => [](OpsInv /\ HoldInv)
<1>1. Init => OpsInv /\ HoldInv
  BY InitInv, HoldInit
<1>2. OpsInv /\ HoldInv /\ [Next]_vars => (OpsInv /\ HoldInv)'
  BY NextInv, HoldNext
<1> QED  BY <1>1, <1>2, PTL DEF Spec

-----------------------------------------------------------------------------
(* When the callback acts at once on what it decided.                      *)

\* The input thread does not run between a decision and its action.
LEMMA InputFiring ==
  ASSUME FieldTypes, Flags', Handover, HoldInv, Firing, InputThread, tmr = "idle"
  PROVE  Firing'
<1> USE DEF FieldTypes, Flags, uiVars, opVars, threadVars, holdVars, timerVars, Dumps,
    Writes, DumpOps, ProgOps, HoldInv, Asked, Where, Screens, Fits, Holds, Firing, Alive,
    Handover, Searched, Handling
<1>1. CASE EnterSearch  BY <1>1 DEF EnterSearch, Entered, Launch, Joined
<1>2. CASE EnterPrompt  BY <1>2 DEF EnterPrompt, Entered, Freed, Joined
<1>3. CASE StartJob  BY <1>3 DEF StartJob, Launch
<1>4. CASE FreeTimer  BY <1>4 DEF FreeTimer, JoinThen
<1>5. CASE Gone  BY <1>5 DEF Gone, Freed, Joined
<1>6. CASE Back  BY <1>6 DEF Back, Handled
<1>7. CASE LongBack  BY <1>7 DEF LongBack, Handled
<1>8. CASE PressAtConfirm  BY <1>8 DEF PressAtConfirm, Handled
<1>9. CASE ReleaseAtConfirm  BY <1>9 DEF ReleaseAtConfirm, Handled
<1>10. CASE OkStarts  BY <1>10 DEF OkStarts, JoinThen
<1>11. CASE OkAgain  BY <1>11 DEF OkAgain, JoinThen
<1>12. CASE Ignored  BY <1>12 DEF Ignored, Handled
<1> QED  BY <1>1, <1>2, <1>3, <1>4, <1>5, <1>6, <1>7, <1>8, <1>9, <1>10, <1>11, <1>12
    DEF InputThread

\* Nor does the user.
LEMMA UserFiring ==
  ASSUME FieldTypes, Flags', Handover, HoldInv, Firing, User, tmr = "idle"
  PROVE  Firing'
<1> USE DEF FieldTypes, Flags, uiVars, opVars, threadVars, holdVars, timerVars, Dumps,
    Writes, DumpOps, ProgOps, HoldInv, Asked, Where, Screens, Fits, Holds, Firing, Alive,
    Handover, Searched, AtMenu
<1>1. CASE MenuDump  BY <1>1 DEF MenuDump, JoinThen
<1>2. CASE MenuPick  BY <1>2 DEF MenuPick
<1>3. CASE Picked  BY <1>3 DEF Picked, JoinThen
<1>4. CASE PickAborted  BY <1>4 DEF PickAborted
<1>5. CASE Leave  BY <1>5 DEF Leave
<1>6. CASE UserInput  BY <1>6 DEF UserInput, Input
<1>7. CASE ReleaseAtMenu  BY <1>7 DEF ReleaseAtMenu
<1> QED  BY <1>1, <1>2, <1>3, <1>4, <1>5, <1>6, <1>7 DEF User

\* The timer task decides on the confirm screen, where no worker is past its start.
LEMMA TimerFiring ==
  ASSUME FieldTypes, Flags', Handover, HoldInv, Firing, TimerTask
  PROVE  Firing'
<1> USE DEF FieldTypes, Flags, uiVars, opVars, threadVars, holdVars, timerVars, Dumps,
    Writes, DumpOps, ProgOps, HoldInv, Asked, Where, Screens, Fits, Holds, Firing, Alive,
    Handover, Searched
<1>1. CASE TimerDecide  BY <1>1 DEF TimerDecide, HoldDone, JustStarted
<1>2. CASE TimerStop  BY <1>2 DEF TimerStop
<1>3. CASE TimerFire  BY <1>3 DEF TimerFire, Launch, Joined
<1> QED  BY <1>1, <1>2, <1>3 DEF TimerTask

\* A worker thread steps only where nothing was decided.
LEMMA WorkerFiring ==
  ASSUME FieldTypes, Flags', Handover, HoldInv, Firing, Worker
  PROVE  Firing'
<1> USE DEF FieldTypes, Flags, uiVars, opVars, threadVars, holdVars, timerVars, Dumps,
    Writes, DumpOps, ProgOps, HoldInv, Asked, Where, Screens, Fits, Holds, Firing, Alive,
    Handover, Searched, At, Goto, otherVars
<1>1. CASE SearchBegin  BY <1>1 DEF SearchBegin, InitLines
<1>2. CASE SearchProbe  BY <1>2 DEF SearchProbe, SearchRound, Probe
<1>3. CASE SearchExit  BY <1>3 DEF SearchExit
<1>4. CASE SearchPublish  BY <1>4 DEF SearchPublish
<1>5. CASE DumpBegin  BY <1>5 DEF DumpBegin
<1>6. CASE DumpAlloc  BY <1>6 DEF DumpAlloc
<1>7. CASE DumpProbe  BY <1>7 DEF DumpProbe, Probe
<1>8. CASE DumpNoDevice  BY <1>8 DEF DumpNoDevice
<1>9. CASE DumpId  BY <1>9 DEF DumpId
<1>10. CASE DumpChunk  BY <1>10 DEF DumpChunk
<1>11. CASE DumpExit  BY <1>11 DEF DumpExit
<1>12. CASE DumpResult  BY <1>12 DEF DumpResult
<1>13. CASE ProgBegin  BY <1>13 DEF ProgBegin, InitLines
<1>14. CASE ProgConnect  BY <1>14 DEF ProgConnect
<1>15. CASE ProgEnter  BY <1>15 DEF ProgEnter, Probe
<1>16. CASE ProgEngine  BY <1>16 DEF ProgEngine
<1>17. CASE ProgExit  BY <1>17 DEF ProgExit
<1>18. CASE ProgResult  BY <1>18 DEF ProgResult
<1>19. CASE WorkerReturns  BY <1>19 DEF WorkerReturns
<1> QED  BY <1>1, <1>2, <1>3, <1>4, <1>5, <1>6, <1>7, <1>8, <1>9, <1>10, <1>11, <1>12,
    <1>13, <1>14, <1>15, <1>16, <1>17, <1>18, <1>19 DEF Worker, Search, Dump, Prog

LEMMA FiringNext ==
  ASSUME ~Preempt
  PROVE  OpsInv /\ HoldInv /\ Firing /\ [Next]_vars => Firing'
<1> SUFFICES ASSUME OpsInv, HoldInv, Firing, [Next]_vars PROVE Firing'
  OBVIOUS
<1>1. FieldTypes /\ Handover
  BY DEF OpsInv
<1>2. CASE InputThread
  BY <1>1, <1>2, InputFlags, InputFiring DEF InputThread
<1>3. CASE User
  BY <1>1, <1>3, UserFlags, UserFiring DEF User
<1>4. CASE TimerTask
  BY <1>1, <1>4, TimerFlags, TimerFiring
<1>5. CASE Worker
  BY <1>1, <1>5, WorkerFlags, WorkerFiring
<1>6. CASE Plug \/ UNCHANGED vars
  BY <1>6, HoldIdle
<1> QED  BY <1>2, <1>3, <1>4, <1>5, <1>6 DEF Next

LEMMA FiringInvariant == ASSUME ~Preempt PROVE Spec => [](OpsInv /\ HoldInv /\ Firing)
<1>1. Init => OpsInv /\ HoldInv /\ Firing
  BY InitInv, HoldInit
<1>2. OpsInv /\ HoldInv /\ Firing /\ [Next]_vars => (OpsInv /\ HoldInv /\ Firing)'
  BY NextInv, HoldNext, FiringNext
<1> QED  BY <1>1, <1>2, PTL DEF Spec

-----------------------------------------------------------------------------
(* The theorems.                                                           *)

\* A worker thread that steps is alive, starts no other and leaves the request alone.
LEMMA WorkerRuns == ASSUME Worker PROVE Alive /\ wpc' # "begin" /\ UNCHANGED opVars
<1> USE DEF Alive, At, Goto, otherVars
<1>1. CASE SearchBegin  BY <1>1 DEF SearchBegin, InitLines
<1>2. CASE SearchProbe  BY <1>2 DEF SearchProbe, SearchRound, Probe
<1>3. CASE SearchExit  BY <1>3 DEF SearchExit
<1>4. CASE SearchPublish  BY <1>4 DEF SearchPublish
<1>5. CASE DumpBegin  BY <1>5 DEF DumpBegin
<1>6. CASE DumpAlloc  BY <1>6 DEF DumpAlloc
<1>7. CASE DumpProbe  BY <1>7 DEF DumpProbe, Probe
<1>8. CASE DumpNoDevice  BY <1>8 DEF DumpNoDevice
<1>9. CASE DumpId  BY <1>9 DEF DumpId
<1>10. CASE DumpChunk  BY <1>10 DEF DumpChunk
<1>11. CASE DumpExit  BY <1>11 DEF DumpExit
<1>12. CASE DumpResult  BY <1>12 DEF DumpResult
<1>13. CASE ProgBegin  BY <1>13 DEF ProgBegin, InitLines
<1>14. CASE ProgConnect  BY <1>14 DEF ProgConnect
<1>15. CASE ProgEnter  BY <1>15 DEF ProgEnter, Probe
<1>16. CASE ProgEngine  BY <1>16 DEF ProgEngine
<1>17. CASE ProgExit  BY <1>17 DEF ProgExit
<1>18. CASE ProgResult  BY <1>18 DEF ProgResult
<1>19. CASE WorkerReturns  BY <1>19 DEF WorkerReturns
<1> QED  BY <1>1, <1>2, <1>3, <1>4, <1>5, <1>6, <1>7, <1>8, <1>9, <1>10, <1>11, <1>12,
    <1>13, <1>14, <1>15, <1>16, <1>17, <1>18, <1>19 DEF Worker, Search, Dump, Prog

\* What a worker thread leaves alone.
LEMMA WorkerLeaves == ASSUME Worker PROVE UNCHANGED <<cancel, kind, otherVars>>
<1> USE DEF At, Goto
<1>1. CASE SearchBegin  BY <1>1 DEF SearchBegin, InitLines
<1>2. CASE SearchProbe  BY <1>2 DEF SearchProbe, SearchRound, Probe
<1>3. CASE SearchExit  BY <1>3 DEF SearchExit
<1>4. CASE SearchPublish  BY <1>4 DEF SearchPublish
<1>5. CASE DumpBegin  BY <1>5 DEF DumpBegin
<1>6. CASE DumpAlloc  BY <1>6 DEF DumpAlloc
<1>7. CASE DumpProbe  BY <1>7 DEF DumpProbe, Probe
<1>8. CASE DumpNoDevice  BY <1>8 DEF DumpNoDevice
<1>9. CASE DumpId  BY <1>9 DEF DumpId
<1>10. CASE DumpChunk  BY <1>10 DEF DumpChunk
<1>11. CASE DumpExit  BY <1>11 DEF DumpExit
<1>12. CASE DumpResult  BY <1>12 DEF DumpResult
<1>13. CASE ProgBegin  BY <1>13 DEF ProgBegin, InitLines
<1>14. CASE ProgConnect  BY <1>14 DEF ProgConnect
<1>15. CASE ProgEnter  BY <1>15 DEF ProgEnter, Probe
<1>16. CASE ProgEngine  BY <1>16 DEF ProgEngine
<1>17. CASE ProgExit  BY <1>17 DEF ProgExit
<1>18. CASE ProgResult  BY <1>18 DEF ProgResult
<1>19. CASE WorkerReturns  BY <1>19 DEF WorkerReturns
<1> QED  BY <1>1, <1>2, <1>3, <1>4, <1>5, <1>6, <1>7, <1>8, <1>9, <1>10, <1>11, <1>12,
    <1>13, <1>14, <1>15, <1>16, <1>17, <1>18, <1>19 DEF Worker, Search, Dump, Prog

\* Only a worker thread touches the lines and the target.
LEMMA OthersLeaveTarget ==
  ASSUME InputThread \/ User \/ TimerTask \/ Plug
  PROVE  UNCHANGED icspVars
<1>1. CASE InputThread
  <2>1. CASE EnterSearch  BY <2>1 DEF EnterSearch, Entered
  <2>2. CASE EnterPrompt  BY <2>2 DEF EnterPrompt, Entered
  <2>3. CASE StartJob  BY <2>3 DEF StartJob
  <2>4. CASE FreeTimer  BY <2>4 DEF FreeTimer
  <2>5. CASE Gone  BY <2>5 DEF Gone
  <2>6. CASE Back  BY <2>6 DEF Back
  <2>7. CASE LongBack  BY <2>7 DEF LongBack
  <2>8. CASE PressAtConfirm  BY <2>8 DEF PressAtConfirm
  <2>9. CASE ReleaseAtConfirm  BY <2>9 DEF ReleaseAtConfirm
  <2>10. CASE OkStarts  BY <2>10 DEF OkStarts
  <2>11. CASE OkAgain  BY <2>11 DEF OkAgain
  <2>12. CASE Ignored  BY <2>12 DEF Ignored
  <2> QED  BY <1>1, <2>1, <2>2, <2>3, <2>4, <2>5, <2>6, <2>7, <2>8, <2>9, <2>10, <2>11,
      <2>12 DEF
      InputThread
<1>2. CASE User
  <2>1. CASE MenuDump  BY <2>1 DEF MenuDump
  <2>2. CASE MenuPick  BY <2>2 DEF MenuPick
  <2>3. CASE Picked  BY <2>3 DEF Picked
  <2>4. CASE PickAborted  BY <2>4 DEF PickAborted
  <2>5. CASE Leave  BY <2>5 DEF Leave
  <2>6. CASE UserInput  BY <2>6 DEF UserInput, Input
  <2>7. CASE ReleaseAtMenu  BY <2>7 DEF ReleaseAtMenu
  <2> QED  BY <1>2, <2>1, <2>2, <2>3, <2>4, <2>5, <2>6, <2>7 DEF User
<1>3. CASE TimerTask
  BY <1>3 DEF TimerTask, TimerDecide, TimerStop, TimerFire
<1>4. CASE Plug
  BY <1>4 DEF Plug
<1> QED  BY <1>1, <1>2, <1>3, <1>4

\* Only a decision of the timer callback starts a write; it is taken on a hold in progress.
LEMMA DecidedAfterHold ==
  ASSUME OpsInv, HoldInv, Next
  PROVE  /\ tmr' = "fire" /\ tmr # "fire" =>
              view = "dump" /\ phase = "Confirm" /\ op \in Writes
              /\ key # "up" /\ holding /\ held = HoldTicks
         /\ Launching("prog") /\ ~verify_only => tmr = "fire"
<1>1. job \in Dumps /\ Asked /\ Where /\ Holds
  BY DEF OpsInv, FieldTypes, HoldInv
<1> USE DEF Launching, threadVars, timerVars
<1>2. CASE InputThread
  <2>1. CASE EnterSearch  BY <2>1 DEF EnterSearch, Entered, Launch
  <2>2. CASE EnterPrompt  BY <2>2 DEF EnterPrompt, Entered, Freed
  <2>3. CASE StartJob  BY <1>1, <2>3 DEF StartJob, Launch, Dumps, Where, Asked
  <2>4. CASE FreeTimer  BY <2>4 DEF FreeTimer, JoinThen
  <2>5. CASE Gone  BY <2>5 DEF Gone, Freed
  <2>6. CASE Back  BY <2>6 DEF Back, Handled
  <2>7. CASE LongBack  BY <2>7 DEF LongBack, Handled
  <2>8. CASE PressAtConfirm  BY <2>8 DEF PressAtConfirm, Handled
  <2>9. CASE ReleaseAtConfirm  BY <2>9 DEF ReleaseAtConfirm, Handled
  <2>10. CASE OkStarts  BY <2>10 DEF OkStarts, JoinThen
  <2>11. CASE OkAgain  BY <2>11 DEF OkAgain, JoinThen
  <2>12. CASE Ignored  BY <2>12 DEF Ignored, Handled
  <2> QED  BY <1>2, <2>1, <2>2, <2>3, <2>4, <2>5, <2>6, <2>7, <2>8, <2>9, <2>10, <2>11,
      <2>12 DEF InputThread
<1>3. CASE User
  <2>1. CASE MenuDump  BY <2>1 DEF MenuDump, JoinThen
  <2>2. CASE MenuPick  BY <2>2 DEF MenuPick
  <2>3. CASE Picked  BY <2>3 DEF Picked, JoinThen
  <2>4. CASE PickAborted  BY <2>4 DEF PickAborted
  <2>5. CASE Leave  BY <2>5 DEF Leave
  <2>6. CASE UserInput  BY <2>6 DEF UserInput, Input
  <2>7. CASE ReleaseAtMenu  BY <2>7 DEF ReleaseAtMenu
  <2> QED  BY <1>3, <2>1, <2>2, <2>3, <2>4, <2>5, <2>6, <2>7 DEF User
<1>4. CASE TimerTask
  <2>1. CASE TimerFire
    BY <2>1 DEF TimerFire
  <2>2. CASE TimerDecide
    BY <1>1, <2>2 DEF TimerDecide, HoldDone, Holds
  <2>3. CASE TimerStop
    BY <2>3 DEF TimerStop
  <2> QED  BY <1>4, <2>1, <2>2, <2>3 DEF TimerTask
<1>5. CASE Worker
  BY <1>5, WorkerRuns, WorkerLeaves DEF otherVars
<1>6. CASE Plug
  BY <1>6 DEF Plug
<1> QED  BY <1>2, <1>3, <1>4, <1>5, <1>6 DEF Next

\* Whenever the callback may be preempted: a write starts only on its decision, and that is
\* taken on the confirm screen of a write, with OK down for the whole hold.
THEOREM DecisionHolds == Spec => WriteIsDecided
<1>1. OpsInv /\ HoldInv /\ [Next]_vars =>
        [/\ tmr' = "fire" /\ tmr # "fire" =>
              view = "dump" /\ phase = "Confirm" /\ op \in Writes
              /\ key # "up" /\ holding /\ held = HoldTicks
         /\ Launching("prog") /\ ~verify_only => tmr = "fire"]_vars
  BY DecidedAfterHold
<1> QED  BY <1>1, HoldInvariant, PTL DEF Spec, WriteIsDecided

\* Only the menu and the picker change the request, and they go on to stop what runs.
LEMMA RequestStops ==
  ASSUME OpsInv, Next, Alive, kind = "prog",
         ~UNCHANGED <<verify_only, keep_boot, write_path>>
  PROVE  cancel' /\ gui' = "join"
<1>1. worker
  BY DEF OpsInv, Handover, Handle, Alive
<1> USE DEF opVars
<1>2. CASE InputThread
  <2>1. CASE EnterSearch  BY <2>1 DEF EnterSearch, Entered
  <2>2. CASE EnterPrompt  BY <2>2 DEF EnterPrompt, Entered
  <2>3. CASE StartJob  BY <2>3 DEF StartJob
  <2>4. CASE FreeTimer  BY <2>4 DEF FreeTimer
  <2>5. CASE Gone  BY <2>5 DEF Gone
  <2>6. CASE Back  BY <2>6 DEF Back
  <2>7. CASE LongBack  BY <2>7 DEF LongBack
  <2>8. CASE PressAtConfirm  BY <2>8 DEF PressAtConfirm
  <2>9. CASE ReleaseAtConfirm  BY <2>9 DEF ReleaseAtConfirm
  <2>10. CASE OkStarts  BY <2>10 DEF OkStarts
  <2>11. CASE OkAgain  BY <2>11 DEF OkAgain
  <2>12. CASE Ignored  BY <2>12 DEF Ignored
  <2> QED  BY <1>2, <2>1, <2>2, <2>3, <2>4, <2>5, <2>6, <2>7, <2>8, <2>9, <2>10, <2>11,
      <2>12 DEF InputThread
<1>3. CASE User
  <2>1. CASE MenuDump  BY <1>1, <2>1 DEF MenuDump, JoinThen
  <2>2. CASE MenuPick  BY <2>2 DEF MenuPick
  <2>3. CASE Picked  BY <1>1, <2>3 DEF Picked, JoinThen
  <2>4. CASE PickAborted  BY <2>4 DEF PickAborted
  <2>5. CASE Leave  BY <2>5 DEF Leave
  <2>6. CASE UserInput  BY <2>6 DEF UserInput, Input
  <2>7. CASE ReleaseAtMenu  BY <2>7 DEF ReleaseAtMenu
  <2> QED  BY <1>3, <2>1, <2>2, <2>3, <2>4, <2>5, <2>6, <2>7 DEF User
<1>4. CASE TimerTask
  BY <1>4 DEF TimerTask, TimerDecide, TimerStop, TimerFire
<1>5. CASE Worker
  BY <1>5, WorkerRuns
<1>6. CASE Plug
  BY <1>6 DEF Plug
<1> QED  BY <1>2, <1>3, <1>4, <1>5, <1>6 DEF Next

\* Who changes the image, the range or the verify flag of a running write or verify tells
\* it to stop and waits for it.
THEOREM RequestHolds == Spec => NewRequestStops
<1>1. OpsInv /\ [Next]_vars =>
        [Alive /\ kind = "prog" /\ ~UNCHANGED <<verify_only, keep_boot, write_path>> =>
           cancel' /\ gui' = "join"]_vars
  BY RequestStops
<1> QED  BY <1>1, OpsInvariant, PTL DEF Spec, NewRequestStops

LEMMA TargetKept ==
  ASSUME OpsInv, HoldInv, Firing, Next, view = "dump", op # "DumpFlash", target' # target
  PROVE  kind = IF op = "DumpRam" THEN "ram" ELSE "prog"
<1>1. Worker
  BY OthersLeaveTarget DEF Next, icspVars
<1>2. Alive /\ kind # "none"
  <2>1. Alive
    BY <1>1, WorkerRuns
  <2>2. CASE WorkerReturns  BY <2>2 DEF WorkerReturns, icspVars
  <2>3. CASE Dump
    <3>1. kind \in Dumps
      BY <2>3 DEF Dump, DumpBegin, DumpAlloc, DumpProbe, DumpNoDevice, DumpId, DumpChunk,
          DumpExit, DumpResult
    <3> QED  BY <2>1, <3>1 DEF Dumps
  <2>4. CASE Search
    <3>1. kind = "search"
      BY <2>4 DEF Search, SearchBegin, InitLines, SearchProbe, SearchRound, SearchExit,
          SearchPublish, At
    <3> QED  BY <2>1, <3>1
  <2>5. CASE Prog
    <3>1. kind = "prog"
      BY <2>5 DEF Prog, ProgBegin, InitLines, ProgConnect, ProgEnter, ProgEngine, ProgExit,
          ProgResult, At
    <3> QED  BY <2>1, <3>1
  <2> QED  BY <1>1, <2>1, <2>2, <2>3, <2>4, <2>5 DEF Worker
<1>3. op \in Ops /\ kind \in Dumps \cup {"none", "search", "prog"}
  BY DEF OpsInv, FieldTypes
<1> QED  BY <1>2, <1>3 DEF HoldInv, Asked, Fits, Firing, Ops, ProgOps, DumpOps, Dumps,
    Writes

\* On the RAM, write and verify screens only the job the user committed to moves the
\* target: opening the view does not reset it.
THEOREM PromptHolds == ASSUME ~Preempt PROVE Spec => PromptLeavesTarget
<1>1. OpsInv /\ HoldInv /\ Firing /\ [Next]_vars =>
        [view = "dump" /\ op # "DumpFlash" /\ target' # target =>
           kind = IF op = "DumpRam" THEN "ram" ELSE "prog"]_vars
  BY TargetKept
<1> QED  BY <1>1, FiringInvariant, PTL DEF Spec, PromptLeavesTarget
=============================================================================
