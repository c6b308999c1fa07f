------------------------------ MODULE ConsoleView ------------------------------
(***************************************************************************)
(* The serial monitor of src/view_console.c.  The USART interrupt puts the  *)
(* target's bytes into a stream buffer; a drain thread assembles them into  *)
(* lines for the log and counts them on the screen; the input thread opens, *)
(* closes and re-tunes the whole under both.                                *)
(*                                                                         *)
(* A byte is a line end or text (what does not print is logged as a dot: a  *)
(* text byte like the others).  `taken` is a history: the bytes the drain   *)
(* thread has received since the view was opened; the line buffer and the   *)
(* log hold positions in it, so a line says which bytes it shows.           *)
(***************************************************************************)
EXTENDS Integers, Sequences, SequencesExt

CONSTANTS
  RxSize,    \* RX_STREAM_SIZE
  ChunkMax,  \* sizeof(buf)
  LineCap,   \* sizeof(line) - 1
  NBauds,    \* BAUD_N
  MaxBytes   \* bound: bytes the target sends while the view is open

ASSUME ConsoleAssumption ==
  /\ RxSize \in Nat \ {0} /\ ChunkMax \in Nat \ {0} /\ LineCap \in Nat \ {0}
  /\ NBauds \in Nat \ {0} /\ MaxBytes \in Nat

VARIABLES
  stage,      \* where the input thread is: "closed", "open", or inside a callback
  serial,     \* c->serial: "null", "held" by us, or held with "rx" started
  rx_stream,  \* c->rx_stream: "null" or "alloc"
  pending,    \* the bytes in it
  drain_run,
  dpc,        \* where the drain thread is; "none" when there is no thread
  taken,      \* history, see above
  line, log,  \* the line buffer, and the lines logged
  rx_bytes, shown,   \* c->rx_bytes, and the count in the view's model
  baud_idx

bytesVars == <<taken, line, log, rx_bytes>>
vars == <<stage, serial, rx_stream, pending, drain_run, dpc, bytesVars, shown, baud_idx>>

Draining == dpc \notin {"none", "done"}

Init ==
  /\ stage = "closed" /\ serial = "null" /\ rx_stream = "null" /\ pending = <<>>
  /\ drain_run = FALSE /\ dpc = "none"
  /\ taken = <<>> /\ line = <<>> /\ log = <<>> /\ rx_bytes = 0 /\ shown = 0
  /\ baud_idx = NBauds - 1

(***************************************************************************)
(* The input thread: console_enter_cb.                                     *)
(***************************************************************************)

\* The count is reset, the stream allocated, the drain thread started.
Open ==
  /\ stage = "closed" /\ stage' = "acquire"
  /\ rx_bytes' = 0
  /\ rx_stream' = "alloc" /\ pending' = <<>>
  /\ drain_run' = TRUE /\ dpc' = "head"
  /\ taken' = <<>> /\ line' = <<>> /\ log' = <<>>
  /\ UNCHANGED <<serial, shown, baud_idx>>

\* The USART may be busy.
Acquire ==
  /\ stage = "acquire" /\ stage' = "show"
  /\ serial' \in {"rx", "null"}
  /\ UNCHANGED <<rx_stream, pending, drain_run, dpc, bytesVars, shown, baud_idx>>

\* The model shows 0, whatever has been counted since.
Show ==
  /\ stage = "show" /\ stage' = "open"
  /\ shown' = 0
  /\ UNCHANGED <<serial, rx_stream, pending, drain_run, dpc, bytesVars, baud_idx>>

(***************************************************************************)
(* console_input_cb: left and right step through the baud rates.           *)
(***************************************************************************)

\* Mutant: the index is not taken modulo BAUD_N.
StepUp(idx, step) == idx + step
Step(idx, step) == (idx + step) % NBauds

Tune ==
  /\ stage = "open"
  /\ \E step \in {1, NBauds - 1} : baud_idx' = Step(baud_idx, step)
  /\ IF serial = "rx" THEN stage' = "retune" /\ serial' = "held"
                      ELSE UNCHANGED <<stage, serial>>
  /\ UNCHANGED <<rx_stream, pending, drain_run, dpc, bytesVars, shown>>

Retune ==
  /\ stage = "retune" /\ stage' = "open"
  /\ serial' = "rx"
  /\ UNCHANGED <<rx_stream, pending, drain_run, dpc, bytesVars, shown, baud_idx>>

(***************************************************************************)
(* console_exit_cb: console_stop.                                          *)
(***************************************************************************)

\* Mutant: the receiver is left on.
StopLeavesRx ==
  /\ stage = "open" /\ stage' = "stop"
  /\ UNCHANGED <<serial, rx_stream, pending, drain_run, dpc, bytesVars, shown, baud_idx>>
StopSerial ==
  /\ stage = "open" /\ stage' = "stop"
  /\ serial' = "null"
  /\ UNCHANGED <<rx_stream, pending, drain_run, dpc, bytesVars, shown, baud_idx>>

StopDrain ==
  /\ stage = "stop" /\ stage' = "join"
  /\ drain_run' = FALSE
  /\ UNCHANGED <<serial, rx_stream, pending, dpc, bytesVars, shown, baud_idx>>

\* The thread is joined, then the stream is freed with what is left in it.
Join ==
  /\ stage = "join" /\ dpc = "done" /\ stage' = "closed"
  /\ dpc' = "none" /\ rx_stream' = "null" /\ pending' = <<>>
  /\ UNCHANGED <<serial, drain_run, bytesVars, shown, baud_idx>>

Input == Open \/ Acquire \/ Show \/ Tune \/ Retune \/ StopSerial \/ StopDrain \/ Join

(***************************************************************************)
(* console_rx_irq: with no room the byte is dropped, and nothing changes.  *)
(***************************************************************************)

RxIrq ==
  /\ serial = "rx" /\ Len(taken) + Len(pending) < MaxBytes
  /\ Len(pending) < RxSize
  /\ \E byte \in {"text", "end"} : pending' = Append(pending, byte)
  /\ UNCHANGED <<stage, serial, rx_stream, drain_run, dpc, bytesVars, shown, baud_idx>>

(***************************************************************************)
(* console_drain.                                                          *)
(***************************************************************************)

\* `while(c->drain_run)`.  Mutant: the flag is not looked at.
DrainOnly ==
  /\ dpc = "head" /\ dpc' = "receive"
  /\ UNCHANGED <<stage, serial, rx_stream, pending, drain_run, bytesVars, shown, baud_idx>>
DrainHead ==
  /\ dpc = "head" /\ dpc' = IF drain_run THEN "receive" ELSE "done"
  /\ UNCHANGED <<stage, serial, rx_stream, pending, drain_run, bytesVars, shown, baud_idx>>

\* Nothing for 100 ms: a partial line is logged.  Mutant: it is kept.
Flushed(l) == IF l.line = <<>> THEN l ELSE [line |-> <<>>, log |-> Append(l.log, l.line)]
IdleKeeps ==
  /\ dpc = "receive" /\ pending = <<>> /\ dpc' = "head"
  /\ UNCHANGED <<stage, serial, rx_stream, pending, drain_run, bytesVars, shown, baud_idx>>
Idle ==
  /\ dpc = "receive" /\ pending = <<>> /\ dpc' = "head"
  /\ LET l == Flushed([line |-> line, log |-> log])
     IN  line' = l.line /\ log' = l.log
  /\ UNCHANGED <<stage, serial, rx_stream, pending, drain_run, taken, rx_bytes, shown,
                 baud_idx>>

\* A byte that finds the line full ends it, like a line end.  Mutant: the last cell of
\* the buffer, which the terminating zero needs, is used as well.
FullLate(l) == Len(l) > LineCap
Full(l) == Len(l) >= LineCap

Assemble(l, n, byte) ==
  IF byte = "end" \/ Full(l.line) THEN Flushed(l) ELSE [l EXCEPT !.line = Append(@, n)]

\* What n bytes, appended to the line one by one, make of it and of the log; the first
\* is at position base + 1.
Assembled(start, bytes, base, n) ==
  LET l[k \in 0..n] == IF k = 0 THEN start ELSE Assemble(l[k - 1], base + k, bytes[k])
  IN  l[n]

\* Up to sizeof(buf) bytes.
Receive ==
  /\ dpc = "receive" /\ pending # <<>> /\ dpc' = "publish"
  /\ LET n == IF Len(pending) < ChunkMax THEN Len(pending) ELSE ChunkMax
         l == Assembled([line |-> line, log |-> log], pending, Len(taken), n)
     IN  /\ pending' = SubSeq(pending, n + 1, Len(pending))
         /\ taken' = taken \o SubSeq(pending, 1, n) /\ rx_bytes' = rx_bytes + n
         /\ line' = l.line /\ log' = l.log
  /\ UNCHANGED <<stage, serial, rx_stream, drain_run, shown, baud_idx>>

Publish ==
  /\ dpc = "publish" /\ dpc' = "head"
  /\ shown' = rx_bytes
  /\ UNCHANGED <<stage, serial, rx_stream, pending, drain_run, bytesVars, baud_idx>>

Drain == DrainHead \/ Idle \/ Receive \/ Publish

Next == Input \/ RxIrq \/ Drain

\* The scheduler runs both threads; nothing makes the user open, tune or close.
Fairness ==
  /\ WF_vars(Drain)
  /\ WF_vars(Acquire \/ Show \/ Retune \/ StopDrain \/ Join)

Spec == Init /\ [][Next]_vars /\ Fairness

(***************************************************************************)
(* Properties.                                                             *)
(***************************************************************************)

\* Every variable has its type.
TypeOK ==
  /\ stage \in {"closed", "acquire", "show", "open", "retune", "stop", "join"}
  /\ serial \in {"null", "held", "rx"} /\ rx_stream \in {"null", "alloc"}
  /\ pending \in Seq({"text", "end"}) /\ Len(pending) <= RxSize
  /\ drain_run \in BOOLEAN /\ dpc \in {"none", "head", "receive", "publish", "done"}
  /\ taken \in Seq({"text", "end"}) /\ line \in Seq(Nat) /\ log \in Seq(Seq(Nat))
  /\ rx_bytes \in Nat /\ shown \in Nat /\ baud_idx \in 0..NBauds - 1

\* Whatever the interrupt, the drain thread and the input thread do between them, the
\* stream buffer exists while either of the first two can still use it.
StreamOutlives == serial = "rx" \/ Draining => rx_stream = "alloc"

\* The log shows the bytes in their order: a line is a run of text bytes that followed
\* each other, never empty and never longer than its buffer, and starts after the one
\* before it; and of the text bytes received, only one that found the line buffer full is
\* missing.
Run(l) == l # <<>> /\ Len(l) <= LineCap /\ \A i \in 1..Len(l) - 1 : l[i + 1] = l[i] + 1
Shown(l) == IF l.line = <<>> THEN l.log ELSE Append(l.log, l.line)
Faithful(lines, bytes, n) ==
  /\ \A i \in DOMAIN lines : Run(lines[i])
  /\ \A i \in 1..Len(lines) - 1 : Last(lines[i]) < lines[i + 1][1]
  /\ \A i \in DOMAIN lines : \A k \in ToSet(lines[i]) : k \in 1..n /\ bytes[k] = "text"
  /\ \A k \in 1..n : bytes[k] = "text" =>
       \E i \in DOMAIN lines : \/ k \in ToSet(lines[i])
                               \/ Len(lines[i]) = LineCap /\ k = Last(lines[i]) + 1
LogIsFaithful == Faithful(Shown([line |-> line, log |-> log]), taken, Len(taken))

\* Closing the view returns: the drain thread sees that it has to stop, however many
\* bytes are waiting.
CloseReturns == stage = "stop" ~> stage = "closed"

\* A short burst without a line end still shows.
PartialShows == line # <<>> /\ stage = "open" ~> line = <<>> \/ stage # "open"
=============================================================================
