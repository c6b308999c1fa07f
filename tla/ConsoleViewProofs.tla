--------------------------- MODULE ConsoleViewProofs ---------------------------
(***************************************************************************)
(* Theorems about the serial monitor, for every size of the stream buffer,  *)
(* of the drain thread's own buffers and any number of bytes: the lifetime  *)
(* of the stream, the byte count, and what the log shows.                  *)
(***************************************************************************)
EXTENDS ConsoleView, Recursion

-----------------------------------------------------------------------------
(* The inductive invariant.                                                *)

\* The stream lives from the view's opening to the end of its close, the receiver and
\* the thread within it: console_stop ends one, then the other, then frees it.
Lifetime ==
  /\ rx_stream = "alloc" <=> stage # "closed"
  /\ stage \in {"closed", "acquire", "stop", "join"} => serial = "null"
  /\ stage = "closed" => dpc = "none"
  /\ stage \in {"closed", "acquire", "show", "open", "retune", "stop", "join"}

\* The bytes that came and those that wait are sequences.
Received ==
  taken \in Seq({"text", "end"}) /\ pending \in Seq({"text", "end"})

ConsoleInv == Lifetime /\ Received

LEMMA InitInv == Init => ConsoleInv
BY DEF Init, ConsoleInv, Lifetime, Received

LEMMA LifetimeKept == Lifetime /\ [Next]_vars => Lifetime'
<1> SUFFICES ASSUME Lifetime, [Next]_vars PROVE Lifetime'
  OBVIOUS
<1> USE DEF Lifetime, bytesVars
<1>1. CASE Open  BY <1>1 DEF Open
<1>2. CASE Acquire  BY <1>2 DEF Acquire
<1>3. CASE Show  BY <1>3 DEF Show
<1>4. CASE Tune  BY <1>4 DEF Tune
<1>5. CASE Retune  BY <1>5 DEF Retune
<1>6. CASE StopSerial  BY <1>6 DEF StopSerial
<1>7. CASE StopDrain  BY <1>7 DEF StopDrain
<1>8. CASE Join  BY <1>8 DEF Join
<1>9. CASE RxIrq  BY <1>9 DEF RxIrq
<1>10. CASE Drain
  BY <1>10 DEF Drain, DrainHead, Idle, Receive, Publish
<1>11. CASE UNCHANGED vars  BY <1>11 DEF vars
<1> QED
  BY <1>1, <1>2, <1>3, <1>4, <1>5, <1>6, <1>7, <1>8, <1>9, <1>10, <1>11 DEF Next, Input

\* A batch is a prefix of what is pending: it is taken, and the rest stays.
LEMMA Batch ==
  ASSUME NEW p \in Seq({"text", "end"}), NEW t \in Seq({"text", "end"}),
         NEW n \in Nat, n <= Len(p)
  PROVE  /\ SubSeq(p, n + 1, Len(p)) \in Seq({"text", "end"})
         /\ t \o SubSeq(p, 1, n) \in Seq({"text", "end"})
         /\ Len(t \o SubSeq(p, 1, n)) = Len(t) + n
<1>1. SubSeq(p, 1, n) \in Seq({"text", "end"}) /\ Len(SubSeq(p, 1, n)) = n
  OBVIOUS
<1> QED  BY <1>1

LEMMA ReceivedKept == Received /\ [Next]_vars => Received'
<1> SUFFICES ASSUME Received, [Next]_vars PROVE Received'
  OBVIOUS
<1> USE DEF Received, bytesVars
<1>1. CASE Open  BY <1>1 DEF Open
<1>2. CASE Acquire  BY <1>2 DEF Acquire
<1>3. CASE Show  BY <1>3 DEF Show
<1>4. CASE Tune  BY <1>4 DEF Tune
<1>5. CASE Retune  BY <1>5 DEF Retune
<1>6. CASE StopSerial  BY <1>6 DEF StopSerial
<1>7. CASE StopDrain  BY <1>7 DEF StopDrain
<1>8. CASE Join  BY <1>8 DEF Join
<1>9. CASE RxIrq  BY <1>9 DEF RxIrq
<1>10. CASE DrainHead  BY <1>10 DEF DrainHead
<1>11. CASE Idle  BY <1>11 DEF Idle
<1>12. CASE Receive
  <2> DEFINE n == IF Len(pending) < ChunkMax THEN Len(pending) ELSE ChunkMax
  <2>1. n \in Nat /\ n <= Len(pending)
    BY ConsoleAssumption
  <2>2. /\ pending' = SubSeq(pending, n + 1, Len(pending))
        /\ taken' = taken \o SubSeq(pending, 1, n)
        /\ rx_bytes' = rx_bytes + n
        /\ dpc' = "publish" /\ stage' = stage
    BY <1>12, Zenon DEF Receive
  <2> HIDE DEF n
  <2>3. taken' \in Seq({"text", "end"}) /\ pending' \in Seq({"text", "end"})
        /\ Len(taken') = Len(taken) + n
    BY <2>1, <2>2, Batch
  <2> QED  BY <2>2, <2>3
<1>13. CASE Publish  BY <1>13 DEF Publish
<1>14. CASE UNCHANGED vars  BY <1>14 DEF vars
<1> QED
  BY <1>1, <1>2, <1>3, <1>4, <1>5, <1>6, <1>7, <1>8, <1>9, <1>10, <1>11, <1>12, <1>13,
     <1>14 DEF Next, Input, Drain

LEMMA ConsoleInvariant == Spec => []ConsoleInv
<1>1. ConsoleInv /\ [Next]_vars => ConsoleInv'
  BY LifetimeKept, ReceivedKept DEF ConsoleInv
<1> QED  BY InitInv, <1>1, PTL DEF Spec

-----------------------------------------------------------------------------
(* The theorems.                                                           *)

\* The interrupt and the drain thread never use the stream buffer outside its life.
THEOREM StreamHolds == Spec => []StreamOutlives
<1>1. ConsoleInv => StreamOutlives
  BY DEF ConsoleInv, Lifetime, StreamOutlives, Draining
<1> QED  BY <1>1, ConsoleInvariant, PTL

-----------------------------------------------------------------------------
(* The lines.                                                              *)

Lines == [line : Seq(Nat), log : Seq(Seq(Nat))]

\* A line buffer after n bytes: what is logged and assembled is faithful to them, and the
\* open line ends with the last of them.
LineInv(l, bytes, n) ==
  /\ l \in Lines
  /\ Faithful(Shown(l), bytes, n)
  /\ l.line # <<>> => Last(l.line) = n

LEMMA FlushedIs ==
  ASSUME NEW l \in Lines
  PROVE  Flushed(l) \in Lines /\ Shown(Flushed(l)) = Shown(l) /\ Flushed(l).line = <<>>
BY DEF Lines, Flushed, Shown

\* The two ways a byte leaves the lines as they were: it is no text, or the last line is
\* full and ends just before it.
LEMMA FaithfulSkips ==
  ASSUME NEW n \in Nat, NEW bytes, NEW lines \in Seq(Seq(Nat)), Faithful(lines, bytes, n),
         \/ bytes[n + 1] # "text"
         \/ \E i \in DOMAIN lines : Len(lines[i]) = LineCap /\ Last(lines[i]) = n
  PROVE  Faithful(lines, bytes, n + 1)
<1>1. \A k \in 1 .. n + 1 : k \in 1 .. n \/ k = n + 1
  OBVIOUS
<1>2. \A k \in 1 .. n : k \in 1 .. n + 1
  OBVIOUS
<1> QED  BY <1>1, <1>2 DEF Faithful

LEMMA LastOrBefore ==
  ASSUME NEW m \in Nat, NEW i \in 1 .. (m + 1) - 1
  PROVE  i = m \/ i \in 1 .. m - 1
OBVIOUS

\* A text byte that opens a line.
LEMMA FaithfulOpens ==
  ASSUME NEW n \in Nat, NEW bytes, NEW lines \in Seq(Seq(Nat)), Faithful(lines, bytes, n),
         bytes[n + 1] = "text"
  PROVE  Faithful(Append(lines, <<n + 1>>), bytes, n + 1)
<1> DEFINE new == <<n + 1>>
           all == Append(lines, new)
<1>1. new \in Seq(Nat) /\ Len(new) = 1 /\ new[1] = n + 1 /\ ToSet(new) = {n + 1}
      /\ Last(new) = n + 1 /\ Run(new)
  BY ConsoleAssumption DEF ToSet, Last, Run
<1>2. /\ DOMAIN lines = 1 .. Len(lines) /\ Len(lines) \in Nat
      /\ DOMAIN all = 1 .. Len(lines) + 1 /\ Len(all) = Len(lines) + 1
      /\ all[Len(lines) + 1] = new
      /\ \A i \in DOMAIN lines : all[i] = lines[i]
  OBVIOUS
<1> HIDE DEF new, all
<1>3. \A i \in DOMAIN all : i \in DOMAIN lines \/ i = Len(lines) + 1
  BY <1>2
<1>4. \A i \in DOMAIN lines : i \in DOMAIN all
  BY <1>2
<1>5. ASSUME NEW i \in DOMAIN lines PROVE Last(lines[i]) \in 1 .. n
  <2>1. lines[i] \in Seq(Nat) /\ Run(lines[i])
    BY DEF Faithful
  <2>2. Len(lines[i]) \in DOMAIN lines[i]
    BY <2>1 DEF Run
  <2>3. Last(lines[i]) \in ToSet(lines[i])
    BY <2>2 DEF Last, ToSet
  <2> QED  BY <2>3 DEF Faithful
<1>6. ASSUME NEW i \in 1 .. Len(all) - 1 PROVE Last(all[i]) < all[i + 1][1]
  <2>1. CASE i \in 1 .. Len(lines) - 1
    <3>1. i \in DOMAIN lines /\ i + 1 \in DOMAIN lines
      BY <1>2, <2>1
    <3> QED  BY <1>2, <2>1, <3>1 DEF Faithful
  <2>2. CASE i = Len(lines)
    <3>1. i \in DOMAIN lines /\ all[i + 1] = new
      BY <1>2, <1>6, <2>2
    <3>2. Last(lines[i]) \in 1 .. n
      BY <1>5, <3>1
    <3> QED  BY <1>1, <1>2, <3>1, <3>2
  <2>3. i = Len(lines) \/ i \in 1 .. Len(lines) - 1
    BY <1>2, <1>6, LastOrBefore
  <2> QED  BY <2>1, <2>2, <2>3
<1>7. ASSUME NEW i \in DOMAIN all PROVE Run(all[i])
  BY <1>1, <1>2, <1>3 DEF Faithful
<1>8. ASSUME NEW i \in DOMAIN all, NEW k \in ToSet(all[i])
      PROVE  k \in 1 .. n + 1 /\ bytes[k] = "text"
  <2>1. CASE i \in DOMAIN lines
    BY <1>2, <2>1 DEF Faithful
  <2>2. CASE i = Len(lines) + 1
    BY <1>1, <1>2, <2>2
  <2> QED  BY <1>3, <2>1, <2>2
<1>9. ASSUME NEW k \in 1 .. n + 1, bytes[k] = "text"
      PROVE  \E i \in DOMAIN all : \/ k \in ToSet(all[i])
                                   \/ Len(all[i]) = LineCap /\ k = Last(all[i]) + 1
  <2>1. CASE k = n + 1
    <3>1. Len(lines) + 1 \in DOMAIN all
      BY <1>2
    <3> QED  BY <1>1, <1>2, <2>1, <3>1
  <2>2. CASE k \in 1 .. n
    <3>1. PICK i \in DOMAIN lines : \/ k \in ToSet(lines[i])
                                    \/ Len(lines[i]) = LineCap /\ k = Last(lines[i]) + 1
      BY <1>9, <2>2 DEF Faithful
    <3> QED  BY <1>2, <1>4, <3>1
  <2> QED  BY <2>1, <2>2
<1>10. Faithful(all, bytes, n + 1)
  BY <1>6, <1>7, <1>8, <1>9 DEF Faithful
<1> QED  BY <1>10 DEF all, new

\* A text byte that goes on with the line before it.
LEMMA FaithfulExtends ==
  ASSUME NEW n \in Nat, NEW bytes, NEW log0 \in Seq(Seq(Nat)), NEW l \in Seq(Nat),
         Faithful(Append(log0, l), bytes, n), bytes[n + 1] = "text",
         l # <<>>, Last(l) = n, Len(l) < LineCap
  PROVE  Faithful(Append(log0, Append(l, n + 1)), bytes, n + 1)
<1> DEFINE more == Append(l, n + 1)
           old  == Append(log0, l)
           all  == Append(log0, more)
           last == Len(log0) + 1
<1>1. /\ more \in Seq(Nat) /\ Len(more) = Len(l) + 1 /\ more[Len(l) + 1] = n + 1
      /\ \A i \in 1 .. Len(l) : more[i] = l[i]
      /\ Len(l) \in Nat \ {0} /\ DOMAIN l = 1 .. Len(l) /\ DOMAIN more = 1 .. Len(l) + 1
  OBVIOUS
<1>2. /\ Len(log0) \in Nat /\ DOMAIN old = 1 .. last /\ DOMAIN all = 1 .. last
      /\ Len(old) = last /\ Len(all) = last /\ old[last] = l /\ all[last] = more
      /\ \A i \in 1 .. Len(log0) : old[i] = log0[i] /\ all[i] = log0[i]
  OBVIOUS
<1>3. Last(more) = n + 1 /\ more[1] = l[1]
  BY <1>1 DEF Last
<1>4. ToSet(more) = ToSet(l) \cup {n + 1}
  <2>1. \A i \in 1 .. Len(l) + 1 : i \in 1 .. Len(l) \/ i = Len(l) + 1
    BY <1>1
  <2>2. Len(l) + 1 \in 1 .. Len(l) + 1 /\ 1 .. Len(l) \subseteq 1 .. Len(l) + 1
    BY <1>1
  <2>3. ASSUME NEW k \in ToSet(more) PROVE k \in ToSet(l) \cup {n + 1}
    <3>1. PICK i \in 1 .. Len(l) + 1 : k = more[i]
      BY <1>1, <2>3 DEF ToSet
    <3> QED  BY <1>1, <2>1, <3>1 DEF ToSet
  <2>4. ASSUME NEW k \in ToSet(l) PROVE k \in ToSet(more)
    <3>1. PICK i \in 1 .. Len(l) : k = l[i]
      BY <1>1, <2>4 DEF ToSet
    <3> QED  BY <1>1, <2>2, <3>1 DEF ToSet
  <2>5. n + 1 \in ToSet(more)
    BY <1>1, <2>2 DEF ToSet
  <2> QED  BY <2>3, <2>4, <2>5
<1>0. Faithful(old, bytes, n)
  OBVIOUS
<1> HIDE DEF more, old, all
<1>5. last \in Nat \ {0} /\ last \in 1 .. last /\ \A i \in 1 .. last : i # last => i \in 1 .. Len(log0)
  BY <1>2
<1>6. \A i \in 1 .. last : i # last => all[i] = old[i]
  BY <1>2, <1>5
<1>7. Run(more)
  <2>1. Run(l)
    BY <1>0, <1>2, <1>5 DEF Faithful
  <2>2. ASSUME NEW i \in 1 .. Len(more) - 1 PROVE more[i + 1] = more[i] + 1
    <3>1. CASE i = Len(l)
      <4>1. more[i] = n /\ more[i + 1] = n + 1
        BY <1>1, <3>1 DEF Last
      <4> QED  BY <4>1
    <3>2. CASE i \in 1 .. Len(l) - 1
      <4>1. i \in 1 .. Len(l) /\ i + 1 \in 1 .. Len(l)
        BY <1>1, <3>2
      <4> QED  BY <1>1, <2>1, <3>2, <4>1 DEF Run
    <3>3. i = Len(l) \/ i \in 1 .. Len(l) - 1
      BY <1>1, <2>2, LastOrBefore
    <3> QED  BY <3>1, <3>2, <3>3
  <2>3. more # <<>> /\ Len(more) <= LineCap
    BY <1>1, ConsoleAssumption
  <2> QED  BY <2>2, <2>3 DEF Run
<1>8. ASSUME NEW i \in 1 .. Len(all) - 1 PROVE Last(all[i]) < all[i + 1][1]
  <2>1. i \in 1 .. last /\ i # last /\ i + 1 \in 1 .. last /\ i \in 1 .. Len(old) - 1
    BY <1>2, <1>5
  <2>2. Last(old[i]) < old[i + 1][1] /\ all[i] = old[i]
    BY <1>0, <1>6, <2>1 DEF Faithful
  <2>3. all[i + 1][1] = old[i + 1][1]
    BY <1>2, <1>3, <1>6, <2>1
  <2> QED  BY <2>2, <2>3
<1>9. ASSUME NEW i \in DOMAIN all PROVE Run(all[i])
  BY <1>0, <1>2, <1>6, <1>7 DEF Faithful
<1>10. ASSUME NEW i \in DOMAIN all, NEW k \in ToSet(all[i])
       PROVE  k \in 1 .. n + 1 /\ bytes[k] = "text"
  <2>1. k \in ToSet(old[i]) \/ k = n + 1
    BY <1>2, <1>4, <1>6
  <2>2. k \in ToSet(old[i]) => k \in 1 .. n /\ bytes[k] = "text"
    BY <1>0, <1>2 DEF Faithful
  <2>3. k \in 1 .. n => k \in 1 .. n + 1
    OBVIOUS
  <2>4. k = n + 1 => k \in 1 .. n + 1 /\ bytes[k] = "text"
    BY <1>0
  <2> QED  BY <2>1, <2>2, <2>3, <2>4
<1>11. ASSUME NEW k \in 1 .. n + 1, bytes[k] = "text"
       PROVE  \E i \in DOMAIN all : \/ k \in ToSet(all[i])
                                    \/ Len(all[i]) = LineCap /\ k = Last(all[i]) + 1
  <2>1. CASE k = n + 1
    BY <1>2, <1>4, <1>5, <2>1
  <2>2. CASE k \in 1 .. n
    <3>1. PICK i \in DOMAIN old : \/ k \in ToSet(old[i])
                                  \/ Len(old[i]) = LineCap /\ k = Last(old[i]) + 1
      BY <1>0, <1>11, <2>2 DEF Faithful
    <3>2. CASE i = last
      <4>1. Len(old[i]) # LineCap
        BY <1>1, <1>2, <3>2, ConsoleAssumption
      <4> QED  BY <1>2, <1>4, <3>1, <3>2, <4>1
    <3>3. CASE i # last
      BY <1>2, <1>6, <3>1, <3>3
    <3> QED  BY <3>2, <3>3
  <2> QED  BY <2>1, <2>2
<1>12. Faithful(all, bytes, n + 1)
  BY <1>8, <1>9, <1>10, <1>11 DEF Faithful
<1> QED  BY <1>12 DEF all, more

LEMMA AssembleType ==
  ASSUME NEW l \in Lines, NEW n \in Nat, NEW byte
  PROVE  Assemble(l, n, byte) \in Lines
<1>1. Append(l.line, n) \in Seq(Nat) /\ l.log \in Seq(Seq(Nat))
  BY DEF Lines
<1>2. [l EXCEPT !.line = Append(l.line, n)] \in Lines
  BY <1>1 DEF Lines
<1> QED  BY <1>2, FlushedIs DEF Assemble

\* What Assembled computes: f[k] is the value of its loop after k bytes.
Values(f, start, bytes, base, n) ==
  /\ f \in [0 .. n -> Lines] /\ f[0] = start
  /\ \A k \in 1 .. n : f[k] = Assemble(f[k - 1], base + k, bytes[k])
  /\ Assembled(start, bytes, base, n) = f[n]

LEMMA AssembledIs ==
  ASSUME NEW start \in Lines, NEW base \in Nat, NEW n \in Nat, NEW bytes
  PROVE  \E f : Values(f, start, bytes, base, n)
<1> DEFINE step == [p \in Lines \X (1 .. n) |-> Assemble(p[1], base + p[2], bytes[p[2]])]
           Loop(f) == f = [k \in 0 .. n |-> IF k = 0 THEN start
                                            ELSE Assemble(f[k - 1], base + k, bytes[k])]
           g == CHOOSE f : Loop(f)
<1>1. step \in [Lines \X (1 .. n) -> Lines]
  BY AssembleType
<1>2. \A l \in Lines, k \in 1 .. n : step[<<l, k>>] = Assemble(l, base + k, bytes[k])
  OBVIOUS
<1> HIDE DEF step
<1>11. PICK f : Recursive(f, Lines, start, n, step)
  BY <1>1, RecursionExists
<1>3. /\ f \in [0 .. n -> Lines]
      /\ f = [k \in 0 .. n |-> IF k = 0 THEN start ELSE step[<<f[k - 1], k>>]]
  BY <1>11 DEF Recursive
<1>4. \A k \in 1 .. n : k \in 0 .. n /\ k - 1 \in 0 .. n /\ k # 0
  OBVIOUS
<1>5. /\ f[0] = start
      /\ \A k \in 1 .. n : f[k] = Assemble(f[k - 1], base + k, bytes[k])
  <2>1. 0 \in 0 .. n
    OBVIOUS
  <2>2. f[0] = start
    BY <1>3, <2>1
  <2>3. ASSUME NEW k \in 1 .. n PROVE f[k] = Assemble(f[k - 1], base + k, bytes[k])
    <3>1. f[k - 1] \in Lines
      BY <1>3, <1>4
    <3>2. f[k] = step[<<f[k - 1], k>>]
      BY <1>3, <1>4
    <3> QED  BY <1>2, <3>1, <3>2
  <2> QED  BY <2>2, <2>3
<1>6. Loop(f)
  <2>1. \A k \in 0 .. n : k = 0 \/ k \in 1 .. n
    OBVIOUS
  <2>2. \A k \in 0 .. n : f[k] = IF k = 0 THEN start ELSE Assemble(f[k - 1], base + k, bytes[k])
    BY <1>5, <2>1
  <2> QED  BY <1>3, <2>2
<1>7. Loop(g)
  BY <1>6
<1>8. Assembled(start, bytes, base, n) = g[n]
  BY DEF Assembled
<1> HIDE DEF g
<1>9. \A k \in 0 .. n : g[k] = IF k = 0 THEN start ELSE Assemble(g[k - 1], base + k, bytes[k])
  BY <1>7
<1>10. g[n] = f[n]
  <2> DEFINE T == {k \in 0 .. n : g[k] = f[k]}
  <2>1. 0 \in T
    BY <1>5, <1>9
  <2>2. ASSUME NEW k \in 0 .. n - 1, k \in T PROVE k + 1 \in T
    <3>1. k + 1 \in 1 .. n /\ k + 1 \in 0 .. n /\ (k + 1) - 1 = k /\ k + 1 # 0
      OBVIOUS
    <3>2. g[k + 1] = Assemble(g[k], base + (k + 1), bytes[k + 1])
      BY <1>9, <3>1
    <3>3. f[k + 1] = Assemble(f[k], base + (k + 1), bytes[k + 1])
      BY <1>5, <3>1
    <3> QED  BY <2>2, <3>1, <3>2, <3>3
  <2> HIDE DEF T
  <2>3. 0 .. n \subseteq T
    BY <2>1, <2>2, InductionUpTo
  <2> QED  BY <2>3 DEF T
<1> QED  BY <1>3, <1>5, <1>8, <1>10 DEF Values

\* One byte more.
LEMMA AssembleFaithful ==
  ASSUME NEW n \in Nat, NEW bytes, NEW l, LineInv(l, bytes, n), bytes[n + 1] \in {"text", "end"}
  PROVE  LineInv(Assemble(l, n + 1, bytes[n + 1]), bytes, n + 1)
<1> DEFINE byte == bytes[n + 1]
           m == Assemble(l, n + 1, byte)
<1>1. l \in Lines /\ l.line \in Seq(Nat) /\ l.log \in Seq(Seq(Nat)) /\ Faithful(Shown(l), bytes, n)
  BY DEF LineInv, Lines
<1>2. m \in Lines
  BY <1>1, AssembleType
<1>3. Shown(l) \in Seq(Seq(Nat))
  BY <1>1 DEF Shown
<1>4. CASE byte = "end" \/ Full(l.line)
  <2>1. m = Flushed(l)
    BY <1>4 DEF Assemble
  <2>2. m.line = <<>> /\ Shown(m) = Shown(l)
    BY <1>1, <2>1, FlushedIs
  <2>3. \/ byte # "text"
        \/ \E i \in DOMAIN Shown(l) : Len(Shown(l)[i]) = LineCap /\ Last(Shown(l)[i]) = n
    <3>1. CASE byte # "text"
      BY <3>1
    <3>2. CASE byte = "text"
      <4>1. Len(l.line) >= LineCap
        BY <1>4, <3>2 DEF Full
      <4>2. l.line # <<>> /\ Last(l.line) = n
        BY <1>1, <4>1, ConsoleAssumption DEF LineInv
      <4>3. /\ Shown(l) = Append(l.log, l.line)
            /\ Len(l.log) + 1 \in DOMAIN Shown(l) /\ Shown(l)[Len(l.log) + 1] = l.line
        BY <1>1, <4>2 DEF Shown
      <4>4. Len(l.line) <= LineCap
        BY <1>1, <4>3 DEF Faithful, Run
      <4>5. Len(l.line) = LineCap
        BY <1>1, <4>1, <4>4, ConsoleAssumption
      <4> QED  BY <4>2, <4>3, <4>5
    <3> QED  BY <3>1, <3>2
  <2>4. Faithful(Shown(l), bytes, n + 1)
    BY <1>1, <1>3, <2>3, FaithfulSkips
  <2> QED  BY <1>2, <2>2, <2>4 DEF LineInv
<1>5. CASE byte = "text" /\ ~Full(l.line)
  <2>1. m.line = Append(l.line, n + 1) /\ m.log = l.log
    BY <1>1, <1>5 DEF Assemble, Lines
  <2>2. m.line # <<>> /\ Last(m.line) = n + 1
    BY <1>1, <2>1 DEF Last
  <2>3. Shown(m) = Append(l.log, Append(l.line, n + 1))
    BY <2>1, <2>2 DEF Shown
  <2>4. Faithful(Shown(m), bytes, n + 1)
    <3>1. CASE l.line = <<>>
      <4>1. Append(l.line, n + 1) = <<n + 1>> /\ Shown(l) = l.log
        BY <3>1 DEF Shown
      <4> QED  BY <1>1, <1>5, <2>3, <4>1, FaithfulOpens
    <3>2. CASE l.line # <<>>
      <4>1. Shown(l) = Append(l.log, l.line) /\ Last(l.line) = n
        BY <3>2 DEF Shown, LineInv
      <4>2. Len(l.line) < LineCap
        BY <1>1, <1>5, ConsoleAssumption DEF Full
      <4> QED  BY <1>1, <1>5, <2>3, <3>2, <4>1, <4>2, FaithfulExtends
    <3> QED  BY <3>1, <3>2
  <2> QED  BY <1>2, <2>2, <2>4 DEF LineInv
<1> QED  BY <1>4, <1>5

\* The property speaks of the bytes up to n only.
LEMMA FaithfulSame ==
  ASSUME NEW n \in Nat, NEW lines, NEW bytes, NEW more, Faithful(lines, bytes, n),
         \A k \in 1 .. n : more[k] = bytes[k]
  PROVE  Faithful(lines, more, n)
BY DEF Faithful

\* A whole batch.
LEMMA BatchFaithful ==
  ASSUME NEW t \in Seq({"text", "end"}), NEW p \in Seq({"text", "end"}),
         NEW n \in Nat, n <= Len(p), NEW l, LineInv(l, t, Len(t))
  PROVE  LineInv(Assembled(l, p, Len(t), n), t \o SubSeq(p, 1, n), Len(t) + n)
<1> DEFINE all == t \o SubSeq(p, 1, n)
<1>1. /\ Len(t) \in Nat /\ Len(SubSeq(p, 1, n)) = n
      /\ \A k \in 1 .. n : SubSeq(p, 1, n)[k] = p[k] /\ p[k] \in {"text", "end"}
  OBVIOUS
<1>2. /\ \A k \in 1 .. Len(t) : all[k] = t[k]
      /\ \A k \in 1 .. n : all[Len(t) + k] = p[k]
  BY <1>1
<1> HIDE DEF all
<1>3. l \in Lines /\ LineInv(l, all, Len(t))
  BY <1>1, <1>2, FaithfulSame DEF LineInv
<1>0. PICK f : Values(f, l, p, Len(t), n)
  BY <1>1, <1>3, AssembledIs
<1>4. /\ f[0] = l
      /\ \A k \in 1 .. n : f[k] = Assemble(f[k - 1], Len(t) + k, p[k])
      /\ Assembled(l, p, Len(t), n) = f[n]
  BY <1>0 DEF Values
<1> DEFINE T == {k \in 0 .. n : LineInv(f[k], all, Len(t) + k)}
<1>5. 0 \in T
  BY <1>1, <1>3, <1>4
<1>6. ASSUME NEW k \in 0 .. n - 1, k \in T PROVE k + 1 \in T
  <2>1. k + 1 \in 1 .. n /\ k + 1 \in 0 .. n /\ (k + 1) - 1 = k /\ Len(t) + k \in Nat
        /\ Len(t) + (k + 1) = (Len(t) + k) + 1
    BY <1>1
  <2>2. f[k + 1] = Assemble(f[k], (Len(t) + k) + 1, all[(Len(t) + k) + 1])
    BY <1>2, <1>4, <2>1
  <2>3. all[(Len(t) + k) + 1] \in {"text", "end"}
    BY <1>1, <1>2, <2>1
  <2>4. LineInv(f[k + 1], all, (Len(t) + k) + 1)
    BY <1>6, <2>1, <2>2, <2>3, AssembleFaithful
  <2> QED  BY <2>1, <2>4
<1> HIDE DEF T
<1>7. 0 .. n \subseteq T
  BY <1>5, <1>6, InductionUpTo
<1>8. n \in T
  BY <1>7
<1> QED  BY <1>4, <1>8 DEF T, all

\* What is in the line buffer and in the log is faithful to the bytes taken.
Assembly == LineInv([line |-> line, log |-> log], taken, Len(taken))

LEMMA InitAssembly == Init => Assembly
<1>1. Faithful(<<>>, <<>>, 0)
  BY DEF Faithful
<1> QED  BY <1>1 DEF Init, Assembly, LineInv, Lines, Shown

LEMMA AssemblyKept == Received /\ Assembly /\ [Next]_vars => Assembly'
<1> SUFFICES ASSUME Received, Assembly, [Next]_vars PROVE Assembly'
  OBVIOUS
<1>1. CASE UNCHANGED <<taken, line, log>>
  BY <1>1 DEF Assembly
<1>2. CASE Open
  <2>1. Faithful(<<>>, <<>>, 0)
    BY DEF Faithful
  <2> QED  BY <1>2, <2>1 DEF Open, Assembly, LineInv, Lines, Shown
<1>3. CASE Idle
  <2>1. [line |-> line, log |-> log] \in Lines
    BY DEF Assembly, LineInv
  <2>2. /\ line' = Flushed([line |-> line, log |-> log]).line
        /\ log' = Flushed([line |-> line, log |-> log]).log /\ taken' = taken
    BY <1>3 DEF Idle
  <2>3. [line |-> line', log |-> log'] = Flushed([line |-> line, log |-> log])
    BY <2>1, <2>2, FlushedIs DEF Lines
  <2> QED  BY <2>1, <2>2, <2>3, FlushedIs DEF Assembly, LineInv
<1>4. CASE Receive
  <2> DEFINE n == IF Len(pending) < ChunkMax THEN Len(pending) ELSE ChunkMax
             l == Assembled([line |-> line, log |-> log], pending, Len(taken), n)
  <2>1. n \in Nat /\ n <= Len(pending) /\ taken \in Seq({"text", "end"})
        /\ pending \in Seq({"text", "end"})
    BY ConsoleAssumption DEF Received
  <2>2. taken' = taken \o SubSeq(pending, 1, n) /\ line' = l.line /\ log' = l.log
    BY <1>4, Zenon DEF Receive
  <2> HIDE DEF n
  <2>3. LineInv(l, taken', Len(taken) + n) /\ Len(taken') = Len(taken) + n
    BY <2>1, <2>2, Batch, BatchFaithful DEF Assembly
  <2> HIDE DEF l
  <2>4. [line |-> line', log |-> log'] = l
    BY <2>2, <2>3 DEF LineInv, Lines
  <2> QED  BY <2>3, <2>4 DEF Assembly
<1> QED
  BY <1>1, <1>2, <1>3, <1>4 DEF Next, Input, Drain, Acquire, Show, Tune, Retune, StopSerial,
     StopDrain, Join, RxIrq, DrainHead, Publish, vars, bytesVars

\* The log shows the bytes received, in their order, in runs that fit the line buffer, and
\* misses no text byte but one that found it full: for every size of the buffers, however
\* the bytes come.
THEOREM LogHolds == Spec => []LogIsFaithful
<1>1. Init => Assembly
  BY InitAssembly
<1>2. Received /\ Assembly /\ [Next]_vars => Assembly'
  BY AssemblyKept
<1>3. Spec => []Received
  BY ConsoleInvariant, PTL DEF ConsoleInv
<1>4. Assembly => LogIsFaithful
  BY DEF Assembly, LineInv, LogIsFaithful
<1> QED  BY <1>1, <1>2, <1>3, <1>4, PTL DEF Spec

-----------------------------------------------------------------------------
(* Type correctness.                                                       *)

\* The stream buffer and the baud index stay in their bounds.
Bounds ==
  /\ pending \in Seq({"text", "end"}) /\ Len(pending) <= RxSize
  /\ stage \in {"closed", "acquire", "show", "open", "retune", "stop", "join"}
  /\ serial \in {"null", "held", "rx"} /\ rx_stream \in {"null", "alloc"}
  /\ drain_run \in BOOLEAN /\ dpc \in {"none", "head", "receive", "publish", "done"}
  /\ taken \in Seq({"text", "end"})
  /\ rx_bytes \in Nat /\ shown \in Nat /\ baud_idx \in 0..NBauds - 1

LEMMA BoundsKept == Bounds /\ [Next]_vars => Bounds'
<1> SUFFICES ASSUME Bounds, [Next]_vars PROVE Bounds'
  OBVIOUS
<1> USE ConsoleAssumption DEF Bounds, bytesVars
<1>1. CASE Open  BY <1>1 DEF Open
<1>2. CASE Acquire  BY <1>2 DEF Acquire
<1>3. CASE Show  BY <1>3 DEF Show
<1>4. CASE Tune
  <2>1. \A i \in 0 .. NBauds - 1, step \in {1, NBauds - 1} : Step(i, step) \in 0 .. NBauds - 1
    BY DEF Step
  <2> QED  BY <1>4, <2>1 DEF Tune
<1>5. CASE Retune  BY <1>5 DEF Retune
<1>6. CASE StopSerial  BY <1>6 DEF StopSerial
<1>7. CASE StopDrain  BY <1>7 DEF StopDrain
<1>8. CASE Join  BY <1>8 DEF Join
<1>9. CASE RxIrq  BY <1>9 DEF RxIrq
<1>10. CASE DrainHead  BY <1>10 DEF DrainHead
<1>11. CASE Idle  BY <1>11 DEF Idle
<1>12. CASE Receive
  <2> DEFINE n == IF Len(pending) < ChunkMax THEN Len(pending) ELSE ChunkMax
  <2>1. n \in Nat /\ n <= Len(pending)
    OBVIOUS
  <2>2. /\ pending' = SubSeq(pending, n + 1, Len(pending))
        /\ taken' = taken \o SubSeq(pending, 1, n)
        /\ rx_bytes' = rx_bytes + n /\ dpc' = "publish"
        /\ UNCHANGED <<stage, serial, rx_stream, drain_run, shown, baud_idx>>
    BY <1>12, Zenon DEF Receive
  <2> HIDE DEF n
  <2>3. taken' \in Seq({"text", "end"}) /\ pending' \in Seq({"text", "end"})
    BY <2>1, <2>2, Batch
  <2>4. Len(pending') <= Len(pending)
    BY <2>1, <2>2
  <2>5. rx_bytes' \in Nat /\ Len(pending') <= RxSize
    BY <2>1, <2>2, <2>3, <2>4
  <2> QED  BY <2>2, <2>3, <2>5
<1>13. CASE Publish  BY <1>13 DEF Publish
<1>14. CASE UNCHANGED vars  BY <1>14 DEF vars
<1> QED
  BY <1>1, <1>2, <1>3, <1>4, <1>5, <1>6, <1>7, <1>8, <1>9, <1>10, <1>11, <1>12, <1>13,
     <1>14 DEF Next, Input, Drain

\* Every variable has its type; the stream buffer never holds more than its size, and the
\* baud index stays in the table, whichever way it is stepped.
THEOREM ConsoleTypeHolds == Spec => []TypeOK
<1>1. Init => Bounds
  <2> SUFFICES ASSUME Init PROVE Bounds
    OBVIOUS
  <2>1. /\ pending = <<>> /\ taken = <<>> /\ rx_bytes = 0 /\ shown = 0
        /\ stage = "closed" /\ serial = "null" /\ rx_stream = "null"
        /\ drain_run = FALSE /\ dpc = "none"
    BY DEF Init
  <2>2. baud_idx \in 0 .. NBauds - 1
    BY ConsoleAssumption DEF Init
  <2>3. pending \in Seq({"text", "end"}) /\ taken \in Seq({"text", "end"})
    BY <2>1
  <2>4. Len(pending) = 0
    BY <2>1
  <2>5. Len(pending) <= RxSize
    BY <2>4, ConsoleAssumption
  <2>6. rx_bytes \in Nat /\ shown \in Nat
    BY <2>1
  <2>7. drain_run \in BOOLEAN
    BY <2>1
  <2> QED  BY <2>1, <2>2, <2>3, <2>5, <2>6, <2>7 DEF Bounds
<1>2. Bounds /\ [Next]_vars => Bounds'
  BY BoundsKept
<1>3. Init => Assembly
  BY InitAssembly
<1>4. Spec => []Received
  BY ConsoleInvariant, PTL DEF ConsoleInv
<1>5. Bounds /\ Assembly => TypeOK
  BY DEF Bounds, Assembly, LineInv, Lines, TypeOK
<1> QED  BY <1>1, <1>2, <1>3, <1>4, <1>5, AssemblyKept, PTL DEF Spec
=============================================================================
