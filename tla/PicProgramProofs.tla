-------------------------- MODULE PicProgramProofs --------------------------
(***************************************************************************)
(* Proofs about the write/flash engine, for every geometry, every image,   *)
(* every number of attempts and of faults.                                 *)
(*                                                                         *)
(* The argument: Positions bounds every index the engine uses, so TypeOK /\ *)
(* Positions is inductive.  The safety theorems build on it, each with an   *)
(* inductive invariant of its own that says what the property needs to know *)
(* about where the engine is: Bracketed, BootUntouched, Refusals, CodeGuard, *)
(* Verified, Healing and Placing.                                           *)
(***************************************************************************)
EXTENDS PicProgram, TLAPS

WriteSide == {"preflight", "bulk", "row", "wopen", "wread", "wblock", "wpoll"}

\* Where the engine is in its range, its chunk and its file.
Positions ==
  /\ pc \in {"row", "wread", "wblock", "wpoll", "vread"} => cur <= end
  /\ pc = "wblock" => off < Want
  /\ pc = "row" => mode = "app" /\ OnRow(cur)
  /\ pc = "bulk" => mode = "full"
  /\ pc \in WriteSide => mode # "verify"
  /\ mode = "app" => end = BootBlock - 1
  /\ pos <= lim
  /\ lim <= image.size
  /\ pc \in {"idle", "report"} => pos = 0 /\ lim = 0

TypeInv == TypeOK /\ Positions

-----------------------------------------------------------------------------
(* Lemmas about the geometry and the operators.                            *)

\* Rows do not straddle the boot region: the row at c < BootBlock ends below it.
LEMMA RowFits ==
  ASSUME NEW c \in Nat, OnRow(c), c < BootBlock
  PROVE  c + RowBlocks <= BootBlock /\ OnRow(c + RowBlocks)
<1>1. RowBlocks \in Nat \ {0} /\ BootBlock \in 1 .. NBlocks - 1 /\ NBlocks \in Nat
  BY GeometryAssumption
<1>2. PICK k \in 0 .. NBlocks : c = RowBlocks * k
  BY DEF OnRow
<1>3. PICK m \in 0 .. NBlocks : BootBlock = RowBlocks * m
  BY GeometryAssumption DEF OnRow
<1>4. k < m
  BY <1>1, <1>2, <1>3
<1>5. RowBlocks * k + RowBlocks <= RowBlocks * m
  BY <1>1, <1>4
<1>6. c + RowBlocks = RowBlocks * (k + 1) /\ k + 1 \in 0 .. NBlocks
  BY <1>1, <1>2, <1>4
<1>7. QED
  BY <1>1, <1>2, <1>3, <1>5, <1>6 DEF OnRow

LEMMA SmallerIs ==
  ASSUME NEW a \in Int, NEW b \in Int
  PROVE  /\ Smaller(a, b) \in {a, b}
         /\ Smaller(a, b) <= a /\ Smaller(a, b) <= b
  BY DEF Smaller

\* A chunk is not empty and ends inside the range.
LEMMA WantFits ==
  ASSUME TypeOK, cur <= end
  PROVE  Want \in 1 .. ChunkBlocks /\ cur + Want <= end + 1 /\ cur + Want \in 0 .. NBlocks
  BY GeometryAssumption DEF TypeOK, Want, Smaller, Blocks

\* What is read of a chunk is no more than the chunk, nor than the file has.
LEMMA AvailFits ==
  ASSUME TypeInv, cur <= end
  PROVE  Avail \in 0 .. Want /\ pos + Avail <= lim
  BY WantFits DEF TypeInv, TypeOK, Positions, Avail, Smaller

\* An image's data, wherever it is read.
LEMMA ImageData ==
  ASSUME image \in Images
  PROVE  /\ image.size \in Nat /\ image.data \in [Blocks -> Content]
         /\ \A b \in Blocks : ImageAt(b) \in Content
  BY DataAssumption DEF ImageAt, Content

LEMMA RangeEndType ==
  ASSUME NEW m \in Modes, NEW img \in Images
  PROVE  RangeEnd(m, img) \in Blocks /\ (m = "app" => RangeEnd(m, img) = BootBlock - 1)
<1>1. img.size \in Nat
  BY DataAssumption
<1>2. QED
  BY <1>1, GeometryAssumption DEF RangeEnd, Modes, Blocks, Smaller

\* A read of the available part of a chunk keeps the buffer and the file in type.
LEMMA ReadType ==
  ASSUME TypeInv, cur <= end, NEW got \in 0 .. Avail, ReadChunk(got)
  PROVE  /\ buf' \in [0 .. ChunkBlocks - 1 -> Content]
         /\ pos' \in 0 .. NBlocks /\ pos' <= lim /\ lim' = lim
<1>1. Avail \in 0 .. Want /\ pos + Avail <= lim /\ pos \in 0 .. NBlocks
      /\ lim \in 0 .. NBlocks /\ NBlocks \in Nat /\ ChunkBlocks \in Nat /\ Want \in 1 .. ChunkBlocks
  BY AvailFits, WantFits, GeometryAssumption DEF TypeInv, TypeOK
<1>2. ASSUME NEW i \in 0 .. ChunkBlocks - 1, i < got
      PROVE  image.data[pos + i] \in Content
  <2>1. pos + i \in Blocks
    BY <1>1, <1>2 DEF Blocks
  <2>2. QED
    BY <2>1, ImageData DEF TypeInv, TypeOK
<1>3. {} \in Content
  BY DEF Content
<1>4. QED
  BY <1>1, <1>2, <1>3 DEF ReadChunk

LEMMA OpenType ==
  ASSUME TypeInv, OpenFile
  PROVE  /\ pos' = 0 /\ lim' \in 0 .. NBlocks /\ lim' <= image.size
         /\ faults' \in 0 .. MaxFaults
<1>1. image.size \in Nat /\ NBlocks \in Nat /\ MaxFaults \in Nat /\ faults \in 0 .. MaxFaults
  BY ImageData, GeometryAssumption, TriesAssumption DEF TypeInv, TypeOK
<1>2. QED
  BY <1>1 DEF OpenFile, Fault, NoFault, Smaller

\* A fault, or none, leaves the budget in range.
LEMMA FaultType ==
  ASSUME TypeOK, NoFault \/ (\E k \in Kinds : Fault(k))
  PROVE  faults' \in 0 .. MaxFaults
  BY TriesAssumption DEF TypeOK, Fault, NoFault

\* Erasing keeps the chip in type, empties range at most and nothing else.
LEMMA EraseType ==
  ASSUME TypeOK, NEW range \in SUBSET Blocks, Erase(range)
  PROVE  /\ flash' \in [Blocks -> Content] /\ protected' \in BOOLEAN
         /\ \A b \in Blocks : flash'[b] \in {flash[b], {}}
         /\ \A b \in Blocks \ range : flash'[b] = flash[b]
         /\ faults' \in 0 .. MaxFaults
<1>1. PICK missed \in SUBSET Blocks : EraseExcept(missed) /\ Blocks \ range \subseteq missed
  BY DEF Erase
<1>2. faults' \in 0 .. MaxFaults
  BY FaultType DEF Erase, Kinds
<1>3. {} \in Content
  BY DEF Content
<1>4. QED
  BY <1>1, <1>2, <1>3 DEF EraseExcept, TypeOK

\* Programming keeps the chip in type and touches one block, adding its bits only.
LEMMA ProgramType ==
  ASSUME TypeOK, NEW b \in Blocks, NEW content \in Content, ProgramBlock(b, content)
  PROVE  /\ flash' \in [Blocks -> Content]
         /\ \A c \in Blocks \ {b} : flash'[c] = flash[c]
         /\ flash'[b] \subseteq flash[b] \cup content
         /\ faults' \in 0 .. MaxFaults
<1>1. PICK taken \in SUBSET content : flash' = [flash EXCEPT ![b] = @ \cup taken]
  BY DEF ProgramBlock
<1>2. faults' \in 0 .. MaxFaults
  BY FaultType DEF ProgramBlock, Kinds
<1>3. QED
  BY <1>1, <1>2 DEF TypeOK, Content

-----------------------------------------------------------------------------
(* Type correctness.                                                       *)

LEMMA InitType == Init => TypeInv
<1> SUFFICES ASSUME Init PROVE TypeInv
  OBVIOUS
<1>1. NBlocks \in Nat /\ NBlocks > 1 /\ ChunkBlocks \in Nat \ {0} /\ MaxFaults \in Nat
  BY GeometryAssumption, TriesAssumption
<1>3. flash \in [Blocks -> Content] /\ flash0 \in [Blocks -> Content]
  BY DataAssumption DEF Init
<1>4. buf \in [0 .. ChunkBlocks - 1 -> Content]
  BY DEF Init, NoBuf, Content
<1>5. /\ IcspTypeOK /\ end \in Blocks /\ faults \in 0 .. MaxFaults
      /\ pos \in 0 .. NBlocks /\ lim \in 0 .. NBlocks /\ cur \in 0 .. NBlocks
      /\ off \in 0 .. ChunkBlocks /\ try \in Nat
  BY <1>1 DEF Init, IcspTypeOK, Blocks
<1>10. protected \in BOOLEAN
  BY DEF Init
<1>6. TypeOK
  BY <1>3, <1>4, <1>5, <1>10 DEF Init, TypeOK, Parts, Modes, NoFail
<1>7. image.size \in Nat
  BY ImageData DEF Init
<1>8. Positions
  BY <1>7 DEF Init, Positions, WriteSide
<1>9. QED
  BY <1>6, <1>8 DEF TypeInv

LEMMA NextType == TypeInv /\ [Next]_vars => TypeInv'
<1> SUFFICES ASSUME TypeInv, [Next]_vars PROVE TypeOK' /\ Positions'
  BY DEF TypeInv
<1> USE DEF Modes, Parts, NoFail
<1>0. /\ NBlocks \in Nat /\ NBlocks > 1 /\ ChunkBlocks \in Nat \ {0}
      /\ RowBlocks \in Nat \ {0} /\ BootBlock \in 1 .. NBlocks - 1 /\ OnRow(0)
  BY GeometryAssumption DEF OnRow
<1>1. ASSUME NEW m \in Modes, NEW img \in Images, NEW p \in Parts, Start(m, img, p)
      PROVE  TypeOK' /\ Positions'
  <2>1. RangeEnd(m, img) \in Blocks /\ (m = "app" => RangeEnd(m, img) = BootBlock - 1)
    BY RangeEndType
  <2>2. end' \in Blocks /\ (m = "app" => end' = BootBlock - 1)
    BY <1>0, <1>1, <2>1 DEF Start, Blocks
  <2>3. faults' \in 0 .. MaxFaults
    BY <1>1, FaultType DEF Start, Kinds, TypeInv
  <2>4. TypeOK'
    BY <1>1, <2>2, <2>3 DEF Start, TypeInv, TypeOK, IcspInit, IcspTypeOK, chipVars, fileVars
  <2>5. pc' = "enter" /\ mode' = m /\ pos' = 0 /\ lim' = 0 /\ image' \in Images
    BY <1>1 DEF Start, fileVars, TypeInv, Positions
  <2>6. image'.size \in Nat
    BY <2>5, DataAssumption
  <2>7. QED
    BY <2>2, <2>4, <2>5, <2>6 DEF Positions, WriteSide
<1>2. ASSUME Cancel PROVE TypeOK' /\ Positions'
  BY <1>2 DEF Cancel, TypeInv, TypeOK, Positions, icspVars, IcspTypeOK, chipVars, reqVars,
     resVars, fileVars, Want, Smaller, OnRow, WriteSide, Blocks
<1>3. ASSUME Identified PROVE TypeOK' /\ Positions'
  <2>1. TypeOK'
    BY <1>3, FaultType DEF Identified, Answers, Is67J60, IcspEnter, Driven, TypeInv, TypeOK, IcspTypeOK,
       Touching, reqVars, fileVars
  <2>2. Positions'
    BY <1>3 DEF Identified, TypeInv, Positions, WriteSide, reqVars, fileVars
  <2>3. QED
    BY <2>1, <2>2
<1>4. ASSUME NotIdentified PROVE TypeOK' /\ Positions'
  <2>1. faults' \in 0 .. MaxFaults
    BY <1>4, FaultType DEF NotIdentified, Answers, NoAnswer, TypeInv, Kinds
  <2>2. TypeOK'
    BY <1>4, <2>1 DEF NotIdentified, IcspExit, TypeInv, TypeOK, IcspTypeOK,
       Touching, chipVars, reqVars, fileVars
  <2>3. Positions'
    BY <1>4 DEF NotIdentified, TypeInv, Positions, WriteSide, reqVars, fileVars
  <2>4. QED
    BY <2>2, <2>3
<1>5. ASSUME Preflight PROVE TypeOK' /\ Positions'
  <2>1. faults' \in 0 .. MaxFaults
    BY <1>5, FaultType DEF Preflight, TypeInv, Kinds
  <2>5. pc' \in Touching \cup {"exit"}
    BY <1>5 DEF Preflight, Abort, Touching
  <2>6. ok' \in {FALSE, ok} /\ cp_refused' \in {TRUE, cp_refused}
    BY <1>5 DEF Preflight, Abort
  <2>7. try' \in {0, try} /\ cur' \in {0, cur}
    BY <1>5 DEF Preflight
  <2>2. TypeOK'
    <3>1. UNCHANGED <<icspVars, chipVars, reqVars, device_id, fail_addr, fileVars,
                      cancel, outcome, off>>
      BY <1>5 DEF Preflight
    <3>2. ok' \in BOOLEAN /\ cp_refused' \in BOOLEAN
      BY <2>6 DEF TypeInv, TypeOK
    <3>3. try' \in Nat /\ cur' \in 0 .. NBlocks
      BY <1>0, <2>7 DEF TypeInv, TypeOK
    <3>4. QED
      BY <2>1, <2>5, <3>1, <3>2, <3>3 DEF TypeInv, TypeOK, IcspTypeOK,
         icspVars, chipVars, reqVars, fileVars
  <2>3. Positions'
    BY <1>5, <1>0 DEF Preflight, Abort, TypeInv, TypeOK, Positions, WriteSide, reqVars, fileVars
  <2>4. QED
    BY <2>2, <2>3
<1>6. ASSUME BulkErase PROVE TypeOK' /\ Positions'
  <2>1. flash' \in [Blocks -> Content] /\ protected' \in BOOLEAN /\ faults' \in 0 .. MaxFaults
    BY <1>6, EraseType DEF BulkErase, TypeInv
  <2>2. TypeOK'
    BY <1>6, <2>1 DEF BulkErase, TypeInv, TypeOK, IcspTypeOK, icspVars,
       Touching, reqVars, resVars, fileVars
  <2>3. Positions'
    BY <1>6 DEF BulkErase, TypeInv, Positions, WriteSide, reqVars, fileVars
  <2>4. QED
    BY <2>2, <2>3
<1>7. ASSUME RowErase PROVE TypeOK' /\ Positions'
  <2>1. cur < BootBlock /\ cur \in Nat /\ OnRow(cur) /\ end = BootBlock - 1 /\ mode = "app"
    BY <1>0, <1>7 DEF RowErase, TypeInv, TypeOK, Positions, Blocks
  <2>2. cur' \in 0 .. BootBlock /\ OnRow(cur')
    BY <1>0, <1>7, <2>1, RowFits DEF RowErase
  <2>3. cur .. cur + RowBlocks - 1 \in SUBSET Blocks
    BY <1>0, <1>7, <2>1, <2>2 DEF RowErase, Blocks
  <2>4. flash' \in [Blocks -> Content] /\ protected' \in BOOLEAN /\ faults' \in 0 .. MaxFaults
    BY <1>7, <2>3, EraseType DEF RowErase, TypeInv
  <2>5. TypeOK'
    BY <1>0, <1>7, <2>2, <2>4 DEF RowErase, TypeInv, TypeOK, IcspTypeOK, icspVars,
       Touching, reqVars, resVars, fileVars
  <2>6. pc' = "row" => cur' <= end
    <3>1. pc' = IF cancel THEN "exit" ELSE IF cur' > end THEN "wopen" ELSE "row"
      BY <1>7 DEF RowErase
    <3>2. cur' \in Int /\ end \in Int
      BY <1>0, <2>2, GeometryAssumption DEF TypeInv, TypeOK, Blocks
    <3> QED  BY <3>1, <3>2
  <2>7. Positions'
    BY <1>0, <1>7, <2>1, <2>2, <2>6
       DEF RowErase, TypeInv, Positions, WriteSide, reqVars, fileVars, OnRow
  <2>8. QED
    BY <2>5, <2>7
<1>8. ASSUME WriteOpen PROVE TypeOK' /\ Positions'
  <2>1. UNCHANGED <<icspVars, chipVars, reqVars, device_id, fail_addr, cp_refused,
                    buf, cancel, outcome, try, off>>
    BY <1>8 DEF WriteOpen
  <2>2. ok' \in BOOLEAN /\ pc' \in {"wread", "exit"} /\ cur' \in {0, cur}
    BY <1>8 DEF WriteOpen, Abort, TypeInv, TypeOK
  <2>3. faults' \in 0 .. MaxFaults
    BY <1>8, FaultType, OpenType DEF WriteOpen, Kinds, TypeInv
  <2>4. /\ pos' \in 0 .. NBlocks /\ lim' \in 0 .. NBlocks
        /\ pos' <= lim' /\ lim' <= image.size
    BY <1>8, <1>0, OpenType DEF WriteOpen, TypeInv, TypeOK, Positions
  <2>5. TypeOK'
    BY <1>0, <2>1, <2>2, <2>3, <2>4 DEF TypeInv, TypeOK, IcspTypeOK, icspVars, chipVars,
       reqVars, Touching
  <2>6. pc' = "wread" => cur' <= end
    BY <1>0, <1>8 DEF WriteOpen, Abort, TypeInv, TypeOK, Blocks
  <2>7. Positions'
    BY <1>8, <2>1, <2>2, <2>4, <2>6 DEF WriteOpen, TypeInv, Positions, WriteSide, reqVars
  <2>8. QED
    BY <2>5, <2>7
<1>9. ASSUME WriteRead PROVE TypeOK' /\ Positions'
  <2>1. pc = "wread" /\ cur <= end
    BY <1>9 DEF WriteRead, TypeInv, Positions
  <2>2. Want \in 1 .. ChunkBlocks /\ Avail \in 0 .. Avail
    BY <2>1, WantFits, AvailFits DEF TypeInv
  <2>3. /\ buf' \in [0 .. ChunkBlocks - 1 -> Content]
        /\ pos' \in 0 .. NBlocks /\ pos' <= lim /\ lim' = lim
    BY <1>9, <2>1, <2>2, ReadType DEF WriteRead, FullRead
  <2>4. TypeOK'
    BY <1>0, <1>9, <2>3 DEF WriteRead, FullRead, NoFault, TypeInv, TypeOK, IcspTypeOK, icspVars, chipVars,
       reqVars, resVars, Touching
  <2>5. Want' = Want
    BY <1>9 DEF WriteRead, Want, Smaller, reqVars
  <2>6. Positions'
    BY <1>9, <2>1, <2>2, <2>3, <2>5 DEF WriteRead, TypeInv, Positions, WriteSide, reqVars
  <2>7. QED
    BY <2>4, <2>6
<1>10. ASSUME SkipBlank \/ WriteBlock PROVE TypeOK' /\ Positions'
  <2>1. pc = "wblock" /\ cur <= end /\ off < Want /\ off \in Nat /\ cur \in Nat
    BY <1>10 DEF SkipBlank, WriteBlock, TypeInv, TypeOK, Positions
  <2>2. Want \in 1 .. ChunkBlocks /\ cur + Want <= end + 1 /\ end \in Blocks
    BY <2>1, WantFits DEF TypeInv, TypeOK
  <2>3. cur + off \in Blocks /\ off \in 0 .. ChunkBlocks - 1
    BY <1>0, <2>1, <2>2 DEF Blocks
  <2>4. buf[off] \in Content
    BY <2>3 DEF TypeInv, TypeOK
  <2>5. flash' \in [Blocks -> Content] /\ faults' \in 0 .. MaxFaults
    BY <1>10, <2>3, <2>4, ProgramType DEF SkipBlank, WriteBlock, chipVars, TypeInv, TypeOK
  <2>6. UNCHANGED <<icspVars, protected, reqVars, device_id, cp_refused, ok,
                    fileVars, cancel, outcome, cur>>
    BY <1>10 DEF SkipBlank, WriteBlock, chipVars
  <2>7. /\ off' \in {off, off + 1} /\ pc' \in {"wblock", "wpoll", "exit"}
        /\ pc' = "wblock" => off' < Want
    BY <1>10, <2>1, <2>2 DEF SkipBlank, WriteBlock, NextBlock
  <2>8. try' \in Nat
    BY <1>10 DEF SkipBlank, WriteBlock, NextBlock, TypeInv, TypeOK
  <2>9. fail_addr' \in Blocks \cup {NoFail}
    BY <1>10, <2>3 DEF SkipBlank, WriteBlock, NextBlock, TypeInv, TypeOK
  <2>10. off' \in 0 .. ChunkBlocks
    BY <2>3, <2>7, <1>0
  <2>11. TypeOK'
    BY <2>5, <2>6, <2>7, <2>8, <2>9, <2>10 DEF TypeInv, TypeOK, IcspTypeOK, icspVars,
       reqVars, fileVars, Touching
  <2>12. Want' = Want
    BY <2>6 DEF Want, Smaller, reqVars
  <2>13. Positions'
    BY <2>1, <2>6, <2>7, <2>12 DEF TypeInv, Positions, WriteSide, reqVars, fileVars
  <2>14. QED
    BY <2>11, <2>13
<1>11. ASSUME WritePoll PROVE TypeOK' /\ Positions'
  <2>1. cur <= end /\ cur' = cur + Want /\ cur' \in 0 .. NBlocks
    BY <1>11, WantFits DEF WritePoll, TypeInv, Positions
  <2>2. TypeOK'
    BY <1>11, <2>1 DEF WritePoll, TypeInv, TypeOK, IcspTypeOK, icspVars, chipVars,
       reqVars, resVars, fileVars, Touching
  <2>3. pc' \in {"exit", "vopen", "wread"} /\ (pc' = "wread" => cur' <= end)
    BY <1>0, <1>11, <2>1 DEF WritePoll, TypeInv, TypeOK, Blocks
  <2>4. Positions'
    BY <1>11, <2>3 DEF WritePoll, TypeInv, Positions, WriteSide, reqVars, fileVars
  <2>5. QED
    BY <2>2, <2>4
<1>12. ASSUME VerifyOpen PROVE TypeOK' /\ Positions'
  <2>1. UNCHANGED <<icspVars, chipVars, reqVars, device_id, fail_addr, cp_refused,
                    buf, cancel, outcome, try, off>>
    BY <1>12 DEF VerifyOpen
  <2>2. ok' \in BOOLEAN /\ pc' \in {"vread", "exit"} /\ cur' \in {0, cur}
    BY <1>12 DEF VerifyOpen, Abort, TypeInv, TypeOK
  <2>3. faults' \in 0 .. MaxFaults
    BY <1>12, FaultType, OpenType DEF VerifyOpen, Kinds, TypeInv
  <2>4. /\ pos' \in 0 .. NBlocks /\ lim' \in 0 .. NBlocks
        /\ pos' <= lim' /\ lim' <= image.size
    BY <1>12, <1>0, OpenType DEF VerifyOpen, TypeInv, TypeOK, Positions
  <2>5. TypeOK'
    BY <1>0, <2>1, <2>2, <2>3, <2>4 DEF TypeInv, TypeOK, IcspTypeOK, icspVars, chipVars,
       reqVars, Touching
  <2>6. pc' = "vread" => cur' <= end
    BY <1>0, <1>12 DEF VerifyOpen, Abort, TypeInv, TypeOK, Blocks
  <2>7. Positions'
    BY <1>12, <2>1, <2>2, <2>4, <2>6 DEF VerifyOpen, TypeInv, Positions, WriteSide, reqVars
  <2>8. QED
    BY <2>5, <2>7
<1>13. ASSUME VerifyChunk PROVE TypeOK' /\ Positions'
  <2>1. pc = "vread" /\ cur <= end
    BY <1>13 DEF VerifyChunk, TypeInv, Positions
  <2>2. Want \in 1 .. ChunkBlocks /\ cur + Want <= end + 1 /\ cur + Want \in 0 .. NBlocks
        /\ end \in Blocks /\ cur \in Nat /\ Avail \in 0 .. Want
    BY <2>1, WantFits, AvailFits DEF TypeInv, TypeOK
  <2>3. PICK got \in 0 .. Avail : ReadChunk(got)
    BY <1>13, <2>2 DEF VerifyChunk, OneRead
  <2>4. /\ buf' \in [0 .. ChunkBlocks - 1 -> Content]
        /\ pos' \in 0 .. NBlocks /\ pos' <= lim /\ lim' = lim
    BY <2>1, <2>3, ReadType
  <2>5. faults' \in 0 .. MaxFaults
    BY <1>13, FaultType DEF VerifyChunk, OneRead, Kinds, TypeInv
  <2>6. UNCHANGED <<icspVars, chipVars, reqVars, device_id, cp_refused, cancel,
                    outcome, try, off>> /\ cur' = cur + Want
    BY <1>13 DEF VerifyChunk
  <2>7. Mismatches \subseteq 0 .. Want - 1
    BY DEF Mismatches
  <2>8. fail_addr' \in Blocks \cup {NoFail}
    <3>1. CASE fail_addr' = fail_addr
      BY <3>1 DEF TypeInv, TypeOK
    <3>2. CASE \E i \in Mismatches : fail_addr' = cur + i
      BY <1>0, <2>2, <2>7, <3>2 DEF Blocks
    <3>3. QED
      BY <1>13, <3>1, <3>2 DEF VerifyChunk
  <2>9. ok' \in BOOLEAN /\ pc' \in {"vread", "exit"} /\ (pc' = "vread" => cur' <= end)
    BY <1>13, <2>1 DEF VerifyChunk, Abort, TypeInv, TypeOK
  <2>10. TypeOK'
    BY <2>2, <2>4, <2>5, <2>6, <2>8, <2>9 DEF TypeInv, TypeOK, IcspTypeOK, icspVars,
       chipVars, reqVars, Touching
  <2>11. Positions'
    BY <2>1, <2>4, <2>6, <2>9 DEF TypeInv, Positions, WriteSide, reqVars
  <2>12. QED
    BY <2>10, <2>11
<1>14. ASSUME Exit PROVE TypeOK' /\ Positions'
  <2>1. buf' \in [0 .. ChunkBlocks - 1 -> Content]
    BY <1>14 DEF Exit, NoBuf, Content
  <2>2. TypeOK'
    BY <1>0, <1>14, <2>1 DEF Exit, IcspExit, TypeInv, TypeOK, IcspTypeOK, chipVars,
       reqVars, resVars
  <2>3. image'.size \in Nat
    BY <2>2, DataAssumption DEF TypeOK
  <2>4. Positions'
    BY <1>14, <2>3 DEF Exit, TypeInv, Positions, WriteSide, reqVars
  <2>5. QED
    BY <2>2, <2>4
<1>15. ASSUME Report PROVE TypeOK' /\ Positions'
  <2>1. outcome' \in {"cancelled", "no_device", "wrong_chip", "cp_refused", "verify_fail",
                      "io_error", "done"}
    BY <1>15 DEF Report, Result
  <2>2. TypeOK'
    BY <1>15, <2>1 DEF Report, TypeInv, TypeOK, IcspTypeOK, icspVars, chipVars,
       reqVars, resVars, fileVars
  <2>3. Positions'
    BY <1>15 DEF Report, TypeInv, Positions, WriteSide, reqVars, fileVars
  <2>4. QED
    BY <2>2, <2>3
<1>16. ASSUME UNCHANGED vars PROVE TypeOK' /\ Positions'
  BY <1>16 DEF vars, TypeInv, TypeOK, Positions, icspVars, IcspTypeOK, chipVars, reqVars,
     resVars, fileVars, Want, Smaller, OnRow, WriteSide, Blocks
<1>17. QED
  BY <1>1, <1>2, <1>3, <1>4, <1>5, <1>6, <1>7, <1>8, <1>9, <1>10, <1>11, <1>12, <1>13,
     <1>14, <1>15, <1>16 DEF Next, Engine

\* The engine never leaves its types: no index out of its range, chunk or file.
THEOREM TypeCorrect == Spec => []TypeOK
<1>1. TypeInv => TypeOK
  BY DEF TypeInv
<1>2. QED
  BY <1>1, InitType, NextType, PTL DEF Spec

-----------------------------------------------------------------------------
(* One enter/exit bracket.                                                 *)

LEMMA InitBracket == Init => Bracketed
  BY DEF Init, Bracketed, Touching

LEMMA NextBracket == Bracketed /\ [Next]_vars => Bracketed'
<1> SUFFICES ASSUME Bracketed, [Next]_vars PROVE Bracketed'
  OBVIOUS
<1>1. ASSUME NEW m \in Modes, NEW img \in Images, NEW p \in Parts, Start(m, img, p)
      PROVE  Bracketed'
  BY <1>1 DEF Start, Bracketed, Touching
<1>2. CASE Cancel
  BY <1>2 DEF Cancel, Bracketed, icspVars, reqVars
<1>3. CASE Identified
  BY <1>3 DEF Identified, Answers, Is67J60, EnterLatches, Driven, IcspEnter, Bracketed, reqVars, Touching
<1>4. CASE NotIdentified
  BY <1>4 DEF NotIdentified, IcspExit, Bracketed, Touching
<1>5. CASE Preflight
  BY <1>5 DEF Preflight, Abort, Bracketed, icspVars, reqVars, Touching
<1>6. CASE BulkErase
  BY <1>6 DEF BulkErase, Bracketed, icspVars, reqVars, Touching
<1>7. CASE RowErase
  BY <1>7 DEF RowErase, Bracketed, icspVars, reqVars, Touching
<1>8. CASE WriteOpen
  BY <1>8 DEF WriteOpen, Abort, Bracketed, icspVars, reqVars, Touching
<1>9. CASE WriteRead
  BY <1>9 DEF WriteRead, Bracketed, icspVars, reqVars, Touching
<1>10. CASE SkipBlank
  BY <1>10 DEF SkipBlank, NextBlock, Bracketed, icspVars, reqVars, Touching
<1>11. CASE WriteBlock
  BY <1>11 DEF WriteBlock, NextBlock, Bracketed, icspVars, reqVars, Touching
<1>12. CASE WritePoll
  BY <1>12 DEF WritePoll, Bracketed, icspVars, reqVars, Touching
<1>13. CASE VerifyOpen
  BY <1>13 DEF VerifyOpen, Abort, Bracketed, icspVars, reqVars, Touching
<1>14. CASE VerifyChunk
  BY <1>14 DEF VerifyChunk, Abort, Bracketed, icspVars, reqVars, Touching
<1>15. CASE Exit
  BY <1>15 DEF Exit, IcspExit, Bracketed, Touching
<1>16. CASE Report
  BY <1>16 DEF Report, Bracketed, icspVars, Touching
<1>17. CASE UNCHANGED vars
  BY <1>17 DEF vars, Bracketed, icspVars, reqVars
<1>18. QED
  BY <1>1, <1>2, <1>3, <1>4, <1>5, <1>6, <1>7, <1>8, <1>9, <1>10, <1>11, <1>12, <1>13,
     <1>14, <1>15, <1>16, <1>17 DEF Next, Engine

\* The chip is only touched in program mode, on driven lines, once identified; when
\* the job is over, on every path, the lines are released and the target runs.
THEOREM BracketHolds == Spec => []Bracketed
  BY InitBracket, NextBracket, PTL DEF Spec

-----------------------------------------------------------------------------
(* Keep bootloader.                                                        *)

\* Only three actions touch the flash; with "keep boot" each stays below the boot
\* region.
LEMMA FlashSteps ==
  ASSUME TypeInv, [Next]_vars, flash' # flash
  PROVE  /\ UNCHANGED <<reqVars, cp_refused, outcome>>
         /\ pc \in {"bulk", "row", "wblock"}
         /\ mode \in {"full", "app"}
         /\ mode = "app" => \A b \in BootBlock .. NBlocks - 1 : flash'[b] = flash[b]
<1> USE DEF chipVars
<1>0. /\ NBlocks \in Nat /\ RowBlocks \in Nat \ {0} /\ ChunkBlocks \in Nat \ {0}
      /\ BootBlock \in 1 .. NBlocks - 1 /\ end \in Blocks
  BY GeometryAssumption DEF TypeInv, TypeOK
<1>1. CASE BulkErase
  <2>1. mode = "full"
    BY <1>1 DEF BulkErase, TypeInv, Positions
  <2>2. QED
    BY <1>1, <2>1 DEF BulkErase, resVars
<1>2. CASE RowErase
  <2>1. cur < BootBlock /\ cur \in Nat /\ OnRow(cur) /\ end = BootBlock - 1
    BY <1>0, <1>2 DEF RowErase, TypeInv, TypeOK, Positions, Blocks
  <2>2. cur + RowBlocks <= BootBlock
    BY <2>1, RowFits
  <2>3. cur .. cur + RowBlocks - 1 \in SUBSET Blocks
    BY <1>0, <2>1, <2>2 DEF Blocks
  <2>4. \A b \in BootBlock .. NBlocks - 1 : flash'[b] = flash[b]
    BY <1>0, <1>2, <2>1, <2>2, <2>3, EraseType DEF RowErase, TypeInv, Blocks
  <2>5. mode = "app"
    BY <1>2 DEF RowErase, TypeInv, Positions
  <2>6. QED
    BY <1>2, <2>4, <2>5 DEF RowErase, resVars
<1>3. CASE WriteBlock
  <2>1. cur <= end /\ off < Want /\ off \in Nat /\ cur \in Nat
    BY <1>3 DEF WriteBlock, TypeInv, TypeOK, Positions
  <2>2. Want \in 1 .. ChunkBlocks /\ cur + Want <= end + 1
    BY <2>1, WantFits DEF TypeInv
  <2>3. cur + off \in Blocks /\ cur + off <= end /\ off \in 0 .. ChunkBlocks - 1
    BY <1>0, <2>1, <2>2 DEF Blocks
  <2>4. buf[off] \in Content
    BY <2>3 DEF TypeInv, TypeOK
  <2>5. \A b \in Blocks \ {cur + off} : flash'[b] = flash[b]
    BY <1>3, <2>3, <2>4, ProgramType DEF WriteBlock, TypeInv
  <2>6. mode \in {"full", "app"} /\ (mode = "app" => end = BootBlock - 1)
    BY <1>3 DEF WriteBlock, TypeInv, TypeOK, Positions, WriteSide, Modes
  <2>7. mode = "app" => \A b \in BootBlock .. NBlocks - 1 : flash'[b] = flash[b]
    BY <1>0, <2>3, <2>5, <2>6 DEF Blocks
  <2>8. UNCHANGED <<reqVars, cp_refused, outcome>> /\ pc = "wblock"
    BY <1>3 DEF WriteBlock
  <2>9. QED
    BY <2>6, <2>7, <2>8
<1>4. QED
  BY <1>1, <1>2, <1>3 DEF Next, Engine, vars, Start, Cancel, Identified, NotIdentified,
     Preflight, WriteOpen, WriteRead, SkipBlank, WritePoll, VerifyOpen, VerifyChunk, Exit, Report

\* Starting a job takes the picture it is compared with.
LEMMA StartSteps ==
  ASSUME NEW m \in Modes, NEW img \in Images, NEW p \in Parts, Start(m, img, p)
  PROVE  flash' = flash /\ flash0' = flash' /\ pc' = "enter" /\ ~cp_refused'
         /\ outcome' = "none" /\ ~ok' /\ pc = "idle" /\ mode' = m
  BY DEF Start, chipVars

LEMMA InitBoot == Init => BootUntouched
  BY DEF Init, BootUntouched

LEMMA NextBoot == TypeInv /\ BootUntouched /\ [Next]_vars => BootUntouched'
<1> SUFFICES ASSUME TypeInv, BootUntouched, [Next]_vars PROVE BootUntouched'
  OBVIOUS
<1>1. ASSUME NEW m \in Modes, NEW img \in Images, NEW p \in Parts, Start(m, img, p)
      PROVE  BootUntouched'
  BY <1>1, StartSteps DEF BootUntouched
<1>2. CASE flash' # flash
  BY <1>2, FlashSteps DEF BootUntouched, reqVars
<1>3. CASE flash' = flash /\ UNCHANGED reqVars
  BY <1>3 DEF BootUntouched, reqVars
<1>4. QED
  BY <1>1, <1>2, <1>3 DEF Next, Engine, vars, Cancel, Identified, NotIdentified, Preflight,
     BulkErase, RowErase, WriteOpen, WriteRead, SkipBlank, WriteBlock, WritePoll, VerifyOpen,
     VerifyChunk, Exit, Report

\* A write that keeps the bootloader never changes a block of the boot region or of
\* the Config Words, on any path.
THEOREM BootHolds == Spec => []BootUntouched
<1>1. TypeInv /\ BootUntouched /\ [Next]_vars => (TypeInv /\ BootUntouched)'
  BY NextType, NextBoot
<1>2. QED
  BY <1>1, InitType, InitBoot, PTL DEF Spec

-----------------------------------------------------------------------------
(* Refusals.                                                               *)

\* Nothing is erased before the part identified itself (device_id says which one did)
\* and the image passed the preflight, nor in a verify job; a refusal leads straight
\* to the exit.
Refusals ==
  /\ pc \in {"enter", "preflight"} => flash = flash0 /\ ~cp_refused
  /\ mode = "verify" \/ part # "67J60" => flash = flash0
  /\ cp_refused => flash = flash0 /\ pc \in {"exit", "report", "idle"}
  /\ pc \in Touching => device_id = "67J60"
  /\ device_id # "67J60" => flash = flash0
  /\ pc # "idle" => outcome = "none"
  /\ outcome = "cp_refused" => cp_refused
  /\ outcome \in {"no_device", "wrong_chip"} => device_id # "67J60"

LEMMA InitRefusals == Init => Refusals
  BY DEF Init, Refusals, Touching

LEMMA NextRefusals == TypeInv /\ Bracketed /\ Refusals /\ [Next]_vars => Refusals'
<1> SUFFICES ASSUME TypeInv, Bracketed, Refusals, [Next]_vars PROVE Refusals'
  OBVIOUS
<1>1. ASSUME NEW m \in Modes, NEW img \in Images, NEW p \in Parts, Start(m, img, p)
      PROVE  Refusals'
  BY <1>1, StartSteps DEF Refusals, Touching
<1>2. CASE flash' # flash
  <2>1. /\ pc \in {"bulk", "row", "wblock"} /\ mode # "verify" /\ part = "67J60" /\ ~cp_refused
        /\ outcome = "none" /\ UNCHANGED <<reqVars, cp_refused, outcome>> /\ device_id = "67J60"
    BY <1>2, FlashSteps DEF Bracketed, Touching, Refusals
  <2>2. BulkErase \/ RowErase \/ WriteBlock
    BY <1>2 DEF Next, Engine, vars, chipVars, Start, Cancel, Identified, NotIdentified,
       Preflight, WriteOpen, WriteRead, SkipBlank, WritePoll, VerifyOpen, VerifyChunk,
       Exit, Report
  <2>3. pc' \notin {"enter", "preflight", "idle"} /\ device_id' = device_id
    BY <2>1, <2>2 DEF BulkErase, RowErase, WriteBlock, NextBlock, resVars
  <2>4. QED
    BY <2>1, <2>3 DEF Refusals, reqVars, Touching
<1>3. CASE flash' = flash /\ UNCHANGED <<reqVars, cp_refused, outcome, device_id>>
           /\ (cp_refused => pc' \in {"exit", "report", "idle"})
           /\ (pc' \in {"enter", "preflight"} => pc \in {"enter", "preflight"})
           /\ (pc' # "idle" => pc # "idle") /\ (pc' \in Touching => pc \in Touching)
  BY <1>3 DEF Refusals, reqVars
<1>4. CASE Preflight
  <2>1. pc = "preflight" /\ flash' = flash /\ UNCHANGED <<reqVars, device_id>> /\ outcome' = outcome
    BY <1>4 DEF Preflight, chipVars
  <2>2. pc' \in {"row", "bulk", "exit"} /\ (cp_refused' => pc' = "exit" \/ cp_refused)
    BY <1>4 DEF Preflight, Abort
  <2>3. QED
    BY <2>1, <2>2 DEF Refusals, reqVars, Touching
<1>5. CASE Report
  <2>1. pc = "report" /\ pc' = "idle" /\ flash' = flash /\ UNCHANGED <<reqVars, cp_refused, device_id>>
    BY <1>5 DEF Report, chipVars, resVars
  <2>2. outcome' = "cp_refused" => cp_refused
    BY <1>5 DEF Report, Result
  <2>3. outcome' \in {"no_device", "wrong_chip"} => device_id # "67J60"
    BY <1>5 DEF Report, Result
  <2>4. QED
    BY <2>1, <2>2, <2>3 DEF Refusals, reqVars, Touching
<1>6. CASE Identified \/ NotIdentified
  <2>1. pc = "enter" /\ UNCHANGED <<reqVars, cp_refused, outcome>> /\ flash' = flash
    BY <1>6 DEF Identified, NotIdentified, chipVars
  <2>2. pc' \in Touching => device_id' = "67J60"
    BY <1>6 DEF Identified, NotIdentified, Is67J60, Touching
  <2>3. pc' # "idle"
    BY <1>6 DEF Identified, NotIdentified
  <2>4. QED
    BY <2>1, <2>2, <2>3 DEF Refusals, reqVars
<1>7. ASSUME Engine \/ Cancel \/ UNCHANGED vars, flash' = flash,
             ~Preflight, ~Report, ~Identified, ~NotIdentified
      PROVE  UNCHANGED <<reqVars, cp_refused, outcome, device_id>>
  BY <1>7 DEF Engine, vars, resVars, Cancel, BulkErase, RowErase,
     WriteOpen, WriteRead, SkipBlank, WriteBlock, WritePoll, VerifyOpen, VerifyChunk, Exit
<1>8. ASSUME Engine \/ Cancel \/ UNCHANGED vars, flash' = flash,
             ~Preflight, ~Report, ~Identified, ~NotIdentified
      PROVE  /\ cp_refused => pc' \in {"exit", "report", "idle"}
             /\ pc' \in {"enter", "preflight"} => pc \in {"enter", "preflight"}
             /\ pc' # "idle" => pc # "idle"
             /\ pc' \in Touching => pc \in Touching
  BY <1>8 DEF Refusals, Touching, Engine, vars, Cancel, BulkErase, RowErase,
     WriteOpen, WriteRead, SkipBlank, NextBlock, WriteBlock, WritePoll, VerifyOpen, VerifyChunk,
     Abort, Exit
<1>9. QED
  BY <1>1, <1>2, <1>3, <1>4, <1>5, <1>6, <1>7, <1>8 DEF Next

\* A verify job, a job whose part did not identify, and a job refused for
\* code-protect leave the chip as they found it.
THEOREM RefusalHolds == Spec => []RefusalLeavesChip
<1>1. Refusals => RefusalLeavesChip
  BY DEF Refusals, RefusalLeavesChip
<1>2. TypeInv /\ Bracketed /\ Refusals /\ [Next]_vars => (TypeInv /\ Bracketed /\ Refusals)'
  BY NextType, NextBracket, NextRefusals
<1>3. QED
  BY <1>1, <1>2, InitType, InitBracket, InitRefusals, PTL DEF Spec

-----------------------------------------------------------------------------
(***************************************************************************)
(* What the engine reads and writes: a verify that says "done" compared    *)
(* every block, and no job turns code-protect on.  Both assume a card whose *)
(* reads do not fail; without that the code keeps neither promise: a read  *)
(* that returns nothing is the end of the file to it, and a CONFIG1H that  *)
(* could not be read is not programmed.  When also the reads deliver what  *)
(* they are asked for, a "Verify FAIL @" names the first block that        *)
(* differs, and the engine implements its contract: every step of          *)
(* PicProgram is a step of FlashContract or leaves its state alone.        *)
(***************************************************************************)

\* The card's files can be read (they may still fail to open).
ReadableCard == "read" \notin FaultKinds

\* ... and one read call delivers what was asked for.
SteadyCard == ReadableCard /\ "short" \notin FaultKinds

-----------------------------------------------------------------------------
(* A chunk of the file.                                                    *)

\* Where the open file is when the worker is at block c of the range.
FileAt(c) == lim = Smaller(image.size, NBlocks) /\ pos = Smaller(c, lim)

\* A full read of a chunk delivers the image's contents, blank past its end.
LEMMA ChunkRead ==
  ASSUME TypeInv, cur <= end, FileAt(cur), ReadChunk(Avail)
  PROVE  /\ \A i \in 0 .. Want - 1 : buf'[i] = ImageAt(cur + i)
         /\ pos' = Smaller(cur + Want, lim) /\ lim' = lim
<1>1. /\ Want \in 1 .. ChunkBlocks /\ cur + Want <= end + 1 /\ end + 1 <= NBlocks
      /\ cur \in Nat /\ NBlocks \in Nat /\ ChunkBlocks \in Nat /\ image.size \in Nat
      /\ pos \in Nat /\ lim \in Nat /\ end \in Nat
  BY WantFits, ImageData, GeometryAssumption DEF TypeInv, TypeOK, Blocks
<1>2. Avail = Smaller(Want, IF pos < lim THEN lim - pos ELSE 0)
  BY DEF Avail
<1>3. pos + Avail = Smaller(cur + Want, lim)
  BY <1>1, <1>2 DEF FileAt, Smaller
<1>4. ASSUME NEW i \in 0 .. Want - 1
      PROVE  buf'[i] = ImageAt(cur + i)
  <2>1. i \in 0 .. ChunkBlocks - 1 /\ cur + i < NBlocks
    BY <1>1, <1>4
  <2>2. buf'[i] = IF i < Avail THEN image.data[pos + i] ELSE {}
    BY <2>1 DEF ReadChunk
  <2>3. CASE i < Avail
    <3>1. pos + i = cur + i /\ cur + i < image.size
      BY <1>1, <1>2, <1>4, <2>3 DEF FileAt, Smaller
    <3>2. QED
      BY <2>2, <2>3, <3>1 DEF ImageAt
  <2>4. CASE ~(i < Avail)
    <3>1. ~(cur + i < image.size)
      BY <1>1, <1>2, <1>4, <2>1, <2>4 DEF FileAt, Smaller
    <3>2. QED
      BY <2>2, <2>4, <3>1 DEF ImageAt
  <2>5. QED
    BY <2>3, <2>4
<1>5. QED
  BY <1>3, <1>4 DEF ReadChunk

\* A file that opens on a readable card can be read from its start.
LEMMA OpenReads ==
  ASSUME ReadableCard, TypeInv, OpenFile, UNCHANGED reqVars, cur' = 0
  PROVE  FileAt(cur)'
<1>1. pos' = 0 /\ lim' = Smaller(image.size, NBlocks) /\ image' = image
  BY DEF OpenFile, Fault, ReadableCard, reqVars
<1>2. image.size \in Nat /\ NBlocks \in Nat
  BY ImageData, GeometryAssumption DEF TypeInv, TypeOK
<1>3. QED
  BY <1>1, <1>2 DEF FileAt, Smaller

-----------------------------------------------------------------------------
(* Code-protect.                                                           *)

\* From the preflight on, an image that reaches the Config Words leaves CP0 alone,
\* and the worker programs that image and nothing else.
CodeGuard ==
  /\ pc \in {"bulk", "row", "wopen", "wread", "wblock", "wpoll"} =>
       (CoversConfig => CP0 \notin ImageAt(Cfg))
  /\ pc = "wread" => FileAt(cur)
  /\ pc \in {"wblock", "wpoll"} => FileAt(cur + Want)
  /\ pc = "wblock" => \A i \in 0 .. Want - 1 : buf[i] = ImageAt(cur + i)
  /\ NoCodeProtect

LEMMA InitGuard == Init => CodeGuard
  BY DEF Init, CodeGuard, NoCodeProtect

\* The image and the range do not change while the engine runs, so nor do these.
LEMMA SameRequest ==
  ASSUME UNCHANGED reqVars
  PROVE  /\ CoversConfig' = CoversConfig
         /\ \A b : ImageAt(b)' = ImageAt(b)
         /\ cur' = cur => Want' = Want
  BY DEF reqVars, CoversConfig, ImageAt, Want, Smaller

\* Erasing never clears a bit, and a write only those of the image.
LEMMA FlashGuard ==
  ASSUME TypeInv, CodeGuard, [Next]_vars, flash' # flash
  PROVE  NoCodeProtect'
<1> USE DEF chipVars
<1>0. /\ NBlocks \in Nat /\ NBlocks > 1 /\ RowBlocks \in Nat \ {0} /\ BootBlock \in 1 .. NBlocks - 1
      /\ ChunkBlocks \in Nat \ {0} /\ end \in Blocks /\ Cfg \in Blocks
  BY GeometryAssumption DEF TypeInv, TypeOK, Blocks, Cfg
<1>1. flash0' = flash0 /\ NoCodeProtect
  BY FlashSteps DEF reqVars, CodeGuard
<1>2. CASE BulkErase
  <2>1. flash'[Cfg] \in {flash[Cfg], {}}
    BY <1>0, <1>2, EraseType DEF BulkErase, TypeInv
  <2>2. QED
    BY <1>1, <2>1 DEF NoCodeProtect
<1>3. CASE RowErase
  <2>1. mode = "app" /\ end = BootBlock - 1
    BY <1>3 DEF RowErase, TypeInv, Positions
  <2>2. flash'[Cfg] = flash[Cfg]
    BY <1>0, <2>1, FlashSteps DEF Cfg
  <2>3. QED
    BY <1>1, <2>2 DEF NoCodeProtect
<1>4. CASE WriteBlock
  <2>1. cur <= end /\ off < Want /\ off \in Nat /\ cur \in Nat
    BY <1>4 DEF WriteBlock, TypeInv, TypeOK, Positions
  <2>2. Want \in 1 .. ChunkBlocks /\ cur + Want <= end + 1
    BY <2>1, WantFits DEF TypeInv
  <2>3. cur + off \in Blocks /\ cur + off <= end /\ off \in 0 .. Want - 1
        /\ off \in 0 .. ChunkBlocks - 1
    BY <1>0, <2>1, <2>2 DEF Blocks
  <2>4. buf[off] = ImageAt(cur + off) /\ buf[off] \in Content
    BY <1>4, <2>3 DEF WriteBlock, CodeGuard, TypeInv, TypeOK
  <2>5. /\ \A c \in Blocks \ {cur + off} : flash'[c] = flash[c]
        /\ flash'[cur + off] \subseteq flash[cur + off] \cup buf[off]
    BY <1>4, <2>3, <2>4, ProgramType DEF WriteBlock, TypeInv
  <2>6. CASE cur + off = Cfg
    <3>1. CoversConfig
      BY <1>0, <2>3, <2>6 DEF CoversConfig, Cfg, Blocks
    <3>2. CP0 \notin buf[off]
      BY <1>4, <2>4, <2>6, <3>1 DEF WriteBlock, CodeGuard
    <3>3. QED
      BY <1>1, <2>5, <2>6, <3>2 DEF NoCodeProtect
  <2>7. CASE cur + off # Cfg
    BY <1>0, <1>1, <2>5, <2>7 DEF NoCodeProtect
  <2>8. QED
    BY <2>6, <2>7
<1>5. QED
  BY <1>2, <1>3, <1>4 DEF Next, Engine, vars, Start, Cancel, Identified, NotIdentified,
     Preflight, WriteOpen, WriteRead, SkipBlank, WritePoll, VerifyOpen, VerifyChunk, Exit, Report

LEMMA NextGuard ==
  ASSUME ReadableCard, TypeInv, CodeGuard, [Next]_vars
  PROVE  CodeGuard'
<1>1. NoCodeProtect'
  <2>1. CASE flash' # flash
    BY <2>1, FlashGuard
  <2>2. ASSUME NEW m \in Modes, NEW img \in Images, NEW p \in Parts, Start(m, img, p)
        PROVE  NoCodeProtect'
    BY <2>2, StartSteps DEF NoCodeProtect
  <2>3. CASE flash' = flash /\ flash0' = flash0
    BY <2>3 DEF NoCodeProtect, CodeGuard
  <2>4. QED
    BY <2>1, <2>2, <2>3 DEF Next, Engine, vars, reqVars, Cancel, Identified, NotIdentified,
       Preflight, BulkErase, RowErase, WriteOpen, WriteRead, SkipBlank, WriteBlock, WritePoll,
       VerifyOpen, VerifyChunk, Exit, Report
<1>2. ASSUME pc' \notin {"bulk", "row", "wopen", "wread", "wblock", "wpoll"}
      PROVE  CodeGuard'
  BY <1>1, <1>2 DEF CodeGuard
<1>3. CASE Preflight
  <2>1. UNCHANGED reqVars /\ pc' \in {"row", "bulk", "exit"}
    BY <1>3 DEF Preflight, Abort
  <2>2. pc' # "exit" => (CoversConfig => CP0 \notin ImageAt(Cfg))
    BY <1>3 DEF Preflight, Abort, Fault, ReadableCard
  <2>3. QED
    BY <1>1, <2>1, <2>2, SameRequest DEF CodeGuard
<1>4. CASE BulkErase \/ RowErase
  <2>1. UNCHANGED reqVars /\ pc \in {"bulk", "row"} /\ pc' \in {"row", "bulk", "exit", "wopen"}
    BY <1>4 DEF BulkErase, RowErase
  <2>2. QED
    BY <1>1, <2>1, SameRequest DEF CodeGuard
<1>5. CASE WriteOpen
  <2>1. UNCHANGED reqVars /\ pc = "wopen" /\ pc' \in {"exit", "wread"}
    BY <1>5 DEF WriteOpen, Abort
  <2>2. pc' = "wread" => OpenFile /\ cur' = 0
    BY <1>5 DEF WriteOpen, Abort
  <2>3. pc' = "wread" => FileAt(cur)'
    BY <2>1, <2>2, OpenReads
  <2>4. QED
    BY <1>1, <2>1, <2>3, SameRequest DEF CodeGuard
<1>6. CASE WriteRead
  <2>1. UNCHANGED reqVars /\ pc = "wread" /\ pc' = "wblock" /\ cur' = cur /\ ReadChunk(Avail)
    BY <1>6 DEF WriteRead, FullRead
  <2>2. cur <= end /\ FileAt(cur)
    BY <2>1 DEF TypeInv, Positions, CodeGuard
  <2>3. /\ \A i \in 0 .. Want - 1 : buf'[i] = ImageAt(cur + i)
        /\ pos' = Smaller(cur + Want, lim) /\ lim' = lim
    BY <2>1, <2>2, ChunkRead
  <2>4. Want' = Want /\ image' = image
    BY <2>1, SameRequest DEF reqVars
  <2>5. (\A i \in 0 .. Want - 1 : buf[i] = ImageAt(cur + i))'
    BY <2>1, <2>3, <2>4 DEF ImageAt
  <2>6. FileAt(cur + Want)'
    BY <2>1, <2>2, <2>3, <2>4 DEF FileAt
  <2>7. QED
    BY <1>1, <2>1, <2>5, <2>6, SameRequest DEF CodeGuard
<1>7. CASE SkipBlank \/ WriteBlock \/ Cancel \/ UNCHANGED vars
  <2>0. UNCHANGED <<reqVars, fileVars, cur>>
    BY <1>7 DEF SkipBlank, WriteBlock, Cancel, vars
  <2>1. pc' = pc \/ (pc = "wblock" /\ pc' \in {"wpoll", "exit"})
    BY <1>7 DEF SkipBlank, WriteBlock, NextBlock, Cancel, vars
  <2>2. Want' = Want /\ image' = image
    BY <2>0, SameRequest DEF reqVars
  <2>3. FileAt(cur)' = FileAt(cur) /\ FileAt(cur + Want)' = FileAt(cur + Want)
    BY <2>0, <2>2 DEF FileAt, fileVars, Smaller
  <2>4. (\A i \in 0 .. Want - 1 : buf[i] = ImageAt(cur + i)) =>
          (\A i \in 0 .. Want - 1 : buf[i] = ImageAt(cur + i))'
    BY <2>0, <2>2 DEF ImageAt, fileVars
  <2>5. QED
    BY <1>1, <2>0, <2>1, <2>3, <2>4, SameRequest DEF CodeGuard
<1>8. CASE WritePoll
  <2>1. UNCHANGED <<reqVars, fileVars>> /\ pc = "wpoll" /\ cur' = cur + Want
        /\ pc' \in {"exit", "vopen", "wread"}
    BY <1>8 DEF WritePoll
  <2>2. FileAt(cur)'
    BY <2>1 DEF CodeGuard, FileAt, reqVars, fileVars, Smaller
  <2>3. QED
    BY <1>1, <2>1, <2>2, SameRequest DEF CodeGuard
<1>9. QED
  BY <1>2, <1>3, <1>4, <1>5, <1>6, <1>7, <1>8 DEF Next, Engine, Start, Identified, NotIdentified,
     VerifyOpen, VerifyChunk, Abort, TypeInv, Positions, Exit, Report

\* On a card that can be read, no job ever turns code-protect on.
THEOREM GuardHolds == ReadableCard => (Spec => []NoCodeProtect)
<1> SUFFICES ASSUME ReadableCard PROVE Spec => []NoCodeProtect
  OBVIOUS
<1>1. CodeGuard => NoCodeProtect
  BY DEF CodeGuard
<1>2. TypeInv /\ CodeGuard /\ [Next]_vars => (TypeInv /\ CodeGuard)'
  BY NextType, NextGuard
<1>3. QED
  BY <1>1, <1>2, InitType, InitGuard, PTL DEF Spec

-----------------------------------------------------------------------------
(* Verification.                                                           *)

\* What the verify has compared: every block below cur, then the whole range.
Matched(n) == \A b \in 0 .. n - 1 : Readout(b) = ImageAt(b)

Verified ==
  /\ pc = "vread" => FileAt(cur) /\ Matched(cur)
  /\ ok => pc \in {"exit", "report", "idle"} /\ Matched(end + 1)
  /\ pc # "idle" => outcome = "none"
  /\ outcome = "done" => ok

LEMMA InitVerified == Init => Verified
  BY DEF Init, Verified

\* A chunk without a mismatch extends what was compared.
LEMMA ChunkMatched ==
  ASSUME TypeInv, cur <= end, FileAt(cur), Matched(cur), ReadChunk(Avail), Mismatches = {}
  PROVE  Matched(cur + Want)
<1>1. Want \in 1 .. ChunkBlocks /\ cur \in Nat /\ ChunkBlocks \in Nat
  BY WantFits, GeometryAssumption DEF TypeInv, TypeOK
<1>2. ASSUME NEW i \in 0 .. Want - 1
      PROVE  Readout(cur + i) = ImageAt(cur + i)
  <2>1. buf'[i] = ImageAt(cur + i)
    BY <1>2, ChunkRead
  <2>2. Readout(cur + i) = buf'[i]
    BY <1>2 DEF Mismatches
  <2>3. QED
    BY <2>1, <2>2
<1>3. ASSUME NEW b \in 0 .. cur + Want - 1
      PROVE  Readout(b) = ImageAt(b)
  <2>1. CASE b < cur
    BY <1>1, <1>3, <2>1 DEF Matched
  <2>2. CASE ~(b < cur)
    <3>1. b - cur \in 0 .. Want - 1 /\ cur + (b - cur) = b
      BY <1>1, <1>3, <2>2
    <3>2. QED
      BY <1>2, <3>1
  <2>3. QED
    BY <2>1, <2>2
<1>4. QED
  BY <1>1, <1>3 DEF Matched

LEMMA NextVerified ==
  ASSUME SteadyCard, TypeInv, Verified, [Next]_vars
  PROVE  Verified'
<1> USE DEF SteadyCard
<1>0. cur \in Nat /\ end \in Nat
  BY GeometryAssumption DEF TypeInv, TypeOK, Blocks
<1>1. ASSUME NEW m \in Modes, NEW img \in Images, NEW p \in Parts, Start(m, img, p)
      PROVE  Verified'
  BY <1>1, StartSteps DEF Start, Verified
<1>2. CASE VerifyChunk
  <2>1. /\ UNCHANGED <<reqVars, chipVars, outcome>> /\ pc = "vread" /\ cur' = cur + Want
        /\ cur <= end /\ pc' \in {"vread", "exit"}
    BY <1>2 DEF VerifyChunk, Abort, TypeInv, Positions
  <2>2. ReadChunk(Avail) /\ FileAt(cur) /\ Matched(cur) /\ ~ok /\ outcome = "none"
    BY <1>2, <2>1 DEF VerifyChunk, OneRead, Fault, Verified
  <2>3. Want \in 1 .. ChunkBlocks /\ cur + Want <= end + 1 /\ ChunkBlocks \in Nat
    BY <2>1, WantFits, GeometryAssumption DEF TypeInv
  <2>4. Mismatches = {} => Matched(cur + Want)
    BY <2>1, <2>2, ChunkMatched
  <2>5. FileAt(cur)'
    BY <2>1, <2>2, ChunkRead DEF FileAt, reqVars
  <2>6. pc' = "vread" => Mismatches = {}
    BY <1>2, <2>1 DEF VerifyChunk, Abort
  <2>7. ok' => Mismatches = {} /\ cur + Want > end /\ pc' = "exit"
    BY <1>2, <2>2 DEF VerifyChunk, Abort
  <2>8. Mismatches = {} => Matched(cur)'
    BY <2>1, <2>4 DEF Matched, Readout, ReadBlock, ImageAt, reqVars, chipVars
  <2>9. ok' => Matched(end + 1)'
    <3>1. ok' => Matched(end + 1)
      BY <1>0, <2>3, <2>4, <2>7
    <3>2. QED
      BY <2>1, <3>1 DEF Matched, Readout, ReadBlock, ImageAt, reqVars, chipVars
  <2>10. QED
    BY <2>1, <2>2, <2>5, <2>6, <2>7, <2>8, <2>9 DEF Verified
<1>3. CASE VerifyOpen
  <2>1. UNCHANGED <<reqVars, outcome>> /\ pc = "vopen" /\ pc' \in {"exit", "vread"}
    BY <1>3 DEF VerifyOpen, Abort
  <2>2. pc' = "vread" => OpenFile /\ cur' = 0
    BY <1>3 DEF VerifyOpen, Abort
  <2>3. pc' = "vread" => FileAt(cur)' /\ Matched(cur)'
    BY <2>1, <2>2, OpenReads DEF Matched
  <2>4. ~ok'
    BY <1>3, <2>1 DEF VerifyOpen, Abort, Verified
  <2>5. QED
    BY <2>1, <2>3, <2>4 DEF Verified
<1>4. CASE Report
  <2>1. UNCHANGED <<reqVars, chipVars, ok>> /\ pc' = "idle"
    BY <1>4 DEF Report, resVars
  <2>2. outcome' = "done" => ok
    BY <1>4 DEF Report, Result
  <2>3. Matched(end + 1)' = Matched(end + 1)
    BY <2>1 DEF Matched, Readout, ReadBlock, ImageAt, reqVars, chipVars
  <2>4. QED
    BY <2>1, <2>2, <2>3 DEF Verified
<1>5. CASE Exit \/ Cancel \/ UNCHANGED vars
  <2>1. UNCHANGED <<reqVars, chipVars, ok, outcome>>
    BY <1>5 DEF Exit, Cancel, vars, resVars
  <2>2. (pc' = pc /\ UNCHANGED <<fileVars, cur>>) \/ (pc = "exit" /\ pc' = "report")
    BY <1>5 DEF Exit, Cancel, vars
  <2>3. Matched(end + 1)' = Matched(end + 1)
    BY <2>1 DEF Matched, Readout, ReadBlock, ImageAt, reqVars, chipVars
  <2>4. pc' = pc => Matched(cur)' = Matched(cur) /\ FileAt(cur)' = FileAt(cur)
    BY <2>1, <2>2 DEF Matched, Readout, ReadBlock, ImageAt, FileAt, reqVars, chipVars, fileVars
  <2>5. QED
    BY <2>1, <2>2, <2>3, <2>4 DEF Verified
<1>6. ASSUME pc \in {"enter", "preflight", "bulk", "row", "wopen", "wread", "wblock", "wpoll"},
             ~ok', outcome' = outcome, pc' \notin {"vread", "idle"}
      PROVE  Verified'
  BY <1>6 DEF Verified
<1>7. ASSUME Identified \/ NotIdentified \/ Preflight \/ BulkErase \/ RowErase \/ WriteOpen
             \/ WriteRead \/ SkipBlank \/ WriteBlock \/ WritePoll
      PROVE  Verified'
  <2>1. pc \in {"enter", "preflight", "bulk", "row", "wopen", "wread", "wblock", "wpoll"}
    BY <1>7 DEF Identified, NotIdentified, Preflight, BulkErase, RowErase, WriteOpen, WriteRead,
       SkipBlank, WriteBlock, WritePoll
  <2>0. ~ok
    BY <2>1 DEF Verified
  <2>2. outcome' = outcome
    BY <1>7 DEF Identified, NotIdentified, Preflight, BulkErase, RowErase, WriteOpen,
       WriteRead, SkipBlank, WriteBlock, WritePoll
  <2>3. ~ok'
    <3>1. CASE Preflight \/ WriteOpen
      BY <2>0, <3>1 DEF Preflight, WriteOpen, Abort
    <3>2. CASE BulkErase \/ RowErase \/ WriteRead \/ WritePoll
      BY <2>0, <3>2 DEF BulkErase, RowErase, WriteRead, WritePoll, resVars
    <3>3. CASE Identified \/ NotIdentified \/ SkipBlank \/ WriteBlock
      BY <2>0, <3>3 DEF Identified, NotIdentified, SkipBlank, WriteBlock
    <3>4. QED
      BY <1>7, <3>1, <3>2, <3>3
  <2>4. pc' \notin {"vread", "idle"}
    BY <1>7 DEF Identified, NotIdentified, Preflight, Abort, BulkErase, RowErase, WriteOpen,
       WriteRead, SkipBlank, NextBlock, WriteBlock, WritePoll
  <2>5. QED
    BY <1>6, <2>1, <2>2, <2>3, <2>4
<1>8. QED
  BY <1>1, <1>2, <1>3, <1>4, <1>5, <1>7 DEF Next, Engine

\* On a card whose reads do what they are asked, "done" means that the chip reads
\* back as the image over the whole range of the job.
THEOREM VerifyHolds == SteadyCard => (Spec => []VerifiedMatches)
<1> SUFFICES ASSUME SteadyCard PROVE Spec => []VerifiedMatches
  OBVIOUS
<1>1. TypeInv /\ Verified => VerifiedMatches
  <2> SUFFICES ASSUME TypeInv, Verified PROVE VerifiedMatches
    OBVIOUS
  <2>1. end \in Nat
    BY GeometryAssumption DEF TypeInv, TypeOK, Blocks
  <2>2. QED
    BY <2>1 DEF Verified, Matched, VerifiedMatches
<1>2. TypeInv /\ Verified /\ [Next]_vars => (TypeInv /\ Verified)'
  BY NextType, NextVerified
<1>3. QED
  BY <1>1, <1>2, InitType, InitVerified, PTL DEF Spec

-----------------------------------------------------------------------------
(* The first mismatch.                                                     *)

\* A fail address is only set on the way out, and names a block that differs; in a
\* verify job every block below it was compared.
Failed ==
  /\ fail_addr # NoFail =>
       /\ pc \in {"exit", "report", "idle"} /\ fail_addr \in Blocks
       /\ Readout(fail_addr) # ImageAt(fail_addr)
       /\ mode = "verify" => Matched(fail_addr)
  /\ pc # "idle" => outcome = "none"
  /\ outcome = "verify_fail" => fail_addr # NoFail

LEMMA InitFailed == Init => Failed
  BY DEF Init, Failed, NoFail

\* Neither the chip's contents nor the request changes: nor does what was compared.
LEMMA SameReadout ==
  ASSUME UNCHANGED <<chipVars, reqVars>>
  PROVE  /\ \A b : Readout(b)' = Readout(b) /\ ImageAt(b)' = ImageAt(b)
         /\ \A n : Matched(n)' = Matched(n)
  BY DEF chipVars, reqVars, Readout, ReadBlock, ImageAt, Matched

\* The last attempt on a block failed: the chip does not hold what the image says.
LEMMA WriteFailed ==
  ASSUME TypeInv, CodeGuard, Failed, WriteBlock
  PROVE  Failed'
<1>1. cur <= end /\ off < Want /\ off \in Nat /\ cur \in Nat /\ pc = "wblock" /\ mode # "verify"
  BY DEF WriteBlock, TypeInv, TypeOK, Positions, WriteSide
<1>2. cur + off \in Blocks /\ off \in 0 .. Want - 1
  <2>1. Want \in 1 .. ChunkBlocks /\ cur + Want <= end + 1 /\ end \in Blocks
    BY <1>1, WantFits DEF TypeInv, TypeOK
  <2>2. QED
    BY <1>1, <2>1, GeometryAssumption DEF Blocks
<1>3. buf[off] = ImageAt(cur + off)
  BY <1>1, <1>2 DEF CodeGuard
<1>4. UNCHANGED <<protected, reqVars, outcome>> /\ outcome = "none" /\ fail_addr = NoFail
  BY <1>1 DEF WriteBlock, Failed
<1>5. CASE fail_addr' = NoFail
  BY <1>4, <1>5 DEF Failed
<1>6. CASE fail_addr' # NoFail
  <2>1. /\ ReadBlock(flash', protected, cur + off) # buf[off]
        /\ fail_addr' = cur + off /\ pc' = "exit"
    BY <1>4, <1>6 DEF WriteBlock, NextBlock
  <2>2. Readout(cur + off)' # ImageAt(cur + off)'
    <3>1. cur' = cur /\ off' = off
      BY <2>1 DEF WriteBlock, NextBlock
    <3>2. Readout(cur + off)' = ReadBlock(flash', protected, cur + off)
      BY <1>4, <3>1 DEF Readout, ReadBlock
    <3>3. ImageAt(cur + off)' = ImageAt(cur + off)
      BY <1>4, <3>1 DEF ImageAt, reqVars
    <3>4. QED
      BY <1>3, <2>1, <3>2, <3>3
  <2>3. Readout(fail_addr)' # ImageAt(fail_addr)'
    <3>1. cur' + off' = fail_addr'
      BY <2>1 DEF WriteBlock, NextBlock
    <3>2. QED
      BY <2>2, <3>1 DEF Readout, ReadBlock, ImageAt
  <2>4. mode' # "verify" /\ outcome' = "none"
    BY <1>1, <1>4 DEF reqVars
  <2>5. QED
    BY <1>2, <2>1, <2>3, <2>4 DEF Failed
<1>7. QED
  BY <1>5, <1>6

\* The smallest offset that differs, after everything below the chunk matched.
LEMMA VerifyFailed ==
  ASSUME SteadyCard, TypeInv, Verified, Failed, VerifyChunk
  PROVE  Failed'
<1>1. /\ UNCHANGED <<reqVars, chipVars, outcome>> /\ pc = "vread" /\ cur <= end
      /\ pc' \in {"vread", "exit"} /\ outcome = "none" /\ fail_addr = NoFail
  BY DEF VerifyChunk, Abort, TypeInv, Positions, Failed
<1>2. ReadChunk(Avail) /\ FileAt(cur) /\ Matched(cur)
  BY <1>1 DEF VerifyChunk, OneRead, Fault, Verified, SteadyCard
<1>3. Want \in 1 .. ChunkBlocks /\ cur + Want <= end + 1 /\ ChunkBlocks \in Nat /\ cur \in Nat
      /\ end \in Blocks /\ NBlocks \in Nat
  BY <1>1, WantFits, GeometryAssumption DEF TypeInv, TypeOK
<1>4. CASE fail_addr' = fail_addr
  BY <1>1, <1>4 DEF Failed
<1>5. CASE fail_addr' # fail_addr
  <2>1. PICK i \in Mismatches : /\ \A j \in Mismatches : i <= j
                                /\ fail_addr' = cur + i /\ pc' = "exit"
    BY <1>5 DEF VerifyChunk, Abort
  <2>2. i \in 0 .. Want - 1 /\ Readout(cur + i) # buf'[i]
    BY <2>1 DEF Mismatches
  <2>3. \A k \in 0 .. Want - 1 : buf'[k] = ImageAt(cur + k)
    BY <1>1, <1>2, ChunkRead
  <2>4. Readout(cur + i) # ImageAt(cur + i)
    BY <2>2, <2>3
  <2>5. Matched(cur + i)
    <3>1. ASSUME NEW b \in 0 .. cur + i - 1
          PROVE  Readout(b) = ImageAt(b)
      <4>1. CASE b < cur
        BY <1>2, <1>3, <2>2, <3>1, <4>1 DEF Matched
      <4>2. CASE ~(b < cur)
        <5>1. b - cur \in 0 .. Want - 1 /\ cur + (b - cur) = b /\ ~(i <= b - cur)
          BY <1>3, <2>2, <3>1, <4>2
        <5>2. b - cur \notin Mismatches
          BY <2>1, <5>1
        <5>3. Readout(cur + (b - cur)) = buf'[b - cur]
          BY <5>1, <5>2 DEF Mismatches
        <5>4. QED
          BY <2>3, <5>1, <5>3
      <4>3. QED
        BY <4>1, <4>2
    <3>2. QED
      BY <1>3, <2>2, <3>1 DEF Matched
  <2>6. cur + i \in Blocks
    BY <1>3, <2>2 DEF Blocks
  <2>7. Readout(fail_addr)' = Readout(cur + i) /\ ImageAt(fail_addr)' = ImageAt(cur + i)
        /\ Matched(fail_addr)' = Matched(cur + i)
    BY <1>1, <2>1 DEF Readout, ReadBlock, ImageAt, Matched, chipVars, reqVars
  <2>8. QED
    BY <1>1, <2>1, <2>4, <2>5, <2>6, <2>7 DEF Failed
<1>6. QED
  BY <1>4, <1>5

LEMMA NextFailed ==
  ASSUME SteadyCard, TypeInv, CodeGuard, Verified, Failed, [Next]_vars
  PROVE  Failed'
<1>1. ASSUME NEW m \in Modes, NEW img \in Images, NEW p \in Parts, Start(m, img, p)
      PROVE  Failed'
  BY <1>1 DEF Start, Failed
<1>2. CASE WriteBlock
  BY <1>2, WriteFailed
<1>3. CASE VerifyChunk
  BY <1>3, VerifyFailed
<1>4. ASSUME pc \notin {"exit", "report", "idle"}, UNCHANGED <<fail_addr, outcome>>
      PROVE  Failed'
  BY <1>4 DEF Failed
<1>5. CASE Exit \/ Cancel \/ Report \/ UNCHANGED vars
  <2>1. UNCHANGED <<chipVars, reqVars, fail_addr>>
    BY <1>5 DEF Exit, Cancel, Report, vars, resVars
  <2>2. Readout(fail_addr)' = Readout(fail_addr) /\ ImageAt(fail_addr)' = ImageAt(fail_addr)
        /\ Matched(fail_addr)' = Matched(fail_addr) /\ mode' = mode
    BY <2>1 DEF Readout, ReadBlock, ImageAt, Matched, chipVars, reqVars
  <2>3. pc \in {"exit", "report", "idle"} => pc' \in {"exit", "report", "idle"}
    BY <1>5 DEF Exit, Cancel, Report, vars
  <2>4. CASE Report
    <3>1. pc' = "idle" /\ (outcome' = "verify_fail" => fail_addr # NoFail)
      BY <2>4 DEF Report, Result
    <3>2. QED
      BY <2>1, <2>2, <3>1 DEF Failed
  <2>5. CASE ~Report
    <3>1. outcome' = outcome /\ (pc' # "idle" => pc # "idle")
      BY <1>5, <2>5 DEF Exit, Cancel, vars
    <3>2. QED
      BY <2>1, <2>2, <2>3, <3>1 DEF Failed
  <2>6. QED
    BY <2>4, <2>5
<1>6. ASSUME Identified \/ NotIdentified \/ Preflight \/ BulkErase \/ RowErase \/ WriteOpen
             \/ WriteRead \/ SkipBlank \/ WritePoll \/ VerifyOpen
      PROVE  Failed'
  <2>1. pc \notin {"exit", "report", "idle"}
    BY <1>6 DEF Identified, NotIdentified, Preflight, BulkErase, RowErase, WriteOpen,
       WriteRead, SkipBlank, WritePoll, VerifyOpen
  <2>2. UNCHANGED <<fail_addr, outcome>>
    BY <1>6 DEF Identified, NotIdentified, Preflight, BulkErase, RowErase, WriteOpen,
       WriteRead, SkipBlank, NextBlock, WritePoll, VerifyOpen, resVars
  <2>3. QED
    BY <1>4, <2>1, <2>2
<1>7. QED
  BY <1>1, <1>2, <1>3, <1>5, <1>6 DEF Next, Engine

\* "Verify FAIL @" names a block that really differs; in a verify job it is the first.
THEOREM MismatchHolds == SteadyCard => (Spec => []FirstMismatch)
<1> SUFFICES ASSUME SteadyCard PROVE Spec => []FirstMismatch
  OBVIOUS
<1>0. ReadableCard
  BY DEF SteadyCard
<1>1. Failed => FirstMismatch
  BY DEF Failed, FirstMismatch, Matched
<1>2. TypeInv /\ CodeGuard /\ Verified /\ Failed /\ [Next]_vars
        => (TypeInv /\ CodeGuard /\ Verified /\ Failed)'
  BY <1>0, NextType, NextGuard, NextVerified, NextFailed
<1>3. QED
  BY <1>1, <1>2, InitType, InitGuard, InitVerified, InitFailed, PTL DEF Spec

-----------------------------------------------------------------------------
(* The contract.                                                           *)

LEMMA WantedIsImage == \A b : Contract!Wanted(b) = ImageAt(b)
  BY DEF Contract!Wanted, ImageAt

\* The range the engine works through covers the contract's, and a write's is the same.
Covers ==
  /\ \A b \in Contract!Range : b \in Blocks /\ b <= end
  /\ mode # "verify" => \A b \in Blocks : b <= end => b \in Contract!Range

LEMMA InitCovers == Init => Covers
<1> SUFFICES ASSUME Init PROVE Covers
  OBVIOUS
<1>1. NBlocks \in Nat /\ mode = "full" /\ end = NBlocks - 1
  BY GeometryAssumption DEF Init
<1>2. Contract!Range = Blocks
  BY <1>1 DEF Contract!Range
<1>3. QED
  BY <1>1, <1>2 DEF Covers, Blocks

LEMMA StartCovers ==
  ASSUME NEW m \in Modes, NEW img \in Images, NEW p \in Parts, Start(m, img, p)
  PROVE  Covers'
<1>1. /\ mode' = m /\ image' = img
      /\ end' = RangeEnd(m, img) \/ (m = "verify" /\ end' = NBlocks - 1)
  BY DEF Start
<1>2. NBlocks \in Nat /\ BootBlock \in 1 .. NBlocks - 1 /\ img.size \in Nat
  BY GeometryAssumption, DataAssumption
<1>3. CASE m = "full"
  <2>1. end' = NBlocks - 1
    BY <1>1, <1>3 DEF RangeEnd
  <2>2. Contract!Range' = Blocks
    BY <1>1, <1>3 DEF Contract!Range, Blocks
  <2>3. QED
    BY <1>2, <2>1, <2>2 DEF Covers, Blocks
<1>4. CASE m = "app"
  <2>1. end' = BootBlock - 1
    BY <1>1, <1>4 DEF RangeEnd
  <2>2. Contract!Range' = {b \in Blocks : b < BootBlock}
    BY <1>1, <1>4 DEF Contract!Range, Blocks
  <2>3. QED
    BY <1>2, <2>1, <2>2 DEF Covers, Blocks
<1>5. CASE m = "verify"
  <2>1. end' = NBlocks - 1 \/ (img.size # 0 /\ end' = Smaller(img.size, NBlocks) - 1)
    BY <1>1, <1>5 DEF RangeEnd
  <2>2. Contract!Range' = IF img.size = 0 THEN Blocks ELSE {b \in Blocks : b < img.size}
    BY <1>1, <1>5 DEF Contract!Range, Blocks
  <2>3. QED
    BY <1>1, <1>2, <1>5, <2>1, <2>2 DEF Covers, Blocks, Smaller
<1>6. QED
  BY <1>3, <1>4, <1>5 DEF Modes

\* Every step but the start of a job leaves the request alone.
LEMMA SameJob ==
  ASSUME [Next]_vars,
         ~ \E m \in Modes, img \in Images, p \in Parts : Start(m, img, p)
  PROVE  UNCHANGED reqVars
  BY DEF Next, Engine, vars, Cancel, Identified, NotIdentified, Preflight, BulkErase, RowErase,
     WriteOpen, WriteRead, SkipBlank, WriteBlock, WritePoll, VerifyOpen, VerifyChunk, Exit, Report

LEMMA NextCovers == Covers /\ [Next]_vars => Covers'
<1> SUFFICES ASSUME Covers, [Next]_vars PROVE Covers'
  OBVIOUS
<1>1. CASE \E m \in Modes, img \in Images, p \in Parts : Start(m, img, p)
  BY <1>1, StartCovers
<1>2. CASE UNCHANGED reqVars
  BY <1>2 DEF Covers, Contract!Range, reqVars
<1>3. QED
  BY <1>1, <1>2, SameJob

\* A step that changes the flash blanks blocks of the range or gives them bits of the
\* image.
LEMMA FlashWork ==
  ASSUME TypeInv, TypeInv', CodeGuard, Covers, [Next]_vars, flash' # flash
  PROVE  Contract!Work
<1> USE DEF chipVars
<1>0. /\ NBlocks \in Nat /\ NBlocks > 1 /\ RowBlocks \in Nat \ {0} /\ BootBlock \in 1 .. NBlocks - 1
      /\ ChunkBlocks \in Nat \ {0} /\ end \in Blocks
  BY GeometryAssumption DEF TypeInv, TypeOK, Blocks
<1>1. /\ UNCHANGED <<reqVars, outcome>> /\ pc \in {"bulk", "row", "wblock"}
      /\ mode \in {"full", "app"}
      /\ mode = "app" => \A b \in BootBlock .. NBlocks - 1 : flash'[b] = flash[b]
  BY FlashSteps
<1>2. BulkErase \/ RowErase \/ WriteBlock
  BY DEF Next, Engine, vars, Start, Cancel, Identified, NotIdentified, Preflight, WriteOpen,
     WriteRead, SkipBlank, WritePoll, VerifyOpen, VerifyChunk, Exit, Report
<1>3. pc' # "idle" /\ pc # "idle"
  BY <1>1, <1>2 DEF BulkErase, RowErase, WriteBlock, NextBlock
<1>4. \A b \in Blocks : flash'[b] # flash[b] => b \in Contract!Range
  <2>1. \A b \in Blocks : b \in BootBlock .. NBlocks - 1 \/ b <= BootBlock - 1
    BY <1>0 DEF Blocks
  <2>2. mode = "app" => end = BootBlock - 1
    BY DEF TypeInv, Positions
  <2>3. mode = "full" => Contract!Range = Blocks
    BY DEF Contract!Range
  <2>4. QED
    BY <1>1, <2>1, <2>2, <2>3 DEF Covers
<1>5. \A b \in Blocks : \/ flash'[b] \in {flash[b], {}}
                        \/ flash'[b] \subseteq flash[b] \cup ImageAt(b)
  <2>1. CASE BulkErase
    BY <1>0, <2>1, EraseType DEF BulkErase, TypeInv
  <2>2. CASE RowErase
    <3>1. cur < BootBlock /\ cur \in Nat /\ OnRow(cur)
      BY <1>0, <2>2 DEF RowErase, TypeInv, TypeOK, Positions, Blocks
    <3>2. cur + RowBlocks <= BootBlock
      BY <3>1, RowFits
    <3>3. cur .. cur + RowBlocks - 1 \in SUBSET Blocks
      BY <1>0, <3>1, <3>2 DEF Blocks
    <3>4. QED
      BY <2>2, <3>3, EraseType DEF RowErase, TypeInv
  <2>3. CASE WriteBlock
    <3>1. cur <= end /\ off < Want /\ off \in Nat /\ cur \in Nat
      BY <2>3 DEF WriteBlock, TypeInv, TypeOK, Positions
    <3>2. Want \in 1 .. ChunkBlocks /\ cur + Want <= end + 1
      BY <3>1, WantFits DEF TypeInv
    <3>3. cur + off \in Blocks /\ off \in 0 .. Want - 1 /\ off \in 0 .. ChunkBlocks - 1
      BY <1>0, <3>1, <3>2 DEF Blocks
    <3>4. buf[off] = ImageAt(cur + off) /\ buf[off] \in Content
      BY <2>3, <3>3 DEF WriteBlock, CodeGuard, TypeInv, TypeOK
    <3>5. /\ \A c \in Blocks \ {cur + off} : flash'[c] = flash[c]
          /\ flash'[cur + off] \subseteq flash[cur + off] \cup buf[off]
      BY <2>3, <3>3, <3>4, ProgramType DEF WriteBlock, TypeInv
    <3>6. QED
      BY <3>4, <3>5
  <2>4. QED
    BY <1>2, <2>1, <2>2, <2>3
<1>6. flash' \in [Blocks -> Content]
  BY DEF TypeInv, TypeOK
<1>7. [mode |-> mode, image |-> image, before |-> flash0]'
        = [mode |-> mode, image |-> image, before |-> flash0]
  BY <1>1 DEF reqVars
<1>8. [mode |-> mode, image |-> image, before |-> flash0].mode # "verify"
  BY <1>1
<1>9. QED
  BY <1>1, <1>3, <1>4, <1>5, <1>6, <1>7, <1>8, WantedIsImage DEF Contract!Work

\* The verdict that is reported is true of the chip.
LEMMA ReportFinishes ==
  ASSUME TypeInv', Verified', Failed', Refusals', Covers', TypeInv, Report
  PROVE  Contract!Finish
<1>1. pc = "report" /\ pc' = "idle" /\ outcome' = Result /\ UNCHANGED <<chipVars, reqVars, end>>
  BY DEF Report, reqVars
<1>2. outcome' \in {"cancelled", "no_device", "wrong_chip", "cp_refused", "verify_fail",
                    "io_error", "done"}
  BY <1>1 DEF Result
<1>3. /\ \A b : Readout(b)' = Readout(b) /\ ImageAt(b)' = ImageAt(b)
      /\ \A n : Matched(n)' = Matched(n)
  BY <1>1, SameReadout
<1>4. outcome' = "done" => \A b \in Contract!Range : Readout(b) = ImageAt(b)
  <2>1. Contract!Range' = Contract!Range
    BY <1>1 DEF Contract!Range, reqVars
  <2>2. \A b \in Contract!Range : b \in Blocks /\ b <= end
    BY <1>1, <2>1 DEF Covers, reqVars
  <2>3. outcome' = "done" => Matched(end + 1)'
    BY DEF Verified
  <2>4. Matched(end + 1)' = Matched(end + 1)
    BY <1>1 DEF Matched, Readout, ReadBlock, ImageAt, chipVars, reqVars
  <2>5. end \in Nat
    BY GeometryAssumption DEF TypeInv, TypeOK, Blocks
  <2>6. QED
    BY <2>2, <2>3, <2>4, <2>5 DEF Matched, Blocks
<1>5. outcome' = "verify_fail" => \E b \in Blocks : Readout(b) # ImageAt(b)
  <2>1. Readout(fail_addr)' = Readout(fail_addr') /\ ImageAt(fail_addr)' = ImageAt(fail_addr')
    BY <1>1 DEF Readout, ReadBlock, ImageAt, chipVars, reqVars
  <2>2. QED
    BY <2>1 DEF Failed
<1>6. outcome' \in {"no_device", "wrong_chip", "cp_refused"} => flash = flash0
  BY <1>1 DEF Refusals, chipVars, reqVars
<1>7. [b \in Blocks |-> Readout(b)]' = [b \in Blocks |-> Readout(b)]
  BY <1>1 DEF Readout, ReadBlock, chipVars
<1>8. [mode |-> mode, image |-> image, before |-> flash0]'
        = [mode |-> mode, image |-> image, before |-> flash0]
  BY <1>1 DEF reqVars
<1>9. \A b \in Contract!Range : b \in Blocks
  BY GeometryAssumption DEF Contract!Range, TypeInv, TypeOK, Modes
<1>10. Contract!Truthful(outcome')
  BY <1>4, <1>5, <1>6, <1>9, WantedIsImage DEF Contract!Truthful
<1>11. QED
  BY <1>1, <1>2, <1>7, <1>8, <1>10 DEF Contract!Finish, chipVars

LEMMA InitContract == Init => Contract!Init
  BY DEF Init, Contract!Init

\* Starting a job is the contract's Begin.
LEMMA StartBegins ==
  ASSUME NEW m \in Modes, NEW img \in Images, NEW p \in Parts, Start(m, img, p)
  PROVE  Contract!Begin
<1>1. /\ pc = "idle" /\ pc' = "enter" /\ outcome' = "none" /\ UNCHANGED chipVars
      /\ mode' = m /\ image' = img /\ flash0' = flash
  BY DEF Start
<1>2. [b \in Blocks |-> Readout(b)]' = [b \in Blocks |-> Readout(b)]
  BY <1>1 DEF Readout, ReadBlock, chipVars
<1>3. [mode |-> mode, image |-> image, before |-> flash0]'
        = [mode |-> m, image |-> img, before |-> flash]
  BY <1>1
<1>4. m \in {"full", "app", "verify"}
  BY DEF Modes
<1>5. QED
  BY <1>1, <1>2, <1>3, <1>4 DEF Contract!Begin, chipVars

\* Every other step of a running job that leaves the flash alone is invisible work.
LEMMA QuietWork ==
  ASSUME TypeInv', [Next]_vars, flash' = flash, pc # "idle", pc' # "idle"
  PROVE  Contract!Work
<1>1. ~ \E m \in Modes, img \in Images, p \in Parts : Start(m, img, p)
  BY DEF Start
<1>2. UNCHANGED reqVars
  BY <1>1, SameJob
<1>3. ~Report
  BY DEF Report
<1>4. UNCHANGED outcome
  BY <1>1, <1>3 DEF Next, Engine, vars, Cancel, Identified, NotIdentified, Preflight, BulkErase,
     RowErase, WriteOpen, WriteRead, SkipBlank, WriteBlock, WritePoll, VerifyOpen, VerifyChunk, Exit
<1>5. [mode |-> mode, image |-> image, before |-> flash0]'
        = [mode |-> mode, image |-> image, before |-> flash0]
  BY <1>2 DEF reqVars
<1>6. flash' \in [Blocks -> Content]
  BY DEF TypeInv, TypeOK
<1>7. QED
  BY <1>4, <1>5, <1>6 DEF Contract!Work

LEMMA NextContract ==
  ASSUME TypeInv, CodeGuard, Covers,
         (TypeInv /\ Refusals /\ Verified /\ Failed /\ Covers)', [Next]_vars
  PROVE  [Contract!Next]_(Contract!cvars)
<1>1. ASSUME NEW m \in Modes, NEW img \in Images, NEW p \in Parts, Start(m, img, p)
      PROVE  Contract!Next
  BY <1>1, StartBegins DEF Contract!Next
<1>2. CASE Report
  BY <1>2, ReportFinishes DEF Contract!Next
<1>3. CASE flash' # flash
  BY <1>3, FlashWork DEF Contract!Next
<1>4. CASE UNCHANGED vars
  <2>1. [b \in Blocks |-> Readout(b)]' = [b \in Blocks |-> Readout(b)]
    BY <1>4 DEF Readout, ReadBlock, vars, chipVars
  <2>2. QED
    BY <1>4, <2>1 DEF Contract!cvars, vars, chipVars, reqVars
<1>5. CASE /\ flash' = flash /\ ~Report
           /\ ~ \E m \in Modes, img \in Images, p \in Parts : Start(m, img, p)
           /\ Next
  <2>1. pc # "idle" /\ pc' # "idle"
    BY <1>5 DEF Next, Engine, Cancel, Identified, NotIdentified, Preflight, Abort, BulkErase,
       RowErase, WriteOpen, WriteRead, SkipBlank, NextBlock, WriteBlock, WritePoll, VerifyOpen,
       VerifyChunk, Exit
  <2>2. QED
    BY <1>5, <2>1, QuietWork DEF Contract!Next
<1>6. QED
  BY <1>1, <1>2, <1>3, <1>4, <1>5

\* The engine implements its contract, for every geometry, image, number of attempts
\* and number of faults, on a card whose reads deliver what they are asked for.
THEOREM ContractHolds == SteadyCard => (Spec => ImplementsContract)
<1> SUFFICES ASSUME SteadyCard PROVE Spec => ImplementsContract
  OBVIOUS
<1>0. ReadableCard
  BY DEF SteadyCard
<1> DEFINE IInv == TypeInv /\ Bracketed /\ Refusals /\ CodeGuard /\ Verified /\ Failed /\ Covers
<1>1. Init => IInv
  BY InitType, InitBracket, InitRefusals, InitGuard, InitVerified, InitFailed, InitCovers
<1>2. IInv /\ [Next]_vars => IInv'
  BY <1>0, NextType, NextBracket, NextRefusals, NextGuard, NextVerified, NextFailed, NextCovers
<1>3. IInv /\ IInv' /\ [Next]_vars => [Contract!Next]_(Contract!cvars)
  BY NextContract
<1>4. Init => Contract!Init
  BY InitContract
<1> HIDE DEF IInv
<1>5. QED
  BY <1>1, <1>2, <1>3, <1>4, PTL DEF Spec, ImplementsContract, Contract!Spec

(***************************************************************************)
(* What the retries and the verify make of faults.  Sporadic rejections by  *)
(* the chip do not fail a write: the erase loop and the program loop outlast *)
(* them.  And whatever the card does, a write that ends well has put no      *)
(* block's data at another block's address.                                 *)
(***************************************************************************)
-----------------------------------------------------------------------------
(* The retry loops.                                                        *)

\* The chip may reject an erase or a write now and then, fewer times than each is tried.
Sporadic ==
  /\ FaultKinds \subseteq {"erase", "program"}
  /\ MaxFaults < EraseTries /\ MaxFaults < BlockTries

\* A full write of an image the chip can hold, to a chip on which a rejected erase shows.
CanHeal == mode = "full" /\ ConfigHolds /\ flash0[0] # {}

\* The blocks below n hold the image, those above it are blank, and n may be half written.
WrittenTo(n) ==
  /\ ~protected
  /\ \A b \in Blocks : /\ b < n => Readout(b) = ImageAt(b)
                       /\ b = n => flash[b] \subseteq ImageAt(b)
                       /\ b > n => flash[b] = {}

\* Each attempt that fails has used up a fault; only a cancel or a refusal ends the job
\* early.
Healing ==
  /\ pc = "enter" => device_id # "67J60"
  /\ pc = "bulk" => flash = flash0 /\ try + faults <= MaxFaults
  /\ pc = "wopen" => WrittenTo(0)
  /\ pc = "wread" => WrittenTo(cur)
  /\ pc = "wblock" => WrittenTo(cur + off) /\ try + faults <= MaxFaults
  /\ pc = "wpoll" => WrittenTo(cur + Want)
  /\ pc \in {"vopen", "vread"} => Matched(NBlocks)
  /\ pc = "vread" => FileAt(cur)
  /\ pc \in {"exit", "report"} => ok \/ cancel \/ cp_refused \/ device_id # "67J60"
  /\ outcome \notin {"verify_fail", "io_error"}

HealInv == (mode = "full" => end = Cfg) /\ (CanHeal => Healing)

\* The request does not change during a job, nor does a full write's range.
LEMMA HealRange ==
  ASSUME mode = "full" => end = Cfg, [Next]_vars
  PROVE  (mode = "full" => end = Cfg)'
<1>1. ASSUME NEW m \in Modes, NEW img \in Images, NEW p \in Parts, Start(m, img, p)
      PROVE  (mode = "full" => end = Cfg)'
  BY <1>1 DEF Start, RangeEnd, Cfg
<1>2. CASE UNCHANGED reqVars
  BY <1>2 DEF reqVars
<1> QED  BY <1>1, <1>2 DEF Next, Engine, vars, Cancel, Identified, NotIdentified, Preflight,
    BulkErase, RowErase, WriteOpen, WriteRead, SkipBlank, WriteBlock, WritePoll, VerifyOpen,
    VerifyChunk, Exit, Report

\* The steps below all start from this.
HealBefore == Sporadic /\ TypeInv /\ Refusals /\ CodeGuard /\ CanHeal /\ Healing /\ end = Cfg

LEMMA HealFacts ==
  ASSUME HealBefore
  PROVE  /\ SteadyCard /\ "open" \notin FaultKinds /\ "weak" \notin FaultKinds
         /\ NBlocks \in Nat /\ NBlocks > 1 /\ Cfg \in Blocks /\ 0 \in Blocks /\ 0 # Cfg
         /\ MaxFaults \in Nat /\ faults \in 0 .. MaxFaults /\ try \in Nat
         /\ EraseTries \in Nat /\ BlockTries \in Nat
         /\ flash \in [Blocks -> Content] /\ CP0 \notin Unimpl
         /\ Unimpl \subseteq ImageAt(Cfg)
BY GeometryAssumption, DataAssumption, TriesAssumption
   DEF HealBefore, Sporadic, SteadyCard, ReadableCard, TypeInv, TypeOK, Blocks, Cfg, CanHeal,
       ConfigHolds, ImageAt

\* A good erase is noticed; a rejected one costs a fault, and is noticed too: something
\* was in block 0.
LEMMA HealErase == ASSUME HealBefore, BulkErase PROVE Healing'
<1>1. /\ pc = "bulk" /\ flash = flash0 /\ try + faults <= MaxFaults /\ try' = try + 1
      /\ UNCHANGED <<reqVars, outcome>> /\ flash[0] # {} /\ outcome \notin {"verify_fail", "io_error"}
  BY DEF HealBefore, BulkErase, Healing, CanHeal, reqVars
<1>2. pc' = IF LooksErased' THEN "wopen" ELSE IF try' = EraseTries THEN "exit" ELSE "bulk"
  BY DEF BulkErase
<1>3. CASE NoFault /\ EraseExcept(Blocks \ Blocks)
  <2>1. flash' = [b \in Blocks |-> {}] /\ protected' = FALSE
    BY <1>3, HealFacts DEF EraseExcept
  <2>2. LooksErased'
    BY <2>1, HealFacts DEF LooksErased, Readout, ReadBlock
  <2>3. WrittenTo(0)'
    BY <2>1 DEF WrittenTo, Blocks
  <2> QED  BY <1>1, <1>2, <2>2, <2>3 DEF Healing
<1>4. CASE Fault("erase") /\ EraseExcept(Blocks)
  <2>1. flash' = flash /\ faults' = faults - 1
    BY <1>4, HealFacts DEF EraseExcept, Fault
  <2>2. ~LooksErased'
    <3>1. Readout(0)' # {}
      BY <1>1, <2>1, HealFacts, DataAssumption DEF Readout, ReadBlock
    <3> QED  BY <3>1 DEF LooksErased
  <2>3. try' + faults' <= MaxFaults /\ try' # EraseTries
    BY <1>1, <1>4, <2>1, HealFacts DEF HealBefore, Sporadic, Fault
  <2>4. pc' = "bulk"
    BY <1>2, <2>2, <2>3
  <2> QED  BY <1>1, <2>1, <2>3, <2>4 DEF Healing, reqVars
<1> QED  BY <1>3, <1>4, HealFacts DEF BulkErase, Erase, Fault

\* A block that is blank in the image is left blank.
LEMMA HealSkip == ASSUME HealBefore, SkipBlank PROVE Healing'
<1>1. /\ pc = "wblock" /\ buf[off] = {} /\ WrittenTo(cur + off) /\ NextBlock
      /\ UNCHANGED <<chipVars, reqVars, cur, faults, outcome>>
      /\ outcome \notin {"verify_fail", "io_error"}
  BY DEF HealBefore, SkipBlank, Healing
<1>2. off < Want /\ off \in Nat /\ cur \in Nat /\ Want \in Nat
  BY <1>1, WantFits, GeometryAssumption DEF HealBefore, TypeInv, TypeOK, Positions
<1>3. ImageAt(cur + off) = {}
  BY <1>1, <1>2 DEF HealBefore, CodeGuard
<1>4. ASSUME NEW b \in Blocks
      PROVE  /\ b <= cur + off => Readout(b) = ImageAt(b)
             /\ b > cur + off => flash[b] = {}
  <2>1. b = cur + off => Readout(b) = {}
    BY <1>1, <1>3, HealFacts DEF WrittenTo, Readout, ReadBlock
  <2>2. b = cur + off => Readout(b) = ImageAt(b)
    BY <1>3, <2>1
  <2>3. b \in Int
    BY DEF Blocks
  <2> QED  BY <1>1, <1>2, <2>2, <2>3 DEF WrittenTo
<1>5. WrittenTo(cur + off)' /\ off' = off + 1 /\ try' = 0
  <2>1. off' = off + 1 /\ try' = 0 /\ cur' = cur /\ ~protected' /\ flash' = flash
    BY <1>1 DEF NextBlock, chipVars, WrittenTo
  <2>2. ASSUME NEW b \in Blocks
        PROVE  /\ b < cur + off + 1 => Readout(b)' = ImageAt(b)'
               /\ b >= cur + off + 1 => flash'[b] = {}
    <3>1. Readout(b)' = Readout(b) /\ ImageAt(b)' = ImageAt(b)
      BY <1>1 DEF Readout, ReadBlock, ImageAt, chipVars, reqVars
    <3> QED  BY <1>2, <1>4, <2>1, <3>1, HealFacts DEF Blocks
  <2> QED  BY <1>2, <2>1, <2>2, HealFacts DEF WrittenTo, Blocks
<1>6. Want' = Want
  BY <1>1 DEF Want, Smaller, reqVars
<1>7. pc' \in {"wblock", "wpoll"} /\ (pc' = "wpoll" => off' = Want')
  BY <1>1, <1>6 DEF NextBlock
<1>8. try' + faults' <= MaxFaults
  BY <1>1, <1>5, HealFacts
<1>9. pc' = "wpoll" => WrittenTo(cur + Want)'
  BY <1>5, <1>7
<1> QED  BY <1>1, <1>5, <1>7, <1>8, <1>9 DEF Healing

\* A good write leaves the block as the image has it; a bad one costs a fault, and what it
\* did clear is the image's.
LEMMA HealWrite == ASSUME HealBefore, WriteBlock PROVE Healing'
<1>1. /\ pc = "wblock" /\ WrittenTo(cur + off) /\ try + faults <= MaxFaults
      /\ ProgramBlock(cur + off, buf[off])
      /\ UNCHANGED <<protected, reqVars, cur, outcome>>
      /\ outcome \notin {"verify_fail", "io_error"}
  BY DEF HealBefore, WriteBlock, Healing
<1>2. /\ off < Want /\ off \in Nat /\ cur \in Nat /\ Want \in 1 .. ChunkBlocks
      /\ cur + off \in Blocks /\ ChunkBlocks \in Nat /\ NBlocks \in Nat
  BY <1>1, WantFits, GeometryAssumption DEF HealBefore, TypeInv, TypeOK, Positions, Blocks
<1>3. buf[off] = ImageAt(cur + off) /\ buf[off] \in Content
  BY <1>1, <1>2 DEF HealBefore, CodeGuard, TypeInv, TypeOK
<1>4. Want' = Want
  BY <1>1 DEF Want, Smaller, reqVars
<1>0. PICK here \in Blocks : here = cur + off
  BY <1>2
<1> DEFINE Reads == ReadBlock(flash', protected, here) = buf[off]
<1>5. /\ \A b \in Blocks \ {here} : flash'[b] = flash[b]
      /\ flash'[here] \subseteq ImageAt(here)
      /\ faults' = faults => flash'[here] = ImageAt(here)
      /\ faults' = faults \/ (faults' = faults - 1 /\ faults > 0)
  <2>1. flash[here] \subseteq ImageAt(here)
    BY <1>0, <1>1 DEF WrittenTo
  <2>2. CASE NoFault /\ flash' = [flash EXCEPT ![here] = @ \cup buf[off]]
    BY <1>0, <1>3, <2>1, <2>2, HealFacts DEF NoFault
  <2>3. ASSUME Fault("program"), NEW taken \in SUBSET buf[off],
               flash' = [flash EXCEPT ![here] = @ \cup taken]
        PROVE  /\ \A b \in Blocks \ {here} : flash'[b] = flash[b]
               /\ flash'[here] \subseteq ImageAt(here)
               /\ faults' = faults - 1 /\ faults > 0 /\ faults' # faults
    BY <1>0, <1>3, <2>1, <2>3, HealFacts DEF Fault
  <2> QED  BY <1>0, <1>1, <2>2, <2>3 DEF ProgramBlock
<1>6. faults' = faults => Reads
  BY <1>0, <1>1, <1>3, <1>5, HealFacts DEF WrittenTo, ReadBlock
<1>7. \A b \in Blocks \ {here} : Readout(b)' = Readout(b) /\ ImageAt(b)' = ImageAt(b)
  BY <1>1, <1>5 DEF Readout, ReadBlock, ImageAt, reqVars
<1>8. ImageAt(here)' = ImageAt(here)
  BY <1>1, <1>2 DEF ImageAt, reqVars
<1>9. CASE Reads
  <2>1. NextBlock
    BY <1>0, <1>9 DEF WriteBlock
  <2>2. Readout(here)' = ImageAt(here)
    BY <1>0, <1>1, <1>3, <1>9 DEF Readout
  <2>3. WrittenTo(cur + off)'
    <3>1. off' = off + 1 /\ cur' = cur /\ ~protected'
      BY <1>1, <2>1 DEF NextBlock, WrittenTo
    <3>2. ASSUME NEW b \in Blocks
          PROVE  /\ b < here + 1 => Readout(b)' = ImageAt(b)'
                 /\ b >= here + 1 => flash'[b] = {}
      BY <1>0, <1>1, <1>2, <1>5, <1>7, <1>8, <2>2 DEF WrittenTo, Blocks
    <3> QED  BY <1>0, <1>2, <3>1, <3>2 DEF WrittenTo, Blocks
  <2>4. try' = 0 /\ pc' \in {"wblock", "wpoll"} /\ (pc' = "wpoll" => off' = Want')
    BY <1>4, <2>1 DEF NextBlock
  <2>5. try' + faults' <= MaxFaults
    BY <1>5, <2>4, HealFacts
  <2>6. pc' = "wpoll" => WrittenTo(cur + Want)'
    BY <2>3, <2>4
  <2> QED  BY <1>1, <2>3, <2>4, <2>5, <2>6 DEF Healing
<1>10. CASE ~Reads
  <2>1. try' = try + 1 /\ off' = off
    BY <1>0, <1>10 DEF WriteBlock
  <2>2. try' + faults' <= MaxFaults /\ try' # BlockTries
    BY <1>1, <1>5, <1>6, <1>10, <2>1, HealFacts DEF HealBefore, Sporadic
  <2>3. pc' = "wblock"
    BY <1>0, <1>1, <1>10, <2>2 DEF WriteBlock
  <2>4. WrittenTo(cur + off)'
    <3>1. off' = off /\ cur' = cur /\ ~protected'
      BY <1>1, <2>1 DEF WrittenTo
    <3>2. ASSUME NEW b \in Blocks
          PROVE  /\ b < here => Readout(b)' = ImageAt(b)'
                 /\ b = here => flash'[b] \subseteq ImageAt(b)'
                 /\ b > here => flash'[b] = {}
      BY <1>0, <1>1, <1>2, <1>5, <1>7, <1>8 DEF WrittenTo, Blocks
    <3> QED  BY <1>0, <3>1, <3>2 DEF WrittenTo
  <2> QED  BY <1>1, <2>2, <2>3, <2>4 DEF Healing
<1> QED  BY <1>9, <1>10

\* A chunk whose blocks all match goes on to the next one, or to a good end.
LEMMA HealVerify == ASSUME HealBefore, VerifyChunk PROVE Healing'
<1>1. /\ pc = "vread" /\ FileAt(cur) /\ Matched(NBlocks) /\ cur' = cur + Want
      /\ UNCHANGED <<chipVars, reqVars, cancel, outcome>>
      /\ outcome \notin {"verify_fail", "io_error"}
  BY DEF HealBefore, VerifyChunk, Healing
<1>2. cur <= end /\ TypeInv /\ ReadChunk(Avail)
  BY <1>1, HealFacts DEF HealBefore, TypeInv, Positions, VerifyChunk, OneRead, Fault,
     SteadyCard, ReadableCard
<1>3. Mismatches = {}
  <2>1. /\ Want \in 1 .. ChunkBlocks /\ cur + Want <= end + 1 /\ cur \in Nat /\ end \in Nat
        /\ end + 1 = NBlocks /\ ChunkBlocks \in Nat
    BY <1>2, WantFits, GeometryAssumption, HealFacts DEF HealBefore, TypeInv, TypeOK, Cfg, Blocks
  <2>2. ASSUME NEW i \in 0 .. Want - 1 PROVE Readout(cur + i) = buf'[i]
    <3>1. cur + i \in 0 .. NBlocks - 1
      BY <2>1, HealFacts
    <3> QED  BY <1>1, <1>2, <3>1, ChunkRead DEF Matched
  <2> QED  BY <2>2 DEF Mismatches
<1>4. FileAt(cur)'
  BY <1>1, <1>2, ChunkRead DEF FileAt, reqVars
<1>5. Matched(NBlocks)'
  BY <1>1 DEF Matched, Readout, ReadBlock, ImageAt, reqVars, chipVars
<1>6. pc' \in {"vread", "exit"} /\ (pc' = "exit" => ok' \/ cancel')
  BY <1>1, <1>3 DEF VerifyChunk, Abort
<1> QED  BY <1>1, <1>4, <1>5, <1>6 DEF Healing

\* The other steps of a job.
LEMMA HealSteps ==
  ASSUME HealBefore,
         \/ Identified \/ NotIdentified \/ Preflight \/ WriteOpen \/ WriteRead \/ WritePoll
         \/ VerifyOpen \/ Exit \/ Report \/ Cancel \/ UNCHANGED vars
  PROVE  Healing'
<1>0. mode = "full" /\ Healing /\ outcome \notin {"verify_fail", "io_error"}
  BY DEF HealBefore, CanHeal, Healing
<1>1. CASE Identified
  BY <1>0, <1>1 DEF Identified, Healing, reqVars
<1>2. CASE NotIdentified
  BY <1>0, <1>2 DEF NotIdentified, Is67J60, Healing
<1>3. CASE Preflight
  <2>1. UNCHANGED <<outcome, reqVars, chipVars>> /\ flash = flash0
    BY <1>3 DEF Preflight, HealBefore, Refusals
  <2>2. \/ pc' = "bulk" /\ try' = 0 /\ faults' = faults
        \/ pc' = "exit" /\ cp_refused'
    BY <1>0, <1>3, HealFacts DEF Preflight, Fault, NoFault, SteadyCard, ReadableCard, Abort
  <2> QED  BY <1>0, <2>1, <2>2, HealFacts DEF Healing, reqVars, chipVars
<1>4. CASE WriteOpen
  <2>1. UNCHANGED <<outcome, reqVars, chipVars>> /\ cancel' = cancel /\ WrittenTo(0)
    BY <1>0, <1>4 DEF WriteOpen, Healing
  <2>2. \/ pc' = "wread" /\ cur' = 0
        \/ pc' = "exit" /\ cancel'
    <3>1. \/ cancel /\ pc' = "exit"
          \/ pc' = "wread" /\ cur' = 0
      BY <1>4, HealFacts DEF WriteOpen, Fault, Abort
    <3> QED  BY <2>1, <3>1
  <2>3. pc' = "wread" => WrittenTo(cur)'
    BY <2>1, <2>2 DEF WrittenTo, Readout, ReadBlock, ImageAt, reqVars, chipVars
  <2> QED  BY <1>0, <2>1, <2>2, <2>3 DEF Healing
<1>5. CASE WriteRead
  <2>1. /\ UNCHANGED <<outcome, reqVars, chipVars, cur, faults>> /\ WrittenTo(cur)
        /\ pc' = "wblock" /\ off' = 0 /\ try' = 0 /\ cur \in Nat
    BY <1>0, <1>5 DEF WriteRead, FullRead, NoFault, Healing, HealBefore, TypeInv, TypeOK
  <2>2. cur' + off' = cur /\ try' + faults' <= MaxFaults
    BY <2>1, HealFacts
  <2>3. WrittenTo(cur + off)'
    BY <2>1, <2>2 DEF WrittenTo, Readout, ReadBlock, ImageAt, reqVars, chipVars
  <2> QED  BY <1>0, <2>1, <2>2, <2>3 DEF Healing
<1>6. CASE WritePoll
  <2>1. /\ UNCHANGED <<outcome, reqVars, chipVars, cancel>> /\ WrittenTo(cur + Want)
        /\ cur' = cur + Want /\ pc' \in {"exit", "vopen", "wread"}
        /\ pc' = "exit" => cancel'
        /\ pc' = "vopen" => cur' > end
    BY <1>0, <1>6 DEF WritePoll, Healing
  <2>2. WrittenTo(cur)'
    BY <2>1 DEF WrittenTo, Readout, ReadBlock, ImageAt, reqVars, chipVars
  <2>3. pc' = "vopen" => Matched(NBlocks)'
    <3>1. cur' \in Nat /\ end = NBlocks - 1
      BY <2>1, WantFits, GeometryAssumption, <1>6
         DEF HealBefore, TypeInv, TypeOK, Cfg, WritePoll, Positions
    <3> QED  BY <2>1, <2>2, <3>1, HealFacts DEF WrittenTo, Matched, Blocks
  <2> QED  BY <1>0, <2>1, <2>2, <2>3 DEF Healing
<1>7. CASE VerifyOpen
  <2>1. UNCHANGED <<outcome, reqVars, chipVars>> /\ cancel' = cancel /\ Matched(NBlocks)
    BY <1>0, <1>7 DEF VerifyOpen, Healing
  <2>2. \/ pc' = "vread" /\ OpenFile /\ cur' = 0
        \/ pc' = "exit" /\ cancel'
    <3>1. \/ cancel /\ pc' = "exit"
          \/ pc' = "vread" /\ OpenFile /\ cur' = 0
      BY <1>0, <1>7, HealFacts DEF VerifyOpen, Fault, Abort
    <3> QED  BY <2>1, <3>1
  <2>3. Matched(NBlocks)'
    BY <2>1 DEF Matched, Readout, ReadBlock, ImageAt, reqVars, chipVars
  <2>4. pc' = "vread" => FileAt(cur)'
    BY <2>1, <2>2, HealFacts, OpenReads DEF SteadyCard, HealBefore
  <2> QED  BY <1>0, <2>1, <2>2, <2>3, <2>4 DEF Healing
<1>8. CASE Exit
  BY <1>0, <1>8 DEF Exit, resVars, Healing
<1>9. CASE Report
  <2>1. pc = "report" /\ pc' = "idle" /\ outcome' = Result
    BY <1>9 DEF Report
  <2>2. ok \/ cancel \/ cp_refused \/ device_id # "67J60"
    BY <1>0, <2>1 DEF Healing
  <2>3. device_id \in {"67J60", "other", "none"}
    BY DEF HealBefore, TypeInv, TypeOK, Parts
  <2>4. Result \notin {"verify_fail", "io_error"}
    <3>1. CASE cancel
      BY <3>1 DEF Result
    <3>2. CASE ~cancel /\ device_id # "67J60"
      BY <2>3, <3>2 DEF Result
    <3>3. CASE ~cancel /\ device_id = "67J60" /\ (cp_refused \/ ok)
      BY <3>3 DEF Result
    <3> QED  BY <2>2, <3>1, <3>2, <3>3
  <2> QED  BY <2>1, <2>4 DEF Healing
<1>10. CASE Cancel \/ UNCHANGED vars
  <2>1. /\ UNCHANGED <<outcome, reqVars, chipVars, resVars, fileVars, pc, try, cur, off>>
        /\ UNCHANGED faults /\ (cancel => cancel')
    BY <1>10 DEF Cancel, vars
  <2>2. Want' = Want /\ FileAt(cur)' = FileAt(cur)
    BY <2>1 DEF Want, Smaller, FileAt, reqVars, fileVars
  <2>3. \A b : Readout(b)' = Readout(b) /\ ImageAt(b)' = ImageAt(b)
    BY <2>1 DEF Readout, ReadBlock, ImageAt, reqVars, chipVars
  <2>4. /\ WrittenTo(0)' = WrittenTo(0) /\ WrittenTo(cur)' = WrittenTo(cur)
        /\ WrittenTo(cur + off)' = WrittenTo(cur + off)
        /\ WrittenTo(cur + Want)' = WrittenTo(cur + Want)
        /\ Matched(NBlocks)' = Matched(NBlocks)
    BY <2>1, <2>2, <2>3 DEF WrittenTo, Matched, chipVars
  <2> QED  BY <1>0, <2>1, <2>2, <2>4 DEF Healing, resVars, reqVars, chipVars
<1> QED  BY <1>1, <1>2, <1>3, <1>4, <1>5, <1>6, <1>7, <1>8, <1>9, <1>10

LEMMA NextHeal ==
  ASSUME Sporadic, TypeInv, Refusals, CodeGuard, HealInv, [Next]_vars
  PROVE  HealInv'
<1>1. (mode = "full" => end = Cfg)'
  BY HealRange DEF HealInv
<1>2. ASSUME NEW m \in Modes, NEW img \in Images, NEW p \in Parts, Start(m, img, p)
      PROVE  Healing'
  BY <1>2, StartSteps DEF Start, Healing
<1>3. ASSUME CanHeal', UNCHANGED reqVars, [Engine \/ Cancel]_vars PROVE Healing'
  <2>1. CanHeal /\ HealBefore
    BY <1>3 DEF CanHeal, ConfigHolds, reqVars, HealInv, HealBefore
  <2>2. ~RowErase
    BY <2>1 DEF RowErase, HealBefore, TypeInv, Positions, CanHeal
  <2> QED  BY <1>3, <2>1, <2>2, HealErase, HealSkip, HealWrite, HealVerify, HealSteps
      DEF Engine
<1>4. [Engine \/ Cancel]_vars => UNCHANGED reqVars
  BY DEF Engine, vars, Cancel, Identified, NotIdentified, Preflight, BulkErase, RowErase,
     WriteOpen, WriteRead, SkipBlank, WriteBlock, WritePoll, VerifyOpen, VerifyChunk, Exit,
     Report
<1> QED  BY <1>1, <1>2, <1>3, <1>4 DEF Next, HealInv

\* With fewer rejections than attempts, a full write of an image the chip can hold does
\* not fail: it ends well, is cancelled, or is refused.  (A rejected erase of a chip whose
\* first block was blank goes unnoticed.)
THEOREM HealHolds == Sporadic => (Spec => []HealedWrite)
<1> SUFFICES ASSUME Sporadic PROVE Spec => []HealedWrite
  OBVIOUS
<1> DEFINE Inv == TypeInv /\ Bracketed /\ Refusals /\ CodeGuard /\ HealInv
<1>1. Init => Inv
  <2>1. Init => HealInv
    BY DEF Init, HealInv, Healing, Cfg
  <2> QED  BY <2>1, InitType, InitBracket, InitRefusals, InitGuard
<1>2. Inv /\ [Next]_vars => Inv'
  <2>1. ReadableCard
    BY DEF Sporadic, ReadableCard
  <2> QED  BY <2>1, NextType, NextBracket, NextRefusals, NextGuard, NextHeal
<1>3. Inv => HealedWrite
  BY DEF HealInv, CanHeal, Healing, HealedWrite
<1> QED  BY <1>1, <1>2, <1>3, PTL DEF Spec

-----------------------------------------------------------------------------
(* What a faulty card can do.                                              *)

\* Erases work; the lines, the card and a block's programming may fail in any way.
ErasesWork == FaultKinds \cap {"erase", "weak"} = {}

\* Below n each block of the range holds the image's data or is blank; from m on it is
\* blank.
PlacedTo(n, m) ==
  \A b \in 0 .. end :
    /\ b < n => Readout(b) = ImageAt(b) \/ flash[b] = {}
    /\ b >= m => flash[b] = {}
WellPlaced == PlacedTo(end + 1, end + 1)

\* What is left in the open file lies where the chunk wants it, unless the file ended.
Aligned(c) == pos = Smaller(c, lim)

\* A protected chip reads as all zeros: a verify that passes on it has compared an image of
\* zeros, block by block.
ZerosTo(n) == pos = n /\ \A b \in 0 .. n - 1 : ImageAt(b) = Bits

Placing ==
  /\ pc = "row" => \A b \in 0 .. cur - 1 : flash[b] = {}
  /\ pc = "wopen" => \A b \in 0 .. end : flash[b] = {}
  /\ pc = "wread" => Aligned(cur) /\ (protected \/ PlacedTo(cur, cur))
  /\ pc = "wblock" =>
       /\ Aligned(cur + Want)
       /\ \A i \in 0 .. Want - 1 : buf[i] \in {ImageAt(cur + i), {}}
       /\ \/ protected
          \/ /\ PlacedTo(cur + off, cur + off + 1)
             /\ buf[off] = {} => flash[cur + off] = {}
  /\ pc = "wpoll" => Aligned(cur + Want) /\ (protected \/ PlacedTo(cur + Want, cur + Want))
  /\ pc = "vopen" /\ mode # "verify" => protected \/ WellPlaced
  /\ pc = "vread" /\ mode # "verify" => IF protected THEN ZerosTo(cur) ELSE WellPlaced
  /\ ok => pc \in {"exit", "report", "idle"} /\ (mode # "verify" => WellPlaced)
  /\ outcome = "done" => ok
  /\ pc # "idle" => outcome = "none"

\* The steps below all start from this.
PlaceBefore == ErasesWork /\ TypeInv /\ Placing

LEMMA PlaceFacts ==
  ASSUME PlaceBefore
  PROVE  /\ NBlocks \in Nat /\ ChunkBlocks \in Nat \ {0} /\ RowBlocks \in Nat \ {0}
         /\ BootBlock \in 1 .. NBlocks - 1 /\ end \in Nat /\ end < NBlocks
         /\ cur \in Nat /\ off \in Nat /\ pos \in Nat /\ lim \in Nat /\ image.size \in Nat
         /\ lim <= image.size /\ pos <= lim
         /\ flash \in [Blocks -> Content] /\ Bits # {}
         /\ "erase" \notin FaultKinds /\ "weak" \notin FaultKinds
BY GeometryAssumption, DataAssumption, ImageData
   DEF PlaceBefore, ErasesWork, TypeInv, TypeOK, Positions, Blocks

\* An erase that works leaves its range blank, and what was blank stays so.
LEMMA PlaceErase == ASSUME PlaceBefore, BulkErase \/ RowErase PROVE Placing'
<1>1. /\ UNCHANGED <<reqVars, resVars, outcome>> /\ pc \in {"bulk", "row"}
      /\ outcome = "none" /\ ~ok
  BY DEF PlaceBefore, Placing, BulkErase, RowErase, reqVars, resVars
<1>2. ASSUME NEW range \in SUBSET Blocks, Erase(range), NEW b \in Blocks
      PROVE  flash'[b] = IF b \in range THEN {} ELSE flash[b]
  BY <1>2, PlaceFacts DEF Erase, EraseExcept, Fault
<1>3. CASE BulkErase
  <2>1. \A b \in Blocks : flash'[b] = {}
    BY <1>2, <1>3 DEF BulkErase
  <2>2. pc' \in {"wopen", "exit", "bulk"}
    BY <1>3 DEF BulkErase
  <2> QED  BY <1>1, <2>1, <2>2, PlaceFacts DEF Placing, reqVars, resVars, Blocks
<1>4. CASE RowErase
  <2>1. /\ pc = "row" /\ cur <= end /\ end = BootBlock - 1 /\ OnRow(cur)
        /\ cur' = cur + RowBlocks /\ Erase(cur .. cur + RowBlocks - 1)
        /\ pc' = IF cancel THEN "exit" ELSE IF cur' > end THEN "wopen" ELSE "row"
    BY <1>4 DEF RowErase, PlaceBefore, TypeInv, Positions
  <2>2. cur + RowBlocks <= BootBlock
    BY <2>1, PlaceFacts, RowFits
  <2>0. PICK n \in Nat, m \in Nat, last \in Nat :
          /\ n = cur /\ m = cur + RowBlocks /\ m > n /\ last = NBlocks - 1 /\ m <= last + 1
          /\ m - 1 = cur + RowBlocks - 1
    BY <2>2, PlaceFacts
  <2>3. cur .. cur + RowBlocks - 1 \in SUBSET Blocks
    BY <2>2, PlaceFacts DEF Blocks
  <2>4. ASSUME NEW b \in 0 .. cur' - 1 PROVE flash'[b] = {}
    <3>1. b \in Blocks /\ (b \in cur .. cur + RowBlocks - 1 \/ b \in 0 .. cur - 1)
      <4>1. b \in 0 .. m - 1
        BY <2>0, <2>1
      <4>2. (b \in n .. m - 1 \/ b \in 0 .. n - 1) /\ b \in 0 .. last
        BY <2>0, <4>1
      <4>3. b \in Blocks
        BY <2>0, <4>2 DEF Blocks
      <4> QED  BY <2>0, <4>2, <4>3
    <3> QED  BY <1>2, <2>1, <2>3, <3>1 DEF PlaceBefore, Placing
  <2>5. pc' = "wopen" => cur' > end
    BY <2>1
  <2>6. pc' \in {"exit", "wopen", "row"} /\ end' = end /\ cur' \in Nat
    <3>1. cur' \in Nat
      BY <2>0, <2>1
    <3> QED  BY <1>1, <2>1, <3>1 DEF reqVars
  <2>7. pc' = "wopen" => \A b \in 0 .. end' : flash'[b] = {}
    <3> SUFFICES ASSUME pc' = "wopen" PROVE \A b \in 0 .. end' : flash'[b] = {}
      OBVIOUS
    <3>1. cur' \in Nat /\ end' \in Nat /\ cur' > end'
      BY <2>5, <2>6, PlaceFacts
    <3>2. ASSUME NEW a \in Nat, NEW c \in Nat, a > c PROVE 0 .. c \subseteq 0 .. a - 1
      BY <3>2
    <3> QED  BY <2>4, <3>1, <3>2
  <2> QED  BY <1>1, <2>4, <2>6, <2>7 DEF Placing, resVars
<1> QED  BY <1>3, <1>4

\* A chunk of what is left of the file lies where the range wants it.
LEMMA AlignedRead ==
  ASSUME PlaceBefore, cur <= end, Aligned(cur), NEW got \in 0 .. Avail, ReadChunk(got)
  PROVE  /\ \A i \in 0 .. Want - 1 : buf'[i] \in {ImageAt(cur + i), {}}
         /\ \A i \in 0 .. Want - 1 : i >= got => buf'[i] = {}
         /\ pos' = pos + got
         /\ got = Avail => pos' = Smaller(cur + Want, lim)
<1>1. /\ Want \in 1 .. ChunkBlocks /\ cur + Want <= end + 1 /\ Avail \in 0 .. Want
      /\ pos + Avail <= lim
  BY WantFits, AvailFits DEF PlaceBefore, TypeInv
<1>2. ASSUME NEW i \in 0 .. Want - 1
      PROVE  buf'[i] \in {ImageAt(cur + i), {}} /\ (i >= got => buf'[i] = {})
  <2>0. i \in 0 .. ChunkBlocks - 1
    BY <1>1, PlaceFacts
  <2>1. buf'[i] = IF i < got THEN image.data[pos + i] ELSE {}
    BY <2>0 DEF ReadChunk
  <2>2. CASE i < got
    <3>1. pos = cur /\ cur + i < image.size
      BY <1>1, <2>2, PlaceFacts DEF Aligned, Smaller
    <3> QED  BY <2>1, <2>2, <3>1, <1>1 DEF ImageAt
  <2>3. CASE ~(i < got)
    BY <2>1, <2>3
  <2> QED  BY <1>1, <2>2, <2>3
<1>3. Avail = Smaller(Want, IF pos < lim THEN lim - pos ELSE 0)
  BY DEF Avail
<1>4. got = Avail => pos + got = Smaller(cur + Want, lim)
  BY <1>1, <1>3, PlaceFacts DEF Aligned, Smaller
<1> QED  BY <1>2, <1>4 DEF ReadChunk

LEMMA PlaceRead == ASSUME PlaceBefore, WriteRead PROVE Placing'
<1>1. /\ pc = "wread" /\ Aligned(cur) /\ (protected \/ PlacedTo(cur, cur)) /\ cur <= end
      /\ ReadChunk(Avail) /\ pc' = "wblock" /\ off' = 0
      /\ UNCHANGED <<chipVars, reqVars, cur, outcome, ok, lim>>
  BY DEF PlaceBefore, Placing, WriteRead, FullRead, ReadChunk, TypeInv, Positions, resVars
<1>2. outcome = "none" /\ ~ok
  BY <1>1 DEF PlaceBefore, Placing
<1>3. Avail \in 0 .. Avail /\ Want \in 1 .. ChunkBlocks /\ cur + Want <= end + 1
  BY <1>1, WantFits, AvailFits, PlaceFacts DEF PlaceBefore, TypeInv
<1>4. /\ \A i \in 0 .. Want - 1 : buf'[i] \in {ImageAt(cur + i), {}}
      /\ pos' = Smaller(cur + Want, lim)
  BY <1>1, <1>3, AlignedRead
<1>5. Want' = Want
  BY <1>1 DEF Want, Smaller, reqVars
<1>6. Aligned(cur + Want)'
  BY <1>1, <1>4, <1>5 DEF Aligned, Smaller
<1>7. \A i \in 0 .. Want' - 1 : buf'[i] \in {ImageAt(cur + i)', {}}
  BY <1>1, <1>4, <1>5 DEF ImageAt, reqVars
<1>8. cur + off' = cur /\ cur + off' + 1 = cur + 1
  BY <1>1, PlaceFacts
<1>9. ~protected => PlacedTo(cur + off, cur + off + 1)' /\ flash'[cur' + off'] = {}
  <2> SUFFICES ASSUME ~protected
               PROVE  PlacedTo(cur + off, cur + off + 1)' /\ flash'[cur' + off'] = {}
    OBVIOUS
  <2>1. /\ flash' = flash /\ end' = end /\ cur' = cur
        /\ \A b : Readout(b)' = Readout(b) /\ ImageAt(b)' = ImageAt(b)
    BY <1>1 DEF Readout, ReadBlock, ImageAt, chipVars, reqVars
  <2>0. PlacedTo(cur, cur)
    BY <1>1
  <2>2. ASSUME NEW b \in 0 .. end
        PROVE  /\ b < cur => Readout(b) = ImageAt(b) \/ flash[b] = {}
               /\ b >= cur => flash[b] = {}
    BY <2>0 DEF PlacedTo
  <2>3. cur \in 0 .. end /\ flash[cur] = {}
    BY <1>1, <2>2, PlaceFacts
  <2> QED  BY <1>8, <2>1, <2>2, <2>3, PlaceFacts DEF PlacedTo
<1>10. protected' = protected
  BY <1>1 DEF chipVars
<1> QED  BY <1>1, <1>2, <1>6, <1>7, <1>9, <1>10 DEF Placing

LEMMA PlaceSkip == ASSUME PlaceBefore, SkipBlank PROVE Placing'
<1>1. /\ pc = "wblock" /\ buf[off] = {} /\ NextBlock /\ outcome = "none" /\ ~ok
      /\ Aligned(cur + Want) /\ \A i \in 0 .. Want - 1 : buf[i] \in {ImageAt(cur + i), {}}
      /\ \/ protected
         \/ PlacedTo(cur + off, cur + off + 1) /\ flash[cur + off] = {}
      /\ UNCHANGED <<chipVars, reqVars, fileVars, cur, outcome, ok>>
      /\ off < Want /\ cur <= end
  BY DEF PlaceBefore, Placing, SkipBlank, TypeInv, Positions
<1>2. Want \in 1 .. ChunkBlocks /\ cur + Want <= end + 1
  BY <1>1, WantFits DEF PlaceBefore, TypeInv
<1>3. Want' = Want /\ Aligned(cur + Want)' = Aligned(cur + Want)
  BY <1>1 DEF Want, Aligned, Smaller, reqVars, fileVars
<1>4. \A i \in 0 .. Want' - 1 : buf'[i] \in {ImageAt(cur + i)', {}}
  BY <1>1, <1>3 DEF ImageAt, reqVars, fileVars
<1>5. /\ off' = off + 1 /\ pc' = IF off' = Want THEN "wpoll" ELSE "wblock"
      /\ cur' + off' = cur + off + 1 /\ cur + off + 1 \in Nat
  BY <1>1, PlaceFacts DEF NextBlock
<1>6. protected' = protected /\ end' = end /\ flash' = flash
  BY <1>1 DEF chipVars, reqVars
<1>7. ASSUME ~protected, NEW b \in 0 .. end
      PROVE  /\ b < cur + off + 1 => Readout(b)' = ImageAt(b)' \/ flash'[b] = {}
             /\ b >= cur + off + 1 => flash'[b] = {}
  <2>1. Readout(b)' = Readout(b) /\ ImageAt(b)' = ImageAt(b)
    BY <1>1 DEF Readout, ReadBlock, ImageAt, chipVars, reqVars
  <2>2. PlacedTo(cur + off, cur + off + 1) /\ flash[cur + off] = {}
    BY <1>1, <1>7
  <2>3. /\ b < cur + off => Readout(b) = ImageAt(b) \/ flash[b] = {}
        /\ b >= cur + off + 1 => flash[b] = {}
    BY <2>2 DEF PlacedTo
  <2>4. b < cur + off \/ b = cur + off \/ b >= cur + off + 1
    BY PlaceFacts
  <2>5. b < cur + off + 1 => b < cur + off \/ b = cur + off
    BY PlaceFacts
  <2> QED  BY <1>6, <2>1, <2>2, <2>3, <2>5
<1>8. ASSUME ~protected, NEW n, n = cur + off + 1
      PROVE  PlacedTo(n, n)' /\ PlacedTo(n, n + 1)' /\ (n <= end => flash'[n] = {})
  <2>1. n \in Nat
    BY <1>5, <1>8
  <2>2. PlacedTo(n, n)'
    BY <1>6, <1>7, <1>8 DEF PlacedTo
  <2>3. \A b \in 0 .. end : b >= n + 1 => b >= n
    BY <2>1, PlaceFacts
  <2>4. PlacedTo(n, n + 1)'
    BY <1>6, <2>2, <2>3 DEF PlacedTo
  <2>5. n <= end => n \in 0 .. end /\ n >= n
    BY <2>1, PlaceFacts
  <2> QED  BY <1>6, <2>2, <2>4, <2>5 DEF PlacedTo
<1>9. CASE pc' = "wpoll"
  <2>1. off' = Want /\ cur' + Want' = cur + off + 1
    BY <1>3, <1>5, <1>9
  <2>2. protected' \/ PlacedTo(cur + Want, cur + Want)'
    BY <1>6, <1>8, <2>1 DEF PlacedTo
  <2> QED  BY <1>1, <1>3, <1>9, <2>2 DEF Placing
<1>10. CASE pc' = "wblock"
  <2>1. cur + off + 1 <= end
    <3>1. off + 1 # Want
      BY <1>5, <1>10
    <3> QED  BY <1>1, <1>2, <3>1, PlaceFacts
  <2>2. protected' \/ (PlacedTo(cur + off, cur + off + 1)' /\ flash'[cur' + off'] = {})
    BY <1>5, <1>6, <1>8, <2>1 DEF PlacedTo
  <2> QED  BY <1>1, <1>3, <1>4, <1>10, <2>2 DEF Placing
<1> QED  BY <1>5, <1>9, <1>10

\* A block that reads back as it was sent is in its place; one that never does ends the job.
LEMMA PlaceWrite == ASSUME PlaceBefore, WriteBlock PROVE Placing'
<1>1. /\ pc = "wblock" /\ buf[off] # {} /\ outcome = "none" /\ ~ok
      /\ ProgramBlock(cur + off, buf[off])
      /\ Aligned(cur + Want) /\ \A i \in 0 .. Want - 1 : buf[i] \in {ImageAt(cur + i), {}}
      /\ protected \/ PlacedTo(cur + off, cur + off + 1)
      /\ UNCHANGED <<protected, reqVars, fileVars, cur, outcome, ok>>
      /\ off < Want /\ cur <= end
  BY DEF PlaceBefore, Placing, WriteBlock, TypeInv, Positions
<1>2. /\ Want \in 1 .. ChunkBlocks /\ cur + Want <= end + 1
      /\ off \in 0 .. Want - 1 /\ cur + off \in 0 .. end /\ cur + off \in Blocks
      /\ off \in 0 .. ChunkBlocks - 1 /\ cur + off + 1 \in Nat
  <2>1. Want \in 1 .. ChunkBlocks /\ cur + Want <= end + 1
    BY <1>1, WantFits DEF PlaceBefore, TypeInv
  <2>2. off \in 0 .. Want - 1 /\ off \in 0 .. ChunkBlocks - 1
    BY <1>1, <2>1, PlaceFacts
  <2>3. cur + off \in 0 .. end
    BY <1>1, <2>1, PlaceFacts
  <2>4. cur + off \in Blocks /\ cur + off + 1 \in Nat
    <3>1. NBlocks \in Nat /\ end \in Nat /\ end <= NBlocks - 1
      BY PlaceFacts
    <3>2. cur + off \in 0 .. NBlocks - 1
      BY <2>3, <3>1
    <3> QED  BY <3>2 DEF Blocks
  <2> QED  BY <2>1, <2>2, <2>3, <2>4
<1>3. Want' = Want /\ Aligned(cur + Want)' = Aligned(cur + Want)
  BY <1>1 DEF Want, Aligned, Smaller, reqVars, fileVars
<1>4. \A i \in 0 .. Want' - 1 : buf'[i] \in {ImageAt(cur + i)', {}}
  BY <1>1, <1>3 DEF ImageAt, reqVars, fileVars
<1>5. buf[off] = ImageAt(cur + off) /\ buf[off] \in Content
  BY <1>1, <1>2 DEF PlaceBefore, TypeInv, TypeOK
<1>6. \A b \in Blocks \ {cur + off} : flash'[b] = flash[b]
  BY <1>1, <1>2, <1>5, ProgramType DEF PlaceBefore, TypeInv
<1>7. protected' = protected /\ end' = end /\ buf' = buf /\ cur' = cur
  BY <1>1 DEF reqVars, fileVars
<1>8. ASSUME ~protected, NEW b \in 0 .. end, b # cur + off
      PROVE  /\ b < cur + off => Readout(b)' = ImageAt(b)' \/ flash'[b] = {}
             /\ b >= cur + off + 1 => flash'[b] = {}
  <2>1. b \in Blocks
    BY PlaceFacts DEF Blocks
  <2>2. Readout(b)' = Readout(b) /\ ImageAt(b)' = ImageAt(b) /\ flash'[b] = flash[b]
    BY <1>1, <1>6, <1>8, <2>1 DEF Readout, ReadBlock, ImageAt, reqVars
  <2>3. PlacedTo(cur + off, cur + off + 1)
    BY <1>1, <1>8
  <2> QED  BY <2>2, <2>3 DEF PlacedTo
<1>9. CASE ReadBlock(flash', protected, cur + off) = buf[off] /\ NextBlock
  <2>1. /\ off' = off + 1 /\ pc' = IF off' = Want THEN "wpoll" ELSE "wblock"
        /\ cur' + off' = cur + off + 1
    BY <1>7, <1>9, PlaceFacts DEF NextBlock
  <2>2. ASSUME NEW b, b = cur + off PROVE Readout(b)' = ImageAt(b)'
    BY <1>1, <1>5, <1>9, <2>2 DEF Readout, ImageAt, reqVars
  <2>3. ASSUME ~protected, NEW n, n = cur + off + 1
        PROVE  PlacedTo(n, n)' /\ PlacedTo(n, n + 1)' /\ (n <= end => flash'[n] = {})
    <3>1. n \in Nat
      BY <1>2, <2>3
    <3>2. ASSUME NEW b \in 0 .. end
          PROVE  /\ b < n => Readout(b)' = ImageAt(b)' \/ flash'[b] = {}
                 /\ b >= n => flash'[b] = {}
      <4>1. b < n => b < cur + off \/ b = cur + off
        BY <2>3, PlaceFacts
      <4>2. b >= n => b # cur + off
        BY <2>3, PlaceFacts
      <4> QED  BY <1>8, <2>2, <2>3, <4>1, <4>2
    <3>3. PlacedTo(n, n)'
      BY <1>7, <3>2 DEF PlacedTo
    <3>4. \A b \in 0 .. end : b >= n + 1 => b >= n
      BY <3>1, PlaceFacts
    <3>5. PlacedTo(n, n + 1)'
      BY <1>7, <3>3, <3>4 DEF PlacedTo
    <3>6. n <= end => n \in 0 .. end /\ n >= n
      BY <3>1, PlaceFacts
    <3> QED  BY <3>2, <3>3, <3>5, <3>6
  <2>4. CASE pc' = "wpoll"
    <3>1. off' = Want /\ cur' + Want' = cur + off + 1
      BY <1>3, <2>1, <2>4
    <3>2. protected' \/ PlacedTo(cur + Want, cur + Want)'
      BY <1>7, <2>3, <3>1 DEF PlacedTo
    <3> QED  BY <1>1, <1>3, <2>4, <3>2 DEF Placing
  <2>5. CASE pc' = "wblock"
    <3>1. cur + off + 1 <= end
      <4>1. off + 1 # Want
        BY <2>1, <2>5
      <4> QED  BY <1>1, <1>2, <4>1, PlaceFacts
    <3>2. protected' \/ (PlacedTo(cur + off, cur + off + 1)' /\ flash'[cur' + off'] = {})
      BY <1>7, <2>1, <2>3, <3>1 DEF PlacedTo
    <3> QED  BY <1>1, <1>3, <1>4, <2>5, <3>2 DEF Placing
  <2> QED  BY <2>1, <2>4, <2>5
<1>10. CASE off' = off /\ pc' \in {"exit", "wblock"}
  <2>1. ASSUME ~protected, NEW b \in 0 .. end
        PROVE  /\ b < cur + off => Readout(b)' = ImageAt(b)' \/ flash'[b] = {}
               /\ b >= cur + off + 1 => flash'[b] = {}
    <3>1. b < cur + off \/ b >= cur + off + 1 => b # cur + off
      BY PlaceFacts
    <3> QED  BY <1>8, <2>1, <3>1
  <2>2. protected' \/ PlacedTo(cur + off, cur + off + 1)'
    BY <1>7, <1>10, <2>1 DEF PlacedTo
  <2> QED  BY <1>1, <1>3, <1>4, <1>7, <1>10, <2>2 DEF Placing
<1> QED  BY <1>1, <1>9, <1>10 DEF WriteBlock

\* A verify that passes on a protected chip has compared zeros with zeros, so the file held
\* them; on another chip what was placed stays so.
LEMMA PlaceVerify == ASSUME PlaceBefore, VerifyChunk PROVE Placing'
<1>1. /\ pc = "vread" /\ outcome = "none" /\ ~ok /\ cur <= end
      /\ mode # "verify" => IF protected THEN ZerosTo(cur) ELSE WellPlaced
      /\ UNCHANGED <<chipVars, reqVars, outcome>> /\ OneRead
      /\ cur' = cur + Want
  BY DEF PlaceBefore, Placing, VerifyChunk, TypeInv, Positions
<1>2. /\ Want \in 1 .. ChunkBlocks /\ cur + Want <= end + 1 /\ Avail \in 0 .. Want
      /\ pos + Avail <= lim
  BY <1>1, WantFits, AvailFits DEF PlaceBefore, TypeInv
<1>3. PICK got \in 0 .. Avail : ReadChunk(got)
  BY <1>1, <1>2 DEF OneRead
<1>4. WellPlaced' = WellPlaced
  BY <1>1 DEF WellPlaced, PlacedTo, Readout, ReadBlock, ImageAt, chipVars, reqVars
<1>5. \/ pc' = "exit" /\ ok' = FALSE
      \/ Mismatches = {} /\ pc' = "vread" /\ ok' = ok
      \/ Mismatches = {} /\ cur' > end /\ pc' = "exit" /\ ok' = TRUE
  BY <1>1 DEF VerifyChunk, Abort
<1>6. protected' = protected /\ mode' = mode
  BY <1>1 DEF chipVars, reqVars
<1>7. ASSUME Mismatches = {}, protected, ZerosTo(cur)
      PROVE  pos' = cur' /\ \A b \in 0 .. cur + Want - 1 : ImageAt(b) = Bits
  <2>1. pos = cur /\ \A b \in 0 .. cur - 1 : ImageAt(b) = Bits
    BY <1>7 DEF ZerosTo
  <2>2. ASSUME NEW i \in 0 .. Want - 1 PROVE i < got /\ ImageAt(cur + i) = Bits
    <3>1. buf'[i] = Bits
      BY <1>7 DEF Mismatches, Readout, ReadBlock
    <3>2. i \in 0 .. ChunkBlocks - 1
      BY <1>2, PlaceFacts
    <3>3. buf'[i] = IF i < got THEN image.data[pos + i] ELSE {}
      BY <1>3, <3>2 DEF ReadChunk
    <3>4. i < got /\ image.data[cur + i] = Bits
      BY <2>1, <3>1, <3>3, PlaceFacts
    <3>5. cur + i < image.size
      BY <1>2, <2>1, <3>4, PlaceFacts
    <3> QED  BY <3>4, <3>5 DEF ImageAt
  <2>3. got = Want
    <3>1. Want - 1 \in 0 .. Want - 1
      BY <1>2, PlaceFacts
    <3>2. Want - 1 < got
      BY <2>2, <3>1
    <3> QED  BY <1>2, <3>2, PlaceFacts
  <2>4. pos' = cur'
    BY <1>1, <1>3, <2>1, <2>3 DEF ReadChunk
  <2>5. ASSUME NEW b \in 0 .. cur + Want - 1 PROVE ImageAt(b) = Bits
    <3>1. b \in 0 .. cur - 1 \/ b - cur \in 0 .. Want - 1
      BY <1>2, PlaceFacts
    <3>2. cur + (b - cur) = b
      BY PlaceFacts
    <3> QED  BY <2>1, <2>2, <3>1, <3>2
  <2> QED  BY <2>4, <2>5
<1>8. CASE pc' = "exit" /\ ok' = FALSE
  BY <1>1, <1>8 DEF Placing
<1>9. CASE Mismatches = {} /\ pc' = "vread" /\ ok' = ok
  <2>1. ASSUME mode # "verify", protected PROVE ZerosTo(cur)'
    <3>1. ZerosTo(cur)
      BY <1>1, <2>1
    <3>2. pos' = cur' /\ \A b \in 0 .. cur + Want - 1 : ImageAt(b) = Bits
      BY <1>7, <1>9, <2>1, <3>1
    <3>3. PICK n \in Nat : n = cur + Want
      BY <1>2, PlaceFacts
    <3>4. \A b \in 0 .. n - 1 : ImageAt(b) = Bits
      BY <1>2, <3>2, <3>3, PlaceFacts
    <3>5. cur' = n
      BY <1>1, <3>3
    <3>6. \A b : ImageAt(b)' = ImageAt(b)
      BY <1>1 DEF ImageAt, reqVars
    <3> QED  BY <3>2, <3>4, <3>5, <3>6 DEF ZerosTo
  <2> QED  BY <1>1, <1>4, <1>6, <1>9, <2>1 DEF Placing
<1>10. CASE Mismatches = {} /\ cur' > end /\ pc' = "exit" /\ ok' = TRUE
  <2>1. ASSUME mode # "verify", protected PROVE WellPlaced
    <3>1. ZerosTo(cur)
      BY <1>1, <2>1
    <3>2. ASSUME NEW b \in 0 .. end PROVE b \in 0 .. cur + Want - 1
      <4>1. cur + Want > end
        BY <1>1, <1>10
      <4> QED  BY <1>2, <4>1, PlaceFacts
    <3>3. \A b \in 0 .. end : ImageAt(b) = Bits /\ Readout(b) = Bits
      BY <1>7, <1>10, <2>1, <3>1, <3>2 DEF Readout, ReadBlock
    <3>4. \A b \in 0 .. end : ~(b >= end + 1)
      BY PlaceFacts
    <3> QED  BY <3>3, <3>4 DEF WellPlaced, PlacedTo
  <2>2. mode # "verify" => WellPlaced'
    BY <1>1, <1>4, <2>1
  <2> QED  BY <1>1, <1>6, <1>10, <2>2 DEF Placing
<1> QED  BY <1>5, <1>8, <1>9, <1>10

\* The other steps of a job.
LEMMA PlaceSteps ==
  ASSUME PlaceBefore,
         \/ Identified \/ NotIdentified \/ Preflight \/ WriteOpen \/ WritePoll
         \/ VerifyOpen \/ Exit \/ Report \/ Cancel \/ UNCHANGED vars
  PROVE  Placing'
<1>0. Placing /\ cur \in Nat /\ end \in Nat
  BY PlaceFacts DEF PlaceBefore
<1>1. CASE Identified
  <2>1. /\ pc = "enter" /\ UNCHANGED <<ok, outcome, mode>>
        /\ pc' = IF mode = "verify" THEN "vopen" ELSE "preflight"
    BY <1>1 DEF Identified, reqVars
  <2> QED  BY <1>0, <2>1 DEF Placing
<1>2. CASE NotIdentified
  BY <1>0, <1>2 DEF NotIdentified, Placing
<1>3. CASE Preflight
  <2>1. /\ pc = "preflight" /\ UNCHANGED outcome /\ (ok' = ok \/ ~ok')
        /\ pc' \in {"exit", "bulk"} \/ (pc' = "row" /\ cur' = 0)
    BY <1>3 DEF Preflight, Abort
  <2>2. ~ok' /\ outcome' = "none" /\ pc' \in {"exit", "bulk", "row"}
    BY <1>0, <2>1 DEF Placing
  <2>3. pc' = "row" => 0 .. cur' - 1 = {}
    <3>1. 0 .. 0 - 1 = {}
      OBVIOUS
    <3> QED  BY <2>1, <3>1
  <2> QED  BY <2>1, <2>2, <2>3 DEF Placing
<1>4. CASE WriteOpen
  <2>1. /\ pc = "wopen" /\ UNCHANGED <<outcome, reqVars, chipVars>>
        /\ \A b \in 0 .. end : flash[b] = {}
        /\ ~ok /\ outcome = "none"
        /\ \/ pc' = "exit" /\ ok' = FALSE
           \/ pc' = "wread" /\ ok' = ok /\ cur' = 0 /\ pos' = 0 /\ OpenFile
    BY <1>0, <1>4 DEF WriteOpen, Abort, OpenFile, Placing
  <2>2. pc' = "wread" => lim' \in Nat
    BY <2>1, OpenType, GeometryAssumption DEF PlaceBefore
  <2>3. ASSUME NEW n \in Nat PROVE Smaller(0, n) = 0
    BY DEF Smaller
  <2>4. pc' = "wread" => Aligned(cur)'
    BY <2>1, <2>2, <2>3 DEF Aligned
  <2>5. pc' = "wread" => PlacedTo(cur, cur)'
    BY <2>1 DEF PlacedTo, reqVars, chipVars
  <2> QED  BY <2>1, <2>4, <2>5 DEF Placing
<1>5. CASE WritePoll
  <2>1. /\ pc = "wpoll" /\ UNCHANGED <<outcome, ok, reqVars, chipVars, fileVars>>
        /\ Aligned(cur + Want) /\ (protected \/ PlacedTo(cur + Want, cur + Want))
        /\ cur' = cur + Want /\ ~ok /\ outcome = "none" /\ cur <= end
        /\ pc' = IF cancel THEN "exit" ELSE IF cur' > end THEN "vopen" ELSE "wread"
    BY <1>0, <1>5 DEF WritePoll, resVars, Placing, PlaceBefore, TypeInv, Positions
  <2>2. Aligned(cur)'
    BY <2>1 DEF Aligned, Smaller, fileVars
  <2>3. \A b : Readout(b)' = Readout(b) /\ ImageAt(b)' = ImageAt(b)
    BY <2>1 DEF Readout, ReadBlock, ImageAt, reqVars, chipVars
  <2>4. protected' \/ PlacedTo(cur, cur)'
    BY <2>1, <2>3 DEF PlacedTo, reqVars, chipVars
  <2>5. ASSUME pc' = "vopen" PROVE cur + Want = end + 1
    <3>1. cur + Want <= end + 1 /\ Want \in Nat
      BY <2>1, WantFits, PlaceFacts DEF PlaceBefore, TypeInv
    <3>2. cur + Want > end
      BY <2>1, <2>5
    <3> QED  BY <1>0, <3>1, <3>2
  <2>6. pc' = "vopen" => protected' \/ WellPlaced'
    BY <2>1, <2>3, <2>5 DEF WellPlaced, PlacedTo, reqVars, chipVars
  <2>7. pc' \in {"exit", "vopen", "wread"}
    BY <2>1
  <2> QED  BY <2>1, <2>2, <2>4, <2>6, <2>7 DEF Placing
<1>6. CASE VerifyOpen
  <2>1. /\ pc = "vopen" /\ UNCHANGED <<outcome, reqVars, chipVars>>
        /\ mode # "verify" => protected \/ WellPlaced
        /\ ~ok /\ outcome = "none"
        /\ \/ pc' = "exit" /\ ok' = FALSE
           \/ pc' = "vread" /\ ok' = ok /\ cur' = 0 /\ pos' = 0
    BY <1>0, <1>6 DEF VerifyOpen, Abort, OpenFile, Placing
  <2>2. WellPlaced' = WellPlaced
    BY <2>1 DEF WellPlaced, PlacedTo, Readout, ReadBlock, ImageAt, chipVars, reqVars
  <2>3. ASSUME pc' = "vread" PROVE ZerosTo(cur)'
    <3>1. 0 .. 0 - 1 = {}
      OBVIOUS
    <3> QED  BY <2>1, <2>3, <3>1 DEF ZerosTo
  <2> QED  BY <2>1, <2>2, <2>3 DEF Placing, reqVars, chipVars
<1>7. CASE Exit \/ Report
  <2>1. /\ UNCHANGED <<ok, reqVars, chipVars>> /\ pc' \in {"report", "idle"}
        /\ ok => (mode # "verify" => WellPlaced)
    BY <1>0, <1>7 DEF Exit, Report, resVars, Placing
  <2>2. WellPlaced' = WellPlaced
    BY <2>1 DEF WellPlaced, PlacedTo, Readout, ReadBlock, ImageAt, chipVars, reqVars
  <2>3. (outcome' = "done" => ok') /\ (pc' # "idle" => outcome' = "none")
    BY <1>0, <1>7, <2>1 DEF Exit, Report, Result, Placing, resVars
  <2> QED  BY <2>1, <2>2, <2>3 DEF Placing, reqVars
<1>8. CASE Cancel \/ UNCHANGED vars
  <2>1. UNCHANGED <<outcome, reqVars, chipVars, resVars, fileVars, pc, cur, off>>
    BY <1>8 DEF Cancel, vars
  <2>2. Want' = Want
    BY <2>1 DEF Want, Smaller, reqVars
  <2>3. \A b : Readout(b)' = Readout(b) /\ ImageAt(b)' = ImageAt(b)
    BY <2>1 DEF Readout, ReadBlock, ImageAt, reqVars, chipVars
  <2>4. /\ Aligned(cur)' = Aligned(cur) /\ Aligned(cur + Want)' = Aligned(cur + Want)
        /\ PlacedTo(cur, cur)' = PlacedTo(cur, cur)
        /\ PlacedTo(cur + off, cur + off + 1)' = PlacedTo(cur + off, cur + off + 1)
        /\ PlacedTo(cur + Want, cur + Want)' = PlacedTo(cur + Want, cur + Want)
        /\ WellPlaced' = WellPlaced /\ ZerosTo(cur)' = ZerosTo(cur)
    BY <2>1, <2>2, <2>3 DEF Aligned, Smaller, PlacedTo, WellPlaced, ZerosTo, reqVars, chipVars,
       fileVars
  <2>5. \A i : (buf[i] \in {ImageAt(cur + i), {}})' = (buf[i] \in {ImageAt(cur + i), {}})
    BY <2>1, <2>3 DEF fileVars
  <2>6. /\ ok' = ok /\ mode' = mode /\ end' = end /\ protected' = protected
        /\ flash' = flash /\ buf' = buf /\ cur + off = cur' + off'
    BY <2>1 DEF resVars, reqVars, chipVars, fileVars
  <2> QED  BY <1>0, <2>1, <2>2, <2>4, <2>5, <2>6 DEF Placing
<1> QED  BY <1>1, <1>2, <1>3, <1>4, <1>5, <1>6, <1>7, <1>8

LEMMA NextPlace ==
  ASSUME ErasesWork, TypeInv, Placing, [Next]_vars
  PROVE  Placing'
<1>1. ASSUME NEW m \in Modes, NEW img \in Images, NEW p \in Parts, Start(m, img, p)
      PROVE  Placing'
  BY <1>1, StartSteps DEF Placing
<1> QED  BY <1>1, PlaceErase, PlaceRead, PlaceSkip, PlaceWrite, PlaceVerify, PlaceSteps
    DEF Next, Engine, PlaceBefore

\* Whatever the lines, the programming and the card do, a write that ends well has left
\* each block of its range with the image's data or erased: never with data of another
\* address.  Short reads, a handle that dies and a protected chip are what could break it.
THEOREM PlacedHolds == ErasesWork => (Spec => []WrittenOrBlank)
<1> SUFFICES ASSUME ErasesWork PROVE Spec => []WrittenOrBlank
  OBVIOUS
<1>1. Init => TypeInv /\ Placing
  BY InitType DEF Init, Placing
<1>2. TypeInv /\ Placing /\ [Next]_vars => (TypeInv /\ Placing)'
  BY NextType, NextPlace
<1>3. TypeInv /\ Placing => WrittenOrBlank
  <2> SUFFICES ASSUME TypeInv, Placing, outcome = "done", mode # "verify",
                      NEW b \in 0 .. end
               PROVE  Readout(b) = ImageAt(b) \/ flash[b] = {}
    BY DEF WrittenOrBlank
  <2>1. WellPlaced /\ b < end + 1
    BY DEF Placing, TypeInv, TypeOK, Blocks
  <2> QED  BY <2>1 DEF WellPlaced, PlacedTo
<1> QED  BY <1>1, <1>2, <1>3, PTL DEF Spec
=============================================================================
