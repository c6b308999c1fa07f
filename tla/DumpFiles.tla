------------------------------- MODULE DumpFiles -------------------------------
(***************************************************************************)
(* What the dump workers of src/pic_jobs.c put on the SD card, and the hash *)
(* of it that src/dump_store.c computes when the file is picked again for a *)
(* write.  The flash dump streams chunks to both files and looks at the     *)
(* cancel flag after each; the RAM dump reads everything first and then     *)
(* writes one file after the other.  PicOps says how the workers are        *)
(* started and stopped; here a job has read a device ID.                   *)
(*                                                                         *)
(* A byte of the target is its address, so a byte out of place shows.      *)
(***************************************************************************)
EXTENDS DumpWriter, Sha256

CONSTANTS
  CodeStart, CodeBytes,  \* the flash range a dump covers
  RamStart, RamBytes,    \* the data memory range
  ChunkBytes,            \* DUMP_CHUNK
  PollBytes,             \* the RAM dump looks at the cancel flag every 256 bytes
  HashChunk,             \* HASH_CHUNK
  MaxWrites              \* bound: the failing write is one of the first so many

ASSUME DumpAssumption ==
  /\ CodeStart \in Nat /\ RamStart \in Nat
  /\ CodeStart % RecBytes = 0 /\ RamStart % RecBytes = 0
  /\ {CodeBytes, RamBytes, ChunkBytes, PollBytes, HashChunk} \subseteq Nat \ {0}
  /\ MaxWrites \in Nat

VARIABLES
  pc,        \* where the worker, or the hash loop, is
  job,       \* "code" or "ram"
  i,         \* bytes read from the target, or from the file
  w,         \* the DumpWriter and the files of the last dump
  ok, cancel,
  outcome,   \* of the last dump: "none", "cancelled", "error", "done"
  ctx, sha   \* the hash loop's context; confirm_sha: "none", "unavailable" or a digest

dumpVars == <<job, w, ok, cancel, outcome>>
hashVars == <<ctx, sha>>
vars == <<pc, i, dumpVars, hashVars>>

Start == IF job = "code" THEN CodeStart ELSE RamStart
Total == IF job = "code" THEN CodeBytes ELSE RamBytes
Memory(from, n) == [k \in 1..n |-> Start + from + k - 1]

NoFiles == dump_writer_open([bin |-> <<>>, hex |-> <<>>], {}, 0, {}, 0, FALSE)

NoSha(why) == [is |-> why, digest |-> <<>>]
ShaOf(c)   == [is |-> "digest", digest |-> sha256_final(c)]

Init ==
  /\ pc = "idle" /\ job = "code" /\ i = 0 /\ w = NoFiles
  /\ ok = TRUE /\ cancel = FALSE /\ outcome = "none"
  /\ ctx = sha256_init /\ sha = NoSha("none")

Cancel ==
  /\ pc \in {"open", "read", "poll", "close", "save", "hex", "result"} /\ ~cancel
  /\ cancel' = TRUE
  /\ UNCHANGED <<pc, job, i, w, ok, outcome, hashVars>>

\* A new dump has file names of its own.
Begin ==
  /\ pc = "idle"
  /\ job' \in {"code", "ram"} /\ pc' = IF job' = "code" THEN "open" ELSE "read"
  /\ i' = 0 /\ w' = NoFiles /\ ok' = TRUE /\ cancel' = FALSE /\ outcome' = "none"
  /\ sha' = NoSha("none") /\ UNCHANGED ctx

\* What the card lets be opened and written.
Card == [opens : {{}, {"bin"}, {"hex"}, {"bin", "hex"}}, fuse : 0..MaxWrites, torn : BOOLEAN]

(***************************************************************************)
(* pic_dump_worker.                                                        *)
(***************************************************************************)

OpenFiles ==
  /\ pc = "open"
  /\ \E card \in Card :
       w' = dump_writer_open(w, {"bin", "hex"}, CodeStart, card.opens, card.fuse, card.torn)
  /\ ok' = w'.ok /\ pc' = IF w'.ok THEN "read" ELSE "close"
  /\ UNCHANGED <<job, i, cancel, outcome, hashVars>>

ReadChunk ==
  /\ pc = "read" /\ job = "code" /\ i + ChunkBytes <= CodeBytes
  /\ w' = dump_writer_append(w, Memory(i, ChunkBytes))
  /\ i' = i + ChunkBytes
  /\ ok' = w'.ok /\ pc' = IF w'.ok THEN "poll" ELSE "close"
  /\ UNCHANGED <<job, cancel, outcome, hashVars>>

Poll ==
  /\ pc = "poll" /\ pc' = IF cancel THEN "close" ELSE "read"
  /\ UNCHANGED <<i, dumpVars, hashVars>>

\* The loop has ended; what does not fill a chunk is written unless cancelled.
WriteTail ==
  /\ pc = "read" /\ job = "code" /\ i + ChunkBytes > CodeBytes /\ pc' = "close"
  /\ IF cancel \/ i = CodeBytes THEN UNCHANGED <<w, ok>>
     ELSE w' = dump_writer_append(w, Memory(i, CodeBytes - i)) /\ ok' = w'.ok
  /\ i' = CodeBytes
  /\ UNCHANGED <<job, cancel, outcome, hashVars>>

Close ==
  /\ pc = "close" /\ pc' = "result"
  /\ w' = dump_writer_close(w) /\ ok' = (ok /\ w'.ok)
  /\ UNCHANGED <<job, i, cancel, outcome, hashVars>>

(***************************************************************************)
(* pic_ram_worker.                                                         *)
(***************************************************************************)

ReadRam ==
  /\ pc = "read" /\ job = "ram"
  /\ i' = IF i + PollBytes < RamBytes THEN i + PollBytes ELSE RamBytes
  /\ pc' = IF i' = RamBytes \/ cancel THEN "save" ELSE "read"
  /\ UNCHANGED <<dumpVars, hashVars>>

\* `ok = !ops->cancel`: a snapshot that was cut short is not saved.
SaveBin ==
  /\ pc = "save"
  /\ \/ /\ cancel /\ pc' = "result" /\ ok' = FALSE /\ UNCHANGED w
     \/ /\ ~cancel /\ pc' = "hex"
        /\ \E card \in Card :
             w' = WriteWhole(w, {"bin"}, 0, Memory(0, RamBytes), card.opens, card.fuse, card.torn)
        /\ ok' = w'.ok
  /\ UNCHANGED <<job, i, cancel, outcome, hashVars>>

\* The .hex is written even when the .bin was not.  Mutant: its result alone counts.
SaveHexOnly ==
  /\ pc = "hex" /\ pc' = "result"
  /\ \E card \in Card :
       w' = WriteWhole(w, {"hex"}, RamStart, Memory(0, RamBytes), card.opens, card.fuse, card.torn)
  /\ ok' = w'.ok
  /\ UNCHANGED <<job, i, cancel, outcome, hashVars>>
SaveHex ==
  /\ pc = "hex" /\ pc' = "result"
  /\ \E card \in Card :
       w' = WriteWhole(w, {"hex"}, RamStart, Memory(0, RamBytes), card.opens, card.fuse, card.torn)
  /\ ok' = (w'.ok /\ ok)
  /\ UNCHANGED <<job, i, cancel, outcome, hashVars>>

\* The result of either.
Result ==
  /\ pc = "result" /\ pc' = "idle"
  /\ outcome' = IF cancel THEN "cancelled" ELSE IF ok THEN "done" ELSE "error"
  /\ i' = 0
  /\ UNCHANGED <<job, w, ok, cancel, hashVars>>

(***************************************************************************)
(* pic_ops_start_write, pic_ops_start_verify: the .bin is picked and hashed *)
(* by dump_store_hash_sha256.                                              *)
(***************************************************************************)

\* The file or the buffer may not be had.  (A .bin that was not created stands here as
\* an empty one.)
HashOpen ==
  /\ pc = "idle" /\ outcome # "none"
  /\ \/ pc' = "idle" /\ sha' = NoSha("unavailable") /\ UNCHANGED ctx
     \/ pc' = "hash" /\ ctx' = sha256_init /\ UNCHANGED sha
  /\ UNCHANGED <<i, dumpVars>>

\* A read gives at most HashChunk bytes, and at least one.
HashRead ==
  /\ pc = "hash" /\ i < Len(w.bin)
  /\ \E n \in 1..HashChunk :
       /\ i + n <= Len(w.bin)
       /\ ctx' = sha256_update(ctx, SubSeq(w.bin, i + 1, i + n)) /\ i' = i + n
  /\ UNCHANGED <<pc, dumpVars, sha>>

\* A read that gives nothing ends the loop: at the end of the file, or for an error,
\* which storage_file_get_error then tells.
HashEnd ==
  /\ pc = "hash" /\ pc' = "idle" /\ i' = 0 /\ ctx' = sha256_init
  /\ \/ i = Len(w.bin) /\ sha' = ShaOf(ctx)
     \/ sha' = NoSha("unavailable")
  /\ UNCHANGED dumpVars

Next ==
  \/ Cancel \/ Begin \/ OpenFiles \/ ReadChunk \/ Poll \/ WriteTail \/ Close
  \/ ReadRam \/ SaveBin \/ SaveHex \/ Result \/ HashOpen \/ HashRead \/ HashEnd

Spec == Init /\ [][Next]_vars

(***************************************************************************)
(* Properties.                                                             *)
(***************************************************************************)

\* Every variable has its type, and the record buffer is never left full.
TypeOK ==
  /\ pc \in {"idle", "open", "read", "poll", "close", "save", "hex", "result", "hash"}
  /\ job \in {"code", "ram"} /\ i \in 0..Total \cup 0..Len(w.bin)
  /\ {ok, cancel, w.ok, w.to_bin, w.to_hex, w.started} \subseteq BOOLEAN
  /\ Len(w.rec) < RecBytes /\ w.pos \in 0..Total /\ w.fuse \in 0..MaxWrites
  /\ outcome \in {"none", "cancelled", "error", "done"}
  /\ ctx.buflen \in 0..BlockBytes - 1 /\ DOMAIN ctx.buffer = 1..BlockBytes

\* Whatever fails and whenever it is cancelled, a reader of the .hex gets the target's
\* bytes at their addresses, from the first on, across 64 KB boundaries; and a .hex
\* that ends with its end record holds what the .bin of the flash dump holds, or all
\* of the RAM.
HexIsTrue ==
  LET cells == Decode(w.hex)
  IN  /\ \A k \in DOMAIN cells : cells[k].at = Start + k - 1 /\ cells[k].byte = cells[k].at
      /\ Ended(w.hex) => Len(cells) = IF job = "code" THEN Len(w.bin) ELSE RamBytes

\* "Done": both files are complete, whatever the card did.
DoneIsSaved ==
  outcome = "done" =>
    /\ w.bin = Memory(0, Total)
    /\ Len(Decode(w.hex)) = Total /\ Ended(w.hex)

\* The hash shown on the confirm screen is that of the file's content, however the reads
\* cut it up.
HashIsOfTheFile == sha.is = "digest" => sha.digest = Digest(w.bin)
=============================================================================
