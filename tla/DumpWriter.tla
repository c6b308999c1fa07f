------------------------------ MODULE DumpWriter ------------------------------
(***************************************************************************)
(* The streaming .bin / Intel HEX writer of src/dump_writer.c, as operators *)
(* on a DumpWriter together with the two files it writes.  A .hex file is a *)
(* sequence of records (their text and checksum are left out); the payload  *)
(* bytes are arbitrary values.                                             *)
(*                                                                         *)
(* w.fuse is the card: the fuse-th write from now on fails (0: none does),  *)
(* and leaves w.torn, a part of what it was given, in the file.            *)
(***************************************************************************)
EXTENDS Integers, Sequences, SequencesExt

CONSTANTS
  RecBytes,    \* sizeof(rec): data bytes of a full record
  PageBytes    \* what 16 address bits reach: 64 KB

ASSUME RecordAssumption ==
  /\ RecBytes \in Nat \ {0} /\ PageBytes \in Nat \ {0}
  /\ PageBytes % RecBytes = 0

Upper(page)       == [type |-> "upper", page |-> page]
Data(addr, bytes) == [type |-> "data", addr |-> addr, bytes |-> bytes]
Eof               == [type |-> "eof"]
Torn              == [type |-> "torn"]

\* storage_file_write of `item`, of which a failing write leaves `part`.
FileWrite(w, file, item, part) ==
  IF w.fuse = 1
  THEN [w EXCEPT !.fuse = 0, !.ok = FALSE, ![file] = IF w.torn THEN @ \o part ELSE @]
  ELSE [w EXCEPT !.fuse = IF @ = 0 THEN 0 ELSE @ - 1, ![file] = @ \o item]

ihex_record(w, record) == FileWrite(w, "hex", <<record>>, <<Torn>>)

\* A data record, after an upper-address record if the upper 16 bits have changed.
\* Mutant: the upper address is written once.
UpperOnce(w, start_addr, bytes) ==
  LET upper == start_addr \div PageBytes
      u == IF w.started THEN w
           ELSE [ihex_record(w, Upper(upper)) EXCEPT !.upper = upper, !.started = TRUE]
  IN  IF ~w.ok \/ ~w.to_hex \/ bytes = <<>> THEN w
      ELSE IF u.ok THEN ihex_record(u, Data(start_addr % PageBytes, bytes)) ELSE u
hex_flush_record(w, start_addr, bytes) ==
  LET upper == start_addr \div PageBytes
      u == IF w.started /\ upper = w.upper THEN w
           ELSE [ihex_record(w, Upper(upper)) EXCEPT !.upper = upper, !.started = TRUE]
  IN  IF ~w.ok \/ ~w.to_hex \/ bytes = <<>> THEN w
      ELSE IF u.ok THEN ihex_record(u, Data(start_addr % PageBytes, bytes)) ELSE u

\* Opens (and truncates) the files asked for; `opens` is the set of those the card lets
\* it open.  A file that is not asked for stays as it is.
dump_writer_open(w, files, base, opens, fuse, torn) ==
  [bin |-> IF "bin" \in files THEN <<>> ELSE w.bin,
   hex |-> IF "hex" \in files THEN <<>> ELSE w.hex,
   to_bin |-> "bin" \in files, to_hex |-> "hex" \in files,
   base |-> base, pos |-> 0, upper |-> 0, started |-> FALSE, rec |-> <<>>,
   ok |-> files \subseteq opens, fuse |-> fuse, torn |-> torn]

\* Mutant: a record is written when the buffer has run over.
RecFullLate(rec) == Len(rec) > RecBytes
RecFull(rec) == Len(rec) = RecBytes

Feed(w, byte) ==
  LET v == [w EXCEPT !.rec = Append(@, byte), !.pos = @ + 1]
  IN  IF ~w.ok THEN w
      ELSE IF RecFull(v.rec)
      THEN [hex_flush_record(v, v.base + v.pos - Len(v.rec), v.rec) EXCEPT !.rec = <<>>]
      ELSE v

FeedAll(w, bytes) ==
  LET after[n \in 0..Len(bytes)] == IF n = 0 THEN w ELSE Feed(after[n - 1], bytes[n])
  IN  after[Len(bytes)]

dump_writer_append(w, bytes) ==
  LET half == SubSeq(bytes, 1, Len(bytes) \div 2)
      b == IF w.to_bin THEN FileWrite(w, "bin", bytes, half) ELSE w
  IN  IF ~w.ok THEN w
      ELSE IF b.ok /\ b.to_hex THEN FeedAll(b, bytes) ELSE b

\* The tail record, then the end record, unless something has failed.
dump_writer_close(w) ==
  LET t == IF w.ok THEN hex_flush_record(w, w.base + w.pos - Len(w.rec), w.rec) ELSE w
      e == IF t.ok /\ t.to_hex THEN ihex_record(t, Eof) ELSE t
  IN  [e EXCEPT !.rec = <<>>, !.to_bin = FALSE, !.to_hex = FALSE]

\* dump_write_bin, dump_write_ihex: all three in one.
WriteWhole(w, files, base, bytes, opens, fuse, torn) ==
  dump_writer_close(
    dump_writer_append(dump_writer_open(w, files, base, opens, fuse, torn), bytes))

(***************************************************************************)
(* What a reader of a .hex file makes of it.                               *)
(***************************************************************************)

\* The bytes with their addresses: inside a record the 16-bit address wraps.
Placed(page, r) ==
  [i \in DOMAIN r.bytes |->
     [at |-> (page * PageBytes) + ((r.addr + i - 1) % PageBytes), byte |-> r.bytes[i]]]
Read(d, r) ==
  CASE r.type = "upper" -> [d EXCEPT !.page = r.page]
    [] r.type = "data"  -> [d EXCEPT !.cells = @ \o Placed(d.page, r)]
    [] OTHER            -> d
Decoded(hex) ==
  LET after[n \in 0..Len(hex)] ==
        IF n = 0 THEN [page |-> 0, cells |-> <<>>] ELSE Read(after[n - 1], hex[n])
  IN  after[Len(hex)]
Decode(hex) == Decoded(hex).cells

Ended(hex) == hex # <<>> /\ Last(hex) = Eof
=============================================================================
