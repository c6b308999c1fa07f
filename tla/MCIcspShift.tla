------------------------------ MODULE MCIcspShift ------------------------------
(***************************************************************************)
(* The real command, operand, key and address widths, on a flash of 16      *)
(* bytes with write blocks of four and rows of eight.                      *)
(***************************************************************************)
EXTENDS IcspShift

MCRam == [a \in 0..4095 |-> ((a \div 256) + (3 * a)) % 256]

MCJobs ==
  {pic_read_device_id,
   pic_icsp_set_tblptr(5) \o pic_icsp_table_read \o pic_icsp_table_read,
   pic_icsp_read_data(\h0A5C) \o pic_icsp_read_data(\h0F01),
   pic_prog_bulk_erase, RowErase(8),
   WriteBlock(4, <<\hA55A, \h3C01>>), WriteBlock(12, <<\h00FF, \h8001>>)}
=============================================================================
