------------------------------ MODULE MCTextWrap ------------------------------
(***************************************************************************)
(* Every text of up to seven characters: spaces, line breaks, a narrow and  *)
(* a wide letter.  A line holds four narrow letters, the lines run out.     *)
(***************************************************************************)
EXTENDS TextWrap

MCTexts == BoundedSeq({Space, Break, "i", "m"}, 7)
MCWidth == [c \in {Space, Break, "i", "m"} |-> IF c = "m" THEN 2 ELSE 1]
=============================================================================
