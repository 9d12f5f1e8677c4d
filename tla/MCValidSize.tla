---------------------------- MODULE MCValidSize ----------------------------
(* Model-checking instance of ValidSize: two pages of two units each.     *)
(* MCAligned starts from files whose valid size is block-aligned (what    *)
(* this buffered path itself produces); MCUnaligned from any valid size,  *)
(* as Windows leaves it.                                                  *)
EXTENDS ValidSize

MCBlockSize == 2
MCMaxSize == 6
MCAligned == 2
MCUnaligned == 1
=============================================================================
