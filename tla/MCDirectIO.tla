---------------------------- MODULE MCDirectIO -----------------------------
(* Model-checking instance of DirectIO, with the sizes of MCValidSize.    *)
EXTENDS DirectIO

MCBlockSize == 2
MCMaxSize == 6
MCAligned == 2
MCUnaligned == 1
=============================================================================
