----------------------------- MODULE MCSymlink -----------------------------
(* Model-checking instance of Symlink over the records of MCReadMft: each *)
(* symlink inode read is followed by up to two path walks, enough for a    *)
(* second get_link to parse what the first one left in the record.        *)
EXTENDS MCReadMft, Symlink

MCMaxGetLinks == 2
=============================================================================
