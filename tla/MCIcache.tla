----------------------------- MODULE MCIcache -----------------------------
(* Model-checking instance of Icache: two records (the Windows file and  *)
(* one to create, free and reuse), two directories, one name, no failing *)
(* call (the undo paths are checked by the Namespace runs): enough to    *)
(* reach reuse under a held reference: create, export, unlink, evict,  *)
(* create again.                                                         *)
EXTENDS Icache

MCRecs == {"r0", "r1"}
MCDirs == {"d1", "d2"}
MCNames == {"a"}
MCTotalClusters == 3
MCReparseClusters == 2
MCMaxSeq == 2
NoFailPoints == {}
=============================================================================
