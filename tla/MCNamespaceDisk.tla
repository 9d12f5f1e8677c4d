-------------------------- MODULE MCNamespaceDisk --------------------------
(* Model-checking instance of NamespaceDisk: the instance of MCNamespace  *)
(* with a disk copy of every record and index and the volume flag, over  *)
(* two records (the Windows file and one a create can take and reuse) in *)
(* the Windows file's directory.                                          *)
EXTENDS NamespaceDisk, MCNamespace

MCDiskRecs == {"r0", "r1"}
MCDiskDirs == {"d1"}

\* The failures of unlink: one leaves the inode bad, the other half a
\* name pair unlinked in memory, to be written back like any change.
UnlinkFailPoints == {"index_delete", "pair_index_delete"}
=============================================================================
