---------------------------- MODULE MCNamespace ----------------------------
(* Model-checking instance of Namespace: two directories, one fresh     *)
(* names, three records (one holding a file made by Windows) and a       *)
(* volume with room for one non-resident symlink payload plus one spare  *)
(* cluster, so the allocator can both succeed and run dry.               *)
EXTENDS Namespace

MCRecs == {"r0", "r1", "r2"}
MCDirs == {"d1", "d2"}
MCNames == {"a"}
MCTotalClusters == 3
MCReparseClusters == 2
MCMaxSeq == 2

\* Every fallible call of create, link and unlink.
AllFailPoints ==
  {"look_free_mft", "new_inode", "fill_name_de", "indx_init", "reparse_buffer",
   "alloc_clusters", "run_pack", "insert_reparse", "index_insert", "init_acl",
   "write_run", "insert_resident", "link_index_insert", "index_delete",
   "pair_index_delete"}

\* All but the index insert of ntfs_link_inode, which has no undo.
UndoneFailPoints == AllFailPoints \ {"link_index_insert"}
\* Only the failures that leave an inconsistency behind.
LinkIndexFail == {"link_index_insert"}
AclFail == {"init_acl"}
=============================================================================
