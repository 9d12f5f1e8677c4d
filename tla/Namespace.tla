----------------------------- MODULE Namespace -----------------------------
(***************************************************************************)
(* The record builder of src/inode.c: ntfs_create_inode with its           *)
(* compensating undo chain (labels out7 .. out1), ntfs_link_inode and      *)
(* ntfs_unlink_inode, over the shared state they change: the MFT record    *)
(* bitmap (free records), the MFT records themselves (in-use flag,         *)
(* sequence number, kind, FILE_NAME attributes, hard_links, clusters of a  *)
(* non-resident reparse payload), the directory indexes, the $Reparse      *)
(* index and the cluster allocator.                                        *)
(*                                                                         *)
(* Each handler runs under the VFS directory lock and the inode lock, and  *)
(* the allocator, bitmap and indexes are called as atomic services, so a   *)
(* handler is one step; which of its fallible calls fails is an input.     *)
(* Records are written back only when a handler succeeds (on failure       *)
(* ntfs_create_inode clears mi.dirty), so a failed create leaves the       *)
(* on-disk record as it was.                                               *)
(***************************************************************************)
EXTENDS Naturals, FiniteSets, Sequences, FiniteSetsExt

CONSTANTS
  Recs,            \* MFT record numbers available to user files
  Dirs,            \* parent directories (their own records are not modelled)
  Names,           \* names a create or link may use
  WinRec,          \* a record holding a file created by Windows ...
  WinDir,          \* ... in this directory ...
  LongName,        \* ... under a WIN32 long name ...
  ShortName,       \* ... paired with a DOS 8.3 short name
  TotalClusters,   \* clusters of the volume
  ReparseClusters, \* clusters of a symlink payload too big to stay resident
  MaxSeq,          \* record sequence numbers wrap after MaxSeq (u16 on disk)
  FailPoints,      \* fallible calls that may fail in this model
  AclEnabled       \* CONFIG_NTFS3_FS_POSIX_ACL and SB_POSIXACL

AllNames == Names \cup {LongName, ShortName}
Kinds == {"file", "dir", "link"}
NameTypes == {"POSIX", "WIN32", "DOS"}
None == [rec |-> "none", seq |-> 0]
Seqs == 1 .. MaxSeq
Ref(r, s) == [rec |-> r, seq |-> s]
Refs == {Ref(r, s) : r \in Recs, s \in Seqs}

ASSUME WinRec \in Recs /\ WinDir \in Dirs
ASSUME {LongName, ShortName} \cap Names = {} /\ LongName # ShortName
ASSUME ReparseClusters \in Nat \ {0} /\ TotalClusters \in Nat
ASSUME MaxSeq \in Nat \ {0}
ASSUME AclEnabled \in BOOLEAN

VARIABLES
  freeRecs,   \* record numbers clear in the MFT bitmap
  rec,        \* rec[r]: the on-disk record r
  index,      \* index[d][n]: the MFT reference stored under name n of d
  reparse,    \* references registered in $Extend/$Reparse
  freeClust,  \* clusters free in the volume bitmap
  bad         \* inodes marked bad by make_bad_inode

vars == <<freeRecs, rec, index, reparse, freeClust, bad>>

\* Variant that lets the counter wrap to 0.
NextSeqZero(s) == IF s = MaxSeq THEN 0 ELSE s + 1

\* mi_format_new stamps a reused record with the next sequence number,
\* skipping 0 when the u16 wraps.
NextSeq(s) == IF s = MaxSeq THEN 1 ELSE s + 1

\* paired_name: the type of the name that shares a FILE_NAME pair.
PairedName(t) == CASE t = "WIN32" -> "DOS" [] t = "DOS" -> "WIN32" [] OTHER -> "POSIX"

\* The record ntfs_create_inode writes: in use, the new sequence number,
\* one POSIX FILE_NAME, rec->hard_links = 1, the payload clusters.
NewRecordNoLinks(kind, d, n, s, alloc) ==
  [inuse |-> TRUE, seq |-> s, kind |-> kind, names |-> {<<d, n, "POSIX">>},
   links |-> 0, clusters |-> alloc]

NewRecord(kind, d, n, s, alloc) ==
  [inuse |-> TRUE, seq |-> s, kind |-> kind, names |-> {<<d, n, "POSIX">>},
   links |-> 1, clusters |-> alloc]

FreeRecord(s) == [inuse |-> FALSE, seq |-> s, kind |-> "file",
                  names |-> {}, links |-> 0, clusters |-> 0]

Init ==
  /\ rec = [r \in Recs |->
              IF r = WinRec
              THEN [inuse |-> TRUE, seq |-> 1, kind |-> "file",
                    names |-> {<<WinDir, LongName, "WIN32">>,
                               <<WinDir, ShortName, "DOS">>},
                    links |-> 2, clusters |-> 0]
              ELSE FreeRecord(1)]
  /\ freeRecs = Recs \ {WinRec}
  /\ index = [d \in Dirs |-> [n \in AllNames |->
                IF d = WinDir /\ n \in {LongName, ShortName}
                THEN Ref(WinRec, 1) ELSE None]]
  /\ reparse = {}
  /\ freeClust = TotalClusters
  /\ bad = {}

-----------------------------------------------------------------------------
(***************************************************************************)
(* ntfs_create_inode.  The fallible calls, in the order the code makes    *)
(* them for each kind (the symlink payload is non-resident when it does   *)
(* not fit the record: "big"), and the undo label each failure jumps to.  *)
(***************************************************************************)
CreateSteps(kind, big) ==
  <<"look_free_mft", "new_inode", "fill_name_de">>
  \o (CASE kind = "dir"  -> <<"indx_init">>
        [] kind = "link" -> <<"reparse_buffer">>
                            \o (IF big THEN <<"alloc_clusters", "run_pack">> ELSE <<>>)
                            \o <<"insert_reparse">>
        [] OTHER         -> <<>>)
  \o <<"index_insert">>
  \o (IF AclEnabled /\ kind # "link" THEN <<"init_acl">> ELSE <<>>)
  \o (IF kind = "link" /\ big THEN <<"write_run">> ELSE <<>>)

UndoLabel ==
  [look_free_mft |-> "out2", new_inode |-> "out3", fill_name_de |-> "out4",
   indx_init |-> "out4", reparse_buffer |-> "out4", alloc_clusters |-> "out5",
   run_pack |-> "out5", insert_reparse |-> "out5", index_insert |-> "out6",
   init_acl |-> "out6", write_run |-> "out7"]

\* Variants: out7 not deleting the index entry, out4 not falling through
\* to ntfs_mark_rec_free.
UndoFromKeepIndex(label) ==
  CASE label = "out7" -> {"rm_reparse", "dealloc", "free_rec"}
    [] label = "out6" -> {"rm_reparse", "dealloc", "free_rec"}
    [] label = "out5" -> {"dealloc", "free_rec"}
    [] label = "out4" -> {"free_rec"}
    [] label = "out3" -> {"free_rec"}
    [] OTHER          -> {}

UndoFromKeepRecord(label) ==
  CASE label = "out7" -> {"del_index", "rm_reparse", "dealloc", "free_rec"}
    [] label = "out6" -> {"rm_reparse", "dealloc", "free_rec"}
    [] label = "out5" -> {"dealloc", "free_rec"}
    [] label = "out4" -> {}
    [] label = "out3" -> {"free_rec"}
    [] OTHER          -> {}

\* What the code from a label down to out1 undoes.
UndoFrom(label) ==
  CASE label = "out7" -> {"del_index", "rm_reparse", "dealloc", "free_rec"}
    [] label = "out6" -> {"rm_reparse", "dealloc", "free_rec"}
    [] label = "out5" -> {"dealloc", "free_rec"}
    [] label = "out4" -> {"free_rec"}
    [] label = "out3" -> {"free_rec"}
    [] OTHER          -> {}

(***************************************************************************)
(* Create(d, n, kind, big, f, r, k): create name n in directory d for a    *)
(* new file, directory or symlink, with fallible call f failing ("none":   *)
(* all succeed), record r the one ntfs_look_free_mft returns, and k the    *)
(* clusters attr_allocate_clusters got before it failed.                   *)
(***************************************************************************)
Create(d, n, kind, big, f, r, k) ==
  LET steps == CreateSteps(kind, big)
      stop  == IF f = "none" THEN Len(steps) + 1
               ELSE CHOOSE i \in DOMAIN steps : steps[i] = f
      done(s) == \E i \in 1 .. stop - 1 : steps[i] = s
      undo  == IF f = "none" THEN {} ELSE UndoFrom(UndoLabel[f])
      ref   == Ref(r, NextSeq(rec[r].seq))
      alloc == CASE done("alloc_clusters") -> ReparseClusters
                 [] f = "alloc_clusters"   -> k
                 [] OTHER                  -> 0
  IN /\ index[d][n] = None
     /\ r \in freeRecs
     /\ f = "none" \/ \E i \in DOMAIN steps : steps[i] = f
     /\ kind # "link" => ~big
     /\ done("alloc_clusters") => freeClust >= ReparseClusters
     /\ f = "alloc_clusters" => k < ReparseClusters /\ k <= freeClust
     /\ f # "alloc_clusters" => k = 0
     /\ freeRecs' = IF done("look_free_mft") /\ "free_rec" \notin undo
                    THEN freeRecs \ {r} ELSE freeRecs
     /\ freeClust' = freeClust - alloc
                     + (IF "dealloc" \in undo /\ kind # "dir" THEN alloc ELSE 0)
     /\ reparse' = IF done("insert_reparse") /\ "rm_reparse" \notin undo
                   THEN reparse \cup {ref} ELSE reparse
     /\ index' = IF done("index_insert") /\ "del_index" \notin undo
                 THEN [index EXCEPT ![d][n] = ref] ELSE index
     /\ rec' = IF f = "none"
               THEN [rec EXCEPT ![r] = NewRecord(kind, d, n, ref.seq, alloc)]
               ELSE rec
     /\ UNCHANGED bad

(***************************************************************************)
(* Link(r, d, n, f): ntfs_link_inode adding name n in d to file r.  The    *)
(* FILE_NAME attribute is inserted into the record (ni_insert_resident)    *)
(* before the index entry; hard_links is bumped only when both succeed.    *)
(***************************************************************************)
LinkSteps == <<"fill_name_de", "insert_resident", "link_index_insert">>

Link(r, d, n, f) ==
  LET stop == IF f = "none" THEN 4 ELSE CHOOSE i \in 1 .. 3 : LinkSteps[i] = f
      done(s) == \E i \in 1 .. stop - 1 : LinkSteps[i] = s
      ref == Ref(r, rec[r].seq)
  IN /\ rec[r].inuse /\ rec[r].kind # "dir" /\ r \notin bad
     /\ index[d][n] = None
     /\ f = "none" \/ \E i \in 1 .. 3 : LinkSteps[i] = f
     /\ rec' = IF done("insert_resident")
               THEN [rec EXCEPT ![r].names = @ \cup {<<d, n, "POSIX">>},
                                ![r].links = IF f = "none" THEN @ + 1 ELSE @]
               ELSE rec
     /\ index' = IF f = "none" THEN [index EXCEPT ![d][n] = ref] ELSE index
     /\ UNCHANGED <<freeRecs, reparse, freeClust, bad>>

(***************************************************************************)
(* Unlink(d, n, f): ntfs_unlink_inode (unlink and rmdir) of name n in d,   *)
(* reached through a lookup that found a live record (ntfs_iget5 refuses  *)
(* a reference whose sequence number is stale).  The index entry goes     *)
(* first, then the FILE_NAME attribute and one hard link; a WIN32 or DOS   *)
(* name takes its paired name (found by type, ni_fname_type) with it.     *)
(* Any error but ENOTEMPTY, ENOSPC, EROFS makes the inode bad.  Parent     *)
(* directories are not records of the model, so every modelled directory *)
(* is empty and the ENOTEMPTY branch is not taken.                        *)
(***************************************************************************)
Unlink(d, n, f) ==
  LET ref == index[d][n]
      r == ref.rec
      found == {x \in rec[r].names : x[1] = d /\ x[2] = n}
      fn == CHOOSE x \in found : TRUE
      pairs == {x \in rec[r].names : x[3] = PairedName(fn[3])}
      pn == CHOOSE x \in pairs : TRUE
      hasPair == fn[3] # "POSIX" /\ pairs # {}
  IN /\ ref # None
     /\ rec[r].inuse /\ rec[r].seq = ref.seq /\ r \notin bad
     /\ f \in {"index_delete", "pair_index_delete", "none"}
     /\ CASE found = {} ->
               /\ f = "none"
               /\ bad' = bad \cup {r}
               /\ UNCHANGED <<rec, index>>
          [] f = "index_delete" ->
               /\ bad' = bad \cup {r}
               /\ UNCHANGED <<rec, index>>
          [] OTHER ->
               /\ f = "pair_index_delete" => hasPair
               /\ LET gone == IF hasPair /\ f = "none" THEN {fn, pn} ELSE {fn}
                  IN /\ rec' = [rec EXCEPT ![r].names = @ \ gone,
                                           ![r].links = @ - Cardinality(gone)]
                     /\ index' = [dd \in Dirs |-> [nn \in AllNames |->
                                    IF \E x \in gone : x[1] = dd /\ x[2] = nn
                                    THEN None ELSE index[dd][nn]]]
               /\ bad' = IF f = "none" THEN bad ELSE bad \cup {r}
     /\ UNCHANGED <<freeRecs, reparse, freeClust>>

(***************************************************************************)
(* Evict(r): ntfs_evict_inode -> ni_clear.  A record whose last name is    *)
(* gone is deleted (ni_delete_all frees its clusters, its reparse point    *)
(* and its record number); any other inode is just dropped from memory,   *)
(* which forgets that it was bad.                                          *)
(***************************************************************************)
Evict(r) ==
  /\ rec[r].inuse
  /\ IF rec[r].names = {}
     THEN /\ freeRecs' = freeRecs \cup {r}
          /\ freeClust' = freeClust + rec[r].clusters
          /\ reparse' = reparse \ {Ref(r, rec[r].seq)}
          /\ rec' = [rec EXCEPT ![r] = FreeRecord(rec[r].seq)]
     ELSE UNCHANGED <<freeRecs, freeClust, reparse, rec>>
  /\ bad' = bad \ {r}
  /\ UNCHANGED index

Next ==
  \/ \E d \in Dirs, n \in Names, kind \in Kinds, big \in BOOLEAN, r \in Recs,
        f \in FailPoints \cup {"none"}, k \in 0 .. ReparseClusters - 1 :
       Create(d, n, kind, big, f, r, k)
  \/ \E r \in Recs, d \in Dirs, n \in Names, f \in FailPoints \cup {"none"} :
       Link(r, d, n, f)
  \/ \E d \in Dirs, n \in AllNames, f \in FailPoints \cup {"none"} : Unlink(d, n, f)
  \/ \E r \in Recs : Evict(r)

Spec == Init /\ [][Next]_vars

-----------------------------------------------------------------------------
TypeOK ==
  /\ freeRecs \subseteq Recs
  /\ rec \in [Recs -> [inuse : BOOLEAN, seq : Seqs, kind : Kinds,
                       names : SUBSET (Dirs \X AllNames \X NameTypes),
                       links : 0 .. Cardinality(Dirs \X AllNames), clusters : 0 .. ReparseClusters]]
  /\ index \in [Dirs -> [AllNames -> Refs \cup {None}]]
  /\ reparse \subseteq Refs
  /\ freeClust \in 0 .. TotalClusters
  /\ bad \subseteq Recs

\* Records R and directory indexes I agree (in memory or on disk).
IndexMatches(R, I) ==
  /\ \A d \in Dirs, n \in AllNames : I[d][n] # None =>
        LET r == I[d][n].rec
        IN /\ R[r].inuse /\ R[r].seq = I[d][n].seq
           /\ \E t \in NameTypes : <<d, n, t>> \in R[r].names
  /\ \A r \in Recs : R[r].inuse =>
        \A x \in R[r].names : I[x[1]][x[2]] = Ref(r, R[r].seq)

\* A directory entry and a FILE_NAME attribute exist together: every index
\* entry names a live record, with the current sequence number, that holds
\* that FILE_NAME, and every FILE_NAME of a live record is in its
\* directory's index -- whichever of the fallible calls of
\* ntfs_create_inode, ntfs_link_inode or ntfs_unlink_inode failed.
IndexMatchesRecords == IndexMatches(rec, index)

\* hard_links in each live record counts its FILE_NAME attributes after
\* every link and unlink, including a partial unlink of a name pair.
LinksMatchNames ==
  \A r \in Recs : rec[r].inuse => rec[r].links = Cardinality(rec[r].names)

\* Nothing leaks and nothing is shared: the MFT bitmap frees exactly the
\* records not in use, the free clusters plus those of live records make
\* up the volume, and $Reparse holds exactly the live symlinks -- after
\* the undo chains of ntfs_create_inode and the deletion on eviction.
PoolsAccounted ==
  /\ freeRecs = {r \in Recs : ~rec[r].inuse}
  /\ LET held(r) == rec[r].clusters
     IN freeClust + MapThenSumSet(held, {r \in Recs : rec[r].inuse}) = TotalClusters
  /\ reparse = {Ref(r, rec[r].seq) : r \in {x \in Recs : rec[x].inuse /\ rec[x].kind = "link"}}
=============================================================================
