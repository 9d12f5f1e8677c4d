--------------------------- MODULE NamespaceDisk ---------------------------
(***************************************************************************)
(* The record builder of Namespace together with what reaches the disk,   *)
(* and when.  A handler changes the records and indexes in memory and only *)
(* marks them dirty (mark_inode_dirty at inode.c:1572, 1627, 1841, 1844;   *)
(* indx_insert_entry and indx_delete_entry dirty the index buffers); the   *)
(* writeback helpers (ntfs3_write_inode, ntfs_sync_inode, writeback_inode, *)
(* ntfs_flush_inodes) and the block device's own writeback write each     *)
(* record and each directory index back on its own, in no order the code   *)
(* fixes: ntfs_flush_inodes starts the io and waits for none of it.  The   *)
(* disk copy is what a crash leaves behind, so every state of the model is *)
(* a possible crash image.                                                 *)
(*                                                                         *)
(* Before changing anything, create, link and unlink call                  *)
(* ntfs_set_state(sbi, NTFS_DIRTY_DIRTY) ("mark rw ntfs as dirty. it will *)
(* be cleared at umount").  ntfs_set_state (fsntfs.c) is not in this       *)
(* repository: it is modelled from the specification's per-volume dirty   *)
(* flag, which says nothing of when the flag reaches the disk.  The model  *)
(* therefore gives it the treatment of every other metadata change in this *)
(* file: ntfs_set_state sets the cached flag and dirties the $Volume       *)
(* record, which is written back like any record, in no particular order   *)
(* (the idiom of writeback_inode, sync_inode_metadata(inode, 0), which     *)
(* starts io and waits for none).  Unmount writes everything back and      *)
(* clears the flag.                                                        *)
(***************************************************************************)
EXTENDS Namespace

VARIABLES
  volDirty,   \* sbi->volume.flags & VOLUME_FLAG_DIRTY, the cached flag
  diskVol,    \* the dirty flag in the $Volume record on disk
  diskRec,    \* the MFT records as last written to disk
  diskIndex   \* the directory indexes as last written to disk

dvars == <<vars, volDirty, diskVol, diskRec, diskIndex>>

\* The part of a record the directory structure depends on.
Header(x) == [inuse |-> x.inuse, seq |-> x.seq, names |-> x.names]

DInit ==
  /\ Init
  /\ volDirty = FALSE
  /\ diskVol = FALSE
  /\ diskRec = [r \in Recs |-> Header(rec[r])]
  /\ diskIndex = index

(***************************************************************************)
(* ntfs_set_state(sbi, NTFS_DIRTY_DIRTY): nothing when the cached flag is *)
(* already set; otherwise it sets it in the $Volume record in memory,     *)
(* which is then written back by WriteVolume.                              *)
(***************************************************************************)
SetState ==
  /\ volDirty' = TRUE
  /\ UNCHANGED diskVol

\* The handlers: ntfs_set_state first, then the change of Namespace, which
\* stays in memory.
DCreate(d, n, kind, big, f, r, k) ==
  /\ SetState
  /\ Create(d, n, kind, big, f, r, k)
  /\ UNCHANGED <<diskRec, diskIndex>>

DLink(r, d, n, f) ==
  /\ SetState
  /\ Link(r, d, n, f)
  /\ UNCHANGED <<diskRec, diskIndex>>

DUnlink(d, n, f) ==
  /\ SetState
  /\ Unlink(d, n, f)
  /\ UNCHANGED <<diskRec, diskIndex>>

\* ntfs_evict_inode does not touch the flag; deleting the record
\* (ni_delete_all) dirties it like any other change.
DEvict(r) ==
  /\ Evict(r)
  /\ UNCHANGED <<volDirty, diskVol, diskRec, diskIndex>>

(***************************************************************************)
(* WriteRecord(r), WriteIndex(d): one record, or one directory's index,   *)
(* written back (_ni_write_inode from ntfs3_write_inode, ntfs_sync_inode  *)
(* or writeback_inode, then the block device's writeback) whenever it     *)
(* differs from the disk, independently of every other buffer.           *)
(***************************************************************************)
WriteRecord(r) ==
  /\ diskRec[r] # Header(rec[r])
  /\ diskRec' = [diskRec EXCEPT ![r] = Header(rec[r])]
  /\ UNCHANGED <<vars, volDirty, diskVol, diskIndex>>

WriteIndex(d) ==
  /\ diskIndex[d] # index[d]
  /\ diskIndex' = [diskIndex EXCEPT ![d] = index[d]]
  /\ UNCHANGED <<vars, volDirty, diskVol, diskRec>>

\* The $Volume record written back, like any other record.
WriteVolume ==
  /\ diskVol # volDirty
  /\ diskVol' = volDirty
  /\ UNCHANGED <<vars, volDirty, diskRec, diskIndex>>

(***************************************************************************)
(* Umount and mount again (ntfs_put_super, ntfs_fill_super): everything   *)
(* written back, no inode left in memory, the flag cleared on disk.       *)
(***************************************************************************)
Remount ==
  /\ volDirty
  /\ \A r \in Recs : diskRec[r] = Header(rec[r])
  /\ diskIndex = index /\ bad = {}
  /\ volDirty' = FALSE
  /\ diskVol' = FALSE
  /\ UNCHANGED <<vars, diskRec, diskIndex>>

DNext ==
  \/ \E d \in Dirs, n \in Names, kind \in Kinds, big \in BOOLEAN, r \in Recs,
        f \in FailPoints \cup {"none"}, k \in 0 .. ReparseClusters - 1 :
       DCreate(d, n, kind, big, f, r, k)
  \/ \E r \in Recs, d \in Dirs, n \in Names, f \in FailPoints \cup {"none"} :
       DLink(r, d, n, f)
  \/ \E d \in Dirs, n \in AllNames, f \in FailPoints \cup {"none"} : DUnlink(d, n, f)
  \/ \E r \in Recs : DEvict(r)
  \/ \E r \in Recs : WriteRecord(r)
  \/ \E d \in Dirs : WriteIndex(d)
  \/ WriteVolume
  \/ Remount

DSpec == DInit /\ [][DNext]_dvars

-----------------------------------------------------------------------------
\* What "mark rw ntfs as dirty. it will be cleared at umount" before
\* each change of create, link and unlink is for: whatever order the
\* records and indexes were written back in, a crash leaves a disk on
\* which the records and the directory indexes agree, or one whose
\* $Volume record says the volume is dirty, so that it is checked
\* before use.
CrashImageMarked == ~diskVol => IndexMatches(diskRec, diskIndex)
=============================================================================
