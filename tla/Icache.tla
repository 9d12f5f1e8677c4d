------------------------------ MODULE Icache ------------------------------
(***************************************************************************)
(* The inode cache in front of the record builder: ntfs_iget5 looks an    *)
(* MFT reference up in the VFS inode hash (iget5_locked with               *)
(* ntfs_test_inode / ntfs_set_inode, keyed by record number only) and     *)
(* reads the record (ntfs_read_mft) when the inode is new.  References    *)
(* come from directory entries (lookup) and from file handles that a      *)
(* client keeps across unlink, eviction and reuse of the record (NFS      *)
(* export).  The namespace operations of Namespace run on cached inodes: *)
(* create inserts the new inode into the cache, link and unlink act on   *)
(* the inode a lookup returned, eviction drops it.                        *)
(***************************************************************************)
EXTENDS Naturals, FiniteSets

CONSTANTS Recs, Dirs, Names, WinRec, WinDir, LongName, ShortName,
          TotalClusters, ReparseClusters, MaxSeq, FailPoints, AclEnabled

VARIABLES freeRecs, rec, index, reparse, freeClust, bad,
          cached,   \* record numbers with an inode in the inode hash
          handles   \* MFT references held by clients (file handles)

NS == INSTANCE Namespace

nsVars == <<freeRecs, rec, index, reparse, freeClust, bad>>
vars == <<freeRecs, rec, index, reparse, freeClust, bad, cached, handles>>

Init == NS!Init /\ cached = {} /\ handles = {}

\* ntfs_evict_inode of a cached inode; the inode leaves the hash.
Evict(r) ==
  /\ r \in cached /\ NS!Evict(r)
  /\ cached' = cached \ {r}
  /\ UNCHANGED handles

\* ntfs_create_inode: on success the new inode is hashed (insert_inode_hash).
Create(d, n, kind, big, f, r, k) ==
  /\ NS!Create(d, n, kind, big, f, r, k)
  /\ cached' = IF f = "none" THEN cached \cup {r} ELSE cached
  /\ UNCHANGED handles

\* link and unlink act on the inode of a dentry, which is cached.
Link(r, d, n, f) == r \in cached /\ NS!Link(r, d, n, f) /\ UNCHANGED <<cached, handles>>
Unlink(d, n, f) ==
  /\ index[d][n] # NS!None /\ index[d][n].rec \in cached
  /\ NS!Unlink(d, n, f) /\ UNCHANGED <<cached, handles>>

\* A client keeps the reference of a name it looked up (a file handle).
Export(d, n) ==
  /\ index[d][n] # NS!None /\ index[d][n].rec \in cached
  /\ handles' = handles \cup {index[d][n]}
  /\ UNCHANGED nsVars /\ UNCHANGED cached

(***************************************************************************)
(* Iget(ref): ntfs_iget5.  A cached inode for the record number is         *)
(* returned; if its record's sequence number differs from the reference,  *)
(* the cached inode is made bad.  Otherwise the inode is new and          *)
(* ntfs_read_mft reads the record: a stale sequence number or a record    *)
(* not in use fails with EINVAL and the new inode is dropped, else it     *)
(* stays hashed.                                                           *)
(***************************************************************************)
Iget(ref) ==
  LET r == ref.rec
  IN /\ IF r \in cached
        THEN /\ bad' = IF ref.seq # rec[r].seq THEN bad \cup {r} ELSE bad
             /\ UNCHANGED cached
        ELSE /\ cached' = IF rec[r].inuse /\ rec[r].seq = ref.seq
                          THEN cached \cup {r} ELSE cached
             /\ UNCHANGED bad
     /\ UNCHANGED <<freeRecs, rec, index, reparse, freeClust, handles>>

Refs == {index[d][n] : d \in Dirs, n \in NS!AllNames} \ {NS!None}

Next ==
  \/ \E d \in Dirs, n \in Names, kind \in NS!Kinds, big \in BOOLEAN, r \in Recs,
        f \in FailPoints \cup {"none"}, k \in 0 .. ReparseClusters - 1 :
       Create(d, n, kind, big, f, r, k)
  \/ \E r \in Recs, d \in Dirs, n \in Names, f \in FailPoints \cup {"none"} :
       Link(r, d, n, f)
  \/ \E d \in Dirs, n \in NS!AllNames, f \in FailPoints \cup {"none"} : Unlink(d, n, f)
  \/ \E r \in Recs : Evict(r)
  \/ \E d \in Dirs, n \in NS!AllNames : Export(d, n)
  \/ \E ref \in Refs \cup handles : Iget(ref)

Spec == Init /\ [][Next]_vars

-----------------------------------------------------------------------------
\* Looking a reference up never harms another file: an ntfs_iget5 through
\* a directory entry or a file handle leaves every inode's bad state as it
\* was, even when the reference is stale because its record was freed and
\* reused by a new file that is cached.
StaleRefHarmless ==
  [][\A ref \in Refs \cup handles : Iget(ref) => bad' = bad]_vars
=============================================================================
