------------------------------ MODULE Symlink ------------------------------
(***************************************************************************)
(* Following a symbolic link: the inode ntfs_read_mft made of a record    *)
(* (ReadMft) is a symlink (REPARSE_LINK), and the VFS calls get_link on it *)
(* (ntfs_get_link, ntfs_readlink_hlp) as often as paths are resolved       *)
(* through it.  A resident payload is parsed where it lies, in the MFT     *)
(* record the inode keeps in memory (resident_data_ex); a non-resident one *)
(* is read from disk into a fresh buffer (ntfs_read_run_nb) that is freed  *)
(* afterwards.  mrp is the resident payload as the in-memory record holds *)
(* it; links the results of the get_link calls so far.                     *)
(***************************************************************************)
EXTENDS ReadMft

CONSTANT MaxGetLinks   \* path walks through the link the model follows

VARIABLES mrp, links

svars == <<vars, mrp, links>>

\* The attribute ni_find_attr(ATTR_REPARSE, no name) returns.
LinkAttr(r) == SelectSeq(Logical(r), LAMBDA a : a.type = "REPARSE" /\ a.name = "")[1]
HasLink(r) == \E a \in ToSet(Logical(r)) : a.type = "REPARSE" /\ a.name = ""

SInit ==
  /\ Init
  /\ mrp = IF HasLink(rec) THEN LinkAttr(rec).data ELSE <<>>
  /\ links = <<>>

(***************************************************************************)
(* GetLink(rcu, nomem): ntfs_get_link on the symlink inode read, in an RCU *)
(* walk or not, with the buffer's kmalloc failing or not; i_size is the    *)
(* size ntfs_read_mft gave the inode.  Parsing a resident payload leaves   *)
(* the bytes ntfs_readlink_hlp wrote in the in-memory record.              *)
(***************************************************************************)
GetLink(rcu, nomem) ==
  /\ pc = "ok" /\ mode = "LNK" /\ Len(links) < MaxGetLinks
  /\ LET a == LinkAttr(rec)
         r == GetLinkResult(rcu, nomem, isize, IF a.nonres THEN a.data ELSE mrp)
     IN /\ links' = Append(links, [err |-> r.err, name |-> r.name, nul |-> r.nul])
        /\ mrp' = IF a.nonres THEN mrp ELSE r.rp
  /\ UNCHANGED vars

ReadStep == Next /\ UNCHANGED <<mrp, links>>

SNext == ReadStep \/ \E rcu, nomem \in BOOLEAN : GetLink(rcu, nomem)

\* ntfs_read_mft runs to its end; lookups through the link may stop.
SSpec == SInit /\ [][SNext]_svars /\ WF_svars(ReadStep)

-----------------------------------------------------------------------------
Transient(l) == l.err \in {"ECHILD", "ENOMEM"}

\* A symlink ntfs_create_inode wrote (ntfs_create_reparse_buffer's payload,
\* resident or not), read by ntfs_read_mft, gives back its target through
\* every get_link that does not fail transiently: the same target, with
\* '/' restored, zero-terminated in the buffer, however often it is
\* followed; even after ntfs_readlink_hlp wrote into the in-memory record.
LinkReadBack ==
  rec.origin.kind = "link" =>
    \A i \in DOMAIN links :
      ~Transient(links[i]) =>
        links[i] = [err |-> "none", name |-> rec.origin.target, nul |-> TRUE]

\* Every get_link of a symlink inode that does not fail transiently gives
\* what decoding the payload on disk gives (spec 4.6): the print name of a
\* symlink or junction, the generic field of a name surrogate, or the
\* rejection of the payload; zero-terminated in the buffer; and the same on
\* every path walk through the link.
GetLinkMatchesReference ==
  \A i \in DOMAIN links :
    ~Transient(links[i]) =>
      LET ref == DecodeRef(LinkAttr(rec).data)
      IN /\ links[i].err = ref.err
         /\ links[i].name = ref.name
         /\ links[i].nul
=============================================================================
