------------------------------ MODULE ReadMft ------------------------------
(***************************************************************************)
(* ntfs_read_mft (src/inode.c): the walk over the attributes of one base   *)
(* MFT record that builds the in-memory inode.  The walk is the code's     *)
(* goto loop: next_attr asks the attribute enumerator (ni_enum_attr_ex)   *)
(* for the next attribute, one case of the switch handles it, and         *)
(* end_enum decides the inode's type, link count and sizes.  Each         *)
(* iteration is one step, so the order in which attributes are met (and   *)
(* the restart an ATTR_LIST causes) is explicit.                           *)
(*                                                                         *)
(* An attribute is a record of the fields the walk looks at: its type,    *)
(* resident or not, its name ("" unnamed, "I30", "stream"), for a         *)
(* FILE_NAME its namespace and an identity nm, for a reparse point its    *)
(* kind, for STANDARD_INFORMATION the read-only bit, sizes, the           *)
(* compressed flag, and for an attribute-list entry its starting vcn.     *)
(* Only user records are read (not $MFT, $LogFile, $BadClus, $Secure),   *)
(* so the system-file special cases of the switch are not taken.          *)
(***************************************************************************)
EXTENDS FiniteSets, ReparseCodec

CONSTANTS
  Records,    \* records the volume holds: [dir, hdr, attrs, list, origin]
  LookupDos   \* whether lookups arrive through DOS (8.3) index entries

ASSUME LookupDos \in BOOLEAN

Attr(t) == [type |-> t, nonres |-> FALSE, name |-> "", ntype |-> "POSIX", nm |-> 0,
            rp |-> "none", ro |-> FALSE, size |-> 0, valid |-> 0, comp |-> FALSE,
            vcn |-> 0, data |-> <<>>]

\* ni_parse_reparse (frecord.c): symlinks, mount points and any tag with the
\* name-surrogate bit are links (REPARSE_LINK); other tags, OneDrive's
\* among them, are placeholders for data that is elsewhere.
ParseReparse(rp) ==
  IF TagOf(rp) \in {TagSymlink, TagMountPoint} \/ IsReparseTagNameSurrogate(TagOf(rp))
  THEN "link" ELSE "placeholder"

\* A lookup passes the name it found in the directory (0: by reference).
LooksOf(r) ==
  {0} \cup {a.nm : a \in {x \in ToSet(r.attrs) :
                           x.type = "NAME" /\ (LookupDos \/ x.ntype # "DOS")}}

VARIABLES
  rec,      \* the record being read
  look,     \* the name of the lookup, 0 when read by reference only
  pc,       \* "start", "walk" (at next_attr), "attr" (in the switch), "end", "ok", "err"
  listed,   \* the attribute list is loaded: the enumerator walks its entries
  pos,      \* entries of the current walk already returned
  attr,     \* the attribute the switch is handling
  std5,     \* "none", or "ro"/"rw" from the first STANDARD_INFORMATION
  mode,     \* "0", "REG", "DIR", "LNK"
  isDir,    \* is_dir
  isRoot,   \* is_root: an INDEX_ROOT was met
  names,    \* non-DOS FILE_NAMEs counted
  isMatch,  \* the lookup name was found
  isize, ivalid,
  niFlags,  \* subset of {"DIR", "RESIDENT", "EA"}
  comp,     \* FILE_ATTRIBUTE_COMPRESSED in ni->std_fa
  nlink,
  err       \* error code on the out path

vars == <<rec, look, pc, listed, pos, attr, std5, mode, isDir, isRoot, names,
          isMatch, isize, ivalid, niFlags, comp, nlink, err>>
walk == <<std5, mode, isDir, isRoot, names, isMatch, isize, ivalid, niFlags, comp, nlink>>

(***************************************************************************)
(* ni_enum_attr_ex: without an attribute list, the base record's           *)
(* attributes in order; with one loaded, the attributes its entries name, *)
(* in list order.                                                          *)
(***************************************************************************)
Walked == IF listed THEN rec.list ELSE rec.attrs

Init ==
  /\ rec \in Records
  /\ look \in LooksOf(rec)
  /\ pc = "start" /\ listed = FALSE /\ pos = 0 /\ attr = Attr("END")
  /\ std5 = "none" /\ mode = "0" /\ isDir = FALSE /\ isRoot = FALSE
  /\ names = 0 /\ isMatch = FALSE /\ isize = 0 /\ ivalid = 0
  /\ niFlags = {} /\ comp = FALSE /\ nlink = 0 /\ err = "none"

\* Leave the walk through the out label with error e.
Fail(e) == pc' = "err" /\ err' = e
Next_attr == pc' = "walk"

\* mi_read, then the record header checks: a reference whose sequence
\* number is stale, or a record not in use, is rejected.
Start ==
  /\ pc = "start"
  /\ CASE rec.hdr = "stale" -> Fail("EINVAL")
       [] rec.hdr = "free"  -> Fail("EINVAL")
       [] OTHER             -> Next_attr /\ err' = err
  /\ isDir' = rec.dir
  /\ UNCHANGED <<rec, look, listed, pos, attr, std5, mode, isRoot, names, isMatch,
                 isize, ivalid, niFlags, comp, nlink>>

NextAttr ==
  /\ pc = "walk"
  /\ IF pos = Len(Walked)
     THEN pc' = "end" /\ UNCHANGED <<pos, attr>>
     ELSE pc' = "attr" /\ pos' = pos + 1 /\ attr' = Walked[pos + 1]
  /\ UNCHANGED <<rec, look, listed, err>> /\ UNCHANGED walk

\* Each case of the switch: guard on the attribute type, then the case body.
Case(t) == pc = "attr" /\ attr.type = t
Done == UNCHANGED <<rec, look, listed, pos, attr, err>>

\* A non-primary segment of a split attribute (le->vcn != 0) is skipped;
\* so is every attribute type the switch has no case for.
Skip ==
  /\ pc = "attr"
  /\ (listed /\ attr.vcn # 0) \/ attr.type \notin
        {"STD", "LIST", "NAME", "DATA", "ROOT", "ALLOC", "BITMAP", "REPARSE", "EA_INFO"}
  /\ Next_attr /\ Done /\ UNCHANGED walk

Primary == ~(listed /\ attr.vcn # 0)
RoTag(b) == IF b THEN "ro" ELSE "rw"

\* Variant handling only a resident symlink reparse point.
OnReparseResidentOnly ==
  /\ Case("REPARSE") /\ Primary
  /\ IF attr.name = "" /\ attr.rp = "link" /\ ~attr.nonres
     THEN /\ isize' = attr.size /\ ivalid' = attr.size
          /\ niFlags' = niFlags \ {"DIR"}
          /\ mode' = "LNK" /\ isDir' = FALSE
     ELSE UNCHANGED <<isize, ivalid, niFlags, mode, isDir>>
  /\ Next_attr /\ Done
  /\ UNCHANGED <<std5, isRoot, names, isMatch, comp, nlink>>

\* Variant that lets a later STANDARD_INFORMATION replace the first.
OnStdLastWins ==
  /\ Case("STD") /\ Primary
  /\ std5' = RoTag(attr.ro)
  /\ Next_attr /\ Done
  /\ UNCHANGED <<mode, isDir, isRoot, names, isMatch, isize, ivalid, niFlags, comp, nlink>>

\* ATTR_STD: the first one wins, later ones are ignored.
OnStd ==
  /\ Case("STD") /\ Primary
  /\ std5' = IF std5 = "none" THEN RoTag(attr.ro) ELSE std5
  /\ Next_attr /\ Done
  /\ UNCHANGED <<mode, isDir, isRoot, names, isMatch, isize, ivalid, niFlags, comp, nlink>>

\* Variant that restarts the walk without loading the list.
OnListNoLoad ==
  /\ Case("LIST") /\ Primary
  /\ IF attr.name # "" \/ listed
     THEN Fail("EINVAL") /\ UNCHANGED <<listed, pos>>
     ELSE Next_attr /\ pos' = 0 /\ err' = err /\ UNCHANGED listed
  /\ UNCHANGED <<rec, look, attr>> /\ UNCHANGED walk

\* ATTR_LIST: ntfs_load_attr_list, then restart the walk (le = attr = NULL)
\* from the first list entry.  A list reached through a list is corrupt.
OnList ==
  /\ Case("LIST") /\ Primary
  /\ IF attr.name # "" \/ listed
     THEN Fail("EINVAL") /\ UNCHANGED <<listed, pos>>
     ELSE Next_attr /\ listed' = TRUE /\ pos' = 0 /\ err' = err
  /\ UNCHANGED <<rec, look, attr>> /\ UNCHANGED walk

\* ATTR_NAME: a DOS name is skipped before it is counted or compared.
OnName ==
  /\ Case("NAME") /\ Primary
  /\ names' = IF attr.ntype = "DOS" THEN names ELSE names + 1
  /\ isMatch' = (isMatch \/ (attr.ntype # "DOS" /\ look # 0 /\ look = attr.nm))
  /\ Next_attr /\ Done
  /\ UNCHANGED <<std5, mode, isDir, isRoot, isize, ivalid, niFlags, comp, nlink>>

\* ATTR_DATA: ignored in a directory and for a named stream; otherwise the
\* compression flag and the sizes (resident: both the value length;
\* non-resident: data_size and valid_size), and the mode becomes regular.
OnData ==
  /\ Case("DATA") /\ Primary
  /\ IF isDir \/ attr.name # ""
     THEN UNCHANGED <<comp, isize, ivalid, mode, niFlags>>
     ELSE /\ comp' = attr.comp
          /\ isize' = attr.size
          /\ ivalid' = IF attr.nonres THEN attr.valid ELSE attr.size
          /\ mode' = "REG"
          /\ niFlags' = IF attr.nonres THEN niFlags ELSE niFlags \cup {"RESIDENT"}
  /\ Next_attr /\ Done
  /\ UNCHANGED <<std5, isDir, isRoot, names, isMatch, nlink>>

\* ATTR_ROOT: is_root is set for any root; an $I30 root of a directory
\* record makes the inode a directory (indx_init).
OnRoot ==
  /\ Case("ROOT") /\ Primary
  /\ IF attr.nonres THEN Fail("EINVAL") ELSE Next_attr /\ err' = err
  /\ isRoot' = ~attr.nonres
  /\ IF ~attr.nonres /\ attr.name = "I30" /\ isDir
     THEN niFlags' = niFlags \cup {"DIR"} /\ mode' = "DIR"
     ELSE UNCHANGED <<niFlags, mode>>
  /\ UNCHANGED <<rec, look, listed, pos, attr>>
  /\ UNCHANGED <<std5, isDir, names, isMatch, isize, ivalid, comp, nlink>>

\* ATTR_ALLOC of the $I30 index after its root: the directory's sizes.
OnAlloc ==
  /\ Case("ALLOC") /\ Primary
  /\ IF isRoot /\ attr.name = "I30"
     THEN isize' = attr.size /\ ivalid' = attr.valid
     ELSE UNCHANGED <<isize, ivalid>>
  /\ Next_attr /\ Done
  /\ UNCHANGED <<std5, mode, isDir, isRoot, names, isMatch, niFlags, comp, nlink>>

\* ATTR_BITMAP: only its run list is loaded (for an $I30 bitmap).
OnBitmap ==
  /\ Case("BITMAP") /\ Primary
  /\ Next_attr /\ Done /\ UNCHANGED walk

\* ATTR_REPARSE: a symlink or junction (REPARSE_LINK) takes its size from
\* the reparse data, sets i_valid = i_size, drops the directory state
\* and becomes a symlink; other reparse kinds change nothing.
OnReparse ==
  /\ Case("REPARSE") /\ Primary
  /\ IF attr.name = "" /\ attr.rp = "link"
     THEN /\ isize' = attr.size /\ ivalid' = attr.size
          /\ niFlags' = niFlags \ {"DIR"}
          /\ mode' = "LNK" /\ isDir' = FALSE
     ELSE UNCHANGED <<isize, ivalid, niFlags, mode, isDir>>
  /\ Next_attr /\ Done
  /\ UNCHANGED <<std5, isRoot, names, isMatch, comp, nlink>>

\* ATTR_EA_INFO: an unnamed, resident EA_INFO marks the inode as having EAs.
OnEaInfo ==
  /\ Case("EA_INFO") /\ Primary
  /\ niFlags' = IF attr.name = "" /\ ~attr.nonres THEN niFlags \cup {"EA"} ELSE niFlags
  /\ Next_attr /\ Done
  /\ UNCHANGED <<std5, mode, isDir, isRoot, names, isMatch, isize, ivalid, comp, nlink>>

(***************************************************************************)
(* end_enum, in the code's order: no STANDARD_INFORMATION, a lookup name   *)
(* not among the FILE_NAMEs (ENOENT), no names, then the type: a          *)
(* directory has one link and no valid size, a symlink or regular file   *)
(* has as many links as names; any other mode is rejected.               *)
(***************************************************************************)
EndEnum ==
  /\ pc = "end"
  /\ CASE std5 = "none"           -> Fail("EINVAL") /\ UNCHANGED <<nlink, ivalid>>
       [] look # 0 /\ ~isMatch     -> Fail("ENOENT") /\ UNCHANGED <<nlink, ivalid>>
       [] names = 0                -> Fail("EINVAL") /\ UNCHANGED <<nlink, ivalid>>
       [] mode = "DIR"             -> pc' = "ok" /\ err' = err /\ nlink' = 1 /\ ivalid' = 0
       [] mode \in {"LNK", "REG"}  -> pc' = "ok" /\ err' = err /\ nlink' = names
                                      /\ UNCHANGED ivalid
       [] OTHER                    -> Fail("EINVAL") /\ UNCHANGED <<nlink, ivalid>>
  /\ UNCHANGED <<rec, look, listed, pos, attr>>
  /\ UNCHANGED <<std5, mode, isDir, isRoot, names, isMatch, isize, niFlags, comp>>

(***************************************************************************)
(* The records ntfs_create_inode writes (src/inode.c, the layout after     *)
(* ntfs_new_inode): STANDARD_INFORMATION with FILE_ATTRIBUTE_READONLY when *)
(* the mode has no write bit, the POSIX FILE_NAME, a SECURITY_DESCRIPTOR   *)
(* when no security id is available, then an $I30 INDEX_ROOT for a        *)
(* directory; an empty resident DATA and the reparse point (non-resident  *)
(* when it does not fit: big) holding the payload of                     *)
(* ntfs_create_reparse_buffer for the target symname, with i_size its     *)
(* length, for a symlink; an empty non-resident DATA                      *)
(* (sparse or compressed: comp) for a regular file.  Symlinks are created *)
(* as "file + reparse": the record's directory flag is set only for a     *)
(* directory.                                                              *)
(***************************************************************************)
CreateLayout(kind, ro, secure, big, cmp, symname) ==
  LET rp == CreateReparseBuffer(symname).rp
  IN
  [dir |-> kind = "dir", hdr |-> "ok", list |-> <<>>,
   origin |-> [kind |-> kind, ro |-> ro, size |-> IF kind = "link" THEN Len(rp) ELSE 0,
               target |-> IF kind = "link" THEN symname ELSE <<>>],
   attrs |->
     <<[Attr("STD") EXCEPT !.ro = ro], [Attr("NAME") EXCEPT !.nm = 1]>>
     \o (IF secure THEN <<Attr("SECURE")>> ELSE <<>>)
     \o (CASE kind = "dir"  -> <<[Attr("ROOT") EXCEPT !.name = "I30"]>>
           [] kind = "link" -> <<Attr("DATA"),
                                [Attr("REPARSE") EXCEPT !.rp = "link", !.nonres = big,
                                   !.size = Len(rp), !.valid = Len(rp), !.data = rp]>>
           [] OTHER         -> <<[Attr("DATA") EXCEPT !.nonres = TRUE, !.comp = cmp]>>)]

Next ==
  \/ Start \/ NextAttr \/ Skip
  \/ OnStd \/ OnList \/ OnName \/ OnData \/ OnRoot \/ OnAlloc \/ OnBitmap
  \/ OnReparse \/ OnEaInfo \/ EndEnum

\* ntfs_read_mft is a sequential function; it runs until it returns.
Spec == Init /\ [][Next]_vars /\ WF_vars(Next)

-----------------------------------------------------------------------------
(***************************************************************************)
(* Reference: what the inode read from a record should be, from the       *)
(* record's logical attributes (with an attribute list, the entries that  *)
(* start at vcn 0), independent of the order of the walk: the first       *)
(* STANDARD_INFORMATION counts; a lookup by a name the record holds        *)
(* finds it; a symlink reparse point makes a symlink, an $I30 root in a   *)
(* directory record a directory, an unnamed DATA in a file record a file. *)
(***************************************************************************)
Logical(r) == IF r.list # <<>> THEN SelectSeq(r.list, LAMBDA a : a.vcn = 0) ELSE r.attrs

Result(e, k, n, s, v, ro, ea, c) ==
  IF e # "none"
  THEN [err |-> e, kind |-> "0", nlink |-> 0, isize |-> 0, ivalid |-> 0,
        ro |-> FALSE, ea |-> FALSE, comp |-> FALSE]
  ELSE [err |-> e, kind |-> k, nlink |-> n, isize |-> s, ivalid |-> v,
        ro |-> ro, ea |-> ea, comp |-> c]

Expected(r, lk) ==
  LET L      == Logical(r)
      Sel(P(_)) == SelectSeq(L, P)
      stds   == Sel(LAMBDA a : a.type = "STD")
      nms    == Sel(LAMBDA a : a.type = "NAME" /\ a.ntype # "DOS")
      found  == \E a \in ToSet(L) : a.type = "NAME" /\ a.nm = lk
      links  == Sel(LAMBDA a : a.type = "REPARSE" /\ a.name = "" /\ a.rp = "link")
      roots  == Sel(LAMBDA a : a.type = "ROOT" /\ a.name = "I30")
      allocs == Sel(LAMBDA a : a.type = "ALLOC" /\ a.name = "I30")
      datas  == Sel(LAMBDA a : a.type = "DATA" /\ a.name = "")
      ea     == \E a \in ToSet(L) : a.type = "EA_INFO" /\ a.name = "" /\ ~a.nonres
      kind   == CASE links # <<>>                -> "LNK"
                  [] r.dir /\ roots # <<>>        -> "DIR"
                  [] ~r.dir /\ datas # <<>>       -> "REG"
                  [] OTHER                        -> "0"
      d      == datas[1]
      size   == CASE kind = "LNK" -> links[1].size
                  [] kind = "DIR" -> IF allocs # <<>> THEN allocs[1].size ELSE 0
                  [] OTHER        -> d.size
      valid  == CASE kind = "LNK" -> size
                  [] kind = "DIR" -> 0
                  [] OTHER        -> IF d.nonres THEN d.valid ELSE d.size
      e      == CASE r.hdr # "ok"         -> "EINVAL"
                  [] stds = <<>>          -> "EINVAL"
                  [] lk # 0 /\ ~found     -> "ENOENT"
                  [] nms = <<>>           -> "EINVAL"
                  [] kind = "0"           -> "EINVAL"
                  [] OTHER                -> "none"
  IN Result(e, kind, IF kind = "DIR" THEN 1 ELSE Len(nms), size, valid,
            stds[1].ro, ea, kind = "REG" /\ d.comp)

Outcome ==
  Result(IF pc = "err" THEN err ELSE "none", mode, nlink, isize, ivalid,
         std5 = "ro", "EA" \in niFlags, mode = "REG" /\ comp)

\* Whatever order the attributes are met in and whether they are reached
\* through an attribute list, the inode ntfs_read_mft returns (or its
\* error) is the one the record's logical attributes define: the first
\* STANDARD_INFORMATION wins, a lookup by any name the record holds
\* succeeds, the type, link count, sizes, read-only and EA state follow.
ReadMatchesReference ==
  pc \in {"ok", "err"} => Outcome = Expected(rec, look)

\* A record written by ntfs_create_inode reads back, through
\* ntfs_read_mft, as the inode that was created: same type, one link,
\* the created size (the symlink's reparse data length), same read-only.
CreateReadBack ==
  rec.origin.kind # "none" /\ pc \in {"ok", "err"} =>
    /\ pc = "ok"
    /\ mode = CASE rec.origin.kind = "dir" -> "DIR"
               [] rec.origin.kind = "link" -> "LNK"
               [] OTHER -> "REG"
    /\ nlink = 1 /\ isize = rec.origin.size /\ std5 = RoTag(rec.origin.ro)

\* Every read terminates: the goto loop of ntfs_read_mft, restarted once
\* by an attribute list, reaches the ok or out label.
Terminates == <>(pc \in {"ok", "err"})
=============================================================================
