----------------------------- MODULE MCReadMft -----------------------------
(***************************************************************************)
(* The records ntfs_read_mft is run on: every base record built from the  *)
(* choices below (the attributes in the on-disk order of their type       *)
(* codes), each both as one record and split by an attribute list whose  *)
(* entries also name the second segment of a non-resident DATA, plus the *)
(* records ntfs_create_inode writes.                                       *)
(***************************************************************************)
EXTENDS ReadMft

Std(ro)     == [Attr("STD") EXCEPT !.ro = ro]
Name(t, n)  == [Attr("NAME") EXCEPT !.ntype = t, !.nm = n]
DataRes     == [Attr("DATA") EXCEPT !.size = 1]
DataNonres  == [Attr("DATA") EXCEPT !.nonres = TRUE, !.size = 2, !.valid = 1]
DataComp    == [DataNonres EXCEPT !.comp = TRUE]
Stream      == [Attr("DATA") EXCEPT !.name = "stream", !.size = 1]
Root        == [Attr("ROOT") EXCEPT !.name = "I30"]
Alloc       == [Attr("ALLOC") EXCEPT !.name = "I30", !.nonres = TRUE, !.size = 2, !.valid = 2]
Bitmap      == [Attr("BITMAP") EXCEPT !.name = "I30"]
Reparse(rp, big) == [Attr("REPARSE") EXCEPT !.rp = ParseReparse(rp), !.nonres = big,
                                              !.size = Len(rp), !.valid = Len(rp), !.data = rp]
EaInfo      == Attr("EA_INFO")
NoOrigin    == [kind |-> "none", ro |-> FALSE, size |-> 0, target |-> <<>>]

MCMaxReparse == 36   \* room for a two-unit target: ReparseBytes(2) = 36
MCPageSize == 4      \* longer than every name below

(***************************************************************************)
(* Reparse payloads Windows writes.  A junction (mount point) holds the   *)
(* substitute and the print name, each followed by a zero unit, in either *)
(* order; a symlink the print name first without zeros and Flags 1       *)
(* (relative); a third-party name surrogate (0x20000001) its name after    *)
(* the GUID; an unknown Microsoft name surrogate (0xA0000005); a junction *)
(* whose print name runs past the payload; a OneDrive placeholder.        *)
(***************************************************************************)
Sub == <<63, 97>>
Prn == <<92, 97>>
Junction(printFirst) ==
  LET first  == IF printFirst THEN Prn ELSE Sub
      second == IF printFirst THEN Sub ELSE Prn
      off2   == 2 * Len(first) + 2
      path   == Wide(first \o <<0>> \o second \o <<0>>)
  IN TagMountPoint \o LE16(8 + Len(path)) \o <<0, 0>>
     \o LE16(IF printFirst THEN off2 ELSE 0) \o LE16(2 * Len(Sub))
     \o LE16(IF printFirst THEN 0 ELSE off2) \o LE16(2 * Len(Prn)) \o path
WinSymlink ==
  TagSymlink \o LE16(12 + 4 * Len(Prn)) \o <<0, 0>>
  \o LE16(2 * Len(Prn)) \o LE16(2 * Len(Prn)) \o LE16(0) \o LE16(2 * Len(Prn))
  \o <<1, 0, 0, 0>> \o Wide(Prn \o Prn)
Guid == [i \in 1 .. 16 |-> 0]
Generic == <<1, 0, 0, 32>> \o LE16(2 * Len(Prn)) \o <<0, 0>> \o Guid \o Wide(Prn)
UnknownMs == <<5, 0, 0, 160>> \o LE16(2 * Len(Prn)) \o <<0, 0>> \o Guid \o Wide(Prn)
Overrun == [Junction(FALSE) EXCEPT ![15] = 40]
Cloud == <<26, 0, 0, 144>> \o LE16(4) \o <<0, 0>> \o Guid \o <<0, 0, 0, 0>>

WindowsLinks == {Junction(FALSE), Junction(TRUE), WinSymlink, Generic, UnknownMs, Overrun}

StdSets  == {<<>>, <<Std(FALSE)>>, <<Std(TRUE)>>, <<Std(FALSE), Std(TRUE)>>}
NameSets == {<<>>, <<Name("POSIX", 1)>>, <<Name("WIN32", 1), Name("DOS", 2)>>,
             <<Name("POSIX", 1), Name("POSIX", 2)>>}
FileBodies == {<<>>, <<DataRes>>, <<DataNonres>>, <<DataNonres, Stream>>, <<DataComp>>}
DirBodies  == {<<>>, <<Root>>, <<Root, Alloc, Bitmap>>}
Reparses == {<<>>, <<Reparse(Cloud, FALSE)>>, <<Reparse(Junction(TRUE), TRUE)>>}
            \cup {<<Reparse(rp, FALSE)>> : rp \in WindowsLinks}
Eas      == {<<>>, <<EaInfo>>}

\* The list entries of a split record: every attribute, and a second
\* segment (vcn 1) after each non-resident DATA.
Segments(s) == FlattenSeq([i \in DOMAIN s |->
                 IF s[i].type = "DATA" /\ s[i].nonres THEN <<s[i], [s[i] EXCEPT !.vcn = 1]>>
                 ELSE <<s[i]>>])

Volume(dir, hdr, split, stds, rest) ==
  IF split
  THEN [dir |-> dir, hdr |-> hdr, origin |-> NoOrigin,
        attrs |-> stds \o <<Attr("LIST")>> \o rest, list |-> Segments(stds \o rest)]
  ELSE [dir |-> dir, hdr |-> hdr, origin |-> NoOrigin, attrs |-> stds \o rest, list |-> <<>>]

VolumeRecords ==
  {Volume(dir, "ok", split, stds, nms \o body \o rp \o ea) :
     <<dir, body>> \in ({FALSE} \X FileBodies) \cup ({TRUE} \X DirBodies),
     split \in BOOLEAN, stds \in StdSets, nms \in NameSets, rp \in Reparses, ea \in Eas}
  \cup {Volume(FALSE, hdr, FALSE, <<Std(FALSE)>>, <<Name("POSIX", 1), DataRes>>) :
          hdr \in {"stale", "free"}}

\* Targets of symlink(2) over 'a' and '/' that fit the volume's maximum
\* (a longer one fails with EFBIG and writes no record).
Targets == {<<97>>, <<47>>, <<47, 97>>, <<97, 47>>, <<47, 97, 47>>}
CreatableTargets == {t \in Targets : CreateReparseBuffer(t).err = "none"}

CreatedRecords ==
  {CreateLayout(kind, ro, secure, big, cmp, <<97>>) :
     kind \in {"file", "dir"}, ro \in BOOLEAN, secure \in BOOLEAN,
     big \in BOOLEAN, cmp \in BOOLEAN}
  \cup {CreateLayout("link", ro, secure, big, FALSE, t) :
          ro \in BOOLEAN, secure \in BOOLEAN, big \in BOOLEAN, t \in CreatableTargets}


MCRecords == VolumeRecords \cup CreatedRecords

\* The records whose reparse payload has a layout Windows itself defines
\* (no third-party name surrogate, whose generic field is read apart).
MCRecordsWindowsLayouts ==
  {r \in MCRecords : \A a \in ToSet(r.attrs) : a.data # Generic}
=============================================================================
