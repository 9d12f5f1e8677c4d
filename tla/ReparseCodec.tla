---------------------------- MODULE ReparseCodec ----------------------------
(***************************************************************************)
(* The reparse-point payload codec of symbolic links: the payload          *)
(* ntfs_create_reparse_buffer builds for a new symlink, and the target     *)
(* ntfs_readlink_hlp extracts from a payload for ntfs_get_link.            *)
(*                                                                         *)
(* A payload is its bytes (offsets count from 0 as in the code); its      *)
(* fields are little-endian.  A name is a sequence of UTF-16 units; the   *)
(* targets of the model are ASCII, for which ntfs_nls_to_utf16 and        *)
(* ntfs_utf16_to_nls map a byte to the unit of the same value and back.   *)
(* Layouts (REPARSE_DATA_BUFFER): tag 0..3, ReparseDataLength 4..5,        *)
(* Reserved 6..7, SubstituteNameOffset 8, SubstituteNameLength 10,         *)
(* PrintNameOffset 12, PrintNameLength 14, then the PathBuffer at 16 for  *)
(* a mount point, or Flags 16..19 and the PathBuffer at 20 for a symlink; *)
(* any other tag has a GUID at 8..23 and its data at 24 (REPARSE_POINT).  *)
(***************************************************************************)
EXTENDS Naturals, Sequences, SequencesExt

CONSTANTS
  MaxReparse,   \* sbi->reparse.max_size: the largest payload the volume allows
  PageSize      \* the size of the buffer ntfs_get_link allocates (PAGE_SIZE)

LE16(x) == <<x % 256, x \div 256>>
U16(rp, off) == rp[off + 1] + 256 * rp[off + 2]
Wide(u) == FlattenSeq([i \in 1 .. Len(u) |-> LE16(u[i])])
UnitsOf(b) == [i \in 1 .. Len(b) \div 2 |-> U16(b, 2 * (i - 1))]

\* Tags by their four bytes, and the two tag bits the code tests.
TagOf(rp) == SubSeq(rp, 1, 4)
TagSymlink    == <<12, 0, 0, 160>>                          \* 0xA000000C
TagMountPoint == <<3, 0, 0, 160>>                           \* 0xA0000003
CloudTags == {<<26, 16 * k, 0, 144>> : k \in 0 .. 15}       \* 0x9000k01A
IsReparseTagMicrosoft(t)     == t[4] >= 128                 \* bit 31
IsReparseTagNameSurrogate(t) == (t[4] \div 32) % 2 = 1      \* bit 29

Slash == 47
BackSlash == 92
Question == 63
OneDrive == <<79, 110, 101, 68, 114, 105, 118, 101>>

Translate(u, from, to) == [i \in DOMAIN u |-> IF u[i] = from THEN to ELSE u[i]]

\* ntfs_reparse_bytes: header, print name, decorated substitute name.
ReparseBytes(n) == 2 * (2 * n + 4) + 20

\* Variant giving the print name the substitute name's length.
CreateReparseBufferLongPrint(symname) ==
  LET n     == Len(symname)
      nsize == ReparseBytes(n)
      name  == Translate(symname, Slash, BackSlash)
  IN IF nsize > MaxReparse
     THEN [err |-> "EFBIG", nsize |-> nsize, rp |-> <<>>]
     ELSE [err |-> "none", nsize |-> nsize,
           rp |-> TagSymlink \o LE16(nsize - 8) \o <<0, 0>>
                  \o LE16(2 * n) \o LE16(2 * n + 8) \o LE16(0) \o LE16(2 * n + 8)
                  \o <<0, 0, 0, 0>>
                  \o Wide(name \o <<BackSlash, Question, Question, BackSlash>> \o name)]

(***************************************************************************)
(* ntfs_create_reparse_buffer(symname): the zeroed buffer receives the     *)
(* UTF-16 name; a payload larger than the volume's maximum is EFBIG; '/'  *)
(* becomes '\'; the print name (offset 0, n units) is followed by the     *)
(* substitute name "\??\" ++ name at offset 2n, 2n + 8 bytes long; Flags  *)
(* is 0 (an absolute path).                                                *)
(***************************************************************************)
CreateReparseBuffer(symname) ==
  LET n     == Len(symname)
      nsize == ReparseBytes(n)
      name  == Translate(symname, Slash, BackSlash)
  IN IF nsize > MaxReparse
     THEN [err |-> "EFBIG", nsize |-> nsize, rp |-> <<>>]
     ELSE [err |-> "none", nsize |-> nsize,
           rp |-> TagSymlink \o LE16(nsize - 8) \o <<0, 0>>
                  \o LE16(2 * n) \o LE16(2 * n + 8) \o LE16(0) \o LE16(2 * n)
                  \o <<0, 0, 0, 0>>
                  \o Wide(name \o <<BackSlash, Question, Question, BackSlash>> \o name)]

(***************************************************************************)
(* ntfs_readlink_hlp(inode, buffer, buflen) on the first i_size bytes of   *)
(* the payload rp.  Returns the error, the name put in the buffer, whether *)
(* a terminating zero follows it inside the buffer, and the payload after  *)
(* the call: the code stores the unit count through uni->len, the u8 just *)
(* before the name (two bytes before it), into the payload it parses.    *)
(* ntfs_utf16_to_nls converts at most buflen units and returns the count; *)
(* buffer[err] = 0 then lies inside the buffer only when err < buflen.    *)
(***************************************************************************)
ReadlinkHlp(isize, rp, buflen) ==
  LET tag   == TagOf(rp)
      known == tag \in {TagSymlink, TagMountPoint}
      hdr   == CASE tag = TagMountPoint -> 16 [] tag = TagSymlink -> 20 [] OTHER -> 24
      base  == IF known THEN hdr + U16(rp, 12) ELSE 24
      bytes == IF known THEN U16(rp, 14) ELSE (U16(rp, 4) + 65536 - 24) % 65536
      n0    == bytes \div 2
      unit(i) == U16(rp, base + 2 * (i - 1))
      nlen  == IF unit(n0) = 0 THEN n0 - 1 ELSE n0
      len   == IF nlen < buflen THEN nlen ELSE buflen
      fail  == [err |-> "EINVAL", name |-> <<>>, nul |-> TRUE, rp |-> rp]
  IN CASE isize > MaxReparse \/ isize <= 4             -> fail
       [] Len(rp) < isize                               -> fail
       [] tag \in CloudTags ->
            [err |-> "none", name |-> SubSeq(OneDrive, 1, IF 8 < buflen THEN 8 ELSE buflen),
             nul |-> FALSE, rp |-> rp]
       [] ~known /\ IsReparseTagMicrosoft(tag)          -> fail
       [] ~known /\ ~IsReparseTagNameSurrogate(tag)     -> fail
       [] isize <= hdr                                  -> fail
       [] n0 = 0 \/ base + 2 * n0 > isize               -> fail
       [] OTHER ->
            [err |-> "none",
             name |-> Translate([i \in 1 .. len |-> unit(i)], BackSlash, Slash),
             nul |-> len < buflen,
             rp |-> [rp EXCEPT ![base - 1] = nlen % 256]]

(***************************************************************************)
(* ntfs_get_link: in an RCU path walk (no dentry) it returns ECHILD and   *)
(* the walk is retried with references; a failed kmalloc of the buffer    *)
(* returns ENOMEM; otherwise the result of ntfs_readlink_hlp.             *)
(***************************************************************************)
GetLinkResult(rcu, nomem, isize, rp) ==
  CASE rcu   -> [err |-> "ECHILD", name |-> <<>>, nul |-> TRUE, rp |-> rp]
    [] nomem -> [err |-> "ENOMEM", name |-> <<>>, nul |-> TRUE, rp |-> rp]
    [] OTHER -> ReadlinkHlp(isize, rp, PageSize)

-----------------------------------------------------------------------------
(***************************************************************************)
(* decode(payload) of the specification (4.6): by the tag, the print name *)
(* of a symlink or mount point at its declared offset and length, or the  *)
(* generic field of a name-surrogate tag (ReparseDataLength bytes after   *)
(* the GUID); rejected when it lies outside the payload or is empty; a    *)
(* trailing zero unit dropped; '\' read as '/'; the provider label for a  *)
(* cloud placeholder.                                                      *)
(***************************************************************************)
DecodeRef(rp) ==
  LET tag   == TagOf(rp)
      start == CASE tag = TagSymlink    -> 20 + U16(rp, 12)
                 [] tag = TagMountPoint -> 16 + U16(rp, 12)
                 [] OTHER               -> 24
      size  == IF tag \in {TagSymlink, TagMountPoint} THEN U16(rp, 14) ELSE U16(rp, 4)
      field == UnitsOf(SubSeq(rp, start + 1, start + size))
      name  == IF field[Len(field)] = 0 THEN Front(field) ELSE field
      bad   == [err |-> "EINVAL", name |-> <<>>]
      hdr   == CASE tag = TagSymlink -> 20 [] tag = TagMountPoint -> 16 [] OTHER -> 24
  IN CASE Len(rp) > MaxReparse \/ Len(rp) < 8                  -> bad
       [] tag \in CloudTags                                      -> [err |-> "none", name |-> OneDrive]
       [] Len(rp) < hdr                                          -> bad
       [] tag \notin {TagSymlink, TagMountPoint}
          /\ (IsReparseTagMicrosoft(tag) \/ ~IsReparseTagNameSurrogate(tag)) -> bad
       [] start + size > Len(rp) \/ size < 2                     -> bad
       [] OTHER -> [err |-> "none", name |-> Translate(name, BackSlash, Slash)]
=============================================================================
