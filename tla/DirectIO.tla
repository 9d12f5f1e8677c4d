------------------------------ MODULE DirectIO ------------------------------
(***************************************************************************)
(* O_DIRECT reads of the file of ValidSize: ntfs_direct_IO with           *)
(* ntfs_get_block_direct_IO_R.  blockdev_direct_IO maps each block with    *)
(* ntfs_get_block_vbo (create = 0) and copies between the disk and the     *)
(* user's pages: a mapped block is copied raw, an unmapped one (a block at *)
(* or past i_valid) is zero-filled in the user's page.  Afterwards         *)
(* ntfs_direct_IO "fixes" the user page that holds file offset i_valid     *)
(* when the read crosses it.                                               *)
(*                                                                         *)
(* User memory is a row of units whose pages have BlockSize units (the     *)
(* page size of the model); the buffer starts at unit ua of the first page *)
(* (O_DIRECT aligns it to the sector, not to the page).  dio records the   *)
(* last direct read: its arguments, the user memory after it, and what a   *)
(* correct read leaves there.                                              *)
(***************************************************************************)
EXTENDS ValidSize

VARIABLE dio

dvars == <<isize, ivalid, disk, cache, content, dio>>

UAddrs == 0 .. MaxSize + BlockSize - 1

\* User memory the read does not touch, and bytes it may leave as it likes.
Untouched == "U"
DontCare == "*"

NoRead == [fault |-> FALSE, mem |-> [a \in UAddrs |-> Untouched],
           want |-> [a \in UAddrs |-> Untouched]]

(***************************************************************************)
(* DirectRead(pos, len, ua): read(2) of len units at pos with O_DIRECT    *)
(* into a buffer at user unit ua.  generic_file_read_iter has written the *)
(* range's dirty pages back (filemap_write_and_wait_range) and the read   *)
(* starts below i_size.  A block straddling i_valid makes                  *)
(* ntfs_get_block_vbo call set_bh_page(bh, bh->b_page, off) and read into  *)
(* it; the buffer_head of a direct read has no page, so the read goes to   *)
(* an address derived from a NULL page: undefined, recorded as fault.      *)
(* Otherwise each requested unit below i_size rounded up to a block gets   *)
(* the disk data of a mapped block or zeroes.  Then, if pos < i_valid <    *)
(* end, the user page holding offset i_valid - pos of the buffer is zeroed *)
(* from unit i_valid % PAGE_SIZE to its end.                               *)
(***************************************************************************)
DirectRead(pos, len, ua) ==
  LET end == pos + len
      inRange(p) == Start(p) < end /\ pos < Start(p) + BlockSize
      gb(p) == GetBlockVbo(Start(p), FALSE, isize, ivalid)
      fault == \E p \in Pages : inRange(p) /\ Start(p) < isize /\ gb(p).straddle
      fileOf(a) == pos + a - ua
      copied(a) == ua <= a /\ fileOf(a) < end /\ fileOf(a) < BlockEnd(isize)
      filled == [a \in UAddrs |->
                   IF ~copied(a) THEN Untouched
                   ELSE IF gb(fileOf(a) \div BlockSize).mapped
                        THEN disk[fileOf(a)] ELSE "Z"]
      upage == ((ua + ivalid - pos) \div BlockSize) * BlockSize
      fixed == [a \in UAddrs |->
                  IF upage + (ivalid % BlockSize) <= a /\ a < upage + BlockSize
                  THEN "Z" ELSE filled[a]]
      want == [a \in UAddrs |->
                 CASE ua <= a /\ fileOf(a) < end /\ fileOf(a) < isize -> content[fileOf(a)]
                   [] ua <= a /\ fileOf(a) < end                       -> DontCare
                   [] OTHER                                            -> Untouched]
  IN /\ len > 0 /\ pos < isize /\ end <= MaxSize
     /\ \A p \in Pages : inRange(p) => ~cache[p].dirty
     /\ dio' = [fault |-> fault,
                mem |-> IF ~fault /\ pos < ivalid /\ ivalid < end THEN fixed ELSE filled,
                want |-> want]
     /\ UNCHANGED <<isize, ivalid, disk, cache, content>>

DioInit == Init /\ dio = NoRead

DioNext ==
  \/ Next /\ UNCHANGED dio
  \/ \E pos \in Units, len \in 1 .. MaxSize, ua \in Offs : DirectRead(pos, len, ua)

DioSpec == DioInit /\ [][DioNext]_dvars

-----------------------------------------------------------------------------
\* A direct read returns what the file holds and touches no user memory
\* outside its buffer: blockdev_direct_IO through
\* ntfs_get_block_direct_IO_R, then ntfs_direct_IO's zeroing of the page
\* that holds i_valid, leave every returned unit equal to the content and
\* every other unit of the user's memory as it was.
DirectReadReturnsContent ==
  /\ ~dio.fault
  /\ \A a \in UAddrs : dio.want[a] = DontCare \/ dio.mem[a] = dio.want[a]
=============================================================================
