----------------------------- MODULE ValidSize -----------------------------
(***************************************************************************)
(* The valid-size logic of the buffered data path of a non-resident,      *)
(* non-sparse, non-compressed file (src/inode.c):                          *)
(*   ntfs_get_block_vbo    -- maps one block, moves ni->i_valid on write,  *)
(*                            zeroes the tail of a block straddling valid; *)
(*   ntfs_readpage         -- fills a page through ntfs_get_block;         *)
(*   ntfs_write_begin/end  -- the page-cache write path;                   *)
(*   ntfs_writepage        -- writes a dirty page back;                    *)
(*   ntfs_direct_IO        -- an O_DIRECT write (reads are in DirectIO);   *)
(*   ntfs_set_size         -- extends the data attribute.                  *)
(*                                                                         *)
(* Offsets are counted in small units (a unit stands for a run of bytes    *)
(* smaller than a block).  One page holds one block (PAGE_SIZE equal to    *)
(* the block size) and one cluster is one block, so each page has a single *)
(* buffer_head.  The disk holds, per unit of the file, what was last       *)
(* written there: "D" (user data), "Z" (zeroes) or "G" (garbage left by    *)
(* whatever used the cluster before).  content is the history variable    *)
(* holding what POSIX says the file contains.                              *)
(***************************************************************************)
EXTENDS Naturals, FiniteSets

CONSTANTS
  BlockSize,  \* units per block (= per page, = per cluster)
  MaxSize,    \* largest file size, in units, the model explores
  ValidAlign  \* initial valid sizes are multiples of this

ASSUME BlockSize \in Nat \ {0, 1}
ASSUME MaxSize \in Nat /\ MaxSize % BlockSize = 0 /\ MaxSize > 0
ASSUME ValidAlign \in 1 .. BlockSize

VARIABLES
  isize,    \* inode->i_size
  ivalid,   \* ni->i_valid
  disk,     \* disk[u]: what the cluster behind file unit u holds
  cache,    \* cache[p]: the page cache page p and its buffer_head
  content   \* history: what a read of unit u must return

vars == <<isize, ivalid, disk, cache, content>>

Units == 0 .. MaxSize - 1
Pages == 0 .. (MaxSize \div BlockSize) - 1
Vals == {"G", "Z", "D"}
WriteVals == {"Z", "D"}              \* what a write(2) may store
Offs == 0 .. BlockSize - 1           \* unit offsets inside a page

Start(p) == p * BlockSize            \* vbo of the block of page p
UnitsOf(p) == {Start(p) + i : i \in Offs}

\* A page that is not in the page cache.
NoPage == [present |-> FALSE, uptodate |-> FALSE, dirty |-> FALSE,
           mapped |-> FALSE, data |-> [i \in Offs |-> "G"]]

\* The page contents read raw from disk for page p.
DiskBlock(p) == [i \in Offs |-> disk[Start(p) + i]]

(***************************************************************************)
(* ntfs_get_block_vbo for a non-resident, fully allocated attribute with  *)
(* b_size equal to one block.  attr_data_get_block always finds a real     *)
(* lcn with len >= 1 below i_size because attr_set_size allocates every    *)
(* cluster up to i_size of a non-sparse file, so bytes >= block_size and   *)
(* "normal read" and "normal short read" both map the whole block.         *)
(* Result: whether the buffer is mapped, set new, whether the block is     *)
(* the one straddling valid (read and tail-zeroed here), and the new       *)
(* ni->i_valid.                                                            *)
(***************************************************************************)
\* Variants of ntfs_get_block_vbo with a plausible slip: the normal-write
\* branch forgetting set_buffer_new, and forgetting to move ni->i_valid.
GetBlockVboNoNew(vbo, create, size, valid) ==
  LET R(m, n, s, v) == [mapped |-> m, new |-> n, straddle |-> s, valid |-> v]
  IN CASE ~create /\ vbo >= valid    -> R(FALSE, FALSE, FALSE, valid)
       [] vbo >= size                 -> R(FALSE, FALSE, FALSE, valid)
       [] create /\ vbo >= valid      -> R(TRUE, FALSE, FALSE, vbo + BlockSize)
       [] create                      -> R(TRUE, FALSE, FALSE, valid)
       [] valid >= size               -> R(TRUE, FALSE, FALSE, valid)
       [] vbo + BlockSize <= valid    -> R(TRUE, FALSE, FALSE, valid)
       [] OTHER                       -> R(TRUE, FALSE, TRUE, valid)

GetBlockVboNoAdvance(vbo, create, size, valid) ==
  LET R(m, n, s, v) == [mapped |-> m, new |-> n, straddle |-> s, valid |-> v]
  IN CASE ~create /\ vbo >= valid    -> R(FALSE, FALSE, FALSE, valid)
       [] vbo >= size                 -> R(FALSE, FALSE, FALSE, valid)
       [] create /\ vbo >= valid      -> R(TRUE, TRUE, FALSE, valid)
       [] create                      -> R(TRUE, FALSE, FALSE, valid)
       [] valid >= size               -> R(TRUE, FALSE, FALSE, valid)
       [] vbo + BlockSize <= valid    -> R(TRUE, FALSE, FALSE, valid)
       [] OTHER                       -> R(TRUE, FALSE, TRUE, valid)

\* Variant moving ni->i_valid by the whole run (two blocks) instead of
\* clamping bytes to bh->b_size.
GetBlockVboUnclamped(vbo, create, size, valid) ==
  LET R(m, n, s, v) == [mapped |-> m, new |-> n, straddle |-> s, valid |-> v]
  IN CASE ~create /\ vbo >= valid    -> R(FALSE, FALSE, FALSE, valid)
       [] vbo >= size                 -> R(FALSE, FALSE, FALSE, valid)
       [] create /\ vbo >= valid      -> R(TRUE, TRUE, FALSE, vbo + 2 * BlockSize)
       [] create                      -> R(TRUE, FALSE, FALSE, valid)
       [] valid >= size               -> R(TRUE, FALSE, FALSE, valid)
       [] vbo + BlockSize <= valid    -> R(TRUE, FALSE, FALSE, valid)
       [] OTHER                       -> R(TRUE, FALSE, TRUE, valid)

GetBlockVbo(vbo, create, size, valid) ==
  LET R(m, n, s, v) == [mapped |-> m, new |-> n, straddle |-> s, valid |-> v]
  IN CASE ~create /\ vbo >= valid    -> R(FALSE, FALSE, FALSE, valid)
       [] vbo >= size                 -> R(FALSE, FALSE, FALSE, valid)
       [] create /\ vbo >= valid      -> R(TRUE, TRUE, FALSE, vbo + BlockSize)
       [] create                      -> R(TRUE, FALSE, FALSE, valid)
       [] valid >= size               -> R(TRUE, FALSE, FALSE, valid)
       [] vbo + BlockSize <= valid    -> R(TRUE, FALSE, FALSE, valid)
       [] OTHER                       -> R(TRUE, FALSE, TRUE, valid)

\* What one block of page p holds after a read through get_block: a hole
\* is zero-filled by mpage, the straddling block is read and zeroed from
\* valid on, any other mapped block is read as is.
\* Variant zeroing the whole straddling block (voff dropped).
ReadBlockDataWholeZero(p, gb) ==
  [i \in Offs |-> IF ~gb.mapped \/ gb.straddle THEN "Z" ELSE disk[Start(p) + i]]

ReadBlockData(p, gb) ==
  [i \in Offs |->
     IF ~gb.mapped \/ (gb.straddle /\ Start(p) + i >= ivalid)
     THEN "Z" ELSE disk[Start(p) + i]]

(***************************************************************************)
(* ntfs_set_size: attr_set_size(..., new_size, &ni->i_valid, true, ...)   *)
(* allocates clusters up to new_size and clamps the valid size to it.     *)
(* Allocation is implicit (every unit below MaxSize has a cluster whose    *)
(* old contents are in disk); only the clamp is state.                     *)
(***************************************************************************)
SetSizeValid(newSize) == IF ivalid < newSize THEN ivalid ELSE newSize

(***************************************************************************)
(* Init: a file as ntfs_read_mft finds it on the volume: i_size and        *)
(* i_valid are the data_size and valid_size of its $DATA attribute, with   *)
(* valid_size <= data_size and neither aligned to a block (other NTFS      *)
(* implementations store byte-exact sizes).  Below valid the clusters hold *)
(* the file's data, from valid on whatever they held before; nothing is    *)
(* cached yet.  Size 0 is the file ntfs_create_inode makes.                *)
(***************************************************************************)
Init ==
  /\ isize \in 0 .. MaxSize
  /\ ivalid \in {v \in 0 .. isize : v % ValidAlign = 0}
  /\ disk \in {d \in [Units -> Vals] :
                \A u \in Units : d[u] = "G" <=> u >= ivalid}
  /\ cache = [p \in Pages |-> NoPage]
  /\ content = [u \in Units |-> IF u < ivalid THEN disk[u] ELSE "Z"]

(***************************************************************************)
(* ReadPage(p): ntfs_readpage of an uncached page (mpage_readpage with     *)
(* ntfs_get_block), and ntfs_readahead, which reads such pages the same    *)
(* way.  mpage attaches no buffer_heads to the page except when get_block  *)
(* already made the block uptodate (the straddling block), where it falls  *)
(* back to block_read_full_page and the buffer stays mapped.               *)
(***************************************************************************)
ReadPage(p) ==
  LET gb == GetBlockVbo(Start(p), FALSE, isize, ivalid)
  IN /\ ~cache[p].present
     /\ cache' = [cache EXCEPT ![p] =
                    [present |-> TRUE, uptodate |-> TRUE, dirty |-> FALSE,
                     mapped |-> gb.straddle, data |-> ReadBlockData(p, gb)]]
     /\ UNCHANGED <<isize, ivalid, disk, content>>

(***************************************************************************)
(* Write(pos, len, v): one page-sized step of a buffered write(2) storing  *)
(* v in units pos .. pos+len-1 of one page.  The caller has already        *)
(* zero-filled any gap beyond the valid size (pos <= i_valid) and, when    *)
(* the write ends past i_size, extended the file with ntfs_set_size.       *)
(* ntfs_write_begin -> block_write_begin: an unmapped buffer is mapped     *)
(* through ntfs_get_block_vbo(create); a new buffer of a page that is not  *)
(* uptodate has the units outside the write zeroed; an old one is read     *)
(* raw from disk when the write covers only part of it.  The data is then  *)
(* copied and ntfs_write_end -> generic_write_end marks the page uptodate  *)
(* and dirty.                                                              *)
(***************************************************************************)
Write(pos, len, v) ==
  LET p     == pos \div BlockSize
      from  == pos - Start(p)
      to    == from + len
      end   == pos + len
      size1 == IF end > isize THEN end ELSE isize
      valid1 == IF end > isize THEN SetSizeValid(end) ELSE ivalid
      pg    == IF cache[p].present THEN cache[p] ELSE NoPage
      gb    == GetBlockVbo(Start(p), TRUE, size1, valid1)
      callGb == ~pg.mapped
      isNew  == callGb /\ gb.new
      partial == from > 0 \/ to < BlockSize
      before ==
        CASE pg.uptodate         -> pg.data
          [] isNew               -> [i \in Offs |-> IF i < from \/ i >= to THEN "Z" ELSE pg.data[i]]
          [] partial             -> DiskBlock(p)
          [] OTHER               -> pg.data
  IN /\ len > 0
     /\ pos <= ivalid
     /\ from + len <= BlockSize
     /\ end <= MaxSize
     /\ isize' = size1
     /\ ivalid' = IF callGb THEN gb.valid ELSE valid1
     /\ cache' = [cache EXCEPT ![p] =
                    [present |-> TRUE, uptodate |-> TRUE, dirty |-> TRUE,
                     mapped |-> pg.mapped \/ (callGb /\ gb.mapped),
                     data |-> [i \in Offs |-> IF from <= i /\ i < to
                                             THEN v ELSE before[i]]]]
     /\ content' = [u \in Units |-> IF pos <= u /\ u < end THEN v ELSE content[u]]
     /\ UNCHANGED disk

(***************************************************************************)
(* Writeback(p): ntfs_writepage / ntfs_writepages -> block_write_full_page *)
(* of a dirty page.  The part of the page past i_size is zeroed before    *)
(* the block goes to disk.  The buffer was mapped by write_begin, so       *)
(* get_block is not called.  (A dirty page wholly beyond i_size exists     *)
(* only after a truncate, which this module does not model.)               *)
(***************************************************************************)
Writeback(p) ==
  LET data == [i \in Offs |-> IF Start(p) + i >= isize THEN "Z"
                              ELSE cache[p].data[i]]
  IN /\ cache[p].present /\ cache[p].dirty
     /\ disk' = [u \in Units |-> IF u \in UnitsOf(p)
                                 THEN data[u - Start(p)] ELSE disk[u]]
     /\ cache' = [cache EXCEPT ![p].dirty = FALSE, ![p].data = data]
     /\ UNCHANGED <<isize, ivalid, content>>

\* The end of the block holding unit x - 1: the units a block mapping
\* below x reaches.
BlockEnd(x) == ((x + BlockSize - 1) \div BlockSize) * BlockSize

(***************************************************************************)
(* Extend(n): ntfs_set_size growing the file to n, as ntfs_extend does    *)
(* before a write that ends past i_size, and as a truncate up does.       *)
(***************************************************************************)
Extend(n) ==
  /\ isize < n
  /\ isize' = n
  /\ ivalid' = SetSizeValid(n)
  /\ content' = [u \in Units |-> IF u >= isize THEN "Z" ELSE content[u]]
  /\ UNCHANGED <<disk, cache>>

(***************************************************************************)
(* DirectWrite(pos, len, v): the direct part of an O_DIRECT write(2)      *)
(* inside i_size (Extend has grown the file first when the write ends     *)
(* past it).  filemap_write_and_wait_range                                 *)
(* has written the range's dirty pages back (no dirty page in the range). *)
(* blockdev_direct_IO maps the blocks with ntfs_get_block_direct_IO_W;    *)
(* DIO_SKIP_HOLES passes create = 0 inside i_size, so a block starting at *)
(* or past i_valid is left unmapped and the direct write stops there with *)
(* ret bytes written; the rest goes through the buffered fallback (Write  *)
(* steps).  ntfs_direct_IO then moves i_valid to pos + ret if that is     *)
(* past it, and generic_file_direct_write invalidates the range's pages.  *)
(***************************************************************************)
DirectWrite(pos, len, v) ==
  LET end    == pos + len
      dend   == IF end < BlockEnd(ivalid) THEN end ELSE BlockEnd(ivalid)
      inRange(p) == Start(p) < end /\ pos < Start(p) + BlockSize
  IN /\ len > 0
     /\ pos <= ivalid
     /\ end <= isize
     /\ pos < dend
     /\ \A p \in Pages : inRange(p) => ~cache[p].dirty
     /\ UNCHANGED isize
     /\ ivalid' = IF dend > ivalid THEN dend ELSE ivalid
     /\ disk' = [u \in Units |-> IF pos <= u /\ u < dend THEN v ELSE disk[u]]
     /\ cache' = [p \in Pages |-> IF inRange(p) THEN NoPage ELSE cache[p]]
     /\ content' = [u \in Units |-> IF pos <= u /\ u < dend THEN v ELSE content[u]]

\* Reclaim of a clean page (memory pressure); its buffer_heads go with it.
EvictPage(p) ==
  /\ cache[p].present /\ ~cache[p].dirty
  /\ cache' = [cache EXCEPT ![p] = NoPage]
  /\ UNCHANGED <<isize, ivalid, disk, content>>

Next ==
  \/ \E p \in Pages : ReadPage(p) \/ Writeback(p) \/ EvictPage(p)
  \/ \E pos \in Units, len \in 1 .. BlockSize, v \in WriteVals : Write(pos, len, v)
  \/ \E pos \in Units, len \in 1 .. MaxSize, v \in WriteVals : DirectWrite(pos, len, v)
  \/ \E n \in 1 .. MaxSize : Extend(n)

Spec == Init /\ [][Next]_vars

-----------------------------------------------------------------------------
TypeOK ==
  /\ isize \in 0 .. MaxSize
  /\ ivalid \in 0 .. MaxSize
  /\ disk \in [Units -> Vals]
  /\ content \in [Units -> WriteVals]
  /\ cache \in [Pages -> [present : BOOLEAN, uptodate : BOOLEAN, dirty : BOOLEAN,
                          mapped : BOOLEAN, data : [Offs -> Vals]]]

\* Every uptodate cached page shows, below i_size, exactly what was
\* written (a read(2) served from the page cache neither leaks garbage from
\* the cluster nor loses data): ntfs_get_block_vbo's valid-size handling
\* together with block_write_begin.
CacheCoherent ==
  \A p \in Pages : cache[p].present /\ cache[p].uptodate =>
     \A i \in Offs : Start(p) + i < isize => cache[p].data[i] = content[Start(p) + i]

\* A page read from disk now (ntfs_readpage of an evicted page) would show
\* what was written: for every clean or uncached page, the get_block read
\* path over the current disk, i_size and i_valid yields content.
DiskReadable ==
  \A p \in Pages : ~cache[p].dirty =>
     LET d == ReadBlockData(p, GetBlockVbo(Start(p), FALSE, isize, ivalid))
     IN \A i \in Offs : Start(p) + i < isize => d[i] = content[Start(p) + i]

\* Below the valid size (and i_size) the data is never wrong, wherever the
\* valid size lies: an uptodate cached page, and a page re-read from disk
\* by ntfs_readpage, both show what was written there.
ValidPrefixIntact ==
  LET below(u) == u < isize /\ u < ivalid
  IN \A p \in Pages :
       /\ cache[p].present /\ cache[p].uptodate =>
            \A i \in Offs : below(Start(p) + i) => cache[p].data[i] = content[Start(p) + i]
       /\ ~cache[p].dirty =>
            LET d == ReadBlockData(p, GetBlockVbo(Start(p), FALSE, isize, ivalid))
            IN \A i \in Offs : below(Start(p) + i) => d[i] = content[Start(p) + i]

\* What read(2) of unit u returns now: the cached page if it is
\* uptodate, otherwise what ntfs_readpage would read from disk.
Observed(u) ==
  LET p == u \div BlockSize
  IN IF cache[p].present /\ cache[p].uptodate
     THEN cache[p].data[u - Start(p)]
     ELSE ReadBlockData(p, GetBlockVbo(Start(p), FALSE, isize, ivalid))[u - Start(p)]

File == INSTANCE FileContent WITH
          file <- [i \in 1 .. isize |-> Observed(i - 1)],
          Data <- WriteVals, Zero <- "Z"

\* The buffered IO path implements a plain file: mapped to what read(2)
\* returns (from the page cache or through ntfs_get_block_vbo from disk),
\* every write_begin/write_end and every direct write is a write of the
\* abstract file, ntfs_set_size growing the file is its growth, and every
\* readpage, writepage and page eviction leaves what a reader sees as it
\* was.
Implements == File!Spec
=============================================================================
