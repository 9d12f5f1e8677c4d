# TLA+ models of ntfs3 `src/inode.c`

This directory models the inode layer of the out-of-tree ntfs3 driver
(`src/inode.c`, with `src/compat.h` holding only kernel-version shims) and
checks it with TLC. Each module keeps the control of the handlers it models:
every state change, every guard, every error path and the order they happen
in. The data is abstracted to what the properties need to tell apart.

## 1. The system and its parts

`inode.c` sits between the VFS and the NTFS metadata layer. The metadata layer
is the run list, the record codec, the attribute enumerator and the extent
resolver in `run.c`, `record.c`, `frecord.c` and `attrib.c`, none of which is in
this repository's `src/`. `inode.c` has these parts:

| Part | Code | State it reads or changes |
|---|---|---|
| Record parser | `ntfs_read_mft` (31-468) | in-memory inode built from one MFT record: mode, `i_size`, `i_valid`, run lists, directory state |
| Inode cache lookup | `ntfs_iget5`, `ntfs_test_inode`, `ntfs_set_inode` (471-505) | VFS inode hash keyed by record number; the sequence-number check |
| Block mapping | `ntfs_get_block_vbo` (515-652) and its wrappers | `i_valid` (advanced on write), buffer flags new/mapped, tail zeroing of the block that straddles `i_valid` |
| Buffered IO | `ntfs_readpage`/`readahead` (674-746), `ntfs_write_begin`/`write_end` (905-1001), `ntfs_writepage(s)` (867-896) | page cache, `i_size`, `i_valid`, disk clusters |
| Direct IO | `ntfs_direct_IO` (749-832) | user buffer, `i_valid` |
| Size change | `ntfs_set_size` (834-865) | `i_size`, `i_valid` through `attr_set_size` |
| Record builder | `ntfs_create_inode` (1200-1672), `ntfs_link_inode` (1674-1733), `ntfs_unlink_inode` (1741-1851), `ntfs_evict_inode` (1853-1864) | MFT bitmap, MFT records (sequence number, FILE_NAME attributes, `hard_links`), directory indexes, `$Reparse`, the cluster bitmap |
| Symlinks | `ntfs_create_reparse_buffer` (1123-1197), `ntfs_readlink_hlp`/`ntfs_get_link` (1866-2041) | reparse payload encoding and decoding |
| Writeback helpers | `ntfs3_write_inode`, `ntfs_sync_inode`, `ntfs_flush_inodes`, `inode_write_data`, `reset_log_file` (1003-1117) | hand dirty records or pages to writeback; the order in which records and directory indexes reach disk |

How the parts interact:
- The parser sets `i_size` and `i_valid`; block mapping and buffered IO then
  keep them and the page cache consistent with the disk.
- The record builder creates records that the parser must later read back,
  and directory entries through which lookups reach `ntfs_iget5`.
- Eviction deletes records whose last name is gone, and the bitmap then
  hands them out again with a bumped sequence number.
- The record builder only marks records and index buffers dirty; the
  writeback helpers and the block device write them back later, each on its
  own. Before changing anything, create, link and unlink mark the volume
  dirty (`ntfs_set_state`), so that a crash image is checked before use;
  nothing in `src/` orders that flag's write before the others.

The behaviours that make this code hard to test:
- **The `i_valid` boundary.** A block that straddles it is read with its tail
  zeroed. A write into it is not marked new, so the buffer layer reads its old
  disk content. `i_valid` moves only when a block at or past it is mapped for
  write. Each of these depends on the order of reads, writes, writebacks and
  evictions, and on whether `i_valid` is block-aligned.
- **Partial failure in the record builder.** Each of `ntfs_create_inode`'s
  eleven fallible calls jumps to an undo label. Link has no undo, and unlink
  of a WIN32/DOS pair takes two index deletions.
- **Record reuse.** Sequence numbers wrap, and a leftover directory entry is
  stale only while its sequence number differs from the record's.

## 2. Modules

### `ValidSize` (+ `MCValidSize`): block mapping, buffered IO, writeback

The state:
- `isize` and `ivalid` are `i_size` and `ni->i_valid`.
- `disk` is the content of the file's clusters. `"G"` is stale garbage, `"Z"`
  is zero and `"D"` is data.
- `cache` holds the page cache, one block per page (`BlockSize` units), with
  the flags present, uptodate, dirty and mapped.
- `content` is what the file holds from the user's point of view.

`Init` is any non-resident file `ntfs_read_mft` can load: any `i_size`, and an
`i_valid` no larger, with its alignment set by the constant `ValidAlign`.

| Definition | Code |
|---|---|
| `GetBlockVbo(vbo, create, size, valid)` | `ntfs_get_block_vbo`: the branch chain that decides mapped, new, and straddle, and the advance of `i_valid` |
| `ReadBlockData` / `DiskBlock` | reading a block through the mapping: zero, tail-zeroed or raw |
| `ReadPage(p)` | `ntfs_readpage`/`ntfs_readahead` through `mpage_readpage` |
| `Write(pos, len, v)` | `ntfs_write_begin` + `ntfs_write_end`, including the `i_size`/`i_valid` extension done by the caller (`ntfs_extend` → `ntfs_set_size` → `attr_set_size`, which is `SetSizeValid`) and the generic `__block_write_begin` rules (a new buffer is zeroed outside the write, a partial write to a not-new, not-uptodate buffer reads the disk block) |
| `Writeback(p)` | `ntfs_writepage(s)` → `block_write_full_page`, which zeroes the page past EOF |
| `EvictPage(p)` | page reclaim of a clean page (kernel, not `inode.c`) |
| `DirectWrite(pos, len, v)` | `ntfs_direct_IO` writing with `ntfs_get_block_direct_IO_W`: the range's dirty pages are written back and its pages dropped; blocks are mapped with `DIO_SKIP_HOLES`, so the direct part stops at the first block at or past `i_valid` that is not the one a write has just mapped (the rest falls back to buffered IO, a separate `Write`); `i_valid` moves to the end of the last block written |
| `Extend(n)` | `ntfs_set_size` growing the file (truncate up, `ntfs_extend`): `i_size` and `i_valid` through `attr_set_size`, zeros past the old end |

### `DirectIO` (+ `MCDirectIO`): O_DIRECT reads

`DirectIO` extends `ValidSize` with `dio`, the last direct read: whether it
hit undefined behaviour (`fault`), the user's memory after it (`mem`) and
what a correct read leaves there (`want`). User memory is a row of units
with pages of `BlockSize` units, and the buffer starts at unit `ua` of the
first page.

| Definition | Code |
|---|---|
| `DirectRead(pos, len, ua)` | `ntfs_direct_IO` reading through `blockdev_direct_IO` and `ntfs_get_block_direct_IO_R`: a block straddling `i_valid` takes the `set_bh_page(bh, bh->b_page, off)` branch of `ntfs_get_block_vbo` with a NULL page (a fault); a mapped block is copied raw, an unmapped one zero-filled; then the page of the user buffer holding offset `i_valid - pos` is zeroed from `i_valid & (PAGE_SIZE - 1)` to its end |

### `ReparseCodec`: the symlink payload

A payload is a sequence of bytes with little-endian fields, and a name a
sequence of UTF-16 units. Targets are ASCII, which `ntfs_nls_to_utf16` and
`ntfs_utf16_to_nls` (in `dir.c`) map unit for byte.

| Definition | Code |
|---|---|
| `ReparseBytes(n)` | `ntfs_reparse_bytes` |
| `CreateReparseBuffer(symname)` | `ntfs_create_reparse_buffer`: `EFBIG` past `MaxReparse`, '/' to `\`, print name at offset 0, substitute name `\??\` + name after it, `Flags = 0` |
| `ReadlinkHlp(isize, rp, buflen)` | `ntfs_readlink_hlp`: the size checks, the tag switch (mount point, symlink, the cloud tags, unknown Microsoft tags, name surrogates with the length `ReparseDataLength - 24` as a u16), the bounds check, the trailing-zero truncation, the store of the unit count through `uni->len` into the parsed payload, the conversion and the terminator `buffer[err] = 0` |
| `GetLinkResult(rcu, nomem, isize, rp)` | `ntfs_get_link`: `ECHILD` in an RCU walk, `ENOMEM` when the buffer's `kmalloc` fails |
| `LE16`, `U16`, `Wide`, `Translate` | the `cpu_to_le16`/`le16_to_cpu` fields, the UTF-16 name, the separator loops |

`DecodeRef(rp)` is the reference: `decode` of spec 4.6, written from the
specification's words over the same byte layout.

### `Symlink` (+ `MCSymlink`): following a link

`Symlink` extends `ReadMft`. After `ntfs_read_mft` made a symlink inode,
`GetLink(rcu, nomem)` is a path walk through it. `mrp` is the resident
payload as the inode's in-memory MFT record holds it, and `links` the
results so far. A resident payload is parsed in place, so what
`ntfs_readlink_hlp` writes stays in `mrp`; a non-resident one is read into
a fresh buffer each time. `LinkAttr` is `ni_find_attr` of the unnamed
ATTR_REPARSE.

### `Namespace` (+ `MCNamespace`): the record builder

The state:
- `freeRecs` is the MFT bitmap.
- `rec[r]` is a record: in use, `seq`, kind, FILE_NAME set, `hard_links`, and
  clusters of a non-resident symlink payload.
- `index[d][n]` is the MFT reference under name `n` of directory `d`.
- `reparse` is `$Reparse`.
- `freeClust` is the volume bitmap.
- `bad` holds the inodes marked by `make_bad_inode`.

Each handler is one step, because it runs under the VFS directory and inode
locks. The fallible call that fails is an input `f`.

| Definition | Code |
|---|---|
| `CreateSteps(kind, big)` | the fallible calls of `ntfs_create_inode`, in order, for a file, a directory, or a resident or non-resident (`big`) symlink |
| `UndoLabel`, `UndoFrom(label)` | the `goto outN` of each call and what `out7`..`out1` undo |
| `NewRecord` | the record written on success (`hard_links = 1`, one POSIX name) |
| `Create(d, n, kind, big, f, r, k)` | `ntfs_create_inode`: `r` is the record `ntfs_look_free_mft` returns, and `k` is the clusters a failing `attr_allocate_clusters` had already taken |
| `Link(r, d, n, f)` | `ntfs_link_inode`: `ni_insert_resident`, then `indx_insert_entry`, then `hard_links++` |
| `Unlink(d, n, f)` | `ntfs_unlink_inode`: `ENOENT` and failures other than `ENOTEMPTY`, `ENOSPC` and `EROFS` mark the inode bad, and a WIN32/DOS name takes its pair with it |
| `Evict(r)` | `ntfs_evict_inode` → `ni_clear`/`ni_delete_all` on a record with no names |
| `NextSeq`, `PairedName`, `FreeRecord` | `mi_format_new`, `paired_name` and `ni_delete_all`, which are outside `src/` and are modelled from the spec |

The initial state holds a file created by Windows with a WIN32 long name and
its DOS short name, so that the pair rules of unlink are exercised.

### `NamespaceDisk` (+ `MCNamespaceDisk`): what reaches the disk

`NamespaceDisk` extends `Namespace` with the disk and the volume flag:
- `diskRec[r]` and `diskIndex[d]` are the record and the directory index as
  last written back (of a record, only the header fields the directories
  depend on: in use, `seq`, FILE_NAMEs).
- `volDirty` is the cached `VOLUME_FLAG_DIRTY` of `sbi->volume.flags`, and
  `diskVol` the flag in the `$Volume` record on disk.

Every state is a possible crash image, so no crash action is needed.

| Definition | Code |
|---|---|
| `DCreate`, `DLink`, `DUnlink` | the handlers of `Namespace`, each preceded by its `ntfs_set_state(sbi, NTFS_DIRTY_DIRTY)` (lines 1304, 1699, 1789); the change stays in memory |
| `DEvict` | `ntfs_evict_inode`, which does not touch the flag |
| `WriteRecord(r)`, `WriteIndex(d)`, `WriteVolume` | `ntfs3_write_inode`, `ntfs_sync_inode`, `writeback_inode`, `ntfs_flush_inodes`: one record, one directory index or the `$Volume` record written back, whenever it differs from the disk, in any order (`ntfs_flush_inodes` starts the io and waits for none of it) |
| `SetState` | `ntfs_set_state` (`fsntfs.c`, not in `src/`; from the spec's per-volume dirty flag): nothing if the cached flag is set, otherwise set it in the in-memory `$Volume` record, which `WriteVolume` writes back later |
| `Remount` | `ntfs_put_super` then `ntfs_fill_super` (not in `src/`; from the spec): everything written back, no inode left, the flag cleared |

The specification gives the volume a dirty flag but does not say when it
reaches the disk, and `src/` does not wait for it: the handlers ignore
`ntfs_set_state`'s result, and the writeback idiom of this file
(`writeback_inode`, `sync_inode_metadata(inode, 0)`) starts io without
waiting. So `$Volume` is written back in any order with the rest, as every
other buffer is. If `ntfs_set_state` in `fsntfs.c` does wait for its write,
`SetState` would also set `diskVol`, and `CrashImageMarked` would then hold.

### `ReadMft` (+ `MCReadMft`): the record parser

`ReadMft` is the attribute walk of `ntfs_read_mft`, one step per pass through
its `goto` loop. `rec` is the record, and `look` is the name number the
lookup passed (0 for none). `pc` is the label: `start`, `walk`, `attr`, then
`ok` or `err`. The other variables are the inode fields the walk sets:
- `std5`, the read-only bit of the first STANDARD_INFORMATION;
- `mode`, `isDir`, `isRoot`;
- `names`, the count of non-DOS names;
- `isMatch`, `isize`, `ivalid`, `niFlags`, `comp`, `nlink`.

| Definition | Code |
|---|---|
| `Start` | `mi_init`/`mi_read` and the record-header checks: a stale sequence number or a free record is `EINVAL` |
| `NextAttr`, `Skip` | `next_attr`: `ni_enum_attr_ex`, the skip of non-primary segments, and the `default` case |
| `OnStd`, `OnList`, `OnName`, `OnData`, `OnRoot`, `OnAlloc`, `OnBitmap`, `OnReparse`, `OnEaInfo` | the cases of the switch. `OnList` loads the list and restarts the walk. `OnName` skips DOS names before the lookup comparison. `OnReparse` turns a directory into a symlink. |
| `EndEnum` | `end_enum`: the error precedence, then `nlink` and the mode |
| `CreateLayout` | the attributes `ntfs_create_inode` writes, for each kind and option; a symlink's REPARSE holds `CreateReparseBuffer(symname)` and its size is the payload's length |
| `ParseReparse` | `ni_parse_reparse` (in `frecord.c`, modelled from the spec): symlinks, mount points and name surrogates are links, other tags (OneDrive's) placeholders |
| `Walked` | `ni_enum_attr_ex` (outside `src/`, modelled from the spec): the list when one was loaded, else the record |

`Expected(r, lk)` is the reference. It is a declarative statement of the
inode a record defines, taken from the record's logical attributes: the
primary segments of the list, or the record itself.

`MCReadMft` builds every record from small choice sets:
- the STD set, the NAME set (POSIX, WIN32, WIN32+DOS, none), the body and the
  EA_INFO;
- each one plain, and split by an attribute list that repeats non-resident
  DATA as a secondary segment;
- stale and free headers;
- reparse points with the payloads Windows writes: junctions with the print
  name after and before the substitute name (the latter also non-resident),
  a relative symlink, a third-party name surrogate, an unknown Microsoft
  surrogate, a junction whose print name runs past the payload, and a
  OneDrive placeholder;
- every record `CreateLayout` writes, symlinks for every target over `a`
  and `/` of at most two characters (`"/a/"` is `EFBIG` at `MaxReparse = 36`
  and writes no record).

### `FileContent`: the abstract file

A file is a sequence of values of length at most `MaxSize`. A write at `pos`
of `len` copies of `v` extends the file to `pos + len` if needed, and fills
any gap with `Zero`, as POSIX does; growing the size appends zeros. `ValidSize` defines `File` as
`INSTANCE FileContent WITH file <- [i \in 1..isize |-> Observed(i-1)]`.
`Observed` is what `read(2)` returns: an uptodate page if there is one, else
the block as `ntfs_get_block_vbo` maps it from disk. `Implements` states that
`ValidSize!Spec` implements `File!Spec`.

### `Icache` (+ `MCIcache`): the inode cache over the namespace

`Icache` composes `Namespace` (through `NS == INSTANCE Namespace`) with two
more variables:
- `cached`, the record numbers with an inode in the inode hash;
- `handles`, the references clients keep as file handles.

| Definition | Code |
|---|---|
| `Iget(ref)` | `ntfs_iget5`. A cached inode whose record's `seq` differs from the reference is made bad (`make_bad_inode`, line 501). An uncached one is read, and stays hashed only if the record is in use under the same `seq`. |
| `Create` | `ntfs_create_inode` followed by the hashing of the new inode, on success |
| `Link`, `Unlink` | `NS!Link`/`NS!Unlink` on the inode of a dentry, which is cached |
| `Evict` | `NS!Evict`, which also unhashes the inode |
| `Export(d, n)` | a client keeping the reference under a name (NFS export, not in `src/`; unmapped) |

## 3. Runs

| Run | Checks | Result |
|---|---|---|
| `validsize_aligned` (`ValidSizeAligned.cfg`, `ValidAlign = 2 = BlockSize`) | `TypeOK`, `CacheCoherent` (an uptodate page shows the content), `DiskReadable` (a clean page re-read from disk shows the content), `Implements` (refinement of `FileContent`) | pass |
| `validsize_prefix` (`ValidSizePrefix.cfg`, any `i_valid`) | `ValidPrefixIntact` (bytes below `i_valid` are right in cache and on disk) | pass |
| `validsize_garbage` | `CacheCoherent` with an unaligned `i_valid` | violation: a partial write into the straddling block reads stale disk bytes |
| `namespace` (`Namespace.cfg`, every fallible call of create may fail, except `ntfs_init_acl` with ACLs off) | `TypeOK`, `IndexMatchesRecords`, `LinksMatchNames`, `PoolsAccounted` | pass |
| `namespace_acl_fail` | `IndexMatchesRecords` with ACLs on and `ntfs_init_acl` failing | violation: out6 skips the index-entry undo |
| `namespace_link_fail` | `IndexMatchesRecords` with the link's index insert failing | violation: the FILE_NAME stays in the record |
| `namespace_crash` (`MCNamespaceDisk`, `NamespaceDisk.cfg`) | `CrashImageMarked` (a crash image whose `$Volume` says clean has consistent directories) | violation: a create, then its directory index written back before `$Volume`, leaves a clean-marked disk whose entry names a free record |
| `readmft` (`MCSymlink`, `Symlink.cfg`, lookups by non-DOS names) | `ReadMatchesReference` (every record reads as `Expected` defines), `CreateReadBack` (a created record reads back with its kind, size, `nlink = 1` and read-only bit), `LinkReadBack` (a created symlink gives its target back through every get_link, zero-terminated, after earlier get_links wrote into the record), `Terminates` (the walk always returns, despite the ATTR_LIST restart) | pass |
| `readmft_dos_lookup` | `ReadMatchesReference` with lookups by DOS names | violation: a short-name lookup of an uncached file fails with `ENOENT` |
| `icache_stale_handle` | `StaleRefHarmless` | violation: a handle kept across unlink, eviction and reuse makes the new file's cached inode bad |
| `directio_read` (`MCDirectIO`, aligned `i_valid`) | `DirectReadReturnsContent` (a direct read returns the content and touches no user memory outside its buffer) | violation: reading 3 units from 0 of a 2-unit file zeroes the user unit after the buffer |
| `symlink_reference` (`MCSymlink`, the records with Windows-defined payloads) | `GetLinkMatchesReference` (every get_link gives `DecodeRef` of the payload on disk, terminated) | violation: a second walk through a resident junction whose print name comes first returns `/` instead of `/a` |

The findings these violations show are recorded in `PROJECT.json`. Every
property of a passing run has a mutant there: a plausible bug in the mapped
definition that TLC catches.

**Bounds.**
- `ValidSize` has a 2-unit block and a 6-unit maximum size. That gives three
  pages, so a page below, one straddling and one past `i_valid` all occur, and
  every alignment of `i_valid` inside a block occurs too.
- `Namespace` has three records, one of them Windows-created. The other two
  are enough for a create to fail, and for a record to be reused with a
  wrapped sequence number (`MaxSeq = 2`).
- `Namespace` also has two directories, one user name, three clusters and a
  2-cluster symlink payload. With three clusters, one payload fits and a
  second does not, so both the allocation failure and the partial allocation
  happen. A second user name put the run past five minutes without adding a
  new kind of interleaving, since all names are symmetric.

- `NamespaceDisk` has two records (the Windows file and one that is
  created, freed and reused) and one directory, with unlink's two failures.
  Create's failures are left out: each is undone in memory before anything
  is written back, so they reach no crash image that a successful call does
  not. The counterexample needs three steps; with the flag written
  synchronously the same instance has 482,724 states and passes.

- `ReadMft` runs on every record built from the choice sets, 66,528 states
  in all. It covers every attribute kind, every name namespace, a directory
  with a symlink reparse point, two STDs, and both the plain and the split
  form of each record. Attribute values are 0..2, enough to tell a size from
  a valid length and one name from another.
- `Symlink` adds up to two get_links per symlink inode (`MaxGetLinks`):
  the second one parses what the first wrote. Names are two units, the
  largest payload 36 bytes, and `PageSize = 4` exceeds every name, so the
  terminator's overflow (`inode.c:2013`) is not reached in these runs;
  209,488 states.
- `DirectIO` uses the `ValidSize` bounds, with the user buffer starting at
  either unit of a page.
- `Icache` has two records and two directories, enough for a record to be
  freed and reused under a handle while the other one is cached. It has
  only its violation run: a lookup through a directory entry is one atomic
  step, and with no failing call no entry is ever stale, so properties about
  cached inodes or entry lookups held by the model's shape alone.

**Fairness.** `ReadMft` is `Init /\ [][Next]_vars /\ WF_vars(Next)`, and
`Symlink` keeps the same weak fairness for the read steps only: a path walk
through a link is a client's choice.
`ntfs_read_mft` is one sequential call with no waits, so once it is running
it keeps taking steps. `Terminates` then shows that the `goto` loop ends, and
that the ATTR_LIST restart happens only once. The other specifications are
safety-only, since their steps are system calls that a client may never make.

## 4. Not modelled, and the plan

Done from the earlier plans: `ReadMft` with the create/read-back check,
`Icache`, the refinement of `FileContent`, direct IO (direct writes in
`ValidSize`, reads in `DirectIO`), `ntfs_set_size` growth (`Extend`), and
the reparse codec composed with `ReadMft` (`ReparseCodec`, `Symlink`).
Under an unaligned `i_valid`, `DiskReadable` also fails, through the same
`vbo < valid` branch whose stale-bytes effect `validsize_garbage` shows;
the project keeps one violation run for that branch. The cloud branch of
`ntfs_readlink_hlp` returns "OneDrive" without a terminator, but
`ni_parse_reparse` never makes such a record a symlink, so `get_link` is
not called on it. No liveness property is
checked for `Icache`: a lookup is one step, so "a lookup eventually returns"
would hold only because of how the model is shaped.

The plan, in order:
1. Direct IO on resident files and block devices, and `ntfs_set_size`
   shrinking a file (truncate down through `attr_set_size`).
2. A third-party name surrogate in `symlink_reference`'s records: TLC then
   shows first that its name is read with the wrong length (`inode.c:1985`).

Not modelled at all:
- `reset_log_file` and `inode_write_data`, page-by-page loops over the page
  cache with no state of their own.
- The operation tables and `bmap`, which have no state.
- The metadata codecs outside `src/`, whose effects are taken from the spec
  where `inode.c` depends on them.
- In `ntfs_read_mft`: the system-file special cases (`$MFT`, `$LogFile`,
  `$BadClus`, `$Secure`), run-list unpack failures, timestamps and ids.
- A failing `ntfs_set_state`: what it leaves in the cached flag is decided
  in `fsntfs.c`, outside `src/`.
- Symlink targets outside ASCII, and the NLS tables that convert them.
