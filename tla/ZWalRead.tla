------------------------------ MODULE ZWalRead ------------------------------
(***************************************************************************)
(* Reading a ZWAL log back: after a clean Close in the same mount, or      *)
(* after a crash and a mount, which recovers the active extent from the    *)
(* zone's write pointer (Recover, RecoverSparseExtents).  A sequential     *)
(* reader (ZonedSequentialFile::Read over WALPositionedRead) then loads    *)
(* the log chunk by chunk, sorts each chunk by sequence number and copies  *)
(* entry i where the extent list says extent i is.                         *)
(***************************************************************************)
EXTENDS ZWal, SequencesExt

CONSTANTS
  ReadSize    \* n of the reader's Read(n) calls

ASSUME ReadAssumption == ReadSize \in Nat \ {0}

VARIABLES
  mode,                 \* "run", "crashed", "recover", "mounted" or "failed"
  next_extent_start,    \* of RecoverSparseExtents
  \* loaded_wal_chunks_ and the reader's position in the ZoneFile
  wal_entries_, start_, end_, jump_, chunk_id_,
  reader_offset_, reader_offset_index_,
  \* the running WALPositionedRead
  pc, stage, r_off, extend_id, read, r_sz,
  rp,                   \* of the ZonedSequentialFile
  result                \* history: the units the reader was given

recovery == <<mode, next_extent_start>>
chunks == <<wal_entries_, start_, end_, jump_, chunk_id_>>
call == <<pc, stage, r_off, extend_id, read, r_sz>>
position == <<reader_offset_, reader_offset_index_, rp, result>>
rvars == <<recovery, chunks, call, position>>
allvars == <<vars, rvars>>

ReaderInit ==
  /\ mode = "run" /\ next_extent_start = 0
  /\ wal_entries_ = << >> /\ start_ = 1 /\ end_ = 0 /\ jump_ = 0 /\ chunk_id_ = 0
  /\ reader_offset_ = 0 /\ reader_offset_index_ = 0
  /\ pc = "idle" /\ stage = "first" /\ r_off = 0 /\ extend_id = 0 /\ read = 0 /\ r_sz = 0
  /\ rp = 0 /\ result = << >>

-----------------------------------------------------------------------------
(***************************************************************************)
(* Crash and mount                                                         *)
(***************************************************************************)

\* Memory is lost, and so is what the device had not completed.
Crash ==
  /\ mode = "run"
  /\ mode' = "crashed"
  /\ inflight' = {}
  /\ buffer' = << >> /\ buffer_mtx_' = "none" /\ todo' = 0
  /\ fpc' = "idle" /\ left' = 0 /\ filled' = 0 /\ open' = FALSE
  /\ syncer' = [pc |-> "idle", kind |-> "none", flushed |-> 0, appended |-> 0]
  /\ append_bytes_since_last_barrier_' = 0 /\ wal_syncs_' = 0
  /\ wal_seq_' = 0 /\ extents_' = << >> /\ extent_start_' = NO_EXTENT
  /\ file_size_' = 0 /\ active_zone_' = 0 /\ wal_' = 0 /\ wp_' = 0 /\ capacity_' = 0
  /\ wal_entries_' = << >> /\ start_' = 1 /\ end_' = 0 /\ jump_' = 0
  /\ chunk_id_' = 0 /\ reader_offset_' = 0 /\ reader_offset_index_' = 0
  /\ pc' = "idle" /\ stage' = "first" /\ r_off' = 0 /\ extend_id' = 0
  /\ read' = 0 /\ r_sz' = 0 /\ rp' = 0 /\ result' = << >>
  /\ UNCHANGED <<landed, dwp, meta, unlogged, appended, synced, errors, nospace,
                 repeated, next_extent_start>>

\* The write pointer the device reports for the zone of the active extent
ZoneWp ==
  LET zone == meta.start \div ZoneCap
  IN  Smaller(dwp, (zone + 1) * ZoneCap)

\* The sum of a sequence of sizes
Total(sizes) ==
  LET sum[i \in 0..Len(sizes)] == IF i = 0 THEN 0 ELSE sum[i - 1] + sizes[i]
  IN  sum[Len(sizes)]

SumLengths(exts) == Total([i \in DOMAIN exts |-> exts[i].length])
SumBlocks(exts) == Total([i \in DOMAIN exts |-> Blocks(exts[i].length)])

\* The file's own record, in the snapshot or from its creation, has the first k
\* extents and DecodeFrom sets the log and the barrier counter from those (without
\* the headers); updates merged into it (MergeUpdate) bring the other extents and
\* leave both alone.
DecodeFrom(k) ==
  /\ extents_' = meta.extents
  /\ file_size_' = meta.size
  /\ wal_seq_' = meta.seq
  /\ wal_' = IF k = 0 THEN 0 ELSE (meta.extents[1].zone - 1) \div GroupZones + 1
  /\ append_bytes_since_last_barrier_' =
       SumBlocks(SubSeq(meta.extents, 1, k)) % BarrierBlocks

\* The file is decoded, then Recover up to RecoverSparseExtents.  A write pointer
\* below the active extent fails the mount.
Mount ==
  /\ mode = "crashed"
  /\ \E k \in 0..Len(meta.extents) : DecodeFrom(k)
  /\ IF meta.start = NO_EXTENT
     THEN mode' = "mounted" /\ extent_start_' = NO_EXTENT
     ELSE /\ extent_start_' = IF ZoneWp = meta.start THEN NO_EXTENT ELSE meta.start
          /\ mode' = CASE ZoneWp < meta.start -> "failed"
                       [] ZoneWp = meta.start -> "mounted"
                       [] OTHER -> "recover"
  /\ next_extent_start' = meta.start
  /\ UNCHANGED <<wal_syncs_, active_zone_, wp_, capacity_, device, writer, syncer,
                 meta, unlogged, synced, repeated, chunks, call, position>>

\* One turn of RecoverSparseExtents' loop.  is_wal_ is not set on a decoded file:
\* only the length field counts as header.  Where no entry starts, payload would
\* be taken for a header.
RecoverSparseExtents ==
  /\ mode = "recover" /\ next_extent_start < ZoneWp
  /\ \/ \E l \in landed :
          /\ l.dpos = next_extent_start
          /\ extents_' = Append(extents_, [zone |-> meta.start \div ZoneCap + 1,
                                           length |-> Len(l.entry.data)])
          /\ wal_seq_' = IF l.entry.seq > wal_seq_ THEN l.entry.seq ELSE wal_seq_
          /\ next_extent_start' =
               next_extent_start + Blocks(Len(l.entry.data) + SPARSE_HEADER_SIZE)
          /\ UNCHANGED mode
     \/ /\ \A l \in landed : l.dpos # next_extent_start
        /\ mode' = "failed"
        /\ UNCHANGED <<extents_, wal_seq_, next_extent_start>>
  /\ UNCHANGED <<append_bytes_since_last_barrier_, wal_syncs_, extent_start_,
                 file_size_, active_zone_, wal_, wp_, capacity_, device, writer,
                 syncer, meta, unlogged, synced, repeated, chunks, call, position>>

RecoverDone ==
  /\ mode = "recover" /\ next_extent_start >= ZoneWp
  /\ mode' = "mounted"
  /\ extent_start_' = NO_EXTENT
  /\ file_size_' = SumLengths(extents_)
  /\ UNCHANGED <<append_bytes_since_last_barrier_, wal_syncs_, wal_seq_, extents_,
                 active_zone_, wal_, wp_, capacity_, device, writer, syncer, meta,
                 unlogged, synced, repeated, next_extent_start, chunks, call, position>>

-----------------------------------------------------------------------------
(***************************************************************************)
(* The SZDOnceLog of the file, opened on the group of its first zone when  *)
(* there is none (OpenWALZone).                                            *)
(***************************************************************************)

Group == IF wal_ # 0 THEN wal_ ELSE (extents_[1].zone - 1) \div GroupZones + 1
GetWriteTail == (Group - 1) * GroupZones * ZoneCap
GetWriteHead == Smaller(dwp, Group * GroupZones * ZoneCap)

\* The entry that has i - 1 smaller sequence numbers comes i-th.
SortBySeq(entries) ==
  [i \in 1..Cardinality(entries) |->
     CHOOSE e \in entries : Cardinality({f \in entries : f.seq < e.seq}) = i - 1]

\* Units of the last block of an entry that hold no padding, 0 if all of them
Unpadded(e) == (Len(e.data) + HeaderSize) % BlockSz

\* RecoverWALChunk steps from entry to entry by their unpadded size: it stops
\* behind the first entry that was padded, where the length field it decodes is
\* zero.  A zero sequence number behind the first chunk is taken for padding.
Decoded(lba_in, lba_out) ==
  LET inside == {l \in landed : lba_in <= l.dpos /\ l.dpos < lba_out}
      padded == {l \in inside : Unpadded(l.entry) # 0}
      zero   == {l \in inside : l.entry.seq = 0 /\ lba_in > GetWriteTail}
  IN  {l \in inside : /\ \A p \in padded : l.dpos <= p.dpos
                      /\ \A z \in zero : l.dpos < z.dpos}

\* Padding shorter than a length field: the next one is decoded from the padding and
\* from what comes behind it, the next header or memory behind the buffer.
ShortPadding(entries) ==
  \E l \in entries : /\ Unpadded(l.entry) # 0
                     /\ BlockSz - Unpadded(l.entry) < SPARSE_HEADER_SIZE

MutChunkUnsorted(lba_in, lba_out) ==
  LET read_order == SetToSortSeq(Decoded(lba_in, lba_out),
                                 LAMBDA a, b : a.dpos < b.dpos)
  IN  [i \in DOMAIN read_order |-> read_order[i].entry]

RecoverWALChunk(lba_in, lba_out) ==
  SortBySeq({l.entry : l \in Decoded(lba_in, lba_out)})

-----------------------------------------------------------------------------
(***************************************************************************)
(* WALPositionedRead(rp, ReadSize).  It calls TryRecoverWAL and then looks *)
(* up an extent at three places: stage says which.                         *)
(***************************************************************************)

Readable == (mode = "run" /\ ~open) \/ mode = "mounted"

ReadCall ==
  /\ Readable /\ pc = "idle"
  /\ IF rp >= file_size_
     THEN pc' = "eof" /\ UNCHANGED <<stage, r_off, extend_id, read, r_sz>>
     ELSE /\ pc' = "enter" /\ stage' = "first"
          /\ r_off' = 0 /\ extend_id' = reader_offset_index_
          /\ read' = 0 /\ r_sz' = Smaller(ReadSize, file_size_ - rp)
  /\ UNCHANGED <<vars, recovery, chunks, position>>

\* "Still in range"
TryRecoverWAL ==
  /\ pc = "enter"
  /\ pc' = IF wal_entries_ # << >> /\ end_ > rp + read THEN "extent" ELSE "load"
  /\ UNCHANGED <<vars, recovery, chunks, stage, r_off, extend_id, read, r_sz,
                 position>>

MutLoadChunkForgetsJump(entries) == 0
Jump(entries) == jump_ + Len(entries)

\* One turn of TryRecoverWAL's loop.  A chunk that does not begin with an entry
\* would be decoded from payload, and behind short padding anything may be decoded.
LoadChunk ==
  /\ pc = "load"
  /\ LET offset  == Smaller(rp + read, file_size_)
         lba_in  == Smaller(GetWriteTail + chunk_id_ * BarrierBlocks, GetWriteHead)
         lba_out == Smaller(GetWriteTail + (chunk_id_ + 1) * BarrierBlocks,
                            GetWriteHead)
     IN  \/ /\ lba_in >= lba_out
            /\ pc' = "extent"
            /\ UNCHANGED chunks
         \/ /\ lba_in < lba_out
            /\ \/ \A l \in landed : l.dpos # lba_in
               \/ ShortPadding(Decoded(lba_in, lba_out))
            /\ pc' = "garbage"
            /\ UNCHANGED chunks
         \/ /\ lba_in < lba_out
            /\ \E l \in landed : l.dpos = lba_in
            /\ wal_entries_' = RecoverWALChunk(lba_in, lba_out)
            /\ start_' = end_
            /\ end_' = end_ + Total([i \in DOMAIN wal_entries_' |->
                                       Len(wal_entries_'[i].data)])
            /\ jump_' = Jump(wal_entries_)
            /\ chunk_id_' = chunk_id_ + 1
            /\ pc' = IF wal_entries_' # << >> /\ end_' < offset THEN "load"
                     ELSE "extent"
  /\ UNCHANGED <<vars, recovery, stage, r_off, extend_id, read, r_sz, position>>

HasNext == extend_id + 1 < Len(extents_)

MutGetWALExtentRetries ==
  /\ pc = "extent"
  /\ \/ /\ stage = "first" /\ extend_id < Len(extents_)
        /\ r_off' = reader_offset_ /\ pc' = "copy"
        /\ UNCHANGED <<stage, extend_id>>
     \/ /\ stage = "next" /\ HasNext
        /\ extend_id' = extend_id + 1 /\ r_off' = 0 /\ pc' = "copy"
        /\ UNCHANGED stage
     \/ /\ stage = "next" /\ ~HasNext
        /\ stage' = "last" /\ pc' = "enter"
        /\ UNCHANGED <<extend_id, r_off>>
     \/ /\ stage = "last"
        /\ IF HasNext THEN extend_id' = extend_id + 1 /\ r_off' = 0
           ELSE UNCHANGED <<extend_id, r_off>>
        /\ pc' = IF HasNext THEN "return" ELSE "enter"
        /\ UNCHANGED stage
  /\ UNCHANGED <<vars, recovery, chunks, read, r_sz, position>>

\* GetWALExtent: the extent the reader stopped in, or the one after it
GetWALExtent ==
  /\ pc = "extent"
  /\ \/ /\ stage = "first" /\ extend_id < Len(extents_)
        /\ r_off' = reader_offset_ /\ pc' = "copy"
        /\ UNCHANGED <<stage, extend_id>>
     \/ /\ stage = "next" /\ HasNext
        /\ extend_id' = extend_id + 1 /\ r_off' = 0 /\ pc' = "copy"
        /\ UNCHANGED stage
     \/ /\ stage = "next" /\ ~HasNext
        /\ stage' = "last" /\ pc' = "enter"
        /\ UNCHANGED <<extend_id, r_off>>
     \/ /\ stage = "last"
        /\ IF HasNext THEN extend_id' = extend_id + 1 /\ r_off' = 0
           ELSE UNCHANGED <<extend_id, r_off>>
        /\ pc' = "return"
        /\ UNCHANGED stage
  /\ UNCHANGED <<vars, recovery, chunks, read, r_sz, position>>

\* The copy out of the loaded chunk.  An index outside of wal_entries_, or a copy
\* past the end of the entry, reads memory that is not the log's.
CopyEntry ==
  /\ pc = "copy"
  /\ LET extent_end == extents_[extend_id + 1].length
         pread_sz == Smaller(r_sz - read, extent_end - r_off)
         i == extend_id - jump_ + 1
     IN  IF i \in DOMAIN wal_entries_ /\ r_off + pread_sz <= Len(wal_entries_[i].data)
         THEN /\ result' = result \o SubSeq(wal_entries_[i].data, r_off + 1,
                                            r_off + pread_sz)
              /\ read' = read + pread_sz
              /\ r_off' = r_off + pread_sz
              /\ IF r_off' = extent_end
                 THEN /\ pc' = "enter"
                      /\ stage' = IF read' # r_sz /\ pread_sz > 0 THEN "next"
                                  ELSE "last"
                 ELSE pc' = "return" /\ UNCHANGED stage
         ELSE pc' = "garbage" /\ UNCHANGED <<result, read, r_off, stage>>
  /\ UNCHANGED <<vars, recovery, chunks, extend_id, r_sz, reader_offset_,
                 reader_offset_index_, rp>>

ReadReturn ==
  /\ pc = "return"
  /\ reader_offset_' = r_off
  /\ reader_offset_index_' = extend_id
  /\ rp' = rp + read
  /\ pc' = "idle"
  /\ UNCHANGED <<vars, recovery, chunks, stage, r_off, extend_id, read, r_sz, result>>

-----------------------------------------------------------------------------

Write == mode = "run" /\ Next /\ UNCHANGED rvars

Read ==
  \/ ReadCall \/ TryRecoverWAL \/ LoadChunk \/ GetWALExtent \/ CopyEntry \/ ReadReturn

Recover == Mount \/ RecoverSparseExtents \/ RecoverDone

ReadNext == Write \/ Crash \/ Recover \/ Read

ReadSpec ==
  /\ Init /\ ReaderInit
  /\ [][ReadNext]_allvars
  /\ WF_allvars(Recover) /\ WF_allvars(Read)

-----------------------------------------------------------------------------
(***************************************************************************)
(* Properties                                                              *)
(***************************************************************************)

Stream(n) == [i \in 1..n |-> i]

\* After a clean Close a sequential reader is given exactly what was appended, in
\* order, whatever order the appends landed in (WALPositionedRead, TryRecoverWAL,
\* RecoverWALChunk against SparseAppend), unless an entry is followed by padding that
\* is shorter than a length field.
ReadBack ==
  mode = "run" /\ ~ShortPadding(landed) =>
    /\ IsPrefix(result, Stream(appended))
    /\ pc = "eof" => result = Stream(appended)
    /\ pc # "garbage"

\* After a crash the mount succeeds and the reader is given, first, the longest
\* gap-free beginning of the log that reached the device, and nothing that is not
\* on the device (Recover, RecoverSparseExtents, WALPositionedRead). Left out is
\* the moment inside Close in which CloseWR has persisted the file as closed and
\* CloseActiveZone still waits for its appends: Recover then believes the size;
\* and padding shorter than a length field, behind which anything may be decoded.
CrashPrefix ==
  /\ mode # "run" /\ ~ShortPadding(landed)
  /\ meta.start = NO_EXTENT => Durable(meta.size)
  =>
    /\ mode # "failed" /\ pc # "garbage"
    /\ pc = "eof" =>
         \A n \in 0..appended : Durable(n) => IsPrefix(Stream(n), result)

\* A mount after a crash ends, and so does reading the log: each Read makes
\* progress up to the recovered file size (the loops of RecoverSparseExtents,
\* TryRecoverWAL and WALPositionedRead).
ReaderTerminates ==
  mode = "crashed" ~> (mode = "failed" \/ pc \in {"eof", "garbage"})
=============================================================================
