------------------------------- MODULE WavFile ------------------------------
(***************************************************************************)
(* libwav as the listener uses it (avbperf/wav.c): a file opened for       *)
(* writing, its header rewritten by every setter, fragments appended and   *)
(* the two sizes in the header updated after each.                         *)
(*                                                                         *)
(* The file is a stdio stream.  mem is the library's own header; disk is   *)
(* what a reader finds after the process has died: bytes still in stdio's  *)
(* buffer (pend) are not there.  Every seek flushes the buffer, and a flush*)
(* that fails drops it.  Positions are offsets in the file; sizes are kept *)
(* modulo SizeMod, 2^32 in the program.                                    *)
(***************************************************************************)
EXTENDS AvbSettings, FiniteSetsExt

CONSTANT SizeMod

ASSUME SizeModAssumption == SizeMod \in Nat \ {0}

VARIABLES
    wpc,            \* the next libwav call, or the step wav_write is at
    g_err,          \* the library's sticky error
    mem, disk,      \* the header in memory; header and data bytes in the file
    pend,           \* what is in stdio's buffer
    pos, save_pos   \* the stream's position; where wav_update_sizes returns to

wvars == <<wpc, g_err, mem, disk, pend, pos, save_pos>>

DataOffset == 44
WavSettled == {"unused", "aborted", "closed", "killed"}

(* A recording of two channels of 16 bits at 44.1 kHz, as wav_init has it. *)
DefaultFmt == [tag |-> "PCM", num_channels |-> 2, sample_rate |-> 44100,
               avg_bytes_per_sec |-> 44100 * 2 * 2, block_align |-> 4,
               bits_per_sample |-> 16]

Header == [fmt |-> DefaultFmt, riff |-> (DataOffset - 8) % SizeMod, size |-> 0]

WavInit ==
    /\ wpc = "unused" /\ g_err = FALSE
    /\ mem = Header
    /\ disk = [fmt |-> DefaultFmt, riff |-> 0, size |-> 0, len |-> 0]
    /\ pend = {} /\ pos = 0 /\ save_pos = 0

-----------------------------------------------------------------------------
(* Opening and the setters.                                                *)

(* wav_write_header without the data chunk leaves the position before it. *)
header_without_data(h, next) ==
    /\ mem' = h /\ pend' = {}
    /\ disk' = [disk EXCEPT !.fmt = h.fmt, !.riff = h.riff]
    /\ pos' = DataOffset - 8 /\ wpc' = next /\ g_err' = g_err
    /\ save_pos' = save_pos

(* wav_write_header with the header h, before any data.  It works through  *)
(* the chunks; the data chunk's own header stays in stdio's buffer.  When a*)
(* seek or a write fails the position is where the one before left it, and *)
(* a second error trips the assertion of wav_err_set.                      *)
wav_write_header(h, next) ==
    /\ mem' = h /\ save_pos' = save_pos
    /\ \/ /\ disk' = [disk EXCEPT !.fmt = h.fmt, !.riff = h.riff]
          /\ pend' = {"data_header"} /\ pos' = DataOffset
          /\ wpc' = next /\ g_err' = g_err
       \/ /\ disk' \in {disk, [disk EXCEPT !.riff = h.riff],
                        [disk EXCEPT !.riff = h.riff, !.fmt = h.fmt]}
          /\ pend' = {} /\ pos' \in {0, 12, DataOffset - 8, pos}
          /\ wpc' = IF g_err THEN "aborted" ELSE next
          /\ g_err' = TRUE

NoHeader(next) == wpc' = next /\ UNCHANGED <<g_err, mem, disk, pend, pos, save_pos>>

(* The file cannot be created: the next setter finds it not writable, and  *)
(* its error is the second one.                                            *)
wav_open ==
    /\ wpc = "open"
    /\ \/ wav_write_header(mem, "format")
       \/ /\ wpc' = "aborted" /\ g_err' = TRUE
          /\ UNCHANGED <<mem, disk, pend, pos, save_pos>>

(* Mutant: the block is not resized with the number of channels. *)
resize_channels_only(fmt, n) == [fmt EXCEPT !.num_channels = n]

WithSampleSize(fmt, n) ==
    LET align == n * fmt.num_channels
    IN  [fmt EXCEPT !.block_align = align,
                    !.avg_bytes_per_sec = align * fmt.sample_rate,
                    !.bits_per_sample = n * 8]

WithChannels(fmt, n) ==
    LET align == (fmt.block_align \div fmt.num_channels) * n
    IN  [fmt EXCEPT !.num_channels = n,
                    !.block_align = align,
                    !.avg_bytes_per_sec = align * fmt.sample_rate]

WithRate(fmt, rate) ==
    [fmt EXCEPT !.sample_rate = rate, !.avg_bytes_per_sec = fmt.block_align * rate]

(* Floating point samples of 16 bits are first made 4 bytes wide, with a   *)
(* header of their own.                                                    *)
wav_set_format(float) ==
    /\ wpc = "format"
    /\ IF float
       THEN wav_write_header([mem EXCEPT !.fmt = WithSampleSize([@ EXCEPT !.tag = "FLOAT"], 4)],
                             "format_done")
       ELSE NoHeader("size")

WriteFormat == wpc = "format_done" /\ wav_write_header(mem, "size")

wav_set_sample_size(n) ==
    wpc = "size" /\ wav_write_header([mem EXCEPT !.fmt = WithSampleSize(@, n)], "channels")

wav_set_num_channels(n) ==
    /\ wpc = "channels"
    /\ IF n = mem.fmt.num_channels THEN NoHeader("rate")
       ELSE wav_write_header([mem EXCEPT !.fmt = WithChannels(@, n)], "rate")

wav_set_sample_rate(rate) ==
    /\ wpc = "rate"
    /\ IF rate = mem.fmt.sample_rate THEN NoHeader("idle")
       ELSE wav_write_header([mem EXCEPT !.fmt = WithRate(@, rate)], "idle")

(* setup_wav_recorder, one call at a time. *)
setup_wav_recorder(set) ==
    \/ wav_open \/ wav_set_format(set.bit_depth = 32) \/ WriteFormat
    \/ wav_set_sample_size(Bytes(set.bit_depth))
    \/ wav_set_num_channels(set.channels) \/ wav_set_sample_rate(set.sample_rate)

-----------------------------------------------------------------------------
(* Writing a fragment.                                                     *)

(* wav_tell's assertion: an earlier failure left the position in the       *)
(* header.                                                                 *)
TellAborts == wpc = "idle" /\ pos < DataOffset /\ wpc' = "aborted" /\ UNCHANGED
                  <<g_err, mem, disk, pend, pos, save_pos>>

(* After an error wav_write returns 0 at once. *)
WriteRefused == wpc = "idle" /\ pos >= DataOffset /\ g_err /\ UNCHANGED wvars

CanWrite == wpc = "idle" /\ pos >= DataOffset /\ ~g_err

Grown(h, n) == [h EXCEPT !.riff = (@ + n) % SizeMod, !.size = (@ + n) % SizeMod]

(* Mutant: the sizes are written before the fragment has left the buffer. *)
write_sizes_first(n) ==
    /\ CanWrite
    /\ mem' = Grown(mem, n)
    /\ disk' = [disk EXCEPT !.riff = Grown(mem, n).riff, !.size = Grown(mem, n).size]
    /\ pend' = pend \cup {"data"}
    /\ pos' = pos + n /\ save_pos' = pos + n
    /\ wpc' = "flush" /\ UNCHANGED g_err

(* fwrite takes the fragment, and the header in memory counts it. *)
WriteData(n) ==
    /\ CanWrite
    /\ mem' = Grown(mem, n)
    /\ pend' = pend \cup {"data"}
    /\ pos' = pos + n /\ save_pos' = pos + n
    /\ wpc' = "flush" /\ UNCHANGED <<g_err, disk>>

(* Bytes of n a write that is cut off may leave in the file: none, or some.*)
Part(n) == {0, n \div 2}

(* fwrite fails: part of the fragment may be in the file. *)
WriteDataFails(n) ==
    /\ CanWrite
    /\ g_err' = TRUE /\ pend' = {}
    /\ \E k \in Part(n) : disk' = [disk EXCEPT !.len = @ + k] /\ pos' = pos + k
    /\ UNCHANGED <<wpc, mem, save_pos>>

(* wav_write of n bytes, up to the update of the sizes. *)
wav_write(n) == TellAborts \/ WriteRefused \/ WriteData(n) \/ WriteDataFails(n)

(* What a flush makes of the file. *)
Flushed == [disk EXCEPT
    !.len  = IF "data" \in pend THEN Max({@, pos - DataOffset}) ELSE @,
    !.riff = IF "riff" \in pend THEN mem.riff ELSE @,
    !.size = IF "new_size" \in pend THEN mem.size ELSE @]

(* stdio writes long buffers in pieces. *)
PartlyFlushed ==
    IF "data" \in pend
    THEN {Flushed} \cup
         {[disk EXCEPT !.len = @ + k] : k \in Part(pos - DataOffset - disk.len)}
    ELSE {disk}

(* wav_update_sizes: a seek to each field, which flushes what was written  *)
(* before, and a seek back.                                                *)
SeekAndWrite(from, to, item, at) ==
    /\ wpc = from /\ wpc' = to
    /\ disk' = Flushed /\ pend' = item /\ pos' = at
    /\ UNCHANGED <<g_err, mem, save_pos>>

(* Mutant: the position is not restored. *)
sizes_without_return ==
    \/ SeekAndWrite("flush", "riff", {"riff"}, 8)
    \/ SeekAndWrite("riff", "data_size", {"new_size"}, DataOffset)
    \/ SeekAndWrite("data_size", "idle", {}, pos)

UpdateSizes ==
    \/ SeekAndWrite("flush", "riff", {"riff"}, 8)
    \/ SeekAndWrite("riff", "data_size", {"new_size"}, DataOffset)
    \/ SeekAndWrite("data_size", "idle", {}, save_pos)

(* A seek or a write of wav_update_sizes fails: the position stays behind  *)
(* the fragment, inside the header, or just behind the header.             *)
UpdateFails ==
    /\ wpc \in {"flush", "riff", "data_size"}
    /\ g_err' = TRUE /\ pend' = {} /\ wpc' = "idle"
    /\ \/ disk' = Flushed /\ pos' = IF wpc = "data_size" THEN DataOffset ELSE 4
       \/ wpc # "flush" /\ disk' = disk
            /\ pos' = IF wpc = "data_size" THEN DataOffset - 4 ELSE 4
       \/ wpc = "flush" /\ disk' \in PartlyFlushed /\ pos' = pos
    /\ UNCHANGED <<mem, save_pos>>

wav_update_sizes == UpdateSizes \/ UpdateFails

(* wav_close: fclose flushes; its failure is only printed. *)
wav_close ==
    /\ wpc = "idle" /\ wpc' = "closed"
    /\ disk' \in {disk, Flushed} /\ pend' = {}
    /\ UNCHANGED <<g_err, mem, pos, save_pos>>

(* The process is killed; what stdio had buffered is lost. *)
WavKilled ==
    /\ wpc \notin WavSettled /\ wpc' = "killed"
    /\ disk' \in PartlyFlushed
    /\ UNCHANGED <<g_err, mem, pend, pos, save_pos>>

-----------------------------------------------------------------------------
(* Properties of a recording of fragments of n bytes.                      *)

Whole == (wpc = "idle" /\ ~g_err) \/ (wpc = "closed" /\ ~g_err)

(* Whenever the process dies, the size in the header claims no byte the    *)
(* file does not hold, and misses at most the fragment being written       *)
(* (wav.c 539-572, the order of data and sizes).                           *)
LosesAtMost(n) ==
    /\ disk.size <= disk.len
    /\ disk.len < SizeMod => disk.len <= disk.size + n

(* Between two fragments, and after closing, both sizes are the data's, as *)
(* far as a field of SizeMod values can tell, and the next fragment goes   *)
(* behind the last one.                                                    *)
HeaderDescribesData == Whole =>
    /\ disk.size = disk.len % SizeMod
    /\ disk.riff = (DataOffset - 8 + disk.len) % SizeMod
    /\ pos = DataOffset + disk.len

(* The header in the file is that of the stream, whichever setters found   *)
(* nothing to change and in whatever order the others ran.                 *)
HeaderMatches(set) == Whole =>
    disk.fmt = [tag |-> IF set.bit_depth = 32 THEN "FLOAT" ELSE "PCM",
                num_channels |-> set.channels,
                sample_rate |-> set.sample_rate,
                avg_bytes_per_sec |-> FrameBytes(set) * set.sample_rate,
                block_align |-> FrameBytes(set),
                bits_per_sample |-> 8 * Bytes(set.bit_depth)]

=============================================================================
