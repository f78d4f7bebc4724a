# Specifications of arkive

TLA+ models of [arkive](../src/README.md), a fork of Go's `archive/zip` and
`archive/tar` with a parallel deflate writer: what the components do, step by
step, what they promise, and which of the promises TLC checks on small instances
and TLAPS proves for all of them.

## The system

| Component | State | Operations | Interacts with | What makes it correct |
|---|---|---|---|---|
| **pflate.Writer** (`pflate/pflate.go`) | current buffer, tail of the last block, first error, bounded channel of results, `closed`, `started`; one goroutine per block and one listener | `SetConcurrency`, `Write`, `Flush`, `Close`, `Reset` | the underlying writer; used by the zip writer for every deflated entry | blocks arrive in order and none is missing; `Flush` and `Close` mean written; a dictionary is what a reader has; nobody waits forever |
| **tar.Reader**, **saverReader** (`tar/reader.go`) | bytes and padding left of the current entry, its sparse map, a sticky error, the offset of the stream | `Next`, `Read`, `Save`, `Resume` | the underlying reader, possibly an `io.Seeker` | headers are looked for only where they are; contents are exact; a truncated archive is an error; a resumed reader goes on where the saved one was |
| **tar.Writer** (`tar/writer.go`) | bytes and padding left of the current entry, `closed`, `usedBinary`, an error | `WriteHeader` (with a PAX header), `Write`, `Flush`, `Close` | the underlying writer | the output is the start of a well-formed archive, and complete when `Close` returns nil |
| tar fields (`tar/strconv.go`, `tar/format.go`, `tar/common.go`, `tar/stat_*.go`) | none | parse and format numbers, strings, PAX records, formats, modes | reader and writer | what is formatted parses back; no overflow |
| **zip.Writer** (`zip/writer.go`) | list of directory headers, count of bytes, the last entry, `closed` | `Create`, `CreateHeader`, `SetOffset`, `SetComment`, `Flush`, `Close`; `Write` of an entry | the compressor of an entry, pflate by default, writes to the same buffered writer | the central directory describes the entries written; zip64 where needed |
| **zip.Reader** (`zip/reader.go`) | list of files, per-file checksum state | `NewReader`, `Open`, `Read` | `io.ReaderAt`, decompressors | the directory is found with prepended data and with zip64; a bad checksum or length is an error |
| zip registry, settings, reader pool (`zip/register.go`) | two maps, a pool of flate readers | `RegisterCompressor`, `RegisterDecompressor`, `Validate`; `Read`/`Close` of a pooled reader | zip reader and writer | a pooled reader is used by one entry at a time |
| zip headers (`zip/struct.go`), name encoding (`zip/normalize_name_encoding.go`) | none | times, modes, character sets | zip reader and writer | conversions are inverse where they can be |

What is hard in this code: in pflate, three kinds of goroutines share a channel,
an error and the fields of the writer, and failures take the listener away while
others wait for it; in the tar reader, the position is spread over five fields
that short reads, skips, `Seek`, sparse maps and checkpoints all have to keep
consistent, over streams that may end anywhere; in the tar writer, the order of
calls after a failed one; in the zip writer, entries that fail half way, the limits
of zip64, and a compressor that writes from a goroutine of its own to a buffer
that the archive also uses; in the zip reader, two ways to find the directory that
must agree, and a pool of readers that entries share. `PROJECT.json` lists these
hazards at their lines, with the properties aimed at them.

## Modules

| Module | Models |
|---|---|
| `Pflate` | `pflate.Writer` with its goroutines |
| `MCPflate` | settings for its runs |
| `PflateProofs` | theorems about `Pflate`, also that it implements `DeflateStream` |
| `TarReader` | `tar.Reader`, `saverReader`, `Checkpoint` |
| `MCTarReader` | the archives of its runs |
| `TarReaderProofs` | theorems about `TarReader`: places, errors, the content of files |
| `TarWriter` | `tar.Writer` |
| `MCTarWriter` | the headers of its runs |
| `TarWriterProofs` | theorems about `TarWriter` |
| `DeflateStream` | abstract: what a deflate writer promises; `Pflate` implements it, `ZipWriter` relies on it |
| `ZipFormat` | the records of a zip file, shared by writer and reader |
| `ZipWriter` | `zip.Writer` over `bufio.Writer` and a compressor |
| `ZipDirectory` | `zip.NewReader` and the reading of an entry, as operators on the bytes of a file |
| `ZipArchive` | `ZipWriter` composed with `ZipDirectory` |
| `ZipReader` | entries read and closed concurrently: `checksumReader`, `pooledFlateReader`, the registry |
| `MCZipArchive`, `MCZipReader` | headers and entries of their runs |
| `ZipArchiveProofs`, `ZipEntryProofs`, `ZipReadProofs` | theorems about `ZipArchive` (and so `ZipWriter` and `ZipDirectory`): the bytes written, the entries, what the reader makes of them |
| `ZipReaderProofs` | theorems about `ZipReader` |
| `TarFields` | `tar/strconv.go`, checksum and format of a block, modes of a header |
| `ZipFields` | times, zones, modes and settings of zip |
| `Conversions`, `MCConversions` | properties of `TarFields` and `ZipFields` and their inputs |
| `ConversionsProofs` | theorems about modes and settings |

A definition with the comment `(Mutated: ...)` is a variant of the one after it
with one plausible mistake; each property is shown to fail when the variant
replaces the original. `Next` never uses them.

### Pflate

A byte of input is a *unit*, numbered in the order the client passes it to
`Write`. A *slot* is a `result` of the code with its block: the units, the
dictionary, the final flag, the state of its compressor (`busy`, `failing`
between `pushError` and the deferred `close(r.result)`, `ready`, `failed`) and
whether `notifyWritten` is closed. `queue[c]` is the channel number `c` that the
field `z.results` has held, `out[k]` what was written to the `k`-th value of
`z.w`.

| Code | Actions |
|---|---|
| `Write`, its loop, `checkError` | `WriteRefused`, `Write`, `Fill`, `WriteCheck`, `WriteReturn` |
| `compressCurrent` | `CompressCurrent` (the send), `CompressCurrentError` (`<-pushedErr`), `CompressCurrentPanic` (closed channel), `AwaitWritten` (`<-r.notifyWritten`) |
| `Flush`, `Close` | `Flush`, `Close`, `FlushRefused`, `FlushCheck`, `CloseCheck` |
| `Reset`, `init` | `Reset` (up to `wg.Wait`), `ResetInit` |
| `compressBlock` | `CompressOK`, `CompressError`, `CompressAbandon` |
| listener goroutine | `Listen`, `Receive`, `ListenerDone`, `WriteBlock`, `WriteBlockError`, `Notify` |

Steps are as fine as the shared state: a `select` with two ready cases is a choice,
a send waits for room, the listener reads `z.results` when it first runs and `z.w`
at every write. Abstracted: what deflate does to the bytes, and the pools (buffers
of blocks are not put back into a pool, so a dictionary that points into one is
not overwritten). `SetConcurrency` is called before the first Write, as its
documentation shows it: the code does not refuse it later, when it would put a new
channel in the place of the one the listener has, and no property is claimed then.

### TarReader

A source is a stream given by its entries, their offsets, a number of zero blocks,
the byte at which it is cut, and whether it is an `io.Seeker`. `pos` is the offset of the underlying reader,
`count` that of `countingReader`; `pad`, `curr`, `err` are the fields of the
`Reader`. `Next` takes several steps (`SkipUnread`, then one of `ReadHeaderEnd`,
`ReadStray`, `ReadHeaderBad`, `ReadMeta`, `ReadFile`, `NextIOError`, or
`NextDataIOError` if the read fails in data that Next reads itself, for which `curr`
and `pad` are already set); `ReadMeta` goes around the loop. A block that is looked at as a header and is none sets the
history variable `stray`. Each `Read` is one step, with any answer of the
underlying reader (`UnderlyingRead`): fewer bytes than asked for, bytes with io.EOF, a
failure. Only (0, nil) for a non-empty slice, which the documentation of `io.Reader`
discourages, is left out: `Read` would pass it on and `io.ReadFull` wait, so that
`ReadProgress` and `NextEnds` rest on a reader that does not do it. `Save` copies the fields into `ckpt`, together with the history up to
there, and `Resume` goes on from both; `PastError` marks a reader resumed from a
checkpoint taken after an error, for which only `SparseInside`, `ReadProgress` and
`NextEnds` are claimed. The parsing of a header or record is
abstracted to whether it succeeds and the numbers it gives.

### TarWriter

A byte of output is known by its origin (header of entry *i*, byte *j* of the data
of entry *i*, zero). A call takes one step for every write to the sink; `Flush` is
shared by its four callers, and `after` says which one goes on. `want` is the
archive that the entries begun so far ask for. The client may call anything at any
time; `ended` remembers that a Close has returned, and `careless` that the client went on
with something other than Close after an error, which is where some of the promises end. `preferPax` is left out (only a test
sets it), and so is the prefix field (`usePrefix` is the constant false).

### DeflateStream

Bytes accepted, bytes delivered (in order as long as there is no error), an end that
arrives during Close, one lasting error, and barriers (`Flush`, `Close`) that return
nil only when everything has been delivered. `Pflate` defines
`Stream == INSTANCE DeflateStream WITH ...`: accepted are the units passed to Write,
delivered those of the slots written to the current sink, ended that the final slot
is among them. `ImplementsStream` is `Stream!Spec`, checked as a property of `Pflate`
where Reset is used as documented, after Close.

### ZipFormat, ZipWriter, ZipDirectory, ZipArchive

A byte of a zip file is a record; the first byte of a header carries its fields and
the rest is filler, so a header that is looked for at a wrong offset is not found.
Bytes of the client (data, names, what is in front, the archive's comment) may have the
signature of an end record among them, as a zip file that is stored in another one does:
`Inner` gives those bytes with the record that begins there, and `findSignatureInBlock`
(`BeginsEnd`, `EndAt`) finds it like the writer's own.
Lengths of headers and the limits of 16, 32 and 64 bits are constants, narrowed in the
runs. A name is known by the class of its characters, a checksum by the units summed.

In `ZipWriter`, `out` is what the `bufio.Writer` has flushed and `buf` what it holds;
the sink may have any part of `buf`, so the invariants about the file quantify over
all of them. A call takes one step for every write:

| Code | Actions |
|---|---|
| `CreateHeader` | `CreateHeader`, then `CompClose` and `Descriptor` of the open entry (`fileWriter.close`), then `Duplicate`, `CreateFails` or `Create` |
| `fileWriter.Write` | `Write`, `WriteRefused`; `Deliver` is pflate's listener |
| `Close` | `Close`, `CompClose`, `Descriptor`, `CloseTwice`, `CloseStart`, `DirectoryHeader` (one per entry), `End`, `CloseFlush` |
| `Flush` | `Flush` (the write), `FlushEnd` (the buffer is emptied) |
| settings | `SetOffset`, `SetOffsetPanic`, `SetComment`, `RegisterCompressor` |

`made` remembers the units each entry accepted, or that its creation or its compressor
failed. `ZipDirectory` translates `NewReader` function by function; `ZipArchive` opens
the file in every state. What nobody promises is excluded by name: `Spoiled` (an entry
failed and the client closed the archive all the same), `Reused` (one `FileHeader` for
two entries that are not neighbours), `Overlong` (lengths that `Close` does not check),
`Buried` (entries created after `Close`, longer than what the reader searches), `Misled`
(the last end record in the file is one that the client's bytes hold). A custom compressor
may fail when it is closed; one whose Write fails by itself leaves its entry in the
same state, with units hashed that are not in the file, and is not a case of its own.

### ZipReader

A handle is what `Open` returned. One goroutine reads from it, another closes it; the
steps between lock and unlock of the mutex are separate where the pool is touched. A
flate reader that was reset to another entry gives that entry's bytes, so handing it
out twice would show. The checksum rules, the descriptor and the errors that stay (and
the one that does not) are those of `checksumReader.Read`.

### TarFields, ZipFields, Conversions

Strings are sequences of code points and numbers are integers of `IntBytes` bytes.
`Conversions` picks one input in its only step and states what its conversion must
satisfy against an independent definition: two's complement, decimal value, calendar.

## Runs

Bounds are the constants named as such in each module.

| Run | Instance | Shows |
|---|---|---|
| `PflateStream` | dictionary of 1 unit, blocks of 2 or 3 units, channel of 1 or 2, up to 4 blocks, one Reset after Close, writes after Close, failing sink and compressor | `TypeOK`, `InOrder`, `StreamIntact`, `FlushSync`, `DictionaryMatches`, `Backpressure`, `ImplementsStream`; under fairness `CallReturns` (Write always; Flush and Close unless a failed write has taken the listener away), `ListenerStops` |
| `PflateLimit` | channel of 1, perfect sink and compressors | `ConcurrencyLimit` **fails**: one block more than the setting is being compressed |
| `PflateFlushHang` | failing sink, fairness | `FlushReturns` **fails**: Flush or Close waits for a listener that has returned |
| `PflateReset` | Reset at any time | `ResetDiscards` **fails**: an old block is written to the new writer |
| `TarRead` | archives of files, a directory with a size, PAX and long name headers; sparse files with old GNU, 0.0, 0.1 and 1.0 maps, with holes, empty fragments and extension headers; headers, records and maps that are wrong, with int64 narrowed to 6 bits so that sums overflow; 0 to 2 zero blocks, cut at every byte, seekable or not; a reader that may fail, one Save and Resume, also after an error, fairness | `TypeOK`, `NeverStray`, `ContentExact`, `EOFMeansComplete`, `MetaApplies`, `ReadProgress`, `PersistentError`, `SparseInside`, `NextEnds` |
| `TarNames` | long name, then PAX header, then file | `MetaApplies` **fails**: the long name is lost |
| `TarWrite` | 2 headers of 8 kinds (empty, padded, with PAX records, binary, unformattable, negative size, directories), failing sink, any client | `TypeOK`, `OutputPrefix`, `CloseComplete`, `ClosedIsFinal` |
| `ZipArchive` | up to 3 entries, stored, deflated and custom, with names and comments of all classes, of 0, 1 or 11 bytes where 12 is the 32-bit limit and 3 the 16-bit one; 0 or 2 bytes prepended, with and without `SetOffset`; a zip file among the bytes in front and one stored as an entry (`InnerArchives`); failing sink and compressors, any client that does not flush under a compressor | `TypeOK`, `FlushKeepsData`, `EntriesInPlace`, `TruncatedRefused`, `CloseReadable`, `ContentKept`, `NamesKept` |
| `ZipPrepended` | stored entries behind 2 bytes, perfect sink | `PrependedReadable` **fails** for zip64 |
| `ZipFlushRace` | deflated entries, perfect sink, Flush at any time | `FlushKeepsData` **fails** |
| `ZipRead` | two handles, each with a reading and a closing goroutine, two flate readers, entries that are good, short, damaged, cut, unreadable, stored, of an unknown method; fairness | `TypeOK`, `ReaderExclusive`, `OwnData`, `EOFMeansIntact`, `FailureIsFinal`, `CallsReturn` |
| `Conversions` | 6,750 inputs at the boundaries, integers of 3 bytes | `NumbersExact` (`NumberKept`, `FieldExact`), `HeadersKept` (`StringKept`, `RecordKept`, `FormatKept`), `TimesExact` (`PAXTimeExact`, `TimeKept`), `ModesKept` (`TarModeKept`, `HeaderKept`, `ZipModeKept`), `SettingsUsed` |

Why the bounds are enough. A block needs at least two units beside a dictionary of
one, and the cases of the channel are empty, partly full and full with the listener
holding one block; a channel of 1 or 2 and four blocks give all of them, with two
blocks of different length after each other for the dictionary. With `blockSize` 2
the padding is 0 or 1, and every boundary (before, in and after a header, data,
padding, a zero block) is reached by cutting everywhere. A second Resume starts
from a state of the same kind as the first, since a checkpoint keeps no trace of
its origin. Two headers in the writer, one of which may bring a PAX header of its own,
give an entry before and at a failure, and the calls after it. In the zip runs two
small entries stay below the limits, one large entry reaches the 32-bit limit of its
size and of the offsets after it, and three entries reach the 16-bit limit of the count.
Two handles are enough for a reader that is closed by one and opened by the other, which
is all that the pool lets entries do to each other. Fields of 1 to 4 bytes are shorter
than, as long as and longer than integers of 3 bytes, and texts of records reach the
steps from 9 to 10, 99 to 100 and 999 to 1000 bytes.

Deadlock is not checked: in all systems the client may stop calling, and the
bounds stop it; that nobody is stuck inside a call is what the liveness properties
say.

Fairness. `Pflate`: weak fairness of the caller inside a call, of each compressor
and of each listener, which is what the Go scheduler gives a runnable goroutine; it
does not oblige the client to call anything, and a step that may fail may always
fail. `TarReader`: weak fairness of the steps of `Next`, not of a failure.
`ZipReader`: weak fairness of the steps inside a call, and strong fairness of taking
the mutex, because Go's mutex hands over to a waiter that has waited for a millisecond.

### What the failing runs say

* `PflateFlushHang`: the listener returns after a failed write
  (`pflate.go:257-266`) and notifies only the block it holds. A Flush or Close whose
  block is already in the channel, or gets there because the `select` at line 183
  takes the send, waits at line 214 forever, where the documentation promises the
  error.
* `PflateReset`: Reset waits for the compressors, not for the listener, which reads
  `z.w` afterwards. With Reset only after a successful Close, `PflateStream` shows
  that nothing of the old stream reaches the new writer.
* `PflateLimit`: the documentation of `SetConcurrency` says that with 16 "up to 16 blocks
  can be processing at once before the writer blocks" (`pflate.go:64-66`). The listener takes
  a result out of the channel before it waits for its compressor, so that the channel has
  room for another: 17 are. `Backpressure` says that this one more is all.
* `TarNames`: line 138 of `tar/reader.go` replaces the records collected so far.
* `ZipPrepended`: the locator's offset counts from the start of the zip data. The
  zip64 end record is looked for at that offset of the file (`zip/reader.go:525`), and
  the error is returned before the code that finds the length of the prepended data.
  An archive below the limits is opened (`CloseReadable`), and so is one whose writer
  was told by `SetOffset`.
* `ZipFlushRace`: `bufio.Writer.Flush` writes the buffer and then empties it; the
  listener of the open entry adds a block in between. Without a Flush during an entry
  that is being compressed, nothing is lost (`ZipArchive`).

One more disagreement is a single comparison and has no run of its own: `FlateSettings` documents "Minimum 16KiB" for the block size (`zip/register.go:39`) and the
error of `Validate` asks for a value "equal or greater than 16384" (line 53), while
`Validate` and pflate both refuse 16384 itself. `SettingsUsed` says only that the two agree.

Not contradicted by any documentation, but worth knowing: a `Checkpoint` does not
hold the reader's error: resumed from a checkpoint taken after an error, the reader
goes on behind the header it refused. A sparse map that is refused leaves a nil
`*sparseFileReader` in `curr`, which `Save` dereferences (`SavePanic`). A header with a
negative size makes `Write` panic (`WritePanic`). `usedBinary` is never reset, so after
one number that needs the binary form every later header is in the GNU format, also one
that has PAX records. In the tar writer, Flush resets `pad` also when it has written
nothing because of an error, and Write stores nil over an error it never looked at, so
a client that goes on after errors can have `Close` return nil for an archive that is
not aligned; `CloseComplete` is about clients that do not. The writer asks for `Size`
bytes of data of every type, while the reader expects none of the header-only types.
Negative numbers that are short enough for octal are written with a minus sign, which no
reader parses; a string with a NUL in it is cut there; a PAX key with `=` in it is cut
there; a PAX record whose size has leading zeros can make the slice expression in
`parsePAXRecord` panic. In the zip writer, a name that is too long is refused after its
entry has been added to the directory; an entry may be created after `Close`; `Close`
does not check that comments and extended Extra fields fit 16 bits. In the zip reader,
`probablyZip64` compares a 32-bit size with 0xffff; without a data descriptor a checksum
of 0 is not compared; the error for a wrong length does not stay, though the next
Read gives it again. The reader takes the last end record in the file for the archive's,
without asking whether it ends there: an unfinished file whose last end record is that of a
zip file stored in it is opened as that one, and so is a finished one that has such a file
in its comment or in an entry created after `Close` (`Misled`; the run `ZipArchive` reaches
all but the comment). The zone of a time outside the years of the
DOS date is lost, and since Go 1.12 so is the type of a character device in a zip header.

## Proofs

TLC checks small instances; the theorems hold for every value of the constants that
the named assumptions allow: any block size, number of entries, handles or
checkpoints, any interleaving, any place where a sink, a read or a compressor
fails. Each of them is a property that a run checks too. Each inductive invariant that
TLC can evaluate was checked with it before it was proved. A proof has one step per action, with lemmas
for what several actions do.

| Module | Theorem | Property |
|---|---|---|
| `PflateProofs` | `TypeCorrect`, `BlocksInOrder` | `TypeOK`, `InOrder` |
| `PflateProofs` | `PrefixDelivered`, `FlushDelivers`, `DictionariesMatch`, `CompressorsBounded` | `StreamIntact`, `FlushSync`, `DictionaryMatches`, `Backpressure` |
| `PflateProofs` | `StreamRefinement` | `ImplementsStream` |
| `TarReaderProofs` | `TypeCorrect`, `ErrorsPersist`, `ReadsProgress`, `FragmentsInside` | `TypeOK`, `PersistentError`, `ReadProgress`, `SparseInside` |
| `TarReaderProofs` | `HeadersFound`, `EOFComplete` | `NeverStray`, `EOFMeansComplete` |
| `TarReaderProofs` | `ReadsExact` | `ContentExact` |
| `TarWriterProofs` | `TypeCorrect`, `PrefixWritten`, `CloseWritesAll`, `ClosedWritesNothing` | `TypeOK`, `OutputPrefix`, `CloseComplete`, `ClosedIsFinal` |
| `ZipReaderProofs` | `TypeCorrect`, `ReadersExclusive`, `OwnDataOnly`, `EOFIntact`, `FailuresFinal` | `TypeOK`, `ReaderExclusive`, `OwnData`, `EOFMeansIntact`, `FailureIsFinal` |
| `ZipArchiveProofs` | `TypeCorrect`, `FlushKeeps`, `UnfinishedRefused` | `TypeOK`, `FlushKeepsData`, `TruncatedRefused` |
| `ZipEntryProofs` | `EntriesPlaced` | `EntriesInPlace` |
| `ZipReadProofs` | `ArchivesOpen`, `NamesRead`, `ContentRead` | `CloseReadable`, `NamesKept`, `ContentKept` |
| `ConversionsProofs` | `ModesReadBack`, `SettingsApplied` | `ModesKept`, `SettingsUsed` |

### Assumptions

Besides the types of the constants:

* `~ResetAnytime` in all theorems about `Pflate` but `TypeCorrect`: Reset is called only
  after Close has returned nil. Otherwise two listeners work on one writer, which the
  run `PflateReset` shows to go wrong.
* `~FlushRaces` in all theorems about `ZipArchive` but `TypeCorrect`: Flush of the archive
  is not called while the compressor of the open entry holds data. Otherwise bytes are lost
  (run `ZipFlushRace`).
* `ReaderAssumption`: there are as many flate readers as handles, so that `NewReader`
  can always make one when the pool is empty, as the code can. `PoolBounded` in
  `ZipReaderProofs` shows that this many are enough.
* `SourcesAssumption`: a stream is a sequence of entries one after the other (`LaidOut`),
  then zeros, cut anywhere. `SizesAssumption`: behind a header that the reader accepts
  there is as much data as it, or the PAX record in force for it, says. Without it
  there is no telling where a header is or how long a file, and `NeverStray` and
  `ContentExact` mean nothing. Everything
  else in a stream is arbitrary: types, order, meta headers, sparse maps, sizes that are
  negative or do not parse. Zeros are only at the end, so that a zero block followed by
  one that is not (`ErrHeader` in `readHeader`) does not occur.
* `InnerAssumption`: an end record among the client's bytes begins in data, in a name, in a
  comment or in front of the archive, and its fields fit their widths. Which bytes do, and what
  the records say, is arbitrary, and the theorems about `NewReader` exclude the files whose
  last end record is such a one (`Misled`). Other records in the client's bytes, as the
  locator and the directory of a stored zip file, are not found in the model; the code
  looks for them only where an end record points. Fields that a client puts into Extra hold none.
* `FieldsAssumption` is about TLC's inputs and no theorem needs it: integers have at least one
  byte (8 in the code, 3 in the run).
* `FileAssumption`: what is in front of an archive has a length that fits an `int64`, as
  `NewReader` is given the size of its file as one. `startSkipLen`, a difference of
  unsigned numbers converted to `int64`, is exact only then (`SkipIs`).
* `InputsAssumption`: permissions are nine bits, as `FileMode.Perm` gives them, and settings
  are integers.
* `MaxLate <= MaxEntries` relates two bounds of the model; the code has neither.

### The arguments

**Pflate.** `TypeOK` is not inductive: a buffer stays within `blockSize` only if the
caller in the loop of Write has room for a unit, and the slot a listener holds exists
only while it holds one (`CallerRoom`, `ListenerHolds`). `OrderInv` says where the slots
made so far are: those written, then the one the listener holds, then those in the
channel are exactly `first + 1 .. nslots` in this order (`QueueRest`, `ListenerNext`);
listeners and channels of earlier sinks are finished (`OthersInert`); a notified slot is
written (`NotifiedWritten`), so a channel that Close has closed has been emptied
(`ClosedComplete`), which takes the induction through Reset.

**The stream.** The order of the blocks does not say what they hold. `UnitsInv` has a
function `h` from blocks to the last unit of each: block `s` holds the units
`h[s-1] + 1 .. h[s]`, the buffer and the rest of the slice being written those
after `h[nslots]`. `CloseInv` and `FinalInv` say that a closed stream takes no more units
and that only its last block is final, `StateInv` and `QueueInv` how far compressors and
listener have come, `DictInv` that the tail kept for the next block is that of the
last one. `StreamInv` is their conjunction. For the refinement, every action is shown to
be a step of `DeflateStream` under the mapping of `Pflate`, or to leave it unchanged: the
listener's write of a block delivers its units in one abstract step, the return of a call
is one, and sends, compressions and notifications are invisible. `StreamInv` is what makes
a delivery the next one: without it the abstract step would not be enabled. The abstract
specification has no fairness, so that the refinement is a safety property and within
reach of the prover.

**TarReader.** `BaseInv` holds whatever the stream says: `ErrorInv` follows an error into
the checkpoints, `SparseInv` keeps fragments in order, inside the file and not behind the
position; it needs that what `validSparse` accepts has no overflow in the additions of
int64. `PlaceInv` says where a reader that has not failed is: between calls the bytes left
of the current entry and its padding end at `off[cur + 1]`; in Next they end at the header
of some entry `k`, all files before `k` have been returned, and the size the reader has
from a PAX header is the one in force at `k` (`SizeRecord`). A checkpoint has the same
facts about what it saved.

**Content of tar files.** `Expected` says byte by byte what a file holds: the p-th byte is a
byte of the data section if a fragment of the map of the stream covers p (`Held`), and
then it is the one after as many as fragments cover of the bytes before (`DataUpTo`, a
cardinality). The reader keeps no such map: it drops fragments as it goes.
`ContentInv` relates the two. Of a file of which `f` bytes were returned, the stream is
`DataUpTo(f)` bytes into the data of its fragments, behind the map of a 1.0 file, and
from `f` on the fragments the reader still has cover the same bytes as those of the map (`InFile`);
what was returned is right so far (`GotOK`). Each branch of `sparseFileReader.Read` keeps this by
a lemma on the first fragment (`BeforeFirst`, `InFirst`, `AfterFirst`) and one on a stretch
of data or of a hole (`DataRun`, `HoleRun`). That a file starts with the right map needs
that all PAX records, not only the size, are those in force for the entry that comes next
(`RecordsOf`, through `RecordsMeta` and `MapOf`), which rests on `PlaceInv`. The last conjunct has
the same facts of a checkpoint.

**TarWriter.** `EndInv`: once Close has returned, the writer is closed and not in its
trailer, and a closed writer has an error or nothing left to write or to pad, so that no
action writes from there, also not in the middle of a call (`ClosedWritesNothing`). What a step adds to the output is right only because `nb` and `pad` say
exactly which bytes of the entry are missing: `BytesInv` has `want = out \o Pending` while
nothing failed, and after a failure that the output is a beginning of the archive and that
the error stays, unless the failed call was the one that ends an archive already complete.

**ZipReader.** `Exclusive` says that no two handles hold the same flate reader, none that is
held is in the pool, and none is there twice; a handle whose Close has given its reader
back and not yet cleared the field (`"clear"`) does not hold it, and `LockInv` says that
nobody reads through it meanwhile. `FlateInv` then gives the place of a reader that is
held, `DataInv` that hashed bytes begin the entry and returned bytes begin these, and that a
wrong length is found again by the next Read.

**ZipArchive.** `CountInv`: what is counted is what was written, if no byte is delivered
between the two steps of a flush. `EndInv`: no name, extra field, data, descriptor or
directory header has a byte of the writer's that begins an end record (one lemma per kind of bytes), and
the end record, once written, says with its comment where the archive ends. A file cut
before that has no end record of the writer to be found by `findSignatureInBlock`, or one that
needs more bytes than there are; if one is found, it is the client's (`NotMisled`). Extra fields are written with `FlattenSeq`, a recursive function: that it
gives a sequence is proved from the well-foundedness of the naturals
(`FlattenExists`, `FlattenType`).

**Entries.** `EntriesInPlace` says nothing of what the open entry's writer took, of the end of
the archive or of the middle of a flush, so it is not inductive. `OpenInv`: the units taken
are those hashed, the compressor holds the last of them, and it is the compressor of the
entry's method; entries behind the open one failed. `EntriesInv`: the bytes of each entry
are at its offset, also while a flush has moved them and not yet emptied the buffer
(`All`), and the archive ends with the data of the open entry, or with its descriptor.
Every step that leaves no error appends to `All` (`StepBytes`), so an entry that is not
open stays (`OthersStay`); the open one grows by exactly these bytes (`LastGrow`, with
one lemma per action for what its data becomes). `CountInv` makes the count that
CreateHeader puts into the directory the place where the header is written.

**Opening an archive.** The writer's half: a `FileHeader` is a pointer, and Close changes it
once more when it writes the zip64 field, so that what a directory header says is not what the
FileHeader says later. `Chain(w, q, g, n, d, f)` has `q`, the places of the first `n` directory
headers, and `g`, the FileHeaders as they were when each was written; `Older` says what they
still share with the present ones. `ListInv` says that the chain grows with every
`DirectoryHeader` (`ChainNext`), is complete with the end records (`Archive`, `ArchiveEnds`),
and stays when entries are added after Close. It needs the order of the
calls (`PhaseInv`), that there is one end record (`EndsInv`), that no header changes behind the
directory's back but as `Becomes` says (`HeadersInv`), and that a comment and an Extra that
fit are not longer than their fields can count (`RoomInv`). The reader's half: what
`readDirectoryHeader` gives for the bytes of a header (`ReadHeader`, `FileRead`), the loop of
`Reader.init` by induction on its rounds (`RoundReads`, `RoundEnds`, `HeadersRead`), and the
place of the directory, with and without zip64 and bytes in front (`DirectoryFound`:
`startSkipLen` is a difference of unsigned numbers and may wrap around). `ReaderOpens`
puts the two together for the bytes of an `Archive` anywhere in a file. `NamesKept` follows
because the reader converts the names only of files whose flag and characters ask for it.

**Reading an archive back.** `ContentKept` joins the two arguments before: the entry is in its
place, and the directory says where, how long and with which checksum. Between them are the
sums in the FileHeader, which `fileWriter.close` sets and two later calls could change.
`CompInv`: the compressed bytes counted so far are the length of the open entry's data.
`SumInv`: the FileHeader of an entry that is done, and that no other entry has, has the sizes
and the checksum of what was written into it (`Summed`); so a FileHeader used for two entries
(`Reused`) is excluded. `PlainInv`: until Close lists an entry its Extra has no zip64 field, so
that the first one the reader finds is the one Close adds (`FieldOnly`). `ListInv` then
carries `Told`: each header, as it was when it was listed, tells the sums of its entry
(`Tells`), in 32 bits or in the field. `WholeInv`: when Close has returned, each listed entry
is complete in the file, descriptor and all, and stays so. On the reader's side,
`FileValues` gives the sizes and the offset of a file from either place, `EntryShift` moves
the entry behind the data in front, `DataDecompressed` gives the units back from stored or
deflated data with its final block, and `EntryReads` follows `Open` and `Read` to io.EOF.

**Modes and settings.** `InputInv` says only that an input is of the set it was picked from. A
mode is a sum of a type, nine bits of permissions and three special bits; `PartsFound` shows
that division and remainder find each part again, whatever the others are. `FlagKept` and
`CodesOfFlags` (tar) and `ZipTypeKept` (zip) go through the types of files: the flag or number
given to a type stands for it, also where the mode has a type of its own. The settings that
`SetCompressionSettings` lets through are within what `newFlateWriter` needs.

### Only model-checked

* `CallReturns`, `ListenerStops`, `NextEnds`, `CallsReturn`: liveness under fairness,
  which the prover does not handle (nor `ENABLED`).
* `MetaApplies` of `TarReader`: it does not hold for all streams (run `TarNames`), and is a
  property of the streams of the run `TarRead`.
* `NumbersExact`, `HeadersKept` and `TimesExact` of `Conversions`: digits, checksums and the
  lengths of records are recursive functions of texts of any length, whose values take
  an induction over data, and their bounds are powers, which the provers know nothing about.
  They are checked over inputs at the boundaries. (`TimeKept`, the half of `TimesExact` about
  zip, is arithmetic of dates without recursion; no theorem states it alone.)

## Plan

What is modelled is what can be, and every safety property that a run checks and that holds
in general is proved, except the three of `Conversions` above. These would take a prover with
induction over data; `TimeKept` alone would not, and is what is left.

## Not modelled

Out of reach: the compression itself, the detection of character sets
(`zip/normalize_name_encoding.go` uses an external library; which names are converted is
modelled), the system calls behind `tar/stat_*.go`, and opening and closing files
(`OpenReader`, `ReadCloser`). Left out because nothing is decided there: the byte offsets
of `tar/format.go` and of the zip headers, versions and attributes of an entry, the user
names and times that `FileInfoHeader` copies, the NTFS and Unix forms of a zip timestamp
(a timestamp is a timestamp), `FileInfo` and `FileInfoHeader` of zip, which only combine
`SetModTime` and `SetMode`. `splitUSTARPath` in `tar/writer.go` and `put2`, `put4`,
`writeBytes` in `pflate.go` are never called.
