------------------------------ MODULE TarReader ------------------------------
(***************************************************************************)
(* The tar reader of tar/reader.go: Reader.Next and Read over regular,     *)
(* header-only, PAX, GNU long-name and sparse entries, and the checkpoints *)
(* of saverReader.                                                         *)
(*                                                                         *)
(* A source is a byte stream given by what its writer laid out: entries,   *)
(* each one header block, its extension headers, its data and padding, and *)
(* then a number of zero blocks; it may be cut short at any byte.  A byte  *)
(* of data is known by its index in the data section of its entry, 0 is    *)
(* the zero byte of a hole.  Names and numeric fields are abstracted to    *)
(* what Next does with them.                                               *)
(***************************************************************************)
EXTENDS Integers, Sequences, FiniteSets

CONSTANTS
  blockSize,      \* 512 in the code
  maxInt64,       \* math.MaxInt64
  Sources,        \* the streams a reader is given (see Stream)
  MaxBuffer,      \* bound: length of the slice given to Read
  MaxResumes,     \* bound: calls of Resume
  IOFails,        \* may the underlying reader fail?
  SaveAfterError  \* may Save be called when the reader has reported an error?

ASSUME ConstantsAssumption ==
  /\ blockSize \in Nat /\ blockSize > 0
  /\ maxInt64 \in Nat /\ MaxBuffer \in Nat /\ MaxResumes \in Nat
  /\ {IOFails, SaveAfterError} \subseteq BOOLEAN

None == -1        \* a PAX record that is not there
Bad == -2         \* one that strconv.ParseInt refuses

Least(a, b) == IF a < b THEN a ELSE b
Most(a, b) == IF a < b THEN b ELSE a

\* Addition of int64.
Add64(a, b) == IF a + b > maxInt64 THEN a + b - 2 * (maxInt64 + 1) ELSE a + b

\* -n & (blockSize - 1): the padding after n bytes.
PadOf(n) == (-n) % blockSize

-----------------------------------------------------------------------------
(***************************************************************************)
(* Sources                                                                 *)
(*                                                                         *)
(* An entry is a record                                                    *)
(*   type    "reg", "dir" (every header-only type), "sparse" (old GNU),    *)
(*           "x" (PAX), "L" (GNU long name)                                *)
(*   valid   does the header, or the PAX data of an "x", parse?            *)
(*   size    the size field of the header; len: the bytes of data laid out *)
(*   named   does this meta entry carry a name for the next file?          *)
(*   rsize   the PAX size record of an "x"                                 *)
(*   fmt     the GNU sparse format an "x" announces (see Formats)          *)
(*   sp, mapok, total  the sparse map, whether its numbers parse, and the  *)
(*           real size; an old GNU or 1.0 file has the map itself, an "x"  *)
(*           of format 0.x carries it                                      *)
(*   blocks  extension headers (old GNU) or map blocks in the data (1.0)   *)
(***************************************************************************)

Extent(e) == blockSize + (IF e.type = "sparse" THEN blockSize * e.blocks ELSE 0)
             + e.len + PadOf(e.len)

\* The stream of the given entries, zero blocks and (if cut < its length)
\* truncation, and whether it is an io.Seeker (then it has no saverReader).
Stream(entries, zeros, cut, seekable) ==
  LET off[i \in 1 .. Len(entries) + 1] ==
        IF i = 1 THEN 0 ELSE off[i - 1] + Extent(entries[i - 1])
      whole == off[Len(entries) + 1] + zeros * blockSize
  IN [entries |-> entries, off |-> off, zeros |-> zeros, len |-> Least(cut, whole),
      seekable |-> seekable]

IsFile(e) == e.type \in {"reg", "dir", "sparse"}

\* handleRegularFile: bytes of data that follow a header of this type and size.
DataSize(type, size) == IF type = "dir" THEN 0 ELSE size

Formats == {"none", "0.0", "0.1", "1.0", "unknown"}
EntryType ==
  [type : {"reg", "dir", "sparse", "x", "L"}, valid : BOOLEAN, size : Int, len : Nat,
   named : BOOLEAN, rsize : Int, fmt : Formats, sp : Seq([offset : Int, numBytes : Int]),
   mapok : BOOLEAN, total : Int, blocks : Nat]

\* Entries follow each other, as in Stream.
LaidOut(s) ==
  /\ s.entries \in Seq(EntryType) /\ s.len \in Nat /\ s.seekable \in BOOLEAN
  /\ s.off \in [1 .. Len(s.entries) + 1 -> Nat] /\ s.off[1] = 0
  /\ \A i \in 1 .. Len(s.entries) : s.off[i + 1] = s.off[i] + Extent(s.entries[i])

\* The PAX entry whose records are in force for entry i.  A GNU long name in
\* between leaves them, a file or another PAX entry does not.
PaxBefore(s, i) == {j \in 1 .. i - 1 :
                      /\ s.entries[j].type = "x"
                      /\ \A k \in j + 1 .. i - 1 : s.entries[k].type = "L"}

\* z is the PAX size record in force for entry i, or None.
SizeRecord(s, i, z) ==
  IF PaxBefore(s, i) = {} THEN z = None
  ELSE \E j \in PaxBefore(s, i) : z = s.entries[j].rsize

\* mergePAX: the size record z replaces the size of the header.
mergePAX(e, z) == IF z = None THEN e.size ELSE z

\* The data laid out after a header that is accepted has the length that the
\* header, or the size record in force for it, says.
SizesHold(s) ==
  \A i \in 1 .. Len(s.entries) :
    LET e == s.entries[i] IN
    e.valid /\ DataSize(e.type, e.size) >= 0 =>
      IF IsFile(e)
      THEN \A z \in {None} \cup {s.entries[j].rsize : j \in 1 .. i - 1} :
             SizeRecord(s, i, z) =>
               \/ mergePAX(e, z) = Bad \/ DataSize(e.type, mergePAX(e, z)) < 0
               \/ DataSize(e.type, mergePAX(e, z)) = e.len
      ELSE e.len = e.size

ASSUME SourcesAssumption == \A s \in Sources : LaidOut(s)
ASSUME SizesAssumption == \A s \in Sources : SizesHold(s)

VARIABLES
  src,            \* the stream, never changed
  \* fields of the Reader tr and of its countingReader
  pos,            \* offset of the underlying reader
  count,          \* countingReader.count
  pad, curr, err,
  \* Next in progress: where, and its local extHdrs
  pc, ext,
  ret,            \* what the last Next or Read returned
  ckpt,           \* the last checkpoint, with the history it belongs to
  resumes,        \* number of calls of Resume
  \* history
  cur,            \* index of the entry Next returned last
  name,           \* index of the meta entry its name came from, or 0
  got,            \* bytes Read has returned of it
  seen,           \* indexes of the entries Next has returned
  stray           \* was a block read as a header that is none?

readerVars == <<pos, count, pad, curr, err>>
histVars == <<cur, name, got, seen, stray>>
vars == <<src, readerVars, pc, ext, ret, ckpt, resumes, histVars>>

NoCurr == [kind |-> "nil", nb |-> 0, sp |-> <<>>, fpos |-> 0, total |-> 0]
Reg(n) == [NoCurr EXCEPT !.kind = "reg", !.nb = n]
NoExt == [name |-> 0, size |-> None, fmt |-> "none", sp |-> <<>>, mapok |-> TRUE,
          total |-> None]
NoCheckpoint == [saved |-> FALSE]

\* What a call returned, and whether a call before it on this reader, or on the
\* one its checkpoint was saved from, failed.
NoRet == [op |-> "none", n |-> 0, err |-> "nil", m |-> 0, failed |-> FALSE]

Init ==
  /\ src \in Sources
  /\ pos = 0 /\ count = 0 /\ pad = 0 /\ curr = NoCurr /\ err = "nil"
  /\ pc = "idle" /\ ext = NoExt /\ ret = NoRet
  /\ ckpt = NoCheckpoint /\ resumes = 0
  /\ cur = 0 /\ name = 0 /\ got = <<>> /\ seen = <<>> /\ stray = FALSE

Avail(p) == Most(0, src.len - p)
numBytes == curr.nb

\* Advance the underlying reader by n bytes that pass the countingReader.
Advance(n) == pos' = pos + n /\ count' = count + n

-----------------------------------------------------------------------------
(***************************************************************************)
(* Next                                                                    *)
(***************************************************************************)

\* Next returns e: tr.err = err, even when it is nil.
NextReturns(e) ==
  /\ err' = e /\ pc' = "idle" /\ ext' = NoExt
  /\ ret' = [op |-> "Next", n |-> 0, err |-> e, m |-> 0, failed |-> ret.failed \/ e # "nil"]

NextRefused ==
  /\ pc = "idle" /\ err # "nil"
  /\ ret' = [op |-> "Next", n |-> 0, err |-> err, m |-> 0, failed |-> TRUE]
  /\ UNCHANGED <<src, readerVars, pc, ext, ckpt, resumes, histVars>>

Next_ ==
  /\ pc = "idle" /\ err = "nil"
  /\ pc' = "skip" /\ ext' = NoExt
  /\ UNCHANGED <<src, readerVars, ret, ckpt, resumes, histVars>>

\* (Mutated: all of the data is skipped with Seek, its last byte not read.)
SkipUnreadSeeksAll ==
  /\ pc = "skip"
  /\ LET seekSkipped == IF src.seekable /\ numBytes > 1 THEN numBytes ELSE 0
         want == numBytes + pad - seekSkipped
         copied == Least(want, Avail(pos + seekSkipped))
     IN /\ Advance(seekSkipped + copied)
        /\ IF copied = want
           THEN pc' = "header" /\ UNCHANGED <<err, ext, ret>>
           ELSE NextReturns(IF seekSkipped + copied < numBytes
                            THEN "ErrUnexpectedEOF" ELSE "EOF")
  /\ curr' = NoCurr /\ pad' = 0
  /\ UNCHANGED <<src, ckpt, resumes, histVars>>

\* skipUnread: seek to the last byte of the data, copy the rest and the
\* padding.  Padding may be missing at the end of the stream, data may not.
SkipUnread ==
  /\ pc = "skip"
  /\ LET seekSkipped == IF src.seekable /\ numBytes > 1 THEN numBytes - 1 ELSE 0
         want == numBytes + pad - seekSkipped
         copied == Least(want, Avail(pos + seekSkipped))
     IN /\ Advance(seekSkipped + copied)
        /\ IF copied = want
           THEN pc' = "header" /\ UNCHANGED <<err, ext, ret>>
           ELSE NextReturns(IF seekSkipped + copied < numBytes
                            THEN "ErrUnexpectedEOF" ELSE "EOF")
  /\ curr' = NoCurr /\ pad' = 0
  /\ UNCHANGED <<src, ckpt, resumes, histVars>>

\* What io.ReadFull of k blocks of the stream reports when it cannot.
ReadFullError(p) == IF Avail(p) = 0 THEN "EOF" ELSE "ErrUnexpectedEOF"

HeaderAt(i) == i \in 1 .. Len(src.entries) /\ src.off[i] = pos
AtZeroBlock == pos >= src.off[Len(src.entries) + 1]

\* (Mutated: the end of the stream is tried again.)
ReadHeaderEndRetries ==
  /\ pc = "header" /\ (Avail(pos) < blockSize \/ AtZeroBlock)
  /\ Advance(Avail(pos))
  /\ UNCHANGED <<src, pad, curr, err, pc, ext, ret, ckpt, resumes, histVars>>

\* readHeader, when it finds no header: the end of the stream or zero blocks.  (No
\* stream has anything behind its zero blocks, which would be ErrHeader.)
ReadHeaderEnd ==
  /\ pc = "header" /\ (Avail(pos) < blockSize \/ AtZeroBlock)
  /\ IF Avail(pos) < blockSize
     THEN Advance(Avail(pos)) /\ NextReturns(ReadFullError(pos))
     ELSE IF Avail(pos + blockSize) < blockSize
          THEN /\ Advance(Avail(pos))
               /\ NextReturns(ReadFullError(pos + blockSize))
          ELSE Advance(2 * blockSize) /\ NextReturns("EOF")
  /\ UNCHANGED <<src, pad, curr, ckpt, resumes, histVars>>

\* A block in the middle of the stream that is not the header of an entry:
\* whatever it holds, it does not describe a file.
ReadStray ==
  /\ pc = "header" /\ Avail(pos) >= blockSize /\ ~AtZeroBlock
  /\ \A i \in 1 .. Len(src.entries) : ~HeaderAt(i)
  /\ Advance(blockSize) /\ stray' = TRUE /\ NextReturns("ErrHeader")
  /\ UNCHANGED <<src, pad, curr, ckpt, resumes, cur, name, got, seen>>

\* A header that does not parse, or whose size is negative.
ReadHeaderBad ==
  /\ pc = "header" /\ Avail(pos) >= blockSize
  /\ \E i \in 1 .. Len(src.entries) :
       /\ HeaderAt(i)
       /\ \/ ~src.entries[i].valid /\ src.entries[i].type # "x"
          \/ DataSize(src.entries[i].type, src.entries[i].size) < 0
  /\ Advance(blockSize) /\ NextReturns("ErrHeader")
  /\ UNCHANGED <<src, pad, curr, ckpt, resumes, histVars>>

\* (Mutated: a GNU long name is not kept over the next header.)
MetaExtDropsName(i) ==
  LET e == src.entries[i] IN
  [ext EXCEPT !.size = IF e.type = "x" THEN e.rsize ELSE @,
              !.name = IF e.type = "x" /\ e.named THEN i ELSE 0]

\* An entry that describes the next one: read all its data (ioutil.ReadAll
\* over tr.Read), then keep what it says.  PAX data replaces extHdrs, a GNU
\* long name is added to them.
MetaExt(i) ==
  LET e == src.entries[i] IN
  IF e.type = "x"
  THEN [name |-> IF e.named THEN i ELSE 0, size |-> e.rsize, fmt |-> e.fmt,
        sp |-> e.sp, mapok |-> e.mapok, total |-> e.total]
  ELSE [ext EXCEPT !.name = i]

ReadMeta ==
  /\ pc = "header" /\ Avail(pos) >= blockSize
  /\ \E i \in 1 .. Len(src.entries) :
       LET e == src.entries[i]
           here == Least(e.size, Avail(pos + blockSize)) IN
       /\ HeaderAt(i) /\ ~IsFile(e) /\ e.size >= 0 /\ (e.valid \/ e.type = "x")
       /\ Advance(blockSize + here)
       /\ pad' = PadOf(e.size) /\ curr' = Reg(e.size - here)
       /\ CASE here < e.size -> NextReturns("ErrUnexpectedEOF")
            [] here = e.size /\ ~e.valid -> NextReturns("ErrHeader")
            [] OTHER -> pc' = "skip" /\ ext' = MetaExt(i) /\ UNCHANGED <<err, ret>>
  /\ UNCHANGED <<src, ckpt, resumes, histVars>>

\* (Mutated: the sum is checked without a guard against its overflow.)
SparseOKWraps(sp, total) ==
  /\ total >= 0
  /\ \A i \in 1 .. Len(sp) :
       /\ sp[i].offset >= 0 /\ sp[i].numBytes >= 0
       /\ Add64(sp[i].offset, sp[i].numBytes) <= total
       /\ i > 1 => Add64(sp[i-1].offset, sp[i-1].numBytes) <= sp[i].offset

\* newSparseFileReader: negative, overflowing, out of range or overlapping
\* fragments are refused.
SparseOK(sp, total) ==
  /\ total >= 0
  /\ \A i \in 1 .. Len(sp) :
       /\ sp[i].offset >= 0 /\ sp[i].numBytes >= 0
       /\ sp[i].offset <= maxInt64 - sp[i].numBytes
       /\ Add64(sp[i].offset, sp[i].numBytes) <= total
       /\ i > 1 => Add64(sp[i-1].offset, sp[i-1].numBytes) <= sp[i].offset

\* What reading a sparse map gives: raw bytes of it must be read and room bytes
\* are there; the numbers are those of m.  A number that does not parse is
\* seen once the map has been read.
ReadMap(raw, room, m) ==
  [err |-> IF room < raw THEN "ErrUnexpectedEOF"
           ELSE IF m.mapok THEN "nil" ELSE "ErrHeader",
   read |-> Least(room, raw), used |-> 0, sparse |-> TRUE, sp |-> m.sp, total |-> 0]

\* The extension headers of an old GNU map precede the data: they are read from
\* the stream, not from the data section.
readOldGNUSparseMap(e) ==
  LET m == ReadMap(e.blocks * blockSize, Avail(pos + blockSize), e) IN
  IF e.total = Bad THEN [m EXCEPT !.err = "ErrHeader", !.read = 0]
                   ELSE [m EXCEPT !.total = e.total]

\* The blocks of a 1.0 map are the start of the n bytes of the data section.
readGNUSparseMap1x0(e, n) ==
  LET m == ReadMap(e.blocks * blockSize, Least(n, Avail(pos + blockSize)), e)
  IN [m EXCEPT !.used = m.read]

\* A 0.x map is in the PAX records.  One without numbers does not parse.
readGNUSparseMap0x1 == ReadMap(0, 0, [ext EXCEPT !.mapok = @ /\ ext.sp # <<>>])

\* The PAX records say whether the file is sparse, and may replace its size; of
\* an unknown format they say nothing.
checkForGNUSparsePAXHeaders(e, size, n) ==
  LET m == IF ext.fmt = "1.0" THEN readGNUSparseMap1x0(e, n) ELSE readGNUSparseMap0x1
      none == [ReadMap(0, 0, NoExt) EXCEPT !.sparse = FALSE] IN
  IF ext.fmt \notin {"0.0", "0.1", "1.0"} THEN none
  ELSE IF ext.total = Bad THEN [none EXCEPT !.err = "ErrHeader"]
  ELSE [m EXCEPT !.total = IF ext.total = None THEN size ELSE ext.total]

\* handleSparseFile, for the file of entry e with the given merged size and n
\* bytes of data.  A map that newSparseFileReader refuses leaves a nil
\* *sparseFileReader in curr.
handleSparseFile(e, size, n) ==
  LET m == IF e.type = "sparse" THEN readOldGNUSparseMap(e)
           ELSE checkForGNUSparsePAXHeaders(e, size, n)
      refused == m.err = "nil" /\ m.sparse /\ ~SparseOK(m.sp, m.total)
      left == n - m.used
  IN [err |-> IF refused THEN "ErrHeader" ELSE m.err, read |-> m.read,
      curr |-> IF refused THEN [NoCurr EXCEPT !.kind = "nilsparse"]
               ELSE IF m.err # "nil" \/ ~m.sparse THEN Reg(left)
               ELSE [kind |-> "sparse", nb |-> left, sp |-> m.sp, fpos |-> 0,
                     total |-> m.total]]

\* A file: merge the extended headers, set up its data again with the merged
\* size, and its sparse map.
ReadFile ==
  /\ pc = "header" /\ Avail(pos) >= blockSize
  /\ \E i \in 1 .. Len(src.entries) :
       LET e == src.entries[i]
           size == mergePAX(e, ext.size)
           n == DataSize(e.type, size)
           s == handleSparseFile(e, size, n) IN
       /\ HeaderAt(i) /\ IsFile(e) /\ e.valid /\ DataSize(e.type, e.size) >= 0
       /\ IF size = Bad \/ n < 0
          THEN /\ Advance(blockSize) /\ NextReturns("ErrHeader")
               /\ pad' = PadOf(DataSize(e.type, e.size))
               /\ curr' = Reg(DataSize(e.type, e.size))
               /\ UNCHANGED <<cur, name, got, seen>>
          ELSE /\ Advance(blockSize + s.read) /\ NextReturns(s.err)
               /\ pad' = PadOf(n) /\ curr' = s.curr
               /\ IF s.err = "nil"
                  THEN /\ cur' = i /\ name' = ext.name /\ got' = <<>>
                       /\ seen' = Append(seen, i)
                  ELSE UNCHANGED <<cur, name, got, seen>>
  /\ UNCHANGED <<src, ckpt, resumes, stray>>

\* The underlying reader fails while Next skips data or reads a header.
NextIOError ==
  /\ IOFails /\ pc \in {"skip", "header"}
  /\ NextReturns("io")
  /\ IF pc = "skip" THEN curr' = NoCurr /\ pad' = 0 ELSE UNCHANGED <<curr, pad>>
  /\ \E n \in 0 .. Least(blockSize, Avail(pos)) : Advance(n)
  /\ UNCHANGED <<src, ckpt, resumes, histVars>>

\* What Next reads itself behind the header of an entry with n bytes of data: the
\* data of a meta entry, the extension headers of an old GNU map, a 1.0 map.
ReadByNext(e, n) ==
  CASE ~IsFile(e) -> n
    [] e.type = "sparse" /\ e.total # Bad -> e.blocks * blockSize
    [] e.type \in {"reg", "dir"} /\ ext.fmt = "1.0" /\ ext.total # Bad ->
         Least(n, e.blocks * blockSize)
    [] OTHER -> 0

\* The underlying reader fails there: the reader is already set up for the data.
NextDataIOError ==
  /\ IOFails /\ pc = "header" /\ Avail(pos) >= blockSize
  /\ \E i \in 1 .. Len(src.entries) :
       LET e == src.entries[i]
           size == IF IsFile(e) THEN mergePAX(e, ext.size) ELSE e.size
           n == DataSize(e.type, size) IN
       /\ HeaderAt(i) /\ (e.valid \/ e.type = "x") /\ DataSize(e.type, e.size) >= 0
       /\ size # Bad /\ n >= 0 /\ ReadByNext(e, n) > 0
       /\ \E k \in 0 .. Least(ReadByNext(e, n), Avail(pos + blockSize)) :
            /\ Advance(blockSize + k)
            /\ curr' = Reg(IF e.type = "sparse" THEN n ELSE n - k)
       /\ pad' = PadOf(n)
  /\ NextReturns("io")
  /\ UNCHANGED <<src, ckpt, resumes, histVars>>

-----------------------------------------------------------------------------
(***************************************************************************)
(* Read                                                                    *)
(***************************************************************************)

\* What the underlying reader may answer to a Read of b bytes: any number of them
\* up to what is there, with or without io.EOF at the end, or a failure.  (0, nil)
\* for a non-empty slice, which io.Reader discourages, is left out.
UnderlyingRead(b) ==
  LET most == Least(b, Avail(pos)) IN
  {[n |-> n, err |-> "nil"] : n \in (IF b = 0 THEN {0} ELSE 1 .. most)}
  \cup (IF Avail(pos) <= b THEN {[n |-> most, err |-> "EOF"]} ELSE {})
  \cup (IF IOFails THEN {[n |-> n, err |-> "io"] : n \in 0 .. most} ELSE {})

\* regFileReader.Read with a slice of b bytes.
RegRead(b) ==
  IF numBytes = 0 THEN {[n |-> 0, err |-> "EOF"]}
  ELSE {[n |-> u.n, err |-> IF u.err = "EOF" /\ u.n < numBytes
                            THEN "ErrUnexpectedEOF" ELSE u.err] :
          u \in UnderlyingRead(Least(b, numBytes))}

\* The bytes the next n bytes of the stream hold.
DataStart(i) ==
  IF i = 0 THEN 0
  ELSE src.off[i] + blockSize
    + (IF src.entries[i].type = "sparse" THEN blockSize * src.entries[i].blocks ELSE 0)
Bytes(n) == [k \in 1 .. n |-> pos + k - DataStart(cur)]

\* (Mutated: the error is returned and forgotten.)
ReadReturnsOnly(m, n, e) ==
  /\ err' = err
  /\ ret' = [op |-> "Read", n |-> n, err |-> e, m |-> m,
             failed |-> ret.failed \/ e \notin {"nil", "EOF"}]

\* Read returns n bytes; any error but io.EOF stays.
ReadReturns(m, n, e) ==
  /\ err' = IF e \in {"nil", "EOF"} THEN err ELSE e
  /\ ret' = [op |-> "Read", n |-> n, err |-> e, m |-> m,
             failed |-> ret.failed \/ e \notin {"nil", "EOF"}]

ReadRefused(m) ==
  /\ pc = "idle" /\ (err # "nil" \/ curr.kind = "nil")
  /\ ret' = [op |-> "Read", n |-> 0, err |-> IF err # "nil" THEN err ELSE "EOF", m |-> m,
             failed |-> ret.failed \/ err # "nil"]
  /\ UNCHANGED <<src, readerVars, pc, ext, ckpt, resumes, histVars>>

ReadReg(m) ==
  /\ pc = "idle" /\ err = "nil" /\ curr.kind = "reg"
  /\ \E u \in RegRead(m) :
       /\ Advance(u.n) /\ curr' = [curr EXCEPT !.nb = @ - u.n]
       /\ got' = got \o Bytes(u.n)
       /\ ReadReturns(m, u.n, u.err)
  /\ UNCHANGED <<src, pad, pc, ext, ckpt, resumes, cur, name, seen, stray>>

\* sparseFileReader.Read skips the empty fragments first.
Live(sp) ==
  LET live == {i \in 1 .. Len(sp) : sp[i].numBytes # 0} IN
  IF live = {} THEN <<>>
  ELSE SubSeq(sp, CHOOSE i \in live : \A j \in live : i <= j, Len(sp))

HoleEnd(sp) == IF sp = <<>> THEN curr.total ELSE sp[1].offset

\* readHole: zeros up to the next fragment, or to the end of the file.
ReadHole(m) ==
  /\ pc = "idle" /\ err = "nil" /\ curr.kind = "sparse"
  /\ LET sp == Live(curr.sp)
         n == Least(HoleEnd(sp) - curr.fpos, m)
     IN /\ curr.fpos < HoleEnd(sp)
        /\ curr' = [curr EXCEPT !.sp = sp, !.fpos = @ + n]
        /\ got' = got \o [k \in 1 .. n |-> 0]
        /\ ReadReturns(m, n, "nil")
  /\ UNCHANGED <<src, pos, count, pad, pc, ext, ckpt, resumes, cur, name, seen, stray>>

ReadSparseEnd(m) ==
  /\ pc = "idle" /\ err = "nil" /\ curr.kind = "sparse"
  /\ Live(curr.sp) = <<>> /\ curr.fpos >= curr.total
  /\ curr' = [curr EXCEPT !.sp = <<>>]
  /\ ReadReturns(m, 0, "EOF")
  /\ UNCHANGED <<src, pos, count, pad, pc, ext, ckpt, resumes, histVars>>

\* (Mutated: a fragment that was read stays in the map.)
ReadFragmentKeeps(m) ==
  /\ pc = "idle" /\ err = "nil" /\ curr.kind = "sparse"
  /\ LET sp == Live(curr.sp)
         endPos == Add64(sp[1].offset, sp[1].numBytes)
     IN /\ sp # <<>> /\ curr.fpos >= sp[1].offset
        /\ \E u \in RegRead(Least(m, endPos - curr.fpos)) :
             LET fpos == curr.fpos + u.n
                 e == IF u.err # "EOF" THEN u.err
                      ELSE IF fpos < endPos THEN "ErrUnexpectedEOF"
                      ELSE IF fpos < curr.total THEN "nil" ELSE "EOF"
             IN /\ Advance(u.n)
                /\ curr' = [curr EXCEPT !.nb = @ - u.n, !.fpos = fpos, !.sp = sp]
                /\ got' = got \o Bytes(u.n)
                /\ ReadReturns(m, u.n, e)
  /\ UNCHANGED <<src, pad, pc, ext, ckpt, resumes, cur, name, seen, stray>>

\* In a fragment: read from the data, and drop the fragment at its end.
ReadFragment(m) ==
  /\ pc = "idle" /\ err = "nil" /\ curr.kind = "sparse"
  /\ LET sp == Live(curr.sp)
         endPos == Add64(sp[1].offset, sp[1].numBytes)
     IN /\ sp # <<>> /\ curr.fpos >= sp[1].offset
        /\ \E u \in RegRead(Least(m, endPos - curr.fpos)) :
             LET fpos == curr.fpos + u.n
                 e == IF u.err # "EOF" THEN u.err
                      ELSE IF fpos < endPos THEN "ErrUnexpectedEOF"
                      ELSE IF fpos < curr.total THEN "nil" ELSE "EOF"
             IN /\ Advance(u.n)
                /\ curr' = [curr EXCEPT !.nb = @ - u.n, !.fpos = fpos,
                                        !.sp = IF fpos = endPos THEN Tail(sp) ELSE sp]
                /\ got' = got \o Bytes(u.n)
                /\ ReadReturns(m, u.n, e)
  /\ UNCHANGED <<src, pad, pc, ext, ckpt, resumes, cur, name, seen, stray>>

-----------------------------------------------------------------------------
(***************************************************************************)
(* Checkpoints                                                             *)
(***************************************************************************)

\* (Mutated: the padding is not saved.)
SaveNoPad ==
  /\ pc = "idle" /\ ~src.seekable /\ resumes < MaxResumes /\ curr.kind # "nilsparse"
  /\ SaveAfterError \/ err = "nil"
  /\ ckpt' = [saved |-> TRUE, Roffset |-> count, Pad |-> 0, curr |-> curr,
              cur |-> cur, name |-> name, got |-> got, seen |-> seen,
              failed |-> ret.failed]
  /\ UNCHANGED <<src, readerVars, pc, ext, ret, resumes, histVars>>

\* saverReader.Save.  tr.err is not part of a Checkpoint.  (A checkpoint that is
\* never resumed makes no difference.)
Save ==
  /\ pc = "idle" /\ ~src.seekable /\ resumes < MaxResumes /\ curr.kind # "nilsparse"
  /\ SaveAfterError \/ err = "nil"
  /\ ckpt' = [saved |-> TRUE, Roffset |-> count, Pad |-> pad, curr |-> curr,
              cur |-> cur, name |-> name, got |-> got, seen |-> seen,
              failed |-> ret.failed]
  /\ UNCHANGED <<src, readerVars, pc, ext, ret, resumes, histVars>>

\* A nil *sparseFileReader in curr is dereferenced.
SavePanic ==
  /\ pc = "idle" /\ ~src.seekable /\ resumes < MaxResumes /\ curr.kind = "nilsparse"
  /\ SaveAfterError \/ err = "nil"
  /\ pc' = "panic"
  /\ UNCHANGED <<src, readerVars, ext, ret, ckpt, resumes, histVars>>

\* (Mutated: the counter of the resumed reader starts at 0.)
ResumeCountsAnew ==
  /\ pc = "idle" /\ ckpt.saved /\ resumes < MaxResumes
  /\ pos' = ckpt.Roffset /\ count' = 0
  /\ pad' = ckpt.Pad /\ curr' = ckpt.curr /\ err' = "nil"
  /\ ret' = [NoRet EXCEPT !.failed = ckpt.failed] /\ resumes' = resumes + 1
  /\ cur' = ckpt.cur /\ name' = ckpt.name /\ got' = ckpt.got /\ seen' = ckpt.seen
  /\ UNCHANGED <<src, pc, ext, ckpt, stray>>

\* (Mutated: SparsePos is not restored.)
ResumeNoSparsePos ==
  /\ pc = "idle" /\ ckpt.saved /\ resumes < MaxResumes
  /\ pos' = ckpt.Roffset /\ count' = ckpt.Roffset
  /\ pad' = ckpt.Pad /\ curr' = [ckpt.curr EXCEPT !.fpos = 0] /\ err' = "nil"
  /\ ret' = [NoRet EXCEPT !.failed = ckpt.failed] /\ resumes' = resumes + 1
  /\ cur' = ckpt.cur /\ name' = ckpt.name /\ got' = ckpt.got /\ seen' = ckpt.seen
  /\ UNCHANGED <<src, pc, ext, ckpt, stray>>

\* Checkpoint.Resume, on the same stream moved to Roffset.
Resume ==
  /\ pc = "idle" /\ ckpt.saved /\ resumes < MaxResumes
  /\ pos' = ckpt.Roffset /\ count' = ckpt.Roffset
  /\ pad' = ckpt.Pad /\ curr' = ckpt.curr /\ err' = "nil"
  /\ ret' = [NoRet EXCEPT !.failed = ckpt.failed] /\ resumes' = resumes + 1
  /\ cur' = ckpt.cur /\ name' = ckpt.name /\ got' = ckpt.got /\ seen' = ckpt.seen
  /\ UNCHANGED <<src, pc, ext, ckpt, stray>>

-----------------------------------------------------------------------------
NextStep ==
  \/ SkipUnread \/ ReadHeaderEnd \/ ReadStray \/ ReadHeaderBad
  \/ ReadMeta \/ ReadFile

Read(m) ==
  ReadRefused(m) \/ ReadReg(m) \/ ReadHole(m) \/ ReadSparseEnd(m) \/ ReadFragment(m)

Next ==
  \/ NextRefused \/ Next_ \/ NextStep \/ NextIOError \/ NextDataIOError
  \/ \E m \in 0 .. MaxBuffer : Read(m)
  \/ Save \/ SavePanic \/ Resume

Spec == Init /\ [][Next]_vars

\* A goroutine in Next keeps running; no failure of the reader is promised.
FairSpec == Spec /\ WF_vars(NextStep)

-----------------------------------------------------------------------------
(***************************************************************************)
(* What the reader promises                                                *)
(***************************************************************************)

\* The PAX records in force for entry i.
PaxRecords(s, i) ==
  IF PaxBefore(s, i) = {} THEN NoExt
  ELSE LET x == s.entries[CHOOSE j \in PaxBefore(s, i) : TRUE] IN
       [name |-> 0, size |-> x.rsize, fmt |-> x.fmt, sp |-> x.sp, mapok |-> x.mapok,
        total |-> x.total]

\* The fragments and the length of the file of entry i, and the bytes of its data
\* section that precede the data of the first fragment.
SparseMapOf(s, i) ==
  LET e == s.entries[i]
      x == PaxRecords(s, i)
      total == IF x.total = None THEN mergePAX(e, x.size) ELSE x.total IN
  IF e.type = "sparse" THEN [sp |-> e.sp, total |-> e.total, skip |-> 0]
  ELSE IF x.fmt \in {"0.0", "0.1"} THEN [sp |-> x.sp, total |-> total, skip |-> 0]
  ELSE IF x.fmt = "1.0" THEN [sp |-> e.sp, total |-> total, skip |-> e.blocks * blockSize]
  ELSE [sp |-> <<[offset |-> 0, numBytes |-> e.len]>>, total |-> e.len, skip |-> 0]

\* Does a fragment of sp hold the p-th byte of the file, and how many of the first p
\* bytes are held?
Held(sp, p) ==
  \E f \in 1 .. Len(sp) : sp[f].offset < p /\ p <= sp[f].offset + sp[f].numBytes
DataUpTo(sp, p) == Cardinality({q \in 1 .. p : Held(sp, q)})

\* The data a client must get of the file of entry i: the bytes of the data
\* section one after the other where a fragment is, zeros elsewhere.
Expected(i) ==
  LET m == SparseMapOf(src, i) IN
  [p \in 1 .. m.total |-> IF Held(m.sp, p) THEN m.skip + DataUpTo(m.sp, p) ELSE 0]

\* The reader, or one before it, was resumed from a checkpoint taken after an
\* error, and is past what it refused.
PastError == resumes > 0 /\ ckpt.failed

TypeOK ==
  /\ src \in Sources /\ pos \in Nat /\ count \in Nat /\ pad \in 0 .. blockSize - 1
  /\ curr.kind \in {"nil", "reg", "sparse", "nilsparse"} /\ curr.nb \in Nat
  /\ err \in {"nil", "EOF", "ErrUnexpectedEOF", "ErrHeader", "io"}
  /\ pc \in {"idle", "skip", "header", "panic"}
  /\ cur \in 0 .. Len(src.entries) /\ resumes \in 0 .. MaxResumes
  /\ ~src.seekable => count = pos

\* Next looks for headers only where the writer put them: the bytes left of an
\* entry and its padding always lead to the next header, however much of the
\* entry was read, over short reads and across Save and Resume.
NeverStray == ~PastError =>
  /\ ~stray
  /\ (pc = "idle" /\ err = "nil" /\ cur > 0)
       => pos + numBytes + pad = src.off[cur + 1]

\* Read returns the bytes of the current file, in order, with zeros for its
\* holes, and io.EOF only after the last one: a truncated stream or a map
\* that promises more than the data holds is an error, never a short file.
ContentExact ==
  (cur > 0 /\ ~PastError) =>
    /\ Len(got) <= Len(Expected(cur))
    /\ got = SubSeq(Expected(cur), 1, Len(got))
    /\ (ret.op = "Read" /\ ret.err = "EOF" /\ err = "nil") => got = Expected(cur)

\* Next reports io.EOF only when no header of a file is left in the stream and
\* the data of the last file was all there, read or skipped: a stream cut in
\* the data is ErrUnexpectedEOF, also when it was skipped with Seek.
EOFMeansComplete ==
  (ret.op = "Next" /\ ret.err = "EOF" /\ pc = "idle" /\ ~PastError) =>
    /\ \A i \in 1 .. Len(src.entries) :
         (IsFile(src.entries[i]) /\ src.off[i] + blockSize <= src.len)
           => \E k \in 1 .. Len(seen) : seen[k] = i
    /\ cur > 0 => DataStart(cur) + src.entries[cur].len <= src.len

\* The error of the reader is persistent: once a call failed, no later one
\* succeeds, also on the reader a checkpoint resumes to.  (A checkpoint taken after
\* the error does not hold it.)
PersistentError == (ret.failed /\ ret.op # "none" /\ ~PastError) => ret.err # "nil"

\* A Read into a non-empty slice returns a byte or says why not, as the underlying
\* reader does.
ReadProgress ==
  (ret.op = "Read" /\ ret.m > 0 /\ ret.n = 0) => ret.err # "nil"

\* A fragment the reader works on lies within the file, ahead of its position.
SparseInside ==
  curr.kind = "sparse" =>
    /\ curr.fpos <= curr.total
    /\ \A i \in 1 .. Len(curr.sp) :
         /\ curr.fpos <= curr.sp[i].offset + curr.sp[i].numBytes
         /\ curr.sp[i].offset + curr.sp[i].numBytes <= curr.total

\* A header that describes the next file does so: the name of a file with long
\* name headers in front of it comes from one of them.
MetaApplies ==
  (cur > 0 /\ ~PastError) =>
    LET prev == IF Len(seen) > 1 THEN seen[Len(seen) - 1] ELSE 0
        named == {i \in prev + 1 .. cur - 1 : src.entries[i].named}
    IN IF named = {} THEN name = 0 ELSE name \in named

\* Next ends, whatever the stream holds, if the underlying reader always gives a
\* byte or an error.
NextEnds == (pc # "idle") ~> (pc \in {"idle", "panic"})
=============================================================================
