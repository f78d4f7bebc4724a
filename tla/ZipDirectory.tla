---------------------------- MODULE ZipDirectory ----------------------------
(***************************************************************************)
(* NewReader of zip/reader.go as a function of the bytes of a file: the    *)
(* search for the end of the directory, zip64, data in front of the zip    *)
(* data, the directory headers, the encoding of the names; and the reading *)
(* of one entry from Open to io.EOF.  Offsets count from 0, as in the code.*)
(***************************************************************************)
EXTENDS ZipFormat

CONSTANT
  SearchLen,     \* how far from the end the end record is looked for: 65 * 1024
  uint64max      \* offsets are unsigned: their difference wraps around

ASSUME DirectoryAssumption ==
  /\ SearchLen \in Nat /\ SearchLen >= directoryEndLen + uint16max
  /\ uint64max \in Nat /\ uint64max > uint32max

Slice(b, o, n) == SubSeq(b, o + 1, o + n)
\* ReadAt of n bytes at offset o begins with a record of kind t.
Found(b, o, n, t) == o >= 0 /\ o + n <= Len(b) /\ b[o + 1].t = t

uint64(n) == n % (uint64max + 1)
\* Conversion of an unsigned number to int64.
int64(n) == IF n > uint64max \div 2 THEN n - (uint64max + 1) ELSE n

\* The offset of the end record, -1 if there is none: the last one found whose
\* comment is inside the file.
findSignatureInBlock(b) ==
  LET first == IF Len(b) > SearchLen THEN Len(b) - SearchLen ELSE 0
      ends == {o \in first .. Len(b) - directoryEndLen :
                 /\ BeginsEnd(b[o + 1])
                 /\ o + directoryEndLen + EndAt(b[o + 1]).comment <= Len(b)}
  IN IF ends = {} THEN -1 ELSE CHOOSE o \in ends : \A q \in ends : q <= o

\* The offset of the zip64 end record that the locator in front of the end
\* record gives, -1 if there is no locator.
findDirectory64End(b, endOffset) ==
  LET o == endOffset - directory64LocLen
  IN IF Found(b, o, directory64LocLen, "locator") THEN b[o + 1].offset ELSE -1

\* (Mutated: the size of the zip64 records is not taken out.)
ComputedOffsetAtEnd(endOffset, p, zip64, size) == endOffset - size

\* Where the directory is by its size: it ends at the first end record.
ComputedOffset(endOffset, p, zip64, size) == (IF zip64 THEN p ELSE endOffset) - size

Failed(e) == [err |-> e, records |-> 0, offset |-> 0, skip |-> 0]

\* The directory is looked for at the computed offset, if that is inside the
\* file; the difference to what the record d says is data in front of the zip data.
Located(b, d, computed) ==
  IF computed > 0 /\ computed < Len(b) /\ computed # d.offset
  THEN [err |-> "nil", records |-> d.records, offset |-> computed,
        skip |-> uint64(computed - d.offset)]
  ELSE [err |-> IF d.offset >= Len(b) THEN "ErrFormat" ELSE "nil",
        records |-> d.records, offset |-> d.offset, skip |-> 0]

\* (The code compares a size of 32 bits with 0xffff.)
ProbablyZip64(d) == d.records = uint16max \/ d.size = uint16max \/ d.offset = uint32max

\* The end record d is at o, and the locator in front of it gives p.
ReadEnd(b, o, d, p) ==
  CASE p >= 0 /\ Found(b, p, directory64EndLen, "end64") ->
         Located(b, b[p + 1], ComputedOffset(o, p, TRUE, b[p + 1].size))
    [] p >= 0 /\ ~Found(b, p, directory64EndLen, "end64") /\ ProbablyZip64(d) ->
         Failed("ErrFormat")
    [] OTHER -> Located(b, d, ComputedOffset(o, p, FALSE, d.size))

ReadEndAt(b, o) ==
  CASE o = -1 -> Failed("ErrFormat")
    [] o >= 0 /\ o + directoryEndLen + EndAt(b[o + 1]).comment > Len(b) -> Failed("comment")
    [] OTHER -> ReadEnd(b, o, EndAt(b[o + 1]), findDirectory64End(b, o))

readDirectoryEnd(b) == ReadEndAt(b, findSignatureInBlock(b))

-----------------------------------------------------------------------------
\* The first zip64 field in an Extra of n bytes at offset o, of those that fit,
\* as a sequence: it is empty if there is none.
Zip64Field(b, o, n) ==
  LET starts == {k \in 1 .. n : /\ b[o + k].t = "extra" /\ b[o + k].tag = "zip64"
                                /\ k + FieldLen(b[o + k]) <= n + 1}
  IN IF starts = {} THEN <<>>
     ELSE <<b[o + CHOOSE k \in starts : \A j \in starts : k <= j]>>

NonUTF8(name, text, flag) ==
  LET n == detectUTF8(name)  c == detectUTF8(text)
  IN \/ ~n.valid \/ ~c.valid
     \/ (n.require \/ c.require) /\ ~flag

\* (Mutated: the zip64 field is not consulted for the offset.)
Zip64OffsetIgnored(d, z) ==
  [usize |-> IF d.usize = uint32max /\ z # <<>> THEN z[1].usize ELSE d.usize,
   csize |-> IF d.csize = uint32max /\ z # <<>> THEN z[1].csize ELSE d.csize,
   offset |-> d.offset,
   err |-> IF z = <<>> /\ (d.csize = uint32max \/ d.offset = uint32max)
           THEN "ErrFormat" ELSE "nil"]

\* Sizes and offset: the first zip64 field replaces the ones that are maxed out,
\* and without one only the uncompressed size may be.  (The code takes the values of
\* the field one after the other, as many as are maxed out.  With a field of the writer
\* both sizes are, and the offset is the last value: each is in its place.)
Zip64(d, z) ==
  [usize |-> IF d.usize = uint32max /\ z # <<>> THEN z[1].usize ELSE d.usize,
   csize |-> IF d.csize = uint32max /\ z # <<>> THEN z[1].csize ELSE d.csize,
   offset |-> IF d.offset = uint32max /\ z # <<>> THEN z[1].offset ELSE d.offset,
   err |-> IF z = <<>> /\ (d.csize = uint32max \/ d.offset = uint32max)
           THEN "ErrFormat" ELSE "nil"]

Stop(e) == [err |-> e]

\* The file of a directory header d with the values z and the name and comment.
ListedFile(d, z, name, text) ==
  [err |-> z.err, name |-> name, method |-> d.method, crc |-> d.crc, usize |-> z.usize,
   csize |-> z.csize, offset |-> z.offset, nonUTF8 |-> NonUTF8(name, text, d.utf8),
   next |-> directoryHeaderLen + d.name + d.extra + d.comment]

\* The name, extra and comment of the header d, which begin at offset o.
readVariable(b, o, d) ==
  IF o + d.name + d.extra + d.comment > Len(b)
  THEN Stop(IF o = Len(b) THEN "EOF" ELSE "ErrUnexpectedEOF")
  ELSE ListedFile(d, Zip64(d, Zip64Field(b, o + d.name, d.extra)),
                  Slice(b, o, d.name), Slice(b, o + d.name + d.extra, d.comment))

\* readDirectoryHeader at offset o.  io.EOF only if there is no byte at all.
readDirectoryHeader(b, o) ==
  CASE o >= Len(b) -> Stop("EOF")
    [] o < Len(b) /\ o + directoryHeaderLen > Len(b) -> Stop("ErrUnexpectedEOF")
    [] o + directoryHeaderLen <= Len(b) /\ b[o + 1].t # "directory" -> Stop("ErrFormat")
    [] OTHER -> readVariable(b, o + directoryHeaderLen, b[o + 1])

\* A round of the loop of Reader.init: l has the files read so far, the offset
\* of the next header and the error that ended the loop.
NextFile(b, skip, l) ==
  LET add(f) == IF f.err # "nil" THEN [l EXCEPT !.err = f.err]
                ELSE [err |-> "nil", at |-> l.at + f.next,
                      files |-> Append(l.files, [f EXCEPT !.offset = @ + int64(skip)])]
  IN IF l.err # "nil" THEN l ELSE add(readDirectoryHeader(b, l.at))

\* The loop, from offset o on.  Every round but the last reads some bytes.
readHeaders(b, o, skip) ==
  LET loop[n \in 0 .. Len(b) + 1] ==
        IF n = 0 THEN [err |-> "nil", at |-> o, files |-> <<>>]
        ELSE NextFile(b, skip, loop[n - 1])
  IN loop[Len(b) + 1]

\* Some name is not UTF-8: the names of all files with nonUTF8 are converted.
normalizeNameEncoding(files) ==
  IF \E k \in DOMAIN files : files[k].nonUTF8 /\ ~detectUTF8(files[k].name).valid
  THEN [k \in DOMAIN files |->
          IF files[k].nonUTF8 THEN [files[k] EXCEPT !.name = <<[t |-> "decoded", of |-> @]>>]
          ELSE files[k]]
  ELSE files

NoReader(e) == [err |-> e, files |-> <<>>]

\* The loop ended with r where the end record promised that many records; only
\* 16 bits of them are compared.
Counted(r, records) ==
  CASE r.err \notin {"ErrFormat", "ErrUnexpectedEOF"} -> NoReader(r.err)
    [] OTHER -> IF uint16(Len(r.files)) # uint16(records) THEN NoReader(r.err)
                ELSE [err |-> "nil", files |-> normalizeNameEncoding(r.files)]

init(b, end) ==
  CASE end.err # "nil" -> NoReader(end.err)
    [] end.err = "nil" /\ end.records > Len(b) \div fileHeaderLen -> NoReader("impossible")
    [] OTHER -> Counted(readHeaders(b, end.offset, end.skip), end.records)

NewReader(b) == init(b, readDirectoryEnd(b))

-----------------------------------------------------------------------------
\* What decompressing the section s gives: its units, and whether it ended well.
Decompress(method, s) ==
  CASE method = "Deflate" ->
         [units |-> [k \in 1 .. Len(s) - 1 |-> s[k].unit],
          ok |-> /\ s # <<>> /\ s[Len(s)].t = "final"
                 /\ \A k \in 1 .. Len(s) - 1 : s[k].t = "deflated"]
    [] OTHER -> [units |-> [k \in DOMAIN s |-> s[k].unit],
                 ok |-> \A k \in DOMAIN s : s[k].t = "raw"]

\* checksumReader at the end of the data: length, descriptor, checksum.
CheckEnd(b, f, data, after) ==
  CASE ~data.ok -> "corrupt"
    [] data.ok /\ (Len(data.units) # f.usize \/ after + dataDescriptorLen > Len(b)) ->
         "ErrUnexpectedEOF"
    [] OTHER -> IF b[after + 1].t # "descriptor" \/ b[after + 1].crc # f.crc
                   \/ data.units # f.crc
                THEN "ErrChecksum" ELSE "EOF"

ReadBody(b, f, body) ==
  LET data == Decompress(f.method, Slice(b, body, f.csize))
  IN [err |-> CheckEnd(b, f, data, body + f.csize), data |-> data.units]

\* findBodyOffset: the length of the local header h with its name and extra.
findBodyOffset(h) == fileHeaderLen + h.name + h.extra

\* Open, and Read up to io.EOF or an error.
ReadAll(b, f) ==
  IF Found(b, f.offset, fileHeaderLen, "file")
  THEN ReadBody(b, f, f.offset + findBodyOffset(b[f.offset + 1]))
  ELSE [err |-> "ErrFormat", data |-> <<>>]
=============================================================================
