----------------------------- MODULE ZipArchive -----------------------------
(***************************************************************************)
(* The zip writer composed with the zip reader: at any time somebody may   *)
(* read the file, which has, behind the data that was in it before, what   *)
(* was flushed and perhaps a part of what is still buffered.               *)
(***************************************************************************)
EXTENDS ZipWriter, ZipDirectory

\* NewReader is given the size of its file as an int64.
ASSUME FileAssumption == \A n \in PrefixLens : n <= uint64max \div 2

\* The file with n bytes of the zip data in it.
File(n) == [k \in 1 .. prefix |-> PrefixByte(k)] \o SubSeq(out \o buf, 1, n)
Reached == Len(out) .. Len(out \o buf)
\* The file when nothing is buffered.
Opened == NewReader(File(Len(out)))

-----------------------------------------------------------------------------
(***************************************************************************)
(* The promises end where these hold                                       *)
(***************************************************************************)

\* An entry whose CreateHeader or whose compressor failed is in the directory.
Spoiled == \E i \in 1 .. listed : made[i] = -1
\* A FileHeader given to CreateHeader twice has one size and checksum for both.
Reused == \E i, j \in 1 .. listed : i # j /\ dir[i].fh = dir[j].fh
\* Close checks no lengths: a comment, or an Extra with the field it adds.
Overlong ==
  \E i \in 1 .. listed :
    LET fh == fhs[dir[i].fh]
    IN Len(ExtraBytes(fh.extra)) > uint16max \/ Len(NameBytes(fh.comment)) > uint16max
\* CreateHeader after Close has put more behind the archive than is searched.
Buried == \E k \in DOMAIN out : out[k].t = "end" /\ Len(out) - k + 1 > SearchLen

\* The last end record in the file b is one that the client's bytes hold.
Misled(b) ==
  LET o == findSignatureInBlock(b) IN o >= 0 /\ b[o + 1].t # "end"

\* A zip64 archive behind data that SetOffset does not know of.
Zip64Unaware ==
  base # prefix /\ \E k \in DOMAIN out : out[k].t = "end64"

Sound == ~Spoiled /\ ~Reused /\ ~Overlong /\ ~Buried /\ ~Misled(File(Len(out)))

-----------------------------------------------------------------------------
TypeOK ==
  /\ berr \in Outcomes /\ count \in Nat /\ closed \in BOOLEAN
  /\ comment \in 0 .. uint16max /\ compressors \subseteq {"LZMA"}
  /\ Len(made) = Len(dir) /\ Len(dir) <= MaxEntries
  /\ \A i \in DOMAIN dir : dir[i].fh \in DOMAIN fhs /\ dir[i].offset \in 0 .. count
  /\ last.i \in 0 .. Len(dir) /\ (last.i = 0 => last.closed)
  /\ arg \in {0} \cup DOMAIN fhs
  /\ pc \in {"idle", "flush", "comp", "descriptor", "create", "close", "directory",
             "finish", "panic"}

\* Nothing written is lost between the counter, the buffer and the sink.
\* "Flush flushes any buffered data to the underlying writer."
FlushKeepsData ==
  (berr = "nil" /\ pc # "flush") => Len(out) + Len(buf) = count - base

Contents(i) == [k \in 1 .. made[i] |-> <<i, k>>]

\* The data of entry i that is written so far, and whether its descriptor is.
EntryData(i) ==
  LET waiting == IF i = last.i THEN Len(last.pending) ELSE 0
      ended == i # last.i \/ (last.closed /\ pc # "comp")
  IN IF fhs[dir[i].fh].method = "Deflate"
     THEN Deflated(SubSeq(Contents(i), 1, made[i] - waiting))
          \o (IF ended THEN FinalBlock ELSE <<>>)
     ELSE Raw(i, 0, made[i])
Done(i) == i # last.i \/ (last.closed /\ pc \notin {"comp", "descriptor"})

EndsAt(all, i, after) ==
  /\ Found(all, after, dataDescriptorLen, "descriptor")
  /\ all[after + 1].crc = Contents(i)
  /\ (i < Len(dir) /\ ~closed) =>
       dir[i + 1].offset - base - after \in {dataDescriptorLen, dataDescriptor64Len}

BodyAt(all, i, body, data) ==
  /\ Slice(all, body, Len(data)) = data
  /\ Done(i) => EndsAt(all, i, body + Len(data))

InPlace(all, i, at, data) ==
  /\ Found(all, at, fileHeaderLen, "file")
  /\ BodyAt(all, i, at + findBodyOffset(all[at + 1]), data)

\* While the archive is written, every entry of the directory is where its
\* offset says: a local header, then its data as far as the compressor has
\* delivered it, then, once the entry is closed, its descriptor and right after
\* it the next entry, whatever the compressor still had to write when the next
\* entry was created.
EntriesInPlace ==
  (berr = "nil" /\ pc # "flush") =>
    \A i \in DOMAIN dir :
      made[i] # -1 => InPlace(out \o buf, i, dir[i].offset - base, EntryData(i))

\* A file that the writer did not finish, because it crashed, its sink failed
\* or its client stopped at any point, is not read as an archive, unless the
\* client's own bytes have an end record: the code takes the last one it finds
\* for that of the file, so that of an entry that is a stored zip file, too.
TruncatedRefused ==
  \A n \in Reached :
    (NewReader(File(n)).err = "nil" /\ ~Misled(File(n))) => end > 0 /\ n + base >= end

\* After Close has returned nil the archive can be opened, also behind data in
\* front of it and with entries added behind it by mistake.
CloseReadable ==
  (sealed /\ Sound /\ ~Zip64Unaware) => Opened.err = "nil"

\* The README of the repository: the reader "supports zip files with arbitrary
\* data prepended", whether or not the writer knew of the data.
PrependedReadable ==
  (sealed /\ Sound) => Opened.err = "nil"

\* What was written into each entry is what is read from it, in order, complete
\* and with a correct checksum, on both sides of the zip64 limits of sizes,
\* offsets and counts.
ContentKept ==
  LET kept(r) == (r.err = "nil" /\ Sound) =>
        /\ Len(r.files) = listed
        /\ \A i \in 1 .. listed :
             ReadAll(File(Len(out)), r.files[i]) = [err |-> "EOF", data |-> Contents(i)]
  IN kept(Opened)

\* A name that is valid UTF-8, of an entry that does not ask for another encoding
\* and has a valid comment, is read back as it was written, even if another name
\* in the archive makes the reader convert names.
NamesKept ==
  LET plain(h) == /\ ~h.nonUTF8 /\ detectUTF8(NameBytes(h.name)).valid
                  /\ detectUTF8(NameBytes(h.comment)).valid
      kept(r) == (r.err = "nil" /\ Sound) =>
        \A i \in 1 .. listed :
          plain(fhs[dir[i].fh]) => r.files[i].name = NameBytes(fhs[dir[i].fh].name)
  IN kept(Opened)
=============================================================================
