------------------------------ MODULE ZipWriter ------------------------------
(***************************************************************************)
(* The zip writer of zip/writer.go: CreateHeader, Write of an entry, its   *)
(* close, SetOffset, SetComment, RegisterCompressor, Flush and Close, over *)
(* a bufio.Writer whose sink may fail in the middle of a write.            *)
(*                                                                         *)
(* The compressor of a deflated entry is a pflate.Writer, used as          *)
(* DeflateStream promises: what Write accepts is delivered later, by a     *)
(* goroutine of its own (Deliver), and its Close waits for that.           *)
(* The client makes one call at a time; a call takes one step per write.   *)
(* Versions, attributes and times are left out: nothing here reads them.   *)
(***************************************************************************)
EXTENDS ZipFormat

CONSTANTS
  HeaderSets,     \* what a client may have set in its FileHeaders: sequences
  PrefixLens,       \* lengths of the data in front of the zip data in its file
  Chunks,         \* lengths of the slices given to Write
  Comments,       \* lengths of the comments given to SetComment
  MaxEntries,     \* bound: entries of the directory
  MaxLate,        \* bound: the same after Close or a failed write
  MaxWrites,      \* bound: calls of Write for an entry
  MaxSettings,    \* bound: entries in dir when a setting is made
  MaxFlush,       \* bound: entries in dir when Flush is called
  SinkFails,      \* may a write to the sink fail?
  CustomFails,    \* may a compressor of the client fail?
  FlushRaces      \* may Flush be called with a compressor at work?

ASSUME ZipWriterAssumption ==
  /\ PrefixLens \cup Chunks \cup Comments \subseteq Nat
  /\ {MaxEntries, MaxLate, MaxWrites, MaxSettings, MaxFlush} \subseteq Nat
  /\ MaxLate <= MaxEntries
  /\ {SinkFails, CustomFails, FlushRaces} \subseteq BOOLEAN
  /\ \A hs \in HeaderSets : \A p \in DOMAIN hs :
       hs[p] \in [name : Names, comment : Names, nonUTF8 : BOOLEAN,
                  method : {"Store", "Deflate", "LZMA"}, modified : BOOLEAN]

VARIABLES
  out, buf, berr,       \* the bufio.Writer: flushed to the sink; not flushed (the
                        \* sink has any part from the start of it); its error
  count,                \* w.cw.count
  dir, fhs,             \* w.dir; the FileHeaders its elements point to
  last,                 \* w.last
  closed, comment,      \* w.closed; the length of w.comment
  compressors,          \* the methods of w.compressors
  pc, arg, pos,         \* the call in progress, its header, its place in dir
  \* history
  sealed,               \* has Close returned nil?
  prefix, base,         \* bytes in front of the zip data; what SetOffset declared
  made,                 \* per element of dir: units accepted, or -1 if spoiled
  end, listed           \* count after Close wrote the archive; entries it listed

bufio == <<out, buf, berr>>
fields == <<dir, fhs, last, closed, comment, compressors>>
hist == <<prefix, base, made, end, listed>>
vars == <<bufio, count, fields, pc, arg, pos, sealed, hist>>

\* No writer, or a closed one: the code treats them alike.
NoWriter == [i |-> 0, kind |-> "Store", closed |-> TRUE, raw |-> 0, comp |-> 0,
             sum |-> <<>>, pending |-> <<>>, writes |-> 0]

NewFileHeader(h) ==
  [name |-> h.name, comment |-> h.comment, nonUTF8 |-> h.nonUTF8, method |-> h.method,
   modified |-> h.modified, utf8 |-> FALSE, extra |-> <<>>, crc |-> <<>>, csize |-> 0,
   usize |-> 0, csize64 |-> 0, usize64 |-> 0]

Init ==
  /\ out = <<>> /\ buf = <<>> /\ berr = "nil" /\ count = 0
  /\ dir = <<>>
  /\ \E hs \in HeaderSets : fhs = [p \in DOMAIN hs |-> NewFileHeader(hs[p])]
  /\ last = NoWriter /\ closed = FALSE /\ comment = 0 /\ compressors = {}
  /\ pc = "idle" /\ arg = 0 /\ pos = [k |-> 0, start |-> 0]
  /\ sealed = FALSE /\ prefix \in PrefixLens /\ base = 0 /\ made = <<>> /\ end = 0 /\ listed = 0

Outcomes == {"nil", "io"}

\* countWriter.Write(b) over the bufio.Writer.  The sink may fail after some of
\* what it is given, and every write after that fails too.
Write_(b, e) ==
  \/ /\ e = "nil" /\ berr = "nil" /\ buf' = buf \o b /\ count' = count + Len(b)
     /\ UNCHANGED <<out, berr>>
  \/ /\ e = "io" /\ berr = "nil" /\ SinkFails /\ buf' = buf \o b /\ berr' = "io"
     /\ UNCHANGED <<out, count>>
  \/ e = "io" /\ berr = "io" /\ UNCHANGED <<bufio, count>>

Op == IF arg = 0 THEN "Close" ELSE "CreateHeader"
\* The call returns the error e; what Close returns is remembered.
Returns(op, e) ==
  /\ pc' = "idle" /\ arg' = 0 /\ UNCHANGED pos
  /\ sealed' = (sealed \/ (op = "Close" /\ e = "nil"))
Goes(p) == pc' = p /\ UNCHANGED <<arg, pos, sealed>>
\* A call of one step that returns e.
Call(op, e) == pc = "idle" /\ Returns(op, e)

-----------------------------------------------------------------------------
(***************************************************************************)
(* Settings                                                                *)
(***************************************************************************)

\* (Mutated: also after data was written.)
SetOffsetAnytime ==
  /\ Call("SetOffset", "nil")
  /\ count' = prefix /\ base' = prefix
  /\ UNCHANGED <<bufio, fields, prefix, made, end, listed>>

\* (The client declares the truth.)
SetOffset ==
  /\ count = 0 /\ Call("SetOffset", "nil")
  /\ count' = prefix /\ base' = prefix
  /\ UNCHANGED <<bufio, fields, prefix, made, end, listed>>

SetOffsetPanic ==
  /\ pc = "idle" /\ count # 0 /\ Len(dir) <= MaxFlush /\ Goes("panic")
  /\ UNCHANGED <<bufio, count, fields, hist>>

\* (Mutated: any length.)
SetCommentUnchecked(n) ==
  /\ Len(dir) <= MaxSettings /\ Call("SetComment", "nil")
  /\ comment' = n
  /\ UNCHANGED <<bufio, count, dir, fhs, last, closed, compressors, hist>>

SetComment(n) ==
  /\ Len(dir) <= MaxSettings /\ Call("SetComment", IF n > uint16max THEN "too long" ELSE "nil")
  /\ comment' = IF n > uint16max THEN comment ELSE n
  /\ UNCHANGED <<bufio, count, dir, fhs, last, closed, compressors, hist>>

RegisterCompressor(method) ==
  /\ Len(dir) <= MaxSettings /\ Call("RegisterCompressor", "nil")
  /\ compressors' = compressors \cup {method}
  /\ UNCHANGED <<bufio, count, dir, fhs, last, closed, comment, hist>>

\* Writer.compressor: one of the writer's own, or of the package.
compressor(method) ==
  CASE method \in compressors -> "Custom"
    [] method \in {"Store", "Deflate"} -> method
    [] OTHER -> "nil"

-----------------------------------------------------------------------------
(***************************************************************************)
(* Flush of the bufio.Writer: the buffer is written, then emptied          *)
(***************************************************************************)

FlushError == buf # <<>> /\ Write_(<<>>, "io")

Flush ==
  /\ pc = "idle" /\ Len(dir) <= MaxFlush /\ (FlushRaces \/ last.pending = <<>>)
  /\ \/ (buf = <<>> \/ berr # "nil") /\ Returns("Flush", berr) /\ UNCHANGED bufio
     \/ buf # <<>> /\ berr = "nil" /\ out' = out \o buf /\ Goes("flush")
        /\ UNCHANGED <<buf, berr>>
     \/ FlushError /\ Returns("Flush", "io")
  /\ UNCHANGED <<count, fields, hist>>

FlushEnd ==
  /\ pc = "flush" /\ buf' = <<>> /\ Returns("Flush", "nil")
  /\ UNCHANGED <<out, berr, count, fields, hist>>

-----------------------------------------------------------------------------
(***************************************************************************)
(* fileWriter                                                              *)
(***************************************************************************)

\* The file writer of an earlier entry, or of the last one after its close.
WriteRefused ==
  /\ \E i \in 1 .. last.i : made[i] >= 0 /\ (i < last.i \/ last.closed)
  /\ Call("Write", "closed")
  /\ UNCHANGED <<bufio, count, fields, hist>>

\* A compressor that writes through, and pflate, which only takes the data.  The
\* latter may not know yet that the sink has failed.  (A compressor of the client
\* fails on its own in Close, not in Write.)
Write(m) ==
  LET i == last.i  units == [k \in 1 .. m |-> <<i, last.raw + k>>]
      hashed == [last EXCEPT !.sum = @ \o units, !.writes = @ + 1]
      accept == [hashed EXCEPT !.raw = @ + m]
  IN
  /\ pc = "idle" /\ ~last.closed /\ last.writes < MaxWrites
  /\ \/ /\ last.kind = "Deflate" /\ Returns("Write", "nil")
        /\ last' = [accept EXCEPT !.pending = @ \o units]
        /\ made' = [made EXCEPT ![i] = @ + m] /\ UNCHANGED <<bufio, count>>
     \/ /\ last.kind = "Deflate" /\ berr = "io" /\ Returns("Write", "io")
        /\ last' = hashed
        /\ UNCHANGED <<bufio, count, made>>
     \/ /\ last.kind # "Deflate" /\ Write_(Raw(i, last.raw, m), "nil")
        /\ Returns("Write", "nil") /\ last' = [accept EXCEPT !.comp = @ + m]
        /\ made' = [made EXCEPT ![i] = @ + m]
     \/ /\ last.kind # "Deflate" /\ Write_(Raw(i, last.raw, m), "io")
        /\ Returns("Write", "io") /\ last' = hashed
        /\ UNCHANGED made
  /\ UNCHANGED <<dir, fhs, closed, comment, compressors, prefix, base, end, listed>>

\* The listener of pflate writes what it has, at any time after Write took it.
\* (In one piece: parts of it would have the same neighbours.  What it has when
\* the sink has failed is dropped.)
Deliver ==
  /\ last.pending # <<>>
  /\ \E e \in Outcomes :
       /\ Write_(Deflated(last.pending), e)
       /\ last' = [last EXCEPT !.comp = IF e = "nil" THEN @ + Len(last.pending) ELSE @,
                                !.pending = <<>>]
  /\ UNCHANGED <<dir, fhs, closed, comment, compressors, pc, arg, pos, sealed, hist>>

\* close, called by CreateHeader and Close: closed is set, the compressor closed.
\* An entry whose compressor fails stays in dir as it is.
CompClose ==
  /\ pc = "comp"
  /\ \/ /\ last.kind # "Deflate" /\ Goes("descriptor")
        /\ UNCHANGED <<bufio, count, last, made>>
     \/ /\ last.kind = "Custom" /\ CustomFails /\ Returns(Op, "compressor")
        /\ made' = [made EXCEPT ![last.i] = -1] /\ UNCHANGED <<bufio, count, last>>
     \/ /\ last.kind = "Deflate" /\ last.pending = <<>>
        /\ \E e \in Outcomes :
             /\ Write_(FinalBlock, e)
             /\ IF e = "nil" THEN /\ last' = [last EXCEPT !.comp = @ + 1]
                                  /\ Goes("descriptor") /\ UNCHANGED made
                             ELSE /\ made' = [made EXCEPT ![last.i] = -1]
                                  /\ Returns(Op, e) /\ UNCHANGED last
  /\ UNCHANGED <<dir, fhs, closed, comment, compressors, prefix, base, end, listed>>

\* The FileHeader as close leaves it.
Updated(fh) ==
  LET f == [fh EXCEPT !.crc = last.sum, !.csize64 = last.comp, !.usize64 = last.raw]
  IN [f EXCEPT !.csize = IF isZip64(f) THEN uint32max ELSE f.csize64,
               !.usize = IF isZip64(f) THEN uint32max ELSE f.usize64]

DescriptorBytes(fh) ==
  Record([t |-> "descriptor", crc |-> fh.crc],
         IF isZip64(fh) THEN dataDescriptor64Len ELSE dataDescriptorLen)

Descriptor ==
  LET p == dir[last.i].fh IN
  /\ pc = "descriptor"
  /\ fhs' = [fhs EXCEPT ![p] = Updated(@)]
  /\ \E e \in Outcomes :
       /\ Write_(DescriptorBytes(Updated(fhs[p])), e)
       /\ IF e # "nil" THEN Returns(Op, e)
          ELSE Goes(IF Op = "Close" THEN "close" ELSE "create")
  /\ UNCHANGED <<dir, last, closed, comment, compressors, hist>>

-----------------------------------------------------------------------------
(***************************************************************************)
(* CreateHeader                                                            *)
(***************************************************************************)

\* Both CreateHeader and Close first close the open entry.
CloseLast(next) ==
  IF last.closed THEN pc' = next /\ UNCHANGED last
                 ELSE pc' = "comp" /\ last' = [last EXCEPT !.closed = TRUE]

\* (Mutated: the open entry is left open.)
CreateHeaderKeepsOpen(p) ==
  /\ pc = "idle" /\ Len(dir) < (IF closed \/ berr # "nil" THEN MaxLate ELSE MaxEntries)
  /\ arg' = p /\ pc' = "create" /\ UNCHANGED last
  /\ UNCHANGED <<bufio, count, dir, fhs, closed, comment, compressors, pos, sealed, hist>>

CreateHeader(p) ==
  /\ pc = "idle" /\ Len(dir) < (IF closed \/ berr # "nil" THEN MaxLate ELSE MaxEntries)
  /\ arg' = p /\ CloseLast("create")
  /\ UNCHANGED <<bufio, count, dir, fhs, closed, comment, compressors, pos, sealed, hist>>

\* Only the entry right before is compared.
Duplicate ==
  /\ pc = "create" /\ dir # <<>> /\ dir[Len(dir)].fh = arg
  /\ Returns("CreateHeader", "duplicate")
  /\ UNCHANGED <<bufio, count, fields, hist>>

\* (Mutated: the flag is set only if the client set it.)
EncodedByClient(fh) == ~fh.nonUTF8 /\ fh.utf8

Encoded(fh) ==
  LET name == detectUTF8(NameBytes(fh.name))  text == detectUTF8(NameBytes(fh.comment))
  IN IF fh.nonUTF8 THEN FALSE
     ELSE fh.utf8 \/ ((name.require \/ text.require) /\ name.valid /\ text.valid)

Prepared(fh) ==
  [fh EXCEPT !.utf8 = Encoded(fh),
             !.extra = IF fh.modified THEN Append(@, ExtTime) ELSE @]

HeaderBytes(fh) ==
  LET name == NameBytes(fh.name)  extra == ExtraBytes(fh.extra)
  IN Record([t |-> "file", name |-> Len(name), extra |-> Len(extra)], fileHeaderLen)
     \o name \o extra

CreateFails ==
  LET kind == compressor(fhs[arg].method) IN
  /\ pc = "create" /\ ~(dir # <<>> /\ dir[Len(dir)].fh = arg)
  /\ fhs' = [fhs EXCEPT ![arg] = Prepared(@)]
  /\ \/ kind = "nil" /\ Returns("CreateHeader", "ErrAlgorithm")
     \/ kind = "Custom" /\ CustomFails /\ Returns("CreateHeader", "compressor")
  /\ UNCHANGED <<bufio, count, dir, last, closed, comment, compressors, hist>>

\* The entry is in dir before its header is written, also if it never is.
Create ==
  LET fh == Prepared(fhs[arg])  kind == compressor(fh.method)
      long == Len(NameBytes(fh.name)) > uint16max \/ Len(ExtraBytes(fh.extra)) > uint16max
  IN
  /\ pc = "create" /\ ~(dir # <<>> /\ dir[Len(dir)].fh = arg) /\ kind # "nil"
  /\ fhs' = [fhs EXCEPT ![arg] = fh]
  /\ dir' = Append(dir, [fh |-> arg, offset |-> count])
  /\ \/ /\ long /\ Returns("CreateHeader", "too long")
        /\ made' = Append(made, -1) /\ UNCHANGED <<bufio, count, last>>
     \/ /\ ~long /\ Write_(HeaderBytes(fh), "io") /\ Returns("CreateHeader", "io")
        /\ made' = Append(made, -1) /\ UNCHANGED last
     \/ /\ ~long /\ Write_(HeaderBytes(fh), "nil") /\ Returns("CreateHeader", "nil")
        /\ made' = Append(made, 0)
        /\ last' = [NoWriter EXCEPT !.i = Len(dir) + 1, !.kind = kind, !.closed = FALSE]
  /\ UNCHANGED <<closed, comment, compressors, prefix, base, end, listed>>

-----------------------------------------------------------------------------
(***************************************************************************)
(* Close                                                                   *)
(***************************************************************************)

Close ==
  /\ pc = "idle" /\ CloseLast("close") /\ arg' = 0
  /\ UNCHANGED <<bufio, count, dir, fhs, closed, comment, compressors, pos, sealed, hist>>

CloseTwice ==
  /\ pc = "close" /\ closed /\ Returns("Close", "closed twice")
  /\ UNCHANGED <<bufio, count, fields, hist>>

CloseStart ==
  /\ pc = "close" /\ ~closed /\ closed' = TRUE
  /\ pc' = "directory" /\ pos' = [k |-> 1, start |-> count]
  /\ UNCHANGED <<bufio, count, dir, fhs, last, comment, compressors, arg, sealed, hist>>

\* The FileHeader of an element of dir as the directory lists it.
Listed(h) ==
  LET fh == fhs[h.fh]
  IN IF isZip64(fh) \/ h.offset >= uint32max
     THEN [fh EXCEPT !.csize = uint32max, !.usize = uint32max,
                     !.extra = Append(@, Zip64Extra(fh.usize64, fh.csize64, h.offset))]
     ELSE fh

DirectoryBytes(h) ==
  LET fh == Listed(h)
      name == NameBytes(fh.name)  extra == ExtraBytes(fh.extra)  text == NameBytes(fh.comment)
  IN Record([t |-> "directory", utf8 |-> fh.utf8, method |-> fh.method, crc |-> fh.crc,
             csize |-> fh.csize, usize |-> fh.usize, name |-> uint16(Len(name)),
             extra |-> uint16(Len(extra)), comment |-> uint16(Len(text)),
             offset |-> IF h.offset > uint32max THEN uint32max ELSE h.offset],
            directoryHeaderLen) \o name \o extra \o text

\* The zip64 field stays in the Extra of the FileHeader.
DirectoryHeader ==
  /\ pc = "directory" /\ pos.k <= Len(dir)
  /\ fhs' = [fhs EXCEPT ![dir[pos.k].fh].extra = Listed(dir[pos.k]).extra]
  /\ \E e \in Outcomes :
       /\ Write_(DirectoryBytes(dir[pos.k]), e)
       /\ IF e = "nil" THEN pos' = [pos EXCEPT !.k = @ + 1] /\ UNCHANGED <<pc, arg, sealed>>
                       ELSE Returns("Close", e)
  /\ UNCHANGED <<dir, last, closed, comment, compressors, hist>>

\* (Mutated: the end record does not give the length of the comment.)
EndBytesNoComment ==
  LET records == Len(dir)  size == count - pos.start  offset == pos.start
      zip64 == records >= uint16max \/ size >= uint32max \/ offset >= uint32max
      end64 == Record([t |-> "end64", records |-> records, size |-> size, offset |-> offset],
                      directory64EndLen)
      loc == Record([t |-> "locator", offset |-> count], directory64LocLen)
  IN (IF zip64 THEN end64 \o loc ELSE <<>>)
     \o Record([t |-> "end", records |-> IF zip64 THEN uint16max ELSE records,
                size |-> IF zip64 THEN uint32max ELSE size,
                offset |-> IF zip64 THEN uint32max ELSE offset,
                comment |-> 0], directoryEndLen)
     \o [k \in 1 .. comment |-> CommentByte(k)]

EndBytes ==
  LET records == Len(dir)  size == count - pos.start  offset == pos.start
      zip64 == records >= uint16max \/ size >= uint32max \/ offset >= uint32max
      end64 == Record([t |-> "end64", records |-> records, size |-> size, offset |-> offset],
                      directory64EndLen)
      loc == Record([t |-> "locator", offset |-> count], directory64LocLen)
  IN (IF zip64 THEN end64 \o loc ELSE <<>>)
     \o Record([t |-> "end", records |-> IF zip64 THEN uint16max ELSE records,
                size |-> IF zip64 THEN uint32max ELSE size,
                offset |-> IF zip64 THEN uint32max ELSE offset,
                comment |-> comment], directoryEndLen)
     \o [k \in 1 .. comment |-> CommentByte(k)]

End ==
  /\ pc = "directory" /\ pos.k > Len(dir)
  /\ \E e \in Outcomes :
       /\ Write_(EndBytes, e)
       /\ IF e = "nil" THEN Goes("finish") ELSE Returns("Close", e)
  /\ end' = count + Len(EndBytes) /\ listed' = Len(dir)
  /\ UNCHANGED <<fields, prefix, base, made>>

CloseFlush ==
  /\ pc = "finish"
  /\ \/ out' = out \o buf /\ buf' = <<>> /\ UNCHANGED berr /\ Returns("Close", "nil")
     \/ FlushError /\ Returns("Close", "io")
  /\ UNCHANGED <<count, fields, hist>>

-----------------------------------------------------------------------------
Next ==
  \/ SetOffset \/ SetOffsetPanic \/ \E n \in Comments : SetComment(n)
  \/ RegisterCompressor("LZMA")
  \/ Flush \/ FlushEnd
  \/ WriteRefused \/ Deliver \/ \E m \in Chunks : Write(m)
  \/ CompClose \/ Descriptor
  \/ \E p \in DOMAIN fhs : CreateHeader(p)
  \/ Duplicate \/ CreateFails \/ Create
  \/ Close \/ CloseTwice \/ CloseStart \/ DirectoryHeader \/ End \/ CloseFlush

Spec == Init /\ [][Next]_vars
=============================================================================
