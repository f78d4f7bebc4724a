------------------------------ MODULE TarWriter ------------------------------
(***************************************************************************)
(* The tar writer of tar/writer.go: WriteHeader (with the PAX header it    *)
(* may write first), Write, Flush and Close over a sink that may fail in   *)
(* the middle of a write.                                                  *)
(*                                                                         *)
(* A byte of the output is known by where it comes from: the header block  *)
(* of an entry, the data of an entry, or a zero.  A header is known by     *)
(* what the writer tells apart: its type, its size and the set of its      *)
(* traits.  The client makes one call at a time; a call takes one step per *)
(* write to the sink.  preferPax is not modelled: nothing but a test sets  *)
(* it.                                                                     *)
(***************************************************************************)
EXTENDS Integers, Sequences

CONSTANTS
  blockSize,      \* 512 in the code
  Headers,        \* the headers a client may pass to WriteHeader
  PaxSize,        \* length of the records of a PAX header
  MaxHeaders,     \* bound: calls of WriteHeader that get past its checks
  MaxWrite,       \* bound: length of the slice given to Write
  SinkFails       \* may a write to the sink fail?

\* Traits of a header: "binary" (a number needs the binary form), "pax" (a field
\* or the Xattrs need PAX records), "bad" (a number fits in no form).
ASSUME WriterAssumption ==
  /\ blockSize \in Nat \ {0} /\ PaxSize \in Nat \ {0}
  /\ MaxHeaders \in Nat /\ MaxWrite \in Nat
  /\ Headers \subseteq [type : {"reg", "dir"}, size : Int,
                        traits : SUBSET {"binary", "pax", "bad"}]
  /\ SinkFails \in BOOLEAN

VARIABLES
  nb, pad, closed, usedBinary, err,   \* fields of the Writer tw
  out,            \* the bytes the sink took
  pc, hdr, after, \* the call in progress, its header, what follows its Flush
  ret,            \* the last call and the error it returned
  \* history
  attempts,       \* calls of WriteHeader that got past its checks
  heads,          \* the entries begun: where, and what their headers say
  want,           \* the bytes an archive of these entries has, in order
  failed,         \* has a call returned an error other than ErrWriteTooLong?
  careless,       \* has the client made another call than Close after that?
  ended           \* has Close returned, with the writer closed?

fields == <<nb, pad, closed, usedBinary, err>>
hist == <<attempts, heads, want>>
vars == <<fields, out, pc, hdr, after, ret, hist, failed, careless, ended>>

NoHeader == [type |-> "none", size |-> 0, traits |-> {}]

Init ==
  /\ nb = 0 /\ pad = 0 /\ closed = FALSE /\ usedBinary = FALSE /\ err = "nil"
  /\ out = <<>> /\ pc = "idle" /\ hdr = NoHeader /\ after = "none"
  /\ ret = [op |-> "none", err |-> "nil"]
  /\ attempts = 0 /\ heads = <<>> /\ want = <<>>
  /\ failed = FALSE /\ careless = FALSE /\ ended = FALSE

\* -n modulo blockSize: (blockSize - n % blockSize) % blockSize of Go's %.
PadOf(n) == (-n) % blockSize

Zeros(n) == [k \in 1 .. n |-> <<"zero", 0, 0>>]
HeadBytes(i) == [k \in 1 .. blockSize |-> <<"head", i, k>>]
\* Bytes first + 1 .. first + n of the data of entry i.
DataBytes(i, first, n) == [k \in 1 .. n |-> <<"data", i, first + k>>]

EntryBytes(i, size) ==
  HeadBytes(i) \o DataBytes(i, 0, size) \o Zeros(IF size > 0 THEN PadOf(size) ELSE 0)

\* The sink is given the bytes b: it takes them all, or some and fails with e.
Sink(b, e) ==
  \/ e = "nil" /\ out' = out \o b
  \/ SinkFails /\ e = "io" /\ \E n \in 0 .. Len(b) : out' = out \o SubSeq(b, 1, n)
Outcomes == {"nil", "io"}

\* The call op returns e.
Returns(op, e) ==
  /\ pc' = "idle" /\ after' = "none" /\ hdr' = NoHeader
  /\ ret' = [op |-> op, err |-> e]
  /\ failed' = (failed \/ e \notin {"nil", "ErrWriteTooLong"})
  /\ ended' = (ended \/ (op = "Close" /\ closed'))

Goes(p) == pc' = p /\ UNCHANGED <<hdr, after, ret, failed, ended>>

\* The client makes a call other than Close.
Call == pc = "idle" /\ careless' = (careless \/ failed)

-----------------------------------------------------------------------------
(***************************************************************************)
(* Flush, also as called by writeHeader, writePAXHeader and Close          *)
(***************************************************************************)

Flush ==
  /\ Call
  /\ pc' = "flush" /\ after' = "return"
  /\ UNCHANGED <<fields, out, hdr, ret, hist, failed, ended>>

\* What the caller does with the error of Flush.  Close sets closed first.
AfterFlush(e) ==
  /\ closed' = (closed \/ after = "trailer")
  /\ CASE after = "return" -> Returns("Flush", e)
       [] after = "trailer" -> IF e = "nil" THEN Goes("trailer1") ELSE Returns("Close", e)
       [] OTHER -> IF e = "nil" THEN Goes(after) ELSE Returns("WriteHeader", e)

\* (Mutated: the rest of the data is given up without an error.)
FlushMissedSilent ==
  /\ pc = "flush" /\ nb > 0
  /\ nb' = 0 /\ pad' = 0 /\ AfterFlush(err)
  /\ UNCHANGED <<usedBinary, err, out, hist, careless>>

FlushMissed ==
  /\ pc = "flush" /\ nb > 0
  /\ err' = "missed" /\ AfterFlush("missed")
  /\ UNCHANGED <<nb, pad, usedBinary, out, hist, careless>>

\* The padding is written only when there is no error, and forgotten anyway.
FlushPad ==
  /\ pc = "flush" /\ nb <= 0
  /\ nb' = 0 /\ pad' = 0
  /\ IF nb + pad > 0 /\ err = "nil"
     THEN \E e \in Outcomes : Sink(Zeros(nb + pad), e) /\ err' = e /\ AfterFlush(e)
     ELSE AfterFlush(err) /\ UNCHANGED <<err, out>>
  /\ UNCHANGED <<usedBinary, hist, careless>>

-----------------------------------------------------------------------------
(***************************************************************************)
(* WriteHeader                                                             *)
(***************************************************************************)

WriteHeaderRefused ==
  /\ Call /\ (closed \/ err # "nil")
  /\ Returns("WriteHeader", IF closed THEN "ErrWriteAfterClose" ELSE err)
  /\ UNCHANGED <<fields, out, hist>>

WriteHeader(h) ==
  /\ Call /\ ~closed /\ err = "nil" /\ attempts < MaxHeaders
  /\ attempts' = attempts + 1
  /\ pc' = "flush" /\ after' = "format" /\ hdr' = h
  /\ UNCHANGED <<fields, out, ret, heads, want, failed, ended>>

\* Format the fields.  usedBinary is never reset; a field that fits in no form
\* is an error that stays; PAX records go into an entry of their own.
Format ==
  /\ pc = "format"
  /\ usedBinary' = (usedBinary \/ "binary" \in hdr.traits)
  /\ IF "bad" \in hdr.traits
     THEN err' = "ErrFieldTooLong" /\ Returns("WriteHeader", "ErrFieldTooLong")
     ELSE Goes(IF "pax" \in hdr.traits THEN "paxhead" ELSE "head") /\ UNCHANGED err
  /\ UNCHANGED <<nb, pad, closed, out, hist, careless>>

\* Begin an entry: nb and pad are set before the header block is written.
Begin(type, size, e) ==
  LET i == Len(heads) + 1 IN
  /\ nb' = size /\ pad' = PadOf(size)
  /\ heads' = Append(heads, [off |-> Len(out), type |-> type, size |-> size,
                             gnu |-> usedBinary])
  /\ want' = want \o EntryBytes(i, size)
  /\ Sink(HeadBytes(i), e) /\ err' = e

\* writePAXHeader: writeHeader(ext, false), whose Flush has nothing to do and
\* whose fields always fit, then Write and Flush.
PaxHead ==
  /\ pc = "paxhead"
  /\ \E e \in Outcomes :
       /\ Begin("x", PaxSize, e)
       /\ IF e = "nil" THEN Goes("paxdata") ELSE Returns("WriteHeader", e)
  /\ UNCHANGED <<closed, usedBinary, attempts, careless>>

\* (Mutated: the records are followed by the header without a Flush.)
PaxDataNoFlush ==
  /\ pc = "paxdata"
  /\ \E e \in Outcomes :
       /\ Sink(DataBytes(Len(heads), 0, PaxSize), e) /\ err' = e
       /\ nb' = PaxSize - (Len(out') - Len(out))
       /\ IF e = "nil" THEN Goes("head") ELSE Returns("WriteHeader", e)
  /\ UNCHANGED <<pad, closed, usedBinary, hist, careless>>

PaxData ==
  /\ pc = "paxdata"
  /\ \E e \in Outcomes :
       /\ Sink(DataBytes(Len(heads), 0, PaxSize), e) /\ err' = e
       /\ nb' = PaxSize - (Len(out') - Len(out))
       /\ IF e = "nil"
          THEN pc' = "flush" /\ after' = "head" /\ UNCHANGED <<hdr, ret, failed, ended>>
          ELSE Returns("WriteHeader", e)
  /\ UNCHANGED <<pad, closed, usedBinary, hist, careless>>

FileHead ==
  /\ pc = "head"
  /\ \E e \in Outcomes : Begin(hdr.type, hdr.size, e) /\ Returns("WriteHeader", e)
  /\ UNCHANGED <<closed, usedBinary, attempts, careless>>

-----------------------------------------------------------------------------
(***************************************************************************)
(* Write and Close                                                         *)
(***************************************************************************)

WriteRefused ==
  /\ Call /\ closed
  /\ Returns("Write", "ErrWriteAfterClose")
  /\ UNCHANGED <<fields, out, hist>>

\* b[0:tw.nb] with a negative nb, after a header with a negative size.
WritePanic(m) ==
  /\ Call /\ ~closed /\ nb < 0 /\ m > nb
  /\ pc' = "panic"
  /\ UNCHANGED <<fields, out, hdr, after, ret, hist, failed, ended>>

\* (Mutated: closed is not looked at.)
WriteEver(m) ==
  /\ Call /\ nb >= 0
  /\ LET i == Len(heads)
         b == DataBytes(i, IF i = 0 THEN 0 ELSE heads[i].size - nb, IF m > nb THEN nb ELSE m)
     IN \E e \in Outcomes :
          /\ Sink(b, e) /\ nb' = nb - (Len(out') - Len(out))
          /\ IF e = "nil" /\ m > nb
             THEN Returns("Write", "ErrWriteTooLong") /\ UNCHANGED err
             ELSE Returns("Write", e) /\ err' = e
  /\ UNCHANGED <<pad, closed, usedBinary, hist>>

\* (Mutated: nb is reduced by the length of the slice that was passed.)
WriteCountsAll(m) ==
  /\ Call /\ ~closed /\ nb >= 0
  /\ LET i == Len(heads)
         b == DataBytes(i, IF i = 0 THEN 0 ELSE heads[i].size - nb, IF m > nb THEN nb ELSE m)
     IN \E e \in Outcomes :
          /\ Sink(b, e) /\ nb' = nb - m
          /\ IF e = "nil" /\ m > nb
             THEN Returns("Write", "ErrWriteTooLong") /\ UNCHANGED err
             ELSE Returns("Write", e) /\ err' = e
  /\ UNCHANGED <<pad, closed, usedBinary, hist>>

\* At most nb bytes are written.  err is not looked at: it is overwritten,
\* with nil too, unless the slice was too long.
Write(m) ==
  /\ Call /\ ~closed /\ nb >= 0
  /\ LET i == Len(heads)
         b == DataBytes(i, IF i = 0 THEN 0 ELSE heads[i].size - nb, IF m > nb THEN nb ELSE m)
     IN \E e \in Outcomes :
          /\ Sink(b, e) /\ nb' = nb - (Len(out') - Len(out))
          /\ IF e = "nil" /\ m > nb
             THEN Returns("Write", "ErrWriteTooLong") /\ UNCHANGED err
             ELSE Returns("Write", e) /\ err' = e
  /\ UNCHANGED <<pad, closed, usedBinary, hist>>

CloseRefused ==
  /\ pc = "idle" /\ (err # "nil" \/ closed)
  /\ UNCHANGED <<fields, out, hist, careless>>
  /\ Returns("Close", err)

\* (Mutated: a second Close writes the trailer again.)
CloseAgain ==
  /\ pc = "idle" /\ err = "nil"
  /\ pc' = "flush" /\ after' = "trailer"
  /\ UNCHANGED <<fields, out, hdr, ret, hist, failed, careless, ended>>

Close ==
  /\ pc = "idle" /\ err = "nil" /\ ~closed
  /\ pc' = "flush" /\ after' = "trailer"
  /\ UNCHANGED <<fields, out, hdr, ret, hist, failed, careless, ended>>

Trailer ==
  /\ pc \in {"trailer1", "trailer2"}
  /\ UNCHANGED <<nb, pad, closed, usedBinary, hist, careless>>
  /\ \E e \in Outcomes :
       /\ Sink(Zeros(blockSize), e) /\ err' = e
       /\ IF e = "nil" /\ pc = "trailer1" THEN Goes("trailer2") ELSE Returns("Close", e)

-----------------------------------------------------------------------------
Next ==
  \/ Flush \/ FlushMissed \/ FlushPad
  \/ WriteHeaderRefused \/ \E h \in Headers : WriteHeader(h)
  \/ Format \/ PaxHead \/ PaxData \/ FileHead
  \/ WriteRefused \/ \E m \in 0 .. MaxWrite : Write(m) \/ WritePanic(m)
  \/ CloseRefused \/ Close \/ Trailer

Spec == Init /\ [][Next]_vars

-----------------------------------------------------------------------------
(***************************************************************************)
(* What the writer promises                                                *)
(***************************************************************************)

Steps == {"idle", "flush", "format", "paxhead", "paxdata", "head",
          "trailer1", "trailer2", "panic"}

TypeOK ==
  /\ nb \in Int /\ pad \in 0 .. blockSize - 1
  /\ heads = <<>> => nb = 0
  /\ heads # <<>> => LET size == heads[Len(heads)].size
                      IN nb \in 0 .. size \/ nb = size \/ nb = 0
  /\ closed \in BOOLEAN /\ usedBinary \in BOOLEAN
  /\ failed \in BOOLEAN /\ careless \in BOOLEAN /\ ended \in BOOLEAN
  /\ err \in Outcomes \cup {"missed", "ErrFieldTooLong"}
  /\ pc \in Steps /\ attempts \in 0 .. MaxHeaders
  /\ after \in {"none", "return", "format", "head", "trailer"}
  /\ hdr \in Headers \cup {NoHeader}

\* What reaches the sink is a piece from the start of a well-formed archive of
\* the entries begun: every header is on a block boundary, right after the
\* data and padding of the entry before it, and no data exceeds its size,
\* wherever the sink failed.  (For a client that only closes after an error.)
OutputPrefix ==
  LET whole == want \o Zeros(2 * blockSize)
  IN ~careless => Len(out) <= Len(whole) /\ out = SubSeq(whole, 1, Len(out))

CloseReturnedNil == closed /\ ret = [op |-> "Close", err |-> "nil"] /\ pc = "idle"

\* When Close returns nil the archive is complete: all entries with all of
\* their data, their padding, and the two zero blocks.  (For the same client.)
CloseComplete ==
  (CloseReturnedNil /\ ~careless) => out = want \o Zeros(2 * blockSize)

\* After Close has closed the writer and returned, with an error or without one,
\* no step of any later call writes to the sink: Write and WriteHeader are
\* refused, Flush finds nothing to write, and a second Close only gives the error.
ClosedIsFinal == [][ended => out' = out]_vars
=============================================================================
