------------------------------ MODULE ZipFormat ------------------------------
(***************************************************************************)
(* The records of a zip file (zip/struct.go) as ZipWriter puts them into   *)
(* the output and ZipDirectory takes them out of it.                       *)
(*                                                                         *)
(* A byte is a record [t |-> its kind, ...].  The first byte of a header   *)
(* carries its fields, the others are filler: what is read at a wrong      *)
(* offset is no header.  The bytes that are the client's (data, names,     *)
(* comments, what the file had in front of the zip data) may begin an end  *)
(* record of their own, as those of a stored zip file do.  Lengths and the *)
(* limits of 16 and 32 bit fields are constants, so that an instance may   *)
(* narrow them.                                                            *)
(***************************************************************************)
EXTENDS Integers, Sequences, SequencesExt

CONSTANTS
  fileHeaderLen, directoryHeaderLen, directoryEndLen, dataDescriptorLen,
  dataDescriptor64Len, directory64LocLen, directory64EndLen,
  extTimeLen, zip64ExtraLen,     \* lengths of two fields of Extra: 9 and 28
  uint16max, uint32max,
  Inner     \* the bytes of the client that begin an end record, with that record

ASSUME FormatAssumption ==
  /\ {fileHeaderLen, directoryHeaderLen, directoryEndLen, dataDescriptorLen,
      directory64LocLen, directory64EndLen, extTimeLen,
      zip64ExtraLen} \subseteq Nat \ {0}
  /\ dataDescriptor64Len \in Nat /\ dataDescriptor64Len > dataDescriptorLen
  /\ uint16max \in Nat \ {0} /\ uint32max \in Nat /\ uint32max > uint16max

ASSUME InnerAssumption ==
  \A x \in DOMAIN Inner :
    /\ x.t \in {"raw", "deflated", "char", "prefix", "comment"}
    /\ Inner[x].records \in 0 .. uint16max /\ Inner[x].comment \in 0 .. uint16max
    /\ Inner[x].size \in 0 .. uint32max /\ Inner[x].offset \in 0 .. uint32max

uint16(n) == n % (uint16max + 1)

Filler == [t |-> "filler"]
Record(first, n) == [k \in 1 .. n |-> IF k = 1 THEN first ELSE Filler]

\* A name or comment is known by what its characters are: "ascii" ones, ones
\* that "utf8" needs several bytes for, ones that are no UTF-8 ("bad"); a "long"
\* one does not fit a 16 bit length.
Names == {"none", "ascii", "utf8", "bad", "long"}
NameBytes(name) ==
  [k \in 1 .. CASE name = "none" -> 0 [] name = "long" -> uint16max + 1 [] OTHER -> 1
     |-> [t |-> "char", of |-> name]]

detectUTF8(s) ==
  LET valid == \A k \in DOMAIN s : s[k].t = "char" /\ s[k].of # "bad"
  IN [valid |-> valid, require |-> valid /\ \E k \in DOMAIN s : s[k].of = "utf8"]

\* Extra is a sequence of fields.
ExtTime == [t |-> "extra", tag |-> "exttime"]
Zip64Extra(usize, csize, offset) ==
  [t |-> "extra", tag |-> "zip64", usize |-> usize, csize |-> csize, offset |-> offset]
FieldLen(f) == IF f.tag = "zip64" THEN zip64ExtraLen ELSE extTimeLen
ExtraBytes(extra) ==
  FlattenSeq([k \in DOMAIN extra |-> Record(extra[k], FieldLen(extra[k]))])

isZip64(fh) == fh.csize64 >= uint32max \/ fh.usize64 >= uint32max

\* The data of entry i: stored, or deflated with a final block.
Raw(i, first, n) == [k \in 1 .. n |-> [t |-> "raw", unit |-> <<i, first + k>>]]
Deflated(units) == [k \in DOMAIN units |-> [t |-> "deflated", unit |-> units[k]]]
FinalBlock == <<[t |-> "final"]>>

\* The bytes in front of the zip data and of the archive's comment.
PrefixByte(k) == [t |-> "prefix", at |-> k]
CommentByte(k) == [t |-> "comment", at |-> k]

\* The signature of an end record is at the byte x, and the record that is there.
InnerStarts == DOMAIN Inner
BeginsEnd(x) == x.t = "end" \/ x \in InnerStarts
EndAt(x) == IF x.t = "end" THEN x ELSE Inner[x]
=============================================================================
