-------------------------- MODULE ZipArchiveProofs --------------------------
(***************************************************************************)
(* Theorems about ZipArchive, for every set of headers, every bound and    *)
(* every place where the sink or a compressor fails.  All but the types    *)
(* assume that Flush is not called while the compressor of the open entry  *)
(* holds data: with it the promises are broken (the run ZipFlushRace).     *)
(*                                                                         *)
(* CountInv: what is counted is where it is written.  EndInv: the bytes of *)
(* no other record, name or data are taken for an end record, so that the  *)
(* search of NewReader finds only what Close wrote.                        *)
(***************************************************************************)
EXTENDS ZipArchive, FunctionTheorems, SequenceTheorems,
         NaturalsInduction, WellFoundedInduction, TLAPS

-----------------------------------------------------------------------------
(* Sequences.                                                               *)

\* s is a sequence, of whatever.
IsSeq(s) == s \in Seq({s[k] : k \in DOMAIN s})

\* A sequence over some set is a sequence.
LEMMA SeqIsSeq ==
  ASSUME NEW S, NEW s \in Seq(S)
  PROVE  IsSeq(s)
<1>1. Len(s) \in Nat /\ DOMAIN s = 1 .. Len(s)
  OBVIOUS
<1>2. \A k \in 1 .. Len(s) : s[k] \in {s[j] : j \in DOMAIN s}
  BY <1>1
<1> QED  BY <1>1, <1>2 DEF IsSeq

\* A function on 1 .. n is a sequence of length n.
LEMMA FunctionIsSeq ==
  ASSUME NEW n \in Nat, NEW s, DOMAIN s = 1 .. n, s = [k \in 1 .. n |-> s[k]]
  PROVE  IsSeq(s) /\ Len(s) = n
<1>1. s \in [1 .. n -> {s[k] : k \in DOMAIN s}]
  OBVIOUS
<1>2. s \in Seq({s[k] : k \in DOMAIN s})
  BY <1>1
<1> QED  BY <1>1, <1>2 DEF IsSeq

\* What the concatenation of two sequences is.
LEMMA Concat ==
  ASSUME NEW s, NEW t, IsSeq(s), IsSeq(t)
  PROVE  /\ IsSeq(s \o t) /\ Len(s) \in Nat /\ Len(t) \in Nat
         /\ Len(s \o t) = Len(s) + Len(t)
         /\ \A k \in 1 .. Len(s) : (s \o t)[k] = s[k]
         /\ \A k \in 1 .. Len(t) : (s \o t)[Len(s) + k] = t[k]
<1> DEFINE S == {s[k] : k \in DOMAIN s} \cup {t[k] : k \in DOMAIN t}
<1>1. s \in Seq(S) /\ t \in Seq(S)
  <2>1. s \in Seq({s[k] : k \in DOMAIN s}) /\ t \in Seq({t[k] : k \in DOMAIN t})
    BY DEF IsSeq
  <2> QED  BY <2>1
<1> HIDE DEF S
<1>2. s \o t \in Seq(S)
  BY <1>1
<1>3. IsSeq(s \o t)
  BY <1>2, SeqIsSeq, Zenon
<1> QED  BY <1>1, <1>3

\* A non-empty set of naturals has a least element.
LEMMA LeastElement ==
  ASSUME NEW T \in SUBSET Nat, T # {}
  PROVE  \E n \in T : \A m \in T : n <= m
<1>1. IsWellFoundedOn(OpToRel(<, Nat), Nat)
  BY NatLessThanWellFounded
<1>2. PICK n \in T : \A m \in T : ~(<<m, n>> \in OpToRel(<, Nat))
  BY <1>1, WFMin, Zenon
<1>3. ASSUME NEW m \in T PROVE n <= m
  <2>1. m \in Nat /\ n \in Nat
    OBVIOUS
  <2>2. ~(<<m, n>> \in OpToRel(<, Nat))
    BY <1>2
  <2>3. ~(m < n)
    BY <2>1, <2>2 DEF OpToRel
  <2> QED  BY <2>1, <2>3
<1> QED  BY <1>3

\* The concatenation of the first n of the sequences ss, as FlattenSeq computes it.
Flattens(f, ss, n) ==
  f = [i \in 1 .. n |-> IF i = 1 THEN ss[i] ELSE f[i - 1] \o ss[i]]

\* The function that FlattenSeq computes exists.
LEMMA FlattenExists ==
  ASSUME NEW ss, NEW n \in Nat
  PROVE  \E f : Flattens(f, ss, n)
<1> DEFINE T == {m \in Nat : ~\E f : Flattens(f, ss, m)}
<1>1. SUFFICES ASSUME T # {} PROVE FALSE
  OBVIOUS
<1>2. PICK m \in T : \A k \in T : m <= k
  BY <1>1, LeastElement, Zenon
<1>3. CASE m = 0
  <2> DEFINE g == [i \in 1 .. 0 |-> ss[i]]
  <2>1. Flattens(g, ss, 0)
    BY DEF Flattens
  <2> QED  BY <2>1, <1>3
<1>4. CASE m # 0
  <2>1. m - 1 \in Nat /\ ~(m <= m - 1) /\ m \in Nat
    BY <1>4
  <2>2. m - 1 \notin T
    BY <1>2, <2>1
  <2>3. PICK f : Flattens(f, ss, m - 1)
    BY <2>1, <2>2
  <2> DEFINE g == [i \in 1 .. m |-> IF i = 1 THEN ss[i] ELSE f[i - 1] \o ss[i]]
  <2>4. \A i \in 1 .. m - 1 : f[i] = g[i]
    <3>1. f = [i \in 1 .. m - 1 |-> IF i = 1 THEN ss[i] ELSE f[i - 1] \o ss[i]]
      BY <2>3 DEF Flattens
    <3> DEFINE e(i) == IF i = 1 THEN ss[i] ELSE f[i - 1] \o ss[i]
    <3>2. ASSUME NEW i \in 1 .. m - 1 PROVE f[i] = g[i]
      <4>1. i \in 1 .. m
        BY <2>1
      <4>2. f[i] = e(i)
        BY <3>1, Zenon
      <4>3. g[i] = e(i)
        BY <4>1, Zenon
      <4> QED  BY <4>2, <4>3, Zenon
    <3> QED  BY <3>2
  <2>5. ASSUME NEW i \in 1 .. m
        PROVE  (IF i = 1 THEN ss[i] ELSE f[i - 1] \o ss[i]) =
               (IF i = 1 THEN ss[i] ELSE g[i - 1] \o ss[i])
    <3>1. CASE i = 1
      BY <3>1, Zenon
    <3>2. CASE i # 1
      <4>1. i - 1 \in 1 .. m - 1
        BY <3>2, <2>1
      <4>2. f[i - 1] = g[i - 1]
        BY <2>4, <4>1
      <4> QED  BY <4>2, Zenon
    <3> QED  BY <3>1, <3>2
  <2>6. g = [i \in 1 .. m |-> IF i = 1 THEN ss[i] ELSE g[i - 1] \o ss[i]]
    BY <2>5, Zenon
  <2>7. Flattens(g, ss, m)
    BY <2>6, Zenon DEF Flattens
  <2> QED  BY <2>7
<1> QED  BY <1>3, <1>4

\* FlattenSeq of sequences over S is a sequence over S.
LEMMA FlattenType ==
  ASSUME NEW S, NEW ss \in Seq(Seq(S))
  PROVE  FlattenSeq(ss) \in Seq(S)
<1> DEFINE n == Len(ss)
<1>1. n \in Nat
  OBVIOUS
<1>2. CASE n = 0
  <2>1. FlattenSeq(ss) = ss
    BY <1>2 DEF FlattenSeq
  <2>2. ss \in [1 .. 0 -> S]
    BY <1>2
  <2>3. ss \in Seq(S)
    BY <2>2, SeqDef
  <2> QED  BY <2>1, <2>3, Zenon
<1>3. CASE n # 0
  <2> DEFINE f == CHOOSE f : Flattens(f, ss, n)
  <2>1. Flattens(f, ss, n)
    BY <1>1, FlattenExists, Zenon
  <2>2. FlattenSeq(ss) = f[n]
    BY <1>3 DEF FlattenSeq, Flattens
  <2> HIDE DEF f
  <2> DEFINE T == {k \in 1 .. n : f[k] \notin Seq(S)}
  <2>3. ASSUME T # {} PROVE FALSE
    <3>1. T \in SUBSET Nat
      BY <1>1
    <3> HIDE DEF T
    <3>2. PICK k \in T : \A j \in T : k <= j
      BY <3>1, <2>3, LeastElement, Zenon
    <3> USE DEF T
    <3>3. k \in 1 .. n /\ ss[k] \in Seq(S)
      BY <3>2
    <3>4. f[k] = IF k = 1 THEN ss[k] ELSE f[k - 1] \o ss[k]
      BY <2>1, <3>3, Zenon DEF Flattens
    <3>5. CASE k = 1
      BY <3>2, <3>3, <3>4, <3>5
    <3>6. CASE k # 1
      <4>1. k - 1 \in 1 .. n /\ ~(k <= k - 1)
        BY <3>3, <3>6, <1>1
      <4>2. f[k - 1] \in Seq(S)
        BY <4>1, <3>2
      <4>3. f[k] = f[k - 1] \o ss[k]
        BY <3>4, <3>6, Zenon
      <4>4. f[k] \in Seq(S)
        BY <3>3, <4>2, <4>3
      <4> QED  BY <4>4, <3>2
    <3> QED  BY <3>5, <3>6
  <2>4. f[n] \in Seq(S)
    BY <2>3, <1>1, <1>3
  <2> QED  BY <2>2, <2>4, Zenon
<1> QED  BY <1>2, <1>3

-----------------------------------------------------------------------------
(* The invariants.                                                          *)

Methods == {"Store", "Deflate", "LZMA"}
Units == Nat \X Nat
ExtraField == {ExtTime} \cup {Zip64Extra(u, c, o) : u, c, o \in Nat}
FileHeader ==
  [name : Names, comment : Names, nonUTF8 : BOOLEAN, method : Methods, modified : BOOLEAN,
   utf8 : BOOLEAN, extra : Seq(ExtraField), crc : Seq(Units), csize : Nat, usize : Nat,
   csize64 : Nat, usize64 : Nat]
FileWriter ==
  [i : Nat, kind : {"Store", "Deflate", "Custom"}, closed : BOOLEAN, raw : Nat, comp : Nat,
   sum : Seq(Units), pending : Seq(Units), writes : Nat]

BufType == IsSeq(out) /\ IsSeq(buf) /\ berr \in Outcomes /\ count \in Nat
FieldType ==
  /\ fhs \in [DOMAIN fhs -> FileHeader] /\ dir \in Seq([fh : DOMAIN fhs, offset : Nat])
  /\ last \in FileWriter /\ closed \in BOOLEAN
  /\ comment \in 0 .. uint16max /\ compressors \subseteq {"LZMA"}
CallType ==
  /\ pc \in {"idle", "flush", "comp", "descriptor", "create", "close", "directory",
             "finish", "panic"}
  /\ arg \in {0} \cup DOMAIN fhs /\ pos \in [k : Nat, start : Nat]
HistType ==
  /\ prefix \in Nat /\ base \in Nat /\ made \in Seq(Nat \cup {-1})
  /\ end \in Nat /\ listed \in Nat
TypeInv == BufType /\ FieldType /\ CallType /\ HistType

\* How the pieces of the state bound each other.
OffsetInv == base <= count /\ \A i \in 1 .. Len(dir) : dir[i].offset <= count
DirInv == Len(made) = Len(dir) /\ Len(dir) <= MaxEntries
LastInv ==
  /\ last.i <= Len(dir) /\ (last.i = 0 => last.closed)
  /\ ~last.closed => made[last.i] # -1
  /\ last.kind # "Deflate" => last.pending = <<>>
CallInv ==
  /\ pc = "create" => arg \in DOMAIN fhs /\ Len(dir) < MaxEntries /\ last.closed
  /\ pc \in {"comp", "descriptor"} =>
       last.i # 0 /\ last.closed /\ (arg # 0 => Len(dir) < MaxEntries)
  /\ pc = "directory" => pos.k # 0
  /\ (last.closed /\ pc # "comp") => last.pending = <<>>
ControlInv == OffsetInv /\ DirInv /\ LastInv /\ CallInv

\* What the sink has or will have got, if nothing fails.
All == IF pc = "flush" THEN out ELSE out \o buf

CountInv ==
  /\ pc = "flush" => last.pending = <<>>
  /\ berr = "nil" => Len(All) = count - base

\* An end record is there only once Close has written it, and the archive ends
\* where it does.
EndsThere(k, x, b, e) ==
  /\ x.comment \in Nat /\ e > 0
  /\ b + ((k - 1) + (directoryEndLen + x.comment)) >= e
EndInv ==
  /\ pc = "directory" => closed
  /\ (~closed \/ pc = "directory") => \A k \in 1 .. Len(out \o buf) : (out \o buf)[k].t # "end"
  /\ \A k \in 1 .. Len(out \o buf) :
       (out \o buf)[k].t = "end" => EndsThere(k, (out \o buf)[k], base, end)

-----------------------------------------------------------------------------
(* The bytes that are written.                                              *)

\* Bytes none of which begins an end record, of zip64 too, or a locator of one.
EndKinds == {"end", "locator", "end64"}
NoEnd(s) == IsSeq(s) /\ \A k \in 1 .. Len(s) : s[k].t \notin EndKinds

\* Such bytes one after the other.
LEMMA ConcatNoEnd ==
  ASSUME NEW s, NEW t, NoEnd(s), NoEnd(t)
  PROVE  NoEnd(s \o t)
<1>1. IsSeq(s) /\ IsSeq(t)
  BY DEF NoEnd
<1>2. /\ IsSeq(s \o t) /\ Len(s) \in Nat /\ Len(t) \in Nat
      /\ Len(s \o t) = Len(s) + Len(t)
      /\ \A k \in 1 .. Len(s) : (s \o t)[k] = s[k]
      /\ \A k \in 1 .. Len(t) : (s \o t)[Len(s) + k] = t[k]
  BY <1>1, Concat
<1>3. ASSUME NEW k \in 1 .. Len(s \o t) PROVE (s \o t)[k].t \notin EndKinds
  <2>1. PICK m \in Nat, n \in Nat : m = Len(s) /\ n = Len(t)
    BY <1>2
  <2>2. k \in 1 .. m + n
    BY <1>2, <2>1, Zenon
  <2>3. CASE k \in 1 .. m
    <3>1. (s \o t)[k] = s[k]
      BY <2>3, <2>1, <1>2, Zenon
    <3> QED  BY <3>1, <2>3, <2>1, Zenon DEF NoEnd
  <2>4. CASE k \notin 1 .. m
    <3>1. PICK j \in 1 .. n : k = m + j
      <4>1. k - m \in 1 .. n /\ k = m + (k - m)
        BY <2>2, <2>4, <2>1
      <4> QED  BY <4>1
    <3>2. (s \o t)[k] = t[j]
      BY <3>1, <2>1, <1>2, Zenon
    <3>3. t[j].t \notin EndKinds
      BY <3>1, <2>1, Zenon DEF NoEnd
    <3> QED  BY <3>2, <3>3, Zenon
  <2> QED  BY <2>3, <2>4
<1> QED  BY <1>2, <1>3 DEF NoEnd

\* A record that is no end record.
LEMMA RecordNoEnd ==
  ASSUME NEW first, first.t \notin EndKinds, NEW n \in Nat
  PROVE  NoEnd(Record(first, n)) /\ Len(Record(first, n)) = n
<1> DEFINE s == Record(first, n)
<1>1. DOMAIN s = 1 .. n /\ s = [k \in 1 .. n |-> s[k]]
  BY DEF Record
<1>2. IsSeq(s) /\ Len(s) = n
  BY <1>1, FunctionIsSeq, Zenon
<1>3. ASSUME NEW k \in 1 .. n PROVE s[k].t \notin EndKinds
  <2>1. s[k] = IF k = 1 THEN first ELSE Filler
    BY DEF Record
  <2>2. Filler.t \notin EndKinds
    BY DEF Filler, EndKinds
  <2> QED  BY <2>1, <2>2, Zenon
<1> QED  BY <1>2, <1>3, Zenon DEF NoEnd

\* The bytes of a name or comment.
LEMMA NameNoEnd ==
  ASSUME NEW name
  PROVE  NoEnd(NameBytes(name)) /\ Len(NameBytes(name)) \in Nat
<1> DEFINE n == CASE name = "none" -> 0 [] name = "long" -> uint16max + 1 [] OTHER -> 1
           s == NameBytes(name)
<1>1. n \in Nat
  BY FormatAssumption
<1>2. DOMAIN s = 1 .. n /\ s = [k \in 1 .. n |-> s[k]]
  BY DEF NameBytes
<1>3. \A k \in 1 .. n : s[k].t \notin EndKinds
  BY DEF NameBytes, EndKinds
<1> HIDE DEF n, s
<1>4. IsSeq(s) /\ Len(s) = n
  BY <1>1, <1>2, FunctionIsSeq, Zenon
<1>5. NoEnd(s) /\ Len(s) \in Nat
  BY <1>1, <1>3, <1>4, Zenon DEF NoEnd
<1> QED  BY <1>5 DEF s

\* The bytes of an Extra.
LEMMA ExtraNoEnd ==
  ASSUME NEW extra \in Seq(ExtraField)
  PROVE  NoEnd(ExtraBytes(extra)) /\ Len(ExtraBytes(extra)) \in Nat
<1> DEFINE S == ExtraField \cup {Filler}
           ss == [k \in DOMAIN extra |-> Record(extra[k], FieldLen(extra[k]))]
<1>1. ASSUME NEW k \in DOMAIN extra PROVE ss[k] \in Seq(S)
  <2>1. FieldLen(extra[k]) \in Nat
    BY FormatAssumption DEF FieldLen
  <2>2. extra[k] \in ExtraField
    OBVIOUS
  <2>3. Record(extra[k], FieldLen(extra[k])) \in [1 .. FieldLen(extra[k]) -> S]
    BY <2>2, Zenon DEF Record
  <2>4. Record(extra[k], FieldLen(extra[k])) \in Seq(S)
    BY <2>1, <2>3, SeqDef
  <2> QED  BY <2>4, Zenon
<1>2. ss \in Seq(Seq(S))
  <2>1. Len(extra) \in Nat /\ DOMAIN extra = 1 .. Len(extra)
    OBVIOUS
  <2>2. ss \in [1 .. Len(extra) -> Seq(S)]
    BY <1>1, <2>1, Zenon
  <2> HIDE DEF ss, S
  <2> QED  BY <2>1, <2>2, SeqDef
<1>3. \A x \in S : x.t \notin EndKinds
  <2>1. ExtTime.t \notin EndKinds /\ Filler.t \notin EndKinds
    BY DEF ExtTime, Filler, EndKinds
  <2>2. ASSUME NEW u \in Nat, NEW c \in Nat, NEW o \in Nat PROVE Zip64Extra(u, c, o).t \notin EndKinds
    BY DEF Zip64Extra, EndKinds
  <2>3. ASSUME NEW x \in S PROVE x.t \notin EndKinds
    <3>1. x = ExtTime \/ x = Filler \/ \E u, c, o \in Nat : x = Zip64Extra(u, c, o)
      BY DEF ExtraField
    <3> QED  BY <3>1, <2>1, <2>2, Zenon
  <2> QED  BY <2>3, Zenon
<1> HIDE DEF S, ss
<1>4. FlattenSeq(ss) \in Seq(S)
  BY <1>2, FlattenType, Zenon
<1>5. PICK s : s = FlattenSeq(ss)
  OBVIOUS
<1>6. s \in Seq(S)
  BY <1>4, <1>5, Zenon
<1>7. IsSeq(s)
  BY <1>6, SeqIsSeq, Zenon
<1>8. Len(s) \in Nat /\ \A k \in 1 .. Len(s) : s[k] \in S
  BY <1>6
<1>9. NoEnd(s)
  BY <1>3, <1>7, <1>8, Zenon DEF NoEnd
<1>10. ExtraBytes(extra) = s
  BY <1>5, Zenon DEF ExtraBytes, ss
<1> QED  BY <1>8, <1>9, <1>10, Zenon

\* The data of an entry.
LEMMA DataNoEnd ==
  /\ \A i : \A first, n \in Nat : NoEnd(Raw(i, first, n)) /\ Len(Raw(i, first, n)) = n
  /\ \A u \in Seq(Units) : NoEnd(Deflated(u)) /\ Len(Deflated(u)) = Len(u)
  /\ NoEnd(FinalBlock) /\ Len(FinalBlock) = 1
<1>1. ASSUME NEW i, NEW first \in Nat, NEW n \in Nat
      PROVE  NoEnd(Raw(i, first, n)) /\ Len(Raw(i, first, n)) = n
  <2> DEFINE s == Raw(i, first, n)
  <2>1. DOMAIN s = 1 .. n /\ s = [k \in 1 .. n |-> s[k]]
    BY DEF Raw
  <2>2. \A k \in 1 .. n : s[k].t \notin EndKinds
    BY DEF Raw, EndKinds
  <2> HIDE DEF s
  <2>3. IsSeq(s) /\ Len(s) = n
    BY <2>1, FunctionIsSeq, Zenon
  <2>4. NoEnd(s)
    BY <2>2, <2>3, Zenon DEF NoEnd
  <2> QED  BY <2>3, <2>4 DEF s
<1>2. ASSUME NEW u \in Seq(Units)
      PROVE  NoEnd(Deflated(u)) /\ Len(Deflated(u)) = Len(u)
  <2> DEFINE s == Deflated(u)  n == Len(u)
  <2>1. n \in Nat /\ DOMAIN u = 1 .. n
    OBVIOUS
  <2>2. DOMAIN s = 1 .. n /\ s = [k \in 1 .. n |-> s[k]]
    BY <2>1, Zenon DEF Deflated
  <2>3. \A k \in 1 .. n : s[k].t \notin EndKinds
    BY <2>1 DEF Deflated, EndKinds
  <2> HIDE DEF s, n
  <2>4. IsSeq(s) /\ Len(s) = n
    BY <2>1, <2>2, FunctionIsSeq, Zenon
  <2>5. NoEnd(s)
    BY <2>3, <2>4, Zenon DEF NoEnd
  <2> QED  BY <2>4, <2>5 DEF s, n
<1>3. NoEnd(FinalBlock) /\ Len(FinalBlock) = 1
  <2> DEFINE s == FinalBlock
  <2>1. s \in Seq({[t |-> "final"]}) /\ Len(s) = 1 /\ s[1].t \notin EndKinds
    BY DEF FinalBlock, EndKinds
  <2>2. IsSeq(s)
    BY <2>1, SeqIsSeq, Zenon
  <2>3. \A k \in 1 .. Len(s) : s[k].t \notin EndKinds
    BY <2>1
  <2> QED  BY <2>1, <2>2, <2>3, Zenon DEF NoEnd
<1> QED  BY <1>1, <1>2, <1>3, Zenon

\* A descriptor.
LEMMA DescriptorNoEnd ==
  ASSUME NEW fh
  PROVE  /\ NoEnd(DescriptorBytes(fh))
         /\ Len(DescriptorBytes(fh)) \in {dataDescriptorLen, dataDescriptor64Len}
<1> DEFINE n == IF isZip64(fh) THEN dataDescriptor64Len ELSE dataDescriptorLen
           r == [t |-> "descriptor", crc |-> fh.crc]
<1>1. n \in Nat /\ n \in {dataDescriptorLen, dataDescriptor64Len} /\ r.t \notin EndKinds
  BY FormatAssumption DEF EndKinds
<1> HIDE DEF n, r
<1>2. NoEnd(Record(r, n)) /\ Len(Record(r, n)) = n
  BY <1>1, RecordNoEnd, Zenon
<1>3. DescriptorBytes(fh) = Record(r, n)
  BY Zenon DEF DescriptorBytes, n, r
<1> QED  BY <1>1, <1>2, <1>3, Zenon

\* A local header.
LEMMA HeaderNoEnd ==
  ASSUME NEW fh, fh.extra \in Seq(ExtraField)
  PROVE  NoEnd(HeaderBytes(fh))
<1> DEFINE name == NameBytes(fh.name)  extra == ExtraBytes(fh.extra)
           r == [t |-> "file", name |-> Len(name), extra |-> Len(extra)]
<1>1. fileHeaderLen \in Nat /\ r.t \notin EndKinds
  BY FormatAssumption DEF EndKinds
<1>2. NoEnd(name) /\ NoEnd(extra)
  BY NameNoEnd, ExtraNoEnd, Zenon
<1> HIDE DEF name, extra, r
<1>3. NoEnd(Record(r, fileHeaderLen))
  BY <1>1, RecordNoEnd, Zenon
<1>4. NoEnd((Record(r, fileHeaderLen) \o name) \o extra)
  BY <1>2, <1>3, ConcatNoEnd, Zenon
<1>5. HeaderBytes(fh) = (Record(r, fileHeaderLen) \o name) \o extra
  BY Zenon DEF HeaderBytes, name, extra, r
<1> QED  BY <1>4, <1>5, Zenon

\* A directory header.
LEMMA DirectoryNoEnd ==
  ASSUME NEW h, Listed(h).extra \in Seq(ExtraField)
  PROVE  NoEnd(DirectoryBytes(h))
<1> DEFINE fh == Listed(h)
           name == NameBytes(fh.name)  extra == ExtraBytes(fh.extra)
           text == NameBytes(fh.comment)
           r == [t |-> "directory", utf8 |-> fh.utf8, method |-> fh.method, crc |-> fh.crc,
                 csize |-> fh.csize, usize |-> fh.usize, name |-> uint16(Len(name)),
                 extra |-> uint16(Len(extra)), comment |-> uint16(Len(text)),
                 offset |-> IF h.offset > uint32max THEN uint32max ELSE h.offset]
<1>1. directoryHeaderLen \in Nat /\ r.t \notin EndKinds
  BY FormatAssumption DEF EndKinds
<1>2. NoEnd(name) /\ NoEnd(extra) /\ NoEnd(text)
  BY NameNoEnd, ExtraNoEnd, Zenon
<1>3. DirectoryBytes(h) = ((Record(r, directoryHeaderLen) \o name) \o extra) \o text
  BY Zenon DEF DirectoryBytes
<1> HIDE DEF name, extra, text, r, fh
<1>4. NoEnd(Record(r, directoryHeaderLen))
  BY <1>1, RecordNoEnd, Zenon
<1>5. NoEnd(((Record(r, directoryHeaderLen) \o name) \o extra) \o text)
  BY <1>2, <1>4, ConcatNoEnd, Zenon
<1> QED  BY <1>3, <1>5, Zenon

\* Does an archive with n entries, whose directory is from start to at, need zip64?
NeedsZip64(n, start, at) ==
  n >= uint16max \/ at - start >= uint32max \/ start >= uint32max

\* The records at its end, and where the last one begins.
End64Record(n, start, at) ==
  [t |-> "end64", records |-> n, size |-> at - start, offset |-> start]
Locator(at) == [t |-> "locator", offset |-> at]
EndRecord(n, start, at, text) ==
  LET zip64 == NeedsZip64(n, start, at)
  IN [t |-> "end", records |-> IF zip64 THEN uint16max ELSE n,
      size |-> IF zip64 THEN uint32max ELSE at - start,
      offset |-> IF zip64 THEN uint32max ELSE start, comment |-> text]
EndPlace(zip64) == IF zip64 THEN directory64EndLen + directory64LocLen ELSE 0

\* A record is a sequence that begins with its first byte.
LEMMA RecordIs ==
  ASSUME NEW first, NEW n \in Nat
  PROVE  /\ IsSeq(Record(first, n)) /\ Len(Record(first, n)) = n
         /\ \A k \in 1 .. n : Record(first, n)[k] = IF k = 1 THEN first ELSE Filler
<1> DEFINE s == Record(first, n)
<1>1. DOMAIN s = 1 .. n /\ s = [k \in 1 .. n |-> s[k]]
  BY DEF Record
<1>2. \A k \in 1 .. n : s[k] = IF k = 1 THEN first ELSE Filler
  BY Zenon DEF Record
<1> HIDE DEF s
<1>3. IsSeq(s) /\ Len(s) = n
  BY <1>1, FunctionIsSeq, Zenon
<1> QED  BY <1>2, <1>3 DEF s

\* The end of the archive: with zip64 the zip64 end record and its locator, then
\* the end record and the comment.
LEMMA EndBytesIs ==
  ASSUME comment \in Nat, NEW zip64, zip64 = NeedsZip64(Len(dir), pos.start, count),
         NEW m, m = EndPlace(zip64)
  PROVE  /\ m \in Nat /\ IsSeq(EndBytes)
         /\ Len(EndBytes) = (m + directoryEndLen) + comment
         /\ zip64 => /\ EndBytes[1] = End64Record(Len(dir), pos.start, count)
                     /\ EndBytes[directory64EndLen + 1] = Locator(count)
         /\ EndBytes[m + 1] = EndRecord(Len(dir), pos.start, count, comment)
         /\ \A k \in 1 .. Len(EndBytes) :
              /\ EndBytes[k].t = "end" => k = m + 1
              /\ EndBytes[k].t = "locator" => zip64
              /\ EndBytes[k].t = "end64" => k = 1
<1> DEFINE r64 == End64Record(Len(dir), pos.start, count)
      rloc == Locator(count)
      rend == EndRecord(Len(dir), pos.start, count, comment)
      end64 == Record(r64, directory64EndLen)
      loc == Record(rloc, directory64LocLen)
      a == IF zip64 THEN end64 \o loc ELSE <<>>
      b == Record(rend, directoryEndLen)
      c == [k \in 1 .. comment |-> CommentByte(k)]
<1>1. EndBytes = (a \o b) \o c
  BY Zenon DEF EndBytes, End64Record, Locator, EndRecord, NeedsZip64
<1>2. /\ r64.t # "end" /\ r64.t # "locator" /\ rloc.t \notin {"end", "end64"}
      /\ rend.t = "end"
  BY DEF End64Record, Locator, EndRecord
<1>3. /\ directory64EndLen \in Nat \ {0} /\ directory64LocLen \in Nat \ {0}
      /\ directoryEndLen \in Nat \ {0}
  BY FormatAssumption
<1>4. Filler.t # "end" /\ Filler.t # "locator" /\ Filler.t # "end64"
  BY DEF Filler
<1>5. IsSeq(c) /\ Len(c) = comment
  <2>1. DOMAIN c = 1 .. comment /\ c = [k \in 1 .. comment |-> c[k]]
    OBVIOUS
  <2> HIDE DEF c
  <2> QED  BY <2>1, FunctionIsSeq, Zenon
<1>6. \A k \in 1 .. comment : c[k].t # "end" /\ c[k].t # "locator" /\ c[k].t # "end64"
  BY DEF CommentByte
<1> HIDE DEF r64, rloc, rend, c
<1>7. PICK x \in Nat, y \in Nat, d \in Nat :
        /\ x = directory64EndLen /\ y = directory64LocLen /\ d = directoryEndLen
        /\ x # 0 /\ y # 0 /\ d # 0
  BY <1>3
<1>8. /\ IsSeq(end64) /\ Len(end64) = x
      /\ \A k \in 1 .. x : end64[k] = IF k = 1 THEN r64 ELSE Filler
  BY <1>7, RecordIs, Zenon
<1>9. /\ IsSeq(loc) /\ Len(loc) = y
      /\ \A k \in 1 .. y : loc[k] = IF k = 1 THEN rloc ELSE Filler
  BY <1>7, RecordIs, Zenon
<1>10. /\ IsSeq(b) /\ Len(b) = d
       /\ \A k \in 1 .. d : b[k] = IF k = 1 THEN rend ELSE Filler
  BY <1>7, RecordIs, Zenon
<1>11. ASSUME NEW k \in 1 .. d
       PROVE  (b[k].t = "end" => k = 1) /\ b[k].t # "locator" /\ b[k].t # "end64"
  <2>1. rend.t # "locator" /\ rend.t # "end64"
    BY <1>2
  <2> QED  BY <2>1, <1>10, <1>4, <1>2, Zenon
<1> HIDE DEF end64, loc, b
<1>12. m \in Nat /\ (zip64 => m = x + y) /\ (~zip64 => m = 0)
  BY <1>7 DEF EndPlace
<1>13. /\ IsSeq(a) /\ Len(a) = m
       /\ zip64 => a[1] = r64 /\ a[x + 1] = rloc
       /\ \A k \in 1 .. m : /\ a[k].t # "end" /\ (a[k].t = "locator" => zip64)
                            /\ a[k].t = "end64" => k = 1
  <2>1. CASE zip64
    <3>1. PICK s : s = end64 \o loc
      OBVIOUS
    <3>2. /\ IsSeq(s) /\ Len(s) = x + y
          /\ \A k \in 1 .. x : s[k] = end64[k]
          /\ \A k \in 1 .. y : s[x + k] = loc[k]
      <4>1. /\ IsSeq(end64 \o loc) /\ Len(end64 \o loc) = Len(end64) + Len(loc)
            /\ \A k \in 1 .. Len(end64) : (end64 \o loc)[k] = end64[k]
            /\ \A k \in 1 .. Len(loc) : (end64 \o loc)[Len(end64) + k] = loc[k]
        <5>1. IsSeq(end64) /\ IsSeq(loc)
          BY <1>8, <1>9
        <5> QED  BY <5>1, Concat
      <4> QED  BY <4>1, <3>1, <1>8, <1>9, Zenon
    <3>3. 1 \in 1 .. x /\ 1 \in 1 .. y
      BY <1>7
    <3>4. s[1] = r64 /\ s[x + 1] = rloc
      BY <3>2, <3>3, <1>8, <1>9, Zenon
    <3>5. ASSUME NEW k \in 1 .. x + y PROVE s[k].t # "end" /\ (s[k].t = "end64" => k = 1)
      <4>1. CASE k \in 1 .. x
        <5>1. (s[k] = r64 /\ k = 1) \/ s[k] = Filler
          BY <4>1, <3>2, <1>8, Zenon
        <5> QED  BY <5>1, <1>2, <1>4, Zenon
      <4>2. CASE k \notin 1 .. x
        <5>1. PICK j \in 1 .. y : k = x + j
          <6>1. k - x \in 1 .. y /\ k = x + (k - x)
            BY <4>2, <1>7
          <6> QED  BY <6>1
        <5>2. s[k] = rloc \/ s[k] = Filler
          BY <5>1, <3>2, <1>9, Zenon
        <5>3. rloc.t # "end" /\ rloc.t # "end64"
          BY <1>2
        <5> QED  BY <5>2, <5>3, <1>4, Zenon
      <4> QED  BY <4>1, <4>2
    <3>6. a = s
      BY <2>1, <3>1, Zenon
    <3> QED  BY <2>1, <3>2, <3>4, <3>5, <3>6, <1>12, Zenon
  <2>2. CASE ~zip64
    <3>1. IsSeq(<<>>) /\ Len(<<>>) = 0
      <4>1. <<>> \in Seq({})
        OBVIOUS
      <4> QED  BY <4>1, SeqIsSeq
    <3>2. a = <<>>
      BY <2>2, Zenon
    <3>3. ASSUME NEW k \in 1 .. m PROVE FALSE
      BY <2>2, <1>12
    <3> QED  BY <2>2, <3>1, <3>2, <3>3, <1>12, Zenon
  <2> QED  BY <2>1, <2>2
<1> HIDE DEF a
<1>14. PICK s : s = a \o b
  OBVIOUS
<1>15. /\ IsSeq(s) /\ Len(s) = m + d
       /\ \A k \in 1 .. m : s[k] = a[k]
       /\ \A k \in 1 .. d : s[m + k] = b[k]
  <2>1. /\ IsSeq(a \o b) /\ Len(a \o b) = Len(a) + Len(b)
        /\ \A k \in 1 .. Len(a) : (a \o b)[k] = a[k]
        /\ \A k \in 1 .. Len(b) : (a \o b)[Len(a) + k] = b[k]
    <3>1. IsSeq(a) /\ IsSeq(b)
      BY <1>10, <1>13
    <3> QED  BY <3>1, Concat
  <2> QED  BY <2>1, <1>10, <1>13, <1>14, Zenon
<1>16. PICK e : e = s \o c
  OBVIOUS
<1>17. /\ IsSeq(e) /\ Len(e) = (m + d) + comment
       /\ \A k \in 1 .. m + d : e[k] = s[k]
       /\ \A k \in 1 .. comment : e[(m + d) + k] = c[k]
  <2>1. /\ IsSeq(s \o c) /\ Len(s \o c) = Len(s) + Len(c)
        /\ \A k \in 1 .. Len(s) : (s \o c)[k] = s[k]
        /\ \A k \in 1 .. Len(c) : (s \o c)[Len(s) + k] = c[k]
    <3>1. IsSeq(s) /\ IsSeq(c)
      BY <1>5, <1>15
    <3> QED  BY <3>1, Concat
  <2> QED  BY <2>1, <1>5, <1>15, <1>16, Zenon
<1>18. e = EndBytes
  BY <1>1, <1>14, <1>16, Zenon
<1>19. \A k \in 1 .. m : e[k] = a[k]
  <2>1. \A k \in 1 .. m : k \in 1 .. m + d
    BY <1>7, <1>12
  <2> QED  BY <2>1, <1>15, <1>17, Zenon
<1>20. \A k \in 1 .. d : e[m + k] = b[k]
  <2>1. \A k \in 1 .. d : m + k \in 1 .. m + d
    BY <1>7, <1>12
  <2> QED  BY <2>1, <1>15, <1>17, Zenon
<1>21. zip64 => e[1] = r64 /\ e[x + 1] = rloc
  <2>1. ASSUME m = x + y PROVE 1 \in 1 .. m /\ x + 1 \in 1 .. m
    BY <1>7, <2>1
  <2> QED  BY <2>1, <1>12, <1>13, <1>19, Zenon
<1>22. e[m + 1] = rend
  <2>1. 1 \in 1 .. d
    BY <1>7
  <2> QED  BY <2>1, <1>10, <1>20, Zenon
<1>23. ASSUME NEW k \in 1 .. Len(e)
       PROVE  /\ (e[k].t = "end" => k = m + 1) /\ (e[k].t = "locator" => zip64)
              /\ e[k].t = "end64" => k = 1
  <2>1. k \in 1 .. (m + d) + comment
    BY <1>17, Zenon
  <2>2. CASE k \in 1 .. m
    <3>1. e[k] = a[k]
      BY <2>2, <1>19, Zenon
    <3>2. a[k].t # "end" /\ (a[k].t = "locator" => zip64) /\ (a[k].t = "end64" => k = 1)
      BY <2>2, <1>13, Zenon
    <3> QED  BY <3>1, <3>2, Zenon
  <2>3. CASE k \in m + 1 .. m + d
    <3>1. PICK j \in 1 .. d : k = m + j
      <4>1. k - m \in 1 .. d /\ k = m + (k - m)
        BY <2>3, <1>7, <1>12
      <4> QED  BY <4>1
    <3>2. e[k] = b[j]
      BY <3>1, <1>20, Zenon
    <3> QED  BY <3>1, <3>2, <1>11, Zenon
  <2>4. CASE k > m + d
    <3>1. PICK j \in 1 .. comment : k = (m + d) + j
      <4>0. PICK n \in Nat : n = m + d
        BY <1>7, <1>12
      <4>1. k \in 1 .. n + comment /\ k > n
        BY <2>1, <2>4, <4>0, Zenon
      <4>2. k - n \in 1 .. comment /\ k = n + (k - n)
        BY <4>1, <4>0
      <4> QED  BY <4>0, <4>2, Zenon
    <3>2. e[k] = c[j]
      BY <3>1, <1>17, Zenon
    <3> QED  BY <3>1, <3>2, <1>6, Zenon
  <2> QED  BY <2>1, <2>2, <2>3, <2>4, <1>7, <1>12
<1> QED  BY <1>7, <1>12, <1>17, <1>18, <1>21, <1>22, <1>23, Zenon DEF r64, rloc, rend

\* The end record, with what its comment takes, is the end.
LEMMA EndBytesEnd ==
  ASSUME comment \in Nat
  PROVE  /\ IsSeq(EndBytes) /\ Len(EndBytes) \in Nat /\ Len(EndBytes) > 0
         /\ \A k \in 1 .. Len(EndBytes) :
              EndBytes[k].t = "end" =>
                /\ (k - 1) + (directoryEndLen + EndBytes[k].comment) = Len(EndBytes)
                /\ EndBytes[k].comment \in Nat
<1>1. PICK zip64 : zip64 = NeedsZip64(Len(dir), pos.start, count)
  OBVIOUS
<1>2. PICK m : m = EndPlace(zip64)
  OBVIOUS
<1>3. PICK e, r : e = EndBytes /\ r = EndRecord(Len(dir), pos.start, count, comment)
  OBVIOUS
<1>4. /\ m \in Nat /\ IsSeq(e) /\ Len(e) = (m + directoryEndLen) + comment
      /\ e[m + 1] = r /\ \A k \in 1 .. Len(e) : e[k].t = "end" => k = m + 1
  BY <1>1, <1>2, <1>3, EndBytesIs, Zenon
<1>5. directoryEndLen \in Nat \ {0} /\ r.comment = comment
  BY <1>3, FormatAssumption DEF EndRecord
<1>6. PICK l \in Nat : l = Len(e) /\ l = (m + directoryEndLen) + comment
  BY <1>4, <1>5
<1>7. l > 0 /\ ((m + 1) - 1) + (directoryEndLen + comment) = l
  BY <1>4, <1>5, <1>6
<1>8. ASSUME NEW k \in 1 .. Len(e), e[k].t = "end"
      PROVE  (k - 1) + (directoryEndLen + e[k].comment) = l /\ e[k].comment \in Nat
  <2>1. k = m + 1
    BY <1>4, <1>8, Zenon
  <2>2. e[k].comment = comment
    BY <2>1, <1>4, <1>5, Zenon
  <2> QED  BY <2>1, <2>2, <1>7, Zenon
<1> QED  BY <1>3, <1>4, <1>6, <1>7, <1>8, Zenon

-----------------------------------------------------------------------------
(* Types and control.                                                       *)

\* The headers a client makes.
LEMMA NewHeaderType ==
  ASSUME NEW h \in [name : Names, comment : Names, nonUTF8 : BOOLEAN,
                    method : {"Store", "Deflate", "LZMA"}, modified : BOOLEAN]
  PROVE  NewFileHeader(h) \in FileHeader
<1>1. <<>> \in Seq(ExtraField) /\ <<>> \in Seq(Units) /\ 0 \in Nat
  OBVIOUS
<1> QED  BY <1>1, Zenon DEF NewFileHeader, FileHeader, Methods

\* What close makes of a header.
LEMMA UpdatedType ==
  ASSUME last \in FileWriter, NEW fh \in FileHeader
  PROVE  Updated(fh) \in FileHeader /\ Updated(fh).method = fh.method
<1> DEFINE f == [fh EXCEPT !.crc = last.sum, !.csize64 = last.comp, !.usize64 = last.raw]
           cs == IF isZip64(f) THEN uint32max ELSE f.csize64
           us == IF isZip64(f) THEN uint32max ELSE f.usize64
<1>1. last.sum \in Seq(Units) /\ last.comp \in Nat /\ last.raw \in Nat
  BY DEF FileWriter
<1>2. f \in FileHeader
  BY <1>1 DEF FileHeader
<1>3. f.method = fh.method
  BY DEF FileHeader
<1> HIDE DEF f
<1>4. cs \in Nat /\ us \in Nat
  BY <1>2, FormatAssumption DEF FileHeader
<1> HIDE DEF cs, us
<1>5. [f EXCEPT !.csize = cs, !.usize = us] \in FileHeader
  BY <1>2, <1>4 DEF FileHeader
<1>6. [f EXCEPT !.csize = cs, !.usize = us].method = f.method
  BY <1>2 DEF FileHeader
<1>7. Updated(fh) = [f EXCEPT !.csize = cs, !.usize = us]
  BY Zenon DEF Updated, f, cs, us
<1> QED  BY <1>3, <1>5, <1>6, <1>7, Zenon

\* What CreateHeader makes of a header.
LEMMA PreparedType ==
  ASSUME NEW fh \in FileHeader
  PROVE  Prepared(fh) \in FileHeader /\ Prepared(fh).method = fh.method
<1> DEFINE u == Encoded(fh)
           x == IF fh.modified THEN Append(fh.extra, ExtTime) ELSE fh.extra
<1>1. fh.utf8 \in BOOLEAN /\ fh.extra \in Seq(ExtraField)
  BY DEF FileHeader
<1>2. u \in BOOLEAN
  BY <1>1, Zenon DEF Encoded
<1>3. ExtTime \in ExtraField
  BY DEF ExtraField
<1>4. x \in Seq(ExtraField)
  BY <1>1, <1>3
<1>5. Prepared(fh) = [fh EXCEPT !.utf8 = u, !.extra = x]
  BY DEF Prepared, FileHeader
<1> HIDE DEF u, x
<1>6. [fh EXCEPT !.utf8 = u, !.extra = x] \in FileHeader
  BY <1>2, <1>4 DEF FileHeader
<1>7. [fh EXCEPT !.utf8 = u, !.extra = x].method = fh.method
  BY DEF FileHeader
<1> QED  BY <1>5, <1>6, <1>7, Zenon

\* What Close makes of a header.
LEMMA ListedType ==
  ASSUME NEW h, fhs[h.fh] \in FileHeader, h.offset \in Nat
  PROVE  Listed(h).extra \in Seq(ExtraField)
<1> DEFINE fh == fhs[h.fh]
           z == Zip64Extra(fh.usize64, fh.csize64, h.offset)
           g == [fh EXCEPT !.csize = uint32max, !.usize = uint32max,
                     !.extra = Append(@, z)]
<1>1. z \in ExtraField
  BY DEF ExtraField, FileHeader
<1>2. fh.extra \in Seq(ExtraField)
  BY DEF FileHeader
<1>3. Listed(h) = IF isZip64(fh) \/ h.offset >= uint32max THEN g ELSE fh
  BY Zenon DEF Listed
<1> HIDE DEF z
<1>4. g.extra = Append(fh.extra, z)
  BY DEF FileHeader
<1>5. Append(fh.extra, z) \in Seq(ExtraField)
  BY <1>1, <1>2
<1> HIDE DEF g, fh
<1> QED  BY <1>2, <1>3, <1>4, <1>5, Zenon

USE DEF bufio, fields, hist

\* A write keeps the buffer a sequence; if the writer has no error behind it,
\* it had none before, and all of b is in the buffer.
LEMMA WriteStep ==
  ASSUME BufType, NEW b, IsSeq(b), NEW e, Write_(b, e)
  PROVE  /\ BufType' /\ count' >= count /\ Len(b) \in Nat /\ out' = out
         /\ e \in Outcomes /\ (e = "io" <=> berr' = "io")
         /\ berr' = "nil" => /\ berr = "nil" /\ e = "nil" /\ buf' = buf \o b
                             /\ count' = count + Len(b)
         /\ buf' = buf \/ (buf' = buf \o b /\ berr = "nil")
<1>1. Len(b) \in Nat /\ IsSeq(buf \o b) /\ IsSeq(out) /\ IsSeq(buf)
  BY Concat DEF BufType
<1>2. CASE /\ e = "nil" /\ berr = "nil" /\ buf' = buf \o b /\ count' = count + Len(b)
           /\ UNCHANGED <<out, berr>>
  <2>1. IsSeq(out') /\ IsSeq(buf')
    BY <1>1, <1>2, Zenon
  <2>2. PICK n \in Nat : n = Len(b)
    BY <1>1
  <2>3. count' = count + n
    BY <1>2, <2>2, Zenon
  <2>4. count' \in Nat /\ count' >= count
    BY <2>3, <2>2 DEF BufType
  <2>5. BufType'
    BY <2>1, <2>4, <1>2 DEF BufType, Outcomes
  <2> QED  BY <1>1, <1>2, <2>4, <2>5 DEF Outcomes
<1>3. CASE /\ e = "io" /\ berr = "nil" /\ SinkFails /\ buf' = buf \o b /\ berr' = "io"
           /\ UNCHANGED <<out, count>>
  <2>1. IsSeq(out') /\ IsSeq(buf')
    BY <1>1, <1>3, Zenon
  <2>2. BufType' /\ count' >= count
    BY <2>1, <1>3 DEF BufType, Outcomes
  <2> QED  BY <1>1, <1>3, <2>2 DEF Outcomes
<1>4. CASE e = "io" /\ berr = "io" /\ UNCHANGED <<bufio, count>>
  <2>1. IsSeq(out') /\ IsSeq(buf')
    BY <1>1, <1>4, Zenon
  <2>2. BufType' /\ count' >= count
    BY <2>1, <1>4 DEF BufType, Outcomes
  <2> QED  BY <1>1, <1>4, <2>2 DEF Outcomes
<1> QED  BY <1>2, <1>3, <1>4, Zenon DEF Write_

\* A header in its place.
LEMMA HeaderStep ==
  ASSUME FieldType, NEW p \in DOMAIN fhs, NEW fh \in FileHeader,
         fhs' = [fhs EXCEPT ![p] = fh]
  PROVE  DOMAIN fhs' = DOMAIN fhs /\ fhs' \in [DOMAIN fhs' -> FileHeader]
<1>1. fhs \in [DOMAIN fhs -> FileHeader]
  BY DEF FieldType
<1>2. DOMAIN fhs' = DOMAIN fhs
  OBVIOUS
<1>3. fhs' \in [DOMAIN fhs -> FileHeader]
  BY <1>1
<1> QED  BY <1>2, <1>3, Zenon

\* An element of the directory.
LEMMA DirElement ==
  ASSUME FieldType, NEW i \in 1 .. Len(dir)
  PROVE  /\ dir[i].fh \in DOMAIN fhs /\ dir[i].offset \in Nat
         /\ fhs[dir[i].fh] \in FileHeader
<1>1. PICK S : S = [fh : DOMAIN fhs, offset : Nat]
  OBVIOUS
<1>2. dir \in Seq(S)
  BY <1>1, Zenon DEF FieldType
<1>3. dir[i] \in S
  BY <1>2
<1>4. dir[i] \in [fh : DOMAIN fhs, offset : Nat]
  BY <1>1, <1>3, Zenon
<1>5. dir[i].fh \in DOMAIN fhs /\ dir[i].offset \in Nat
  BY <1>4, Zenon
<1> QED  BY <1>5, Zenon DEF FieldType

\* Initially.
LEMMA InitTypes ==
  ASSUME Init PROVE TypeInv /\ ControlInv
<1>1. PICK hs \in HeaderSets : fhs = [p \in DOMAIN hs |-> NewFileHeader(hs[p])]
  BY DEF Init
<1>2. ASSUME NEW p \in DOMAIN hs PROVE NewFileHeader(hs[p]) \in FileHeader
  <2>1. hs[p] \in [name : Names, comment : Names, nonUTF8 : BOOLEAN,
                   method : {"Store", "Deflate", "LZMA"}, modified : BOOLEAN]
    BY ZipWriterAssumption, Zenon
  <2> QED  BY <2>1, NewHeaderType, Zenon
<1>3. fhs \in [DOMAIN fhs -> FileHeader]
  BY <1>1, <1>2, Zenon
<1>4. <<>> \in Seq({}) /\ Len(<<>>) = 0
  OBVIOUS
<1>5. IsSeq(<<>>)
  BY <1>4, SeqIsSeq
<1>6. BufType
  BY <1>5 DEF Init, BufType, Outcomes
<1>7. NoWriter \in FileWriter
  BY DEF NoWriter, FileWriter
<1>8. FieldType
  <2>1. dir \in Seq([fh : DOMAIN fhs, offset : Nat])
    BY DEF Init
  <2>2. comment \in 0 .. uint16max
    BY FormatAssumption DEF Init
  <2> QED  BY <1>3, <1>7, <2>1, <2>2 DEF Init, FieldType
<1>9. CallType
  BY DEF Init, CallType
<1>10. HistType
  <2>1. prefix \in Nat
    BY ZipWriterAssumption DEF Init
  <2>2. made \in Seq(Nat \cup {-1})
    BY DEF Init
  <2> QED  BY <2>1, <2>2 DEF Init, HistType
<1>11. OffsetInv /\ DirInv
  BY ZipWriterAssumption DEF Init, OffsetInv, DirInv
<1>12. LastInv /\ CallInv
  <2>1. last.i = 0 /\ last.closed /\ last.pending = <<>> /\ pc = "idle" /\ Len(dir) = 0
    BY DEF Init, NoWriter
  <2> QED  BY <2>1 DEF LastInv, CallInv
<1> QED  BY <1>6, <1>8, <1>9, <1>10, <1>11, <1>12 DEF TypeInv, ControlInv

\* The call in progress after it returned or went on.
LEMMA CallStep ==
  ASSUME CallType, DOMAIN fhs' = DOMAIN fhs,
         \/ \E op, e : Returns(op, e)
         \/ \E p \in {"flush", "comp", "descriptor", "create", "close", "finish", "panic"} : Goes(p)
  PROVE  CallType'
BY DEF CallType, Returns, Goes

\* Steps that change only the call.
LEMMA QuietTypes ==
  ASSUME TypeInv, ControlInv, UNCHANGED <<bufio, count, fields, hist>>, CallType', CallInv'
  PROVE  TypeInv' /\ ControlInv'
<1>1. BufType' /\ FieldType' /\ HistType'
  BY DEF TypeInv, BufType, FieldType, HistType
<1>2. OffsetInv' /\ DirInv' /\ LastInv'
  BY DEF ControlInv, OffsetInv, DirInv, LastInv
<1> QED  BY <1>1, <1>2 DEF TypeInv, ControlInv

\* Steps that leave the entries alone and return, or begin a flush.
LEMMA SettingTypes ==
  ASSUME TypeInv, ControlInv,
         \/ SetOffset \/ SetOffsetPanic \/ \E n \in Comments : SetComment(n)
         \/ RegisterCompressor("LZMA") \/ WriteRefused \/ Duplicate \/ CloseTwice
         \/ Flush \/ FlushEnd \/ CloseFlush
  PROVE  TypeInv' /\ ControlInv'
<1> USE DEF TypeInv, ControlInv
<1>0. IsSeq(<<>>) /\ IsSeq(out) /\ IsSeq(buf) /\ IsSeq(out \o buf)
  <2>1. <<>> \in Seq({})
    OBVIOUS
  <2>2. IsSeq(<<>>)
    BY <2>1, SeqIsSeq
  <2>3. IsSeq(out) /\ IsSeq(buf)
    BY DEF BufType
  <2> QED  BY <2>2, <2>3, Concat
<1>1. ASSUME pc # "comp", pc' \in {"idle", "flush", "panic"}, UNCHANGED last
      PROVE  CallInv'
  BY <1>1 DEF CallInv
<1>2. ASSUME UNCHANGED <<dir, made, last>> PROVE DirInv' /\ LastInv'
  BY <1>2 DEF DirInv, LastInv
<1>3. ASSUME UNCHANGED <<fhs, dir, last, closed>>, comment' \in 0 .. uint16max,
             compressors' \subseteq {"LZMA"}
      PROVE  FieldType'
  BY <1>3 DEF FieldType
<1>4. ASSUME UNCHANGED fields PROVE FieldType'
  BY <1>4 DEF FieldType
<1>5. ASSUME UNCHANGED hist PROVE HistType'
  BY <1>5 DEF HistType
<1>6. ASSUME UNCHANGED <<base, count, dir>> PROVE OffsetInv'
  BY <1>6 DEF OffsetInv
<1>7. ASSUME UNCHANGED <<bufio, count>> PROVE BufType'
  BY <1>7 DEF BufType
<1>8. CASE SetOffset
  <2>1. CallType' /\ CallInv'
    BY <1>8, <1>1, CallStep DEF SetOffset, Call, Returns
  <2>2. BufType'
    BY <1>8 DEF SetOffset, BufType, HistType
  <2>3. HistType'
    BY <1>8 DEF SetOffset, HistType
  <2>4. OffsetInv'
    <3>1. count = 0 /\ count' = prefix /\ base' = prefix /\ dir' = dir /\ prefix \in Nat
      BY <1>8 DEF SetOffset, HistType
    <3>2. ASSUME NEW i \in 1 .. Len(dir) PROVE dir[i].offset <= prefix
      <4>1. dir[i].offset \in Nat
        BY DirElement
      <4>2. dir[i].offset <= count
        BY DEF OffsetInv
      <4> QED  BY <4>1, <4>2, <3>1
    <3> QED  BY <3>1, <3>2 DEF OffsetInv
  <2> QED  BY <1>8, <1>2, <1>4, <2>1, <2>2, <2>3, <2>4 DEF SetOffset
<1>9. CASE SetOffsetPanic
  <2>1. CallType' /\ CallInv'
    BY <1>9, <1>1, CallStep DEF SetOffsetPanic, Goes
  <2> QED  BY <1>9, <2>1, QuietTypes DEF SetOffsetPanic
<1>10. CASE WriteRefused
  <2>1. CallType' /\ CallInv'
    BY <1>10, <1>1, CallStep DEF WriteRefused, Call, Returns
  <2> QED  BY <1>10, <2>1, QuietTypes DEF WriteRefused
<1>11. CASE Duplicate
  <2>1. CallType' /\ CallInv'
    BY <1>11, <1>1, CallStep DEF Duplicate, Returns
  <2> QED  BY <1>11, <2>1, QuietTypes DEF Duplicate
<1>12. CASE CloseTwice
  <2>1. CallType' /\ CallInv'
    BY <1>12, <1>1, CallStep DEF CloseTwice, Returns
  <2> QED  BY <1>12, <2>1, QuietTypes DEF CloseTwice
<1>13. ASSUME NEW n \in Comments, SetComment(n) PROVE TypeInv' /\ ControlInv'
  <2>1. CallType' /\ CallInv'
    BY <1>13, <1>1, CallStep DEF SetComment, Call, Returns
  <2>2. comment' \in 0 .. uint16max
    <3>1. n \in Nat /\ comment \in 0 .. uint16max
      BY ZipWriterAssumption DEF FieldType
    <3>2. comment' = IF n > uint16max THEN comment ELSE n
      BY <1>13, Zenon DEF SetComment
    <3>3. uint16max \in Nat
      BY FormatAssumption
    <3> QED  BY <3>1, <3>2, <3>3
  <2>3. compressors' \subseteq {"LZMA"}
    BY <1>13 DEF SetComment, FieldType
  <2> QED  BY <1>13, <1>2, <1>3, <1>5, <1>6, <1>7, <2>1, <2>2, <2>3 DEF SetComment
<1>14. CASE RegisterCompressor("LZMA")
  <2>1. CallType' /\ CallInv'
    BY <1>14, <1>1, CallStep DEF RegisterCompressor, Call, Returns
  <2>2. comment' \in 0 .. uint16max /\ compressors' \subseteq {"LZMA"}
    BY <1>14 DEF RegisterCompressor, FieldType
  <2> QED  BY <1>14, <1>2, <1>3, <1>5, <1>6, <1>7, <2>1, <2>2 DEF RegisterCompressor
<1>15. CASE Flush
  <2>1. CallType' /\ CallInv'
    <3>1. (\E op, e : Returns(op, e)) \/ Goes("flush")
      BY <1>15, Zenon DEF Flush
    <3>2. CallType'
      BY <1>15, <3>1, CallStep DEF Flush
    <3>3. pc' \in {"idle", "flush", "panic"}
      BY <3>1 DEF Returns, Goes
    <3> QED  BY <1>15, <1>1, <3>2, <3>3 DEF Flush
  <2>2. BufType'
    <3>1. CASE UNCHANGED bufio
      BY <3>1, <1>7, <1>15 DEF Flush
    <3>2. CASE out' = out \o buf /\ UNCHANGED <<buf, berr>>
      <4>1. IsSeq(out') /\ IsSeq(buf')
        BY <1>0, <3>2, Zenon
      <4> QED  BY <4>1, <3>2, <1>15 DEF Flush, BufType
    <3>3. CASE FlushError
      BY <3>3, <1>0, WriteStep DEF FlushError
    <3> QED  BY <3>1, <3>2, <3>3, <1>15 DEF Flush
  <2> QED  BY <1>15, <1>2, <1>4, <1>5, <1>6, <2>1, <2>2 DEF Flush
<1>16. CASE FlushEnd
  <2>1. CallType' /\ CallInv'
    BY <1>16, <1>1, CallStep DEF FlushEnd, Returns
  <2>2. BufType'
    <3>1. IsSeq(out') /\ IsSeq(buf')
      BY <1>0, <1>16, Zenon DEF FlushEnd
    <3> QED  BY <3>1, <1>16 DEF FlushEnd, BufType
  <2> QED  BY <1>16, <1>2, <1>4, <1>5, <1>6, <2>1, <2>2 DEF FlushEnd
<1>17. CASE CloseFlush
  <2>1. CallType' /\ CallInv'
    <3>1. \E op, e : Returns(op, e)
      BY <1>17, Zenon DEF CloseFlush
    <3>2. CallType'
      BY <1>17, <3>1, CallStep DEF CloseFlush
    <3>3. pc' \in {"idle", "flush", "panic"}
      BY <3>1 DEF Returns
    <3> QED  BY <1>17, <1>1, <3>2, <3>3 DEF CloseFlush
  <2>2. BufType'
    <3>1. CASE out' = out \o buf /\ buf' = <<>> /\ UNCHANGED berr
      <4>1. IsSeq(out') /\ IsSeq(buf')
        BY <1>0, <3>1, Zenon
      <4> QED  BY <4>1, <3>1, <1>17 DEF CloseFlush, BufType
    <3>2. CASE FlushError
      BY <3>2, <1>0, WriteStep DEF FlushError
    <3> QED  BY <3>1, <3>2, <1>17 DEF CloseFlush
  <2> QED  BY <1>17, <1>2, <1>4, <1>5, <1>6, <2>1, <2>2 DEF CloseFlush
<1> QED
  BY <1>8, <1>9, <1>10, <1>11, <1>12, <1>13, <1>14, <1>15, <1>16, <1>17

\* Units are a sequence.
LEMMA UnitsType ==
  ASSUME NEW i \in Nat, NEW r \in Nat, NEW m \in Nat
  PROVE  [k \in 1 .. m |-> <<i, r + k>>] \in Seq(Units)
<1> DEFINE u == [k \in 1 .. m |-> <<i, r + k>>]
<1>1. \A k \in 1 .. m : <<i, r + k>> \in Units
  BY DEF Units
<1>2. u \in [1 .. m -> Units]
  BY <1>1
<1> HIDE DEF u
<1>3. u \in Seq(Units)
  BY <1>2, SeqDef
<1> QED  BY <1>3 DEF u

\* Offsets stay behind the count.
LEMMA OffsetStep ==
  ASSUME TypeInv, OffsetInv, BufType', count' >= count, UNCHANGED <<dir, base>>
  PROVE  OffsetInv'
<1> USE DEF TypeInv
<1>1. base' <= count'
  BY DEF OffsetInv, HistType, BufType
<1>2. ASSUME NEW i \in 1 .. Len(dir) PROVE dir[i].offset <= count'
  <2>1. dir[i].offset \in Nat /\ dir[i].offset <= count
    BY DirElement DEF OffsetInv
  <2> QED  BY <2>1 DEF BufType
<1> QED  BY <1>1, <1>2 DEF OffsetInv

\* Write of an entry.
LEMMA WriteTypes ==
  ASSUME TypeInv, ControlInv, NEW m \in Chunks, Write(m)
  PROVE  TypeInv' /\ ControlInv'
<1> USE DEF TypeInv, ControlInv
<1> DEFINE units == [k \in 1 .. m |-> <<last.i, last.raw + k>>]
           hashed == [last EXCEPT !.sum = @ \o units, !.writes = @ + 1]
           accept == [hashed EXCEPT !.raw = @ + m]
           later == [accept EXCEPT !.pending = @ \o units]
           through == [accept EXCEPT !.comp = @ + m]
<1>1. m \in Nat
  BY ZipWriterAssumption
<1>2. last \in FileWriter /\ ~last.closed /\ pc = "idle"
  BY DEF Write, FieldType
<1>3. /\ last.i \in Nat /\ last.raw \in Nat /\ last.comp \in Nat /\ last.writes \in Nat
      /\ last.sum \in Seq(Units) /\ last.pending \in Seq(Units)
  BY <1>2 DEF FileWriter
<1>4. units \in Seq(Units)
  BY <1>1, <1>3, UnitsType
<1>5. \/ (last' = later /\ last.kind = "Deflate") \/ last' = hashed
      \/ last' = through /\ last.kind # "Deflate"
  BY Zenon DEF Write
<1> HIDE DEF units
<1>6. last.sum \o units \in Seq(Units) /\ last.pending \o units \in Seq(Units)
  BY <1>3, <1>4
<1>7. hashed \in FileWriter /\ hashed.i = last.i /\ hashed.closed = last.closed
      /\ hashed.kind = last.kind /\ hashed.pending = last.pending
      /\ hashed.raw = last.raw /\ hashed.comp = last.comp
  <2>1. last.writes + 1 \in Nat
    BY <1>3
  <2>2. hashed = [[last EXCEPT !.sum = last.sum \o units] EXCEPT !.writes = last.writes + 1]
    BY <1>2 DEF FileWriter
  <2> QED  BY <2>1, <1>2, <1>6, <2>2 DEF FileWriter
<1> HIDE DEF hashed
<1>8. accept \in FileWriter /\ accept.i = last.i /\ accept.closed = last.closed
      /\ accept.kind = last.kind /\ accept.pending = last.pending /\ accept.comp = last.comp
  <2>1. last.raw + m \in Nat
    BY <1>1, <1>3
  <2> QED  BY <1>7, <2>1 DEF FileWriter
<1> HIDE DEF accept
<1>9. later \in FileWriter /\ later.i = last.i /\ later.closed = last.closed
      /\ later.kind = last.kind
  BY <1>6, <1>8 DEF FileWriter
<1>10. through \in FileWriter /\ through.i = last.i /\ through.closed = last.closed
       /\ through.kind = last.kind /\ through.pending = last.pending
  <2>1. last.comp + m \in Nat
    BY <1>1, <1>3
  <2> QED  BY <1>8, <2>1 DEF FileWriter
<1> HIDE DEF later, through
<1>11. /\ last' \in FileWriter /\ last'.i = last.i /\ last'.kind = last.kind /\ ~last'.closed
       /\ last.kind # "Deflate" => last'.pending = last.pending
  BY <1>2, <1>5, <1>7, <1>9, <1>10, Zenon
<1>12. BufType' /\ count' >= count
  <2>1. CASE UNCHANGED <<bufio, count>>
    BY <2>1 DEF BufType
  <2>2. CASE \E e : Write_(Raw(last.i, last.raw, m), e)
    <3>1. IsSeq(Raw(last.i, last.raw, m))
      BY <1>1, <1>3, DataNoEnd, Zenon DEF NoEnd
    <3> QED  BY <2>2, <3>1, WriteStep, Zenon
  <2>3. UNCHANGED <<bufio, count>> \/ \E e : Write_(Raw(last.i, last.raw, m), e)
    BY Zenon DEF Write
  <2> QED  BY <2>1, <2>2, <2>3
<1>13. last.i \in 1 .. Len(made) /\ made[last.i] \in Nat /\ made \in Seq(Nat \cup {-1})
  <2>1. made \in Seq(Nat \cup {-1}) /\ last.i \in 1 .. Len(made)
    BY <1>2, <1>3 DEF HistType, LastInv, DirInv
  <2>2. made[last.i] \in Nat \cup {-1} /\ made[last.i] # -1
    BY <2>1, <1>2 DEF LastInv
  <2> QED  BY <2>1, <2>2
<1>14. /\ made' \in Seq(Nat \cup {-1}) /\ Len(made') = Len(made) /\ made'[last.i] # -1
  <2>1. CASE UNCHANGED made
    BY <2>1, <1>13
  <2>2. CASE made' = [made EXCEPT ![last.i] = made[last.i] + m]
    <3>1. made[last.i] + m \in Nat
      BY <1>1, <1>13
    <3>2. PICK x \in Nat : x = made[last.i] + m
      BY <3>1
    <3>3. made' = [made EXCEPT ![last.i] = x]
      BY <2>2, <3>2, Zenon
    <3> QED  BY <3>2, <3>3, <1>13
  <2>3. UNCHANGED made \/ made' = [made EXCEPT ![last.i] = made[last.i] + m]
    BY Zenon DEF Write
  <2> QED  BY <2>1, <2>2, <2>3
<1>15. UNCHANGED <<dir, fhs, closed, comment, compressors, prefix, base, end, listed>>
  BY DEF Write
<1>16. FieldType' /\ HistType'
  BY <1>11, <1>14, <1>15 DEF FieldType, HistType
<1>17. \E op, e : Returns(op, e)
  BY Zenon DEF Write
<1>18. CallType'
  BY <1>15, <1>17, CallStep
<1>19. DirInv' /\ LastInv'
  BY <1>2, <1>11, <1>14, <1>15 DEF DirInv, LastInv
<1>20. CallInv'
  BY <1>11, <1>17 DEF CallInv, Returns
<1>21. OffsetInv'
  BY <1>12, <1>15, OffsetStep
<1> QED  BY <1>12, <1>16, <1>18, <1>19, <1>20, <1>21

\* Deliver: the compressor writes what it has.
LEMMA DeliverTypes ==
  ASSUME TypeInv, ControlInv, Deliver
  PROVE  TypeInv' /\ ControlInv'
<1> USE DEF TypeInv, ControlInv
<1>1. PICK e \in Outcomes :
        /\ Write_(Deflated(last.pending), e)
        /\ last' = [last EXCEPT !.comp = IF e = "nil" THEN @ + Len(last.pending) ELSE @,
                                !.pending = <<>>]
  BY DEF Deliver
<1>2. last \in FileWriter /\ last.pending \in Seq(Units) /\ last.comp \in Nat
  BY DEF FieldType, FileWriter
<1>3. BufType' /\ count' >= count
  <2>1. IsSeq(Deflated(last.pending))
    BY <1>2, DataNoEnd, Zenon DEF NoEnd
  <2> QED  BY <1>1, <2>1, WriteStep
<1> DEFINE c == IF e = "nil" THEN last.comp + Len(last.pending) ELSE last.comp
<1>4. c \in Nat
  BY <1>2
<1>5. last' = [[last EXCEPT !.comp = c] EXCEPT !.pending = <<>>]
  BY <1>1, <1>2 DEF FileWriter
<1> HIDE DEF c
<1>6. <<>> \in Seq(Units)
  OBVIOUS
<1>7. last' \in FileWriter /\ last'.i = last.i /\ last'.kind = last.kind
      /\ last'.closed = last.closed /\ last'.pending = <<>>
  BY <1>2, <1>4, <1>5, <1>6 DEF FileWriter
<1>8. UNCHANGED <<dir, fhs, closed, comment, compressors, pc, arg, pos, sealed, hist>>
  BY DEF Deliver
<1>9. FieldType' /\ HistType' /\ CallType'
  BY <1>7, <1>8 DEF FieldType, HistType, CallType
<1>10. DirInv' /\ LastInv' /\ CallInv'
  BY <1>7, <1>8 DEF DirInv, LastInv, CallInv
<1>11. OffsetInv'
  BY <1>3, <1>8, OffsetStep
<1> QED  BY <1>3, <1>9, <1>10, <1>11

\* CompClose: the compressor is closed.
LEMMA CompCloseTypes ==
  ASSUME TypeInv, ControlInv, CompClose
  PROVE  TypeInv' /\ ControlInv'
<1> USE DEF TypeInv, ControlInv
<1>1. last \in FileWriter /\ last.comp \in Nat /\ pc = "comp" /\ last.i # 0 /\ last.closed
      /\ (arg # 0 => Len(dir) < MaxEntries)
  BY DEF FieldType, FileWriter, CompClose, CallInv
<1>2. UNCHANGED <<dir, fhs, closed, comment, compressors, prefix, base, end, listed>>
  BY DEF CompClose
<1>3. last' \in FileWriter /\ last'.i = last.i /\ last'.kind = last.kind
      /\ last'.closed = last.closed /\ last'.pending = last.pending
  <2>1. CASE UNCHANGED last
    BY <2>1, <1>1
  <2>2. CASE last' = [last EXCEPT !.comp = last.comp + 1]
    <3>1. last.comp + 1 \in Nat
      BY <1>1
    <3> QED  BY <1>1, <2>2, <3>1 DEF FileWriter
  <2>3. UNCHANGED last \/ last' = [last EXCEPT !.comp = last.comp + 1]
    BY DEF CompClose
  <2> QED  BY <2>1, <2>2, <2>3
<1>4. made' \in Seq(Nat \cup {-1}) /\ Len(made') = Len(made)
  <2>1. UNCHANGED made \/ made' = [made EXCEPT ![last.i] = -1]
    BY DEF CompClose
  <2>2. made \in Seq(Nat \cup {-1})
    BY DEF HistType
  <2> QED  BY <2>1, <2>2
<1>5. BufType' /\ count' >= count
  <2>1. CASE UNCHANGED <<bufio, count>>
    BY <2>1 DEF BufType
  <2>2. CASE \E e : Write_(FinalBlock, e)
    <3>1. IsSeq(FinalBlock)
      BY DataNoEnd, Zenon DEF NoEnd
    <3> QED  BY <2>2, <3>1, WriteStep, Zenon
  <2>3. UNCHANGED <<bufio, count>> \/ \E e : Write_(FinalBlock, e)
    BY Zenon DEF CompClose
  <2> QED  BY <2>1, <2>2, <2>3
<1>6. \/ \E op, e : Returns(op, e)
      \/ Goes("descriptor")
  BY Zenon DEF CompClose
<1>7. CallType'
  BY <1>2, <1>6, CallStep
<1>8. FieldType' /\ HistType'
  BY <1>2, <1>3, <1>4 DEF FieldType, HistType
<1>9. DirInv'
  BY <1>2, <1>4 DEF DirInv
<1>10. LastInv'
  BY <1>1, <1>2, <1>3 DEF LastInv
<1>11. last.pending = <<>>
  BY DEF CompClose, LastInv
<1>12. CallInv'
  BY <1>1, <1>2, <1>3, <1>6, <1>11 DEF CallInv, Returns, Goes
<1>13. OffsetInv'
  BY <1>2, <1>5, OffsetStep
<1> QED  BY <1>5, <1>7, <1>8, <1>9, <1>10, <1>12, <1>13

\* The directory with other headers of the same names.
LEMMA DirKept ==
  ASSUME FieldType, DOMAIN fhs' = DOMAIN fhs, UNCHANGED dir
  PROVE  dir' \in Seq([fh : DOMAIN fhs', offset : Nat])
BY Zenon DEF FieldType

\* Descriptor: the header of the entry is completed, its descriptor written.
LEMMA DescriptorTypes ==
  ASSUME TypeInv, ControlInv, Descriptor
  PROVE  TypeInv' /\ ControlInv'
<1> USE DEF TypeInv, ControlInv
<1> DEFINE p == dir[last.i].fh
<1>1. last \in FileWriter /\ last.i \in Nat /\ pc = "descriptor" /\ last.i # 0 /\ last.closed
      /\ (arg # 0 => Len(dir) < MaxEntries) /\ last.pending = <<>>
  BY DEF FieldType, FileWriter, Descriptor, CallInv
<1>2. last.i \in 1 .. Len(dir)
  BY <1>1 DEF LastInv, FieldType
<1>3. p \in DOMAIN fhs /\ fhs[p] \in FileHeader
  BY <1>2, DirElement
<1>4. Updated(fhs[p]) \in FileHeader
  BY <1>1, <1>3, UpdatedType
<1>5. fhs' = [fhs EXCEPT ![p] = Updated(fhs[p])]
  BY Zenon DEF Descriptor
<1>6. PICK e \in Outcomes :
       /\ Write_(DescriptorBytes(Updated(fhs[p])), e)
       /\ IF e # "nil" THEN Returns(Op, e)
          ELSE Goes(IF Op = "Close" THEN "close" ELSE "create")
  BY DEF Descriptor
<1>7. UNCHANGED <<dir, last, closed, comment, compressors, hist>>
  BY DEF Descriptor
<1> HIDE DEF p
<1>8. DOMAIN fhs' = DOMAIN fhs /\ fhs' \in [DOMAIN fhs' -> FileHeader]
  BY <1>3, <1>4, <1>5, HeaderStep
<1>9. BufType' /\ count' >= count
  <2>1. IsSeq(DescriptorBytes(Updated(fhs[p])))
    BY DescriptorNoEnd, Zenon DEF NoEnd
  <2> QED  BY <1>6, <2>1, WriteStep
<1>10. FieldType'
  <2>1. dir' \in Seq([fh : DOMAIN fhs', offset : Nat])
    BY <1>7, <1>8, DirKept
  <2> QED  BY <1>7, <1>8, <2>1 DEF FieldType
<1>11. HistType'
  BY <1>7 DEF HistType
<1>12. CallType'
  BY <1>6, <1>8, CallStep
<1>13. DirInv' /\ LastInv'
  BY <1>7 DEF DirInv, LastInv
<1>14. OffsetInv'
  BY <1>7, <1>9, OffsetStep
<1>15. CallInv'
  <2>1. pc' \in {"idle", "close"} \/ (pc' = "create" /\ arg # 0 /\ arg' = arg)
    BY <1>6 DEF Returns, Goes, Op
  <2>2. arg # 0 => arg \in DOMAIN fhs'
    BY <1>8 DEF CallType
  <2> QED  BY <1>1, <1>7, <2>1, <2>2 DEF CallInv
<1> QED  BY <1>9, <1>10, <1>11, <1>12, <1>13, <1>14, <1>15

\* CreateHeader and Close begin by closing the open entry.
LEMMA BeginTypes ==
  ASSUME TypeInv, ControlInv,
         Close \/ \E p \in DOMAIN fhs : CreateHeader(p)
  PROVE  TypeInv' /\ ControlInv'
<1> USE DEF TypeInv, ControlInv
<1>1. UNCHANGED <<bufio, count, dir, fhs, closed, comment, compressors, pos, sealed, hist>>
  BY DEF Close, CreateHeader
<1>2. arg' \in {0} \cup DOMAIN fhs
  BY DEF Close, CreateHeader
<1>3. \/ /\ last.closed /\ UNCHANGED last /\ pc' \in {"close", "create"}
      \/ /\ ~last.closed /\ pc' = "comp" /\ last' = [last EXCEPT !.closed = TRUE]
  BY DEF Close, CreateHeader, CloseLast
<1>4. pc = "idle" /\ last \in FileWriter
  BY DEF Close, CreateHeader, FieldType
<1>5. last' \in FileWriter /\ last'.i = last.i /\ last'.kind = last.kind /\ last'.closed
      /\ last'.pending = last.pending
  BY <1>3, <1>4 DEF FileWriter
<1>6. (pc' = "create" \/ arg' # 0) => Len(dir) < MaxEntries
  <2>1. CASE Close
    BY <2>1, <1>3 DEF Close, CloseLast
  <2>2. CASE \E p \in DOMAIN fhs : CreateHeader(p)
    <3>1. Len(dir) < MaxLate \/ Len(dir) < MaxEntries
      BY <2>2 DEF CreateHeader
    <3>2. Len(dir) \in Nat
      BY DEF FieldType
    <3> QED  BY <3>1, <3>2, ZipWriterAssumption
  <2> QED  BY <2>1, <2>2
<1>7. pc' = "create" => arg' \in DOMAIN fhs
  BY <1>3 DEF Close, CreateHeader, CloseLast
<1>8. BufType' /\ HistType'
  BY <1>1 DEF BufType, HistType
<1>9. FieldType' /\ CallType'
  BY <1>1, <1>2, <1>3, <1>5 DEF FieldType, CallType
<1>10. OffsetInv' /\ DirInv'
  BY <1>1 DEF OffsetInv, DirInv
<1>11. LastInv'
  BY <1>1, <1>5 DEF LastInv
<1>12. CallInv'
  BY <1>1, <1>3, <1>4, <1>5, <1>6, <1>7 DEF CallInv, LastInv
<1> QED  BY <1>8, <1>9, <1>10, <1>11, <1>12

\* CreateHeader refuses a method, or the compressor fails.
LEMMA CreateFailsTypes ==
  ASSUME TypeInv, ControlInv, CreateFails
  PROVE  TypeInv' /\ ControlInv'
<1> USE DEF TypeInv, ControlInv
<1>1. UNCHANGED <<bufio, count, dir, last, closed, comment, compressors, hist>>
      /\ pc = "create"
  BY DEF CreateFails
<1>2. arg \in DOMAIN fhs /\ last.closed /\ last.pending = <<>>
  BY <1>1 DEF CallInv
<1>3. fhs' = [fhs EXCEPT ![arg] = Prepared(fhs[arg])]
  BY Zenon DEF CreateFails
<1>4. Prepared(fhs[arg]) \in FileHeader
  BY <1>2, PreparedType DEF FieldType
<1>5. DOMAIN fhs' = DOMAIN fhs /\ fhs' \in [DOMAIN fhs' -> FileHeader]
  BY <1>2, <1>3, <1>4, HeaderStep
<1>6. \E op, e : Returns(op, e)
  BY Zenon DEF CreateFails
<1>7. CallType'
  BY <1>5, <1>6, CallStep
<1>8. FieldType'
  <2>1. dir' \in Seq([fh : DOMAIN fhs', offset : Nat])
    BY <1>1, <1>5, DirKept
  <2> QED  BY <1>1, <1>5, <2>1 DEF FieldType
<1>9. BufType' /\ HistType'
  BY <1>1 DEF BufType, HistType
<1>10. OffsetInv' /\ DirInv' /\ LastInv'
  BY <1>1 DEF OffsetInv, DirInv, LastInv
<1>11. CallInv'
  BY <1>1, <1>2, <1>6 DEF CallInv, Returns
<1> QED  BY <1>7, <1>8, <1>9, <1>10, <1>11

\* Create: the entry is in the directory, and its local header is written or not.
LEMMA CreateTypes ==
  ASSUME TypeInv, ControlInv, Create
  PROVE  TypeInv' /\ ControlInv'
<1> USE DEF TypeInv, ControlInv
<1> DEFINE fh == Prepared(fhs[arg])  kind == compressor(fh.method)
           new == [NoWriter EXCEPT !.i = Len(dir) + 1, !.kind = kind, !.closed = FALSE]
<1>1. UNCHANGED <<closed, comment, compressors, prefix, base, end, listed>>
      /\ pc = "create" /\ kind # "nil"
  BY DEF Create
<1>2. arg \in DOMAIN fhs /\ last.closed /\ last.pending = <<>> /\ Len(dir) < MaxEntries
  BY <1>1 DEF CallInv
<1>3. fhs' = [fhs EXCEPT ![arg] = fh]
  BY Zenon DEF Create
<1>4. fh \in FileHeader
  BY <1>2, PreparedType DEF FieldType
<1>5. DOMAIN fhs' = DOMAIN fhs /\ fhs' \in [DOMAIN fhs' -> FileHeader]
  BY <1>2, <1>3, <1>4, HeaderStep
<1>6. dir' = Append(dir, [fh |-> arg, offset |-> count])
  BY Zenon DEF Create
<1>7. (made' = Append(made, -1) /\ last' = last) \/ (made' = Append(made, 0) /\ last' = new)
  BY Zenon DEF Create
<1>8. BufType' /\ count' >= count
  <2>1. CASE UNCHANGED <<bufio, count>>
    BY <2>1 DEF BufType
  <2>2. CASE \E e : Write_(HeaderBytes(fh), e)
    <3>1. fh.extra \in Seq(ExtraField)
      BY <1>4, Zenon DEF FileHeader
    <3>2. IsSeq(HeaderBytes(fh))
      BY <3>1, HeaderNoEnd, Zenon DEF NoEnd
    <3> QED  BY <2>2, <3>2, WriteStep, Zenon
  <2>3. UNCHANGED <<bufio, count>> \/ \E e : Write_(HeaderBytes(fh), e)
    BY Zenon DEF Create
  <2> QED  BY <2>1, <2>2, <2>3
<1>9. \E op, e : Returns(op, e)
  BY Zenon DEF Create
<1>10. kind \in {"Store", "Deflate", "Custom"}
  <2>1. fh.method \in Methods
    BY <1>4, Zenon DEF FileHeader
  <2> HIDE DEF fh
  <2> QED  BY <1>1, <2>1 DEF compressor, Methods
<1> HIDE DEF fh, kind
<1>11. PICK n \in Nat : n = Len(dir)
  BY DEF FieldType
<1>12. new \in FileWriter /\ new.i = n + 1 /\ ~new.closed /\ new.pending = <<>>
  <2>1. PICK k \in Nat : k = Len(dir) + 1 /\ k = n + 1
    BY <1>11
  <2>2. new = [NoWriter EXCEPT !.i = k, !.kind = kind, !.closed = FALSE]
    BY <2>1, Zenon
  <2>3. NoWriter \in FileWriter /\ NoWriter.pending = <<>>
    BY DEF NoWriter, FileWriter
  <2>4. new \in FileWriter
    BY <2>2, <2>3, <1>10, Zenon DEF FileWriter
  <2>5. new.i = k /\ new.closed = FALSE /\ new.pending = NoWriter.pending
    BY <2>2, <2>3 DEF FileWriter
  <2> QED  BY <2>1, <2>3, <2>4, <2>5, Zenon
<1> HIDE DEF new
<1>13. made' \in Seq(Nat \cup {-1}) /\ Len(made') = n + 1 /\ Len(dir') = n + 1
       /\ (last' = new => made'[n + 1] # -1)
  <2>1. made \in Seq(Nat \cup {-1}) /\ Len(made) = n
    BY <1>11 DEF HistType, DirInv
  <2>2. PICK S : S = [fh : DOMAIN fhs, offset : Nat]
    OBVIOUS
  <2>3. dir \in Seq(S) /\ [fh |-> arg, offset |-> count] \in S
    BY <2>2, <1>2 DEF FieldType, BufType
  <2>4. PICK x : x = [fh |-> arg, offset |-> count]
    OBVIOUS
  <2>5. dir' = Append(dir, x) /\ x \in S
    BY <2>3, <2>4, <1>6, Zenon
  <2>6. Len(dir') = n + 1
    BY <2>3, <2>5, <1>11
  <2>7. CASE made' = Append(made, -1) /\ last' = last
    <3>1. last' # new
      BY <2>7, <1>2, <1>12
    <3> QED  BY <2>1, <2>6, <2>7, <3>1
  <2>8. CASE made' = Append(made, 0) /\ last' = new
    BY <2>1, <2>6, <2>8
  <2> QED  BY <2>7, <2>8, <1>7
<1>14. dir' \in Seq([fh : DOMAIN fhs', offset : Nat])
       /\ \A i \in 1 .. n + 1 : dir'[i].offset <= count'
  <2>1. PICK S : S = [fh : DOMAIN fhs', offset : Nat]
    OBVIOUS
  <2>2. PICK x : x = [fh |-> arg, offset |-> count]
    OBVIOUS
  <2>3. x \in S /\ x.offset = count
    BY <2>1, <2>2, <1>2, <1>5 DEF BufType
  <2>4. dir \in Seq(S)
    BY <2>1, <1>5, Zenon DEF FieldType
  <2>5. dir' = Append(dir, x)
    BY <2>2, <1>6, Zenon
  <2>6. dir' \in Seq(S) /\ dir'[n + 1] = x /\ \A i \in 1 .. n : dir'[i] = dir[i]
    BY <2>3, <2>4, <2>5, <1>11
  <2>7. ASSUME NEW i \in 1 .. n PROVE dir'[i].offset <= count'
    <3>1. dir[i].offset \in Nat /\ dir[i].offset <= count
      BY DirElement, <1>11 DEF OffsetInv
    <3>2. dir'[i].offset \in Nat /\ dir'[i].offset <= count
      BY <3>1, <2>6, Zenon
    <3> QED  BY <3>2, <1>8 DEF BufType
  <2>8. dir'[n + 1].offset <= count'
    <3>1. dir'[n + 1].offset = count
      BY <2>3, <2>6, Zenon
    <3> QED  BY <3>1, <1>8 DEF BufType
  <2>9. \A i \in 1 .. n + 1 : i = n + 1 \/ i \in 1 .. n
    BY <1>11
  <2> QED  BY <2>1, <2>6, <2>7, <2>8, <2>9, Zenon
<1>15. last' \in FileWriter
  BY <1>7, <1>12 DEF FieldType
<1>16. FieldType'
  BY <1>1, <1>5, <1>14, <1>15 DEF FieldType
<1>17. HistType'
  BY <1>1, <1>13 DEF HistType
<1>18. CallType'
  BY <1>5, <1>9, CallStep
<1>19. OffsetInv'
  <2>1. base' <= count'
    BY <1>1, <1>8 DEF OffsetInv, HistType, BufType
  <2> QED  BY <2>1, <1>13, <1>14 DEF OffsetInv
<1>20. DirInv'
  <2>1. n < MaxEntries /\ MaxEntries \in Nat
    BY <1>2, <1>11, ZipWriterAssumption
  <2> QED  BY <1>13, <2>1 DEF DirInv
<1>21. LastInv'
  <2>1. CASE last' = last
    <3>1. last.i \in Nat /\ last.i <= n
      BY <1>11 DEF LastInv, FieldType, FileWriter
    <3> QED  BY <2>1, <1>2, <1>13, <3>1 DEF LastInv
  <2>2. CASE last' = new
    BY <2>2, <1>12, <1>13 DEF LastInv
  <2> QED  BY <2>1, <2>2, <1>7
<1>22. CallInv'
  <2>1. last'.pending = <<>> /\ pc' = "idle"
    BY <1>2, <1>7, <1>9, <1>12 DEF Returns
  <2> QED  BY <2>1 DEF CallInv
<1> QED  BY <1>8, <1>16, <1>17, <1>18, <1>19, <1>20, <1>21, <1>22

\* Close goes over the directory.
LEMMA CloseStartTypes ==
  ASSUME TypeInv, ControlInv, CloseStart
  PROVE  TypeInv' /\ ControlInv'
<1> USE DEF TypeInv, ControlInv
<1>1. UNCHANGED <<bufio, count, dir, fhs, last, comment, compressors, arg, sealed, hist>>
      /\ pc = "close" /\ pc' = "directory" /\ closed' = TRUE
      /\ pos' = [k |-> 1, start |-> count]
  BY DEF CloseStart
<1>2. pos' \in [k : Nat, start : Nat] /\ pos'.k # 0
  BY <1>1 DEF BufType
<1>3. BufType' /\ HistType'
  BY <1>1 DEF BufType, HistType
<1>4. FieldType' /\ CallType'
  BY <1>1, <1>2 DEF FieldType, CallType
<1>5. OffsetInv' /\ DirInv' /\ LastInv'
  BY <1>1 DEF OffsetInv, DirInv, LastInv
<1>6. CallInv'
  BY <1>1, <1>2 DEF CallInv
<1> QED  BY <1>3, <1>4, <1>5, <1>6

\* A directory header is written.
LEMMA DirectoryTypes ==
  ASSUME TypeInv, ControlInv, DirectoryHeader
  PROVE  TypeInv' /\ ControlInv'
<1> USE DEF TypeInv, ControlInv
<1> DEFINE h == dir[pos.k]
<1>1. UNCHANGED <<dir, last, closed, comment, compressors, hist>>
      /\ pc = "directory" /\ pos.k <= Len(dir)
  BY DEF DirectoryHeader
<1>2. pos \in [k : Nat, start : Nat] /\ pos.k \in 1 .. Len(dir)
  BY <1>1 DEF CallType, CallInv, FieldType
<1>3. h.fh \in DOMAIN fhs /\ h.offset \in Nat /\ fhs[h.fh] \in FileHeader
  BY <1>2, DirElement
<1>4. Listed(h).extra \in Seq(ExtraField)
  BY <1>3, ListedType
<1>5. fhs' = [fhs EXCEPT ![h.fh].extra = Listed(h).extra]
  BY Zenon DEF DirectoryHeader
<1>6. PICK e \in Outcomes :
       /\ Write_(DirectoryBytes(h), e)
       /\ IF e = "nil" THEN pos' = [pos EXCEPT !.k = @ + 1] /\ UNCHANGED <<pc, arg, sealed>>
                       ELSE Returns("Close", e)
  BY DEF DirectoryHeader
<1>7. PICK x \in Seq(ExtraField) : x = Listed(h).extra
  BY <1>4
<1>8. IsSeq(DirectoryBytes(h))
  BY <1>4, DirectoryNoEnd, Zenon DEF NoEnd
<1> HIDE DEF h
<1>9. fhs' = [fhs EXCEPT ![h.fh] = [fhs[h.fh] EXCEPT !.extra = x]]
  BY <1>5, <1>7
<1>10. [fhs[h.fh] EXCEPT !.extra = x] \in FileHeader
  BY <1>3, <1>7 DEF FileHeader
<1>11. DOMAIN fhs' = DOMAIN fhs /\ fhs' \in [DOMAIN fhs' -> FileHeader]
  BY <1>3, <1>9, <1>10, HeaderStep
<1>12. BufType' /\ count' >= count
  BY <1>6, <1>8, WriteStep
<1>13. FieldType'
  <2>1. dir' \in Seq([fh : DOMAIN fhs', offset : Nat])
    BY <1>1, <1>11, DirKept
  <2> QED  BY <1>1, <1>11, <2>1 DEF FieldType
<1>14. HistType'
  BY <1>1 DEF HistType
<1>15. DirInv' /\ LastInv'
  BY <1>1 DEF DirInv, LastInv
<1>16. OffsetInv'
  BY <1>1, <1>12, OffsetStep
<1>17. CallType' /\ CallInv'
  <2>1. CASE Returns("Close", e)
    <3>1. CallType'
      BY <1>11, <2>1, CallStep
    <3> QED  BY <1>1, <2>1, <3>1 DEF CallInv, Returns
  <2>2. CASE pos' = [pos EXCEPT !.k = @ + 1] /\ UNCHANGED <<pc, arg, sealed>>
    <3>1. pos' \in [k : Nat, start : Nat] /\ pos'.k # 0
      BY <1>2, <2>2
    <3> QED  BY <1>1, <1>11, <2>2, <3>1 DEF CallType, CallInv
  <2> QED  BY <1>6, <2>1, <2>2
<1> QED  BY <1>12, <1>13, <1>14, <1>15, <1>16, <1>17

\* The end of the archive is written.
LEMMA EndTypes ==
  ASSUME TypeInv, ControlInv, End
  PROVE  TypeInv' /\ ControlInv'
<1> USE DEF TypeInv, ControlInv
<1>1. UNCHANGED <<fields, prefix, base, made>> /\ pc = "directory"
      /\ end' = count + Len(EndBytes) /\ listed' = Len(dir)
  BY DEF End
<1>2. PICK e \in Outcomes :
       /\ Write_(EndBytes, e)
       /\ IF e = "nil" THEN Goes("finish") ELSE Returns("Close", e)
  BY DEF End
<1>3. comment \in Nat
  BY DEF FieldType
<1>4. IsSeq(EndBytes) /\ Len(EndBytes) \in Nat
  BY <1>3, EndBytesEnd
<1>5. BufType' /\ count' >= count
  BY <1>2, <1>4, WriteStep
<1>6. end' \in Nat /\ listed' \in Nat
  <2>1. PICK n \in Nat : n = Len(EndBytes)
    BY <1>4
  <2>2. end' = count + n
    BY <1>1, <2>1, Zenon
  <2>3. end' \in Nat
    BY <2>2, <2>1 DEF BufType
  <2> QED  BY <1>1, <2>3 DEF FieldType
<1>7. FieldType'
  BY <1>1 DEF FieldType
<1>8. HistType'
  BY <1>1, <1>6 DEF HistType
<1>9. DirInv' /\ LastInv'
  BY <1>1 DEF DirInv, LastInv
<1>10. OffsetInv'
  BY <1>1, <1>5, OffsetStep
<1>11. CallType'
  BY <1>1, <1>2, CallStep
<1>12. CallInv'
  BY <1>1, <1>2 DEF CallInv, Goes, Returns
<1> QED  BY <1>5, <1>7, <1>8, <1>9, <1>10, <1>11, <1>12

\* Every step keeps types and control.
LEMMA NextTypes ==
  ASSUME TypeInv, ControlInv, [Next]_vars
  PROVE  TypeInv' /\ ControlInv'
<1>1. CASE Next
  <2>1. ASSUME NEW m \in Chunks, Write(m) PROVE TypeInv' /\ ControlInv'
    BY <2>1, WriteTypes
  <2>2. CASE \/ SetOffset \/ SetOffsetPanic \/ \E n \in Comments : SetComment(n)
             \/ RegisterCompressor("LZMA") \/ WriteRefused \/ Duplicate \/ CloseTwice
             \/ Flush \/ FlushEnd \/ CloseFlush
    BY <2>2, SettingTypes
  <2>3. CASE Deliver
    BY <2>3, DeliverTypes
  <2>4. CASE CompClose
    BY <2>4, CompCloseTypes
  <2>5. CASE Descriptor
    BY <2>5, DescriptorTypes
  <2>6. CASE Close \/ \E p \in DOMAIN fhs : CreateHeader(p)
    BY <2>6, BeginTypes
  <2>7. CASE CreateFails
    BY <2>7, CreateFailsTypes
  <2>8. CASE Create
    BY <2>8, CreateTypes
  <2>9. CASE CloseStart
    BY <2>9, CloseStartTypes
  <2>10. CASE DirectoryHeader
    BY <2>10, DirectoryTypes
  <2>11. CASE End
    BY <2>11, EndTypes
  <2> QED
    BY <1>1, <2>1, <2>2, <2>3, <2>4, <2>5, <2>6, <2>7, <2>8, <2>9, <2>10, <2>11 DEF Next
<1>2. CASE UNCHANGED vars
  <2>1. UNCHANGED <<bufio, count, fields, hist>> /\ UNCHANGED <<pc, arg, pos>>
    BY <1>2 DEF vars
  <2>2. CallType' /\ CallInv'
    BY <2>1 DEF TypeInv, ControlInv, CallType, CallInv
  <2> QED  BY <2>1, <2>2, QuietTypes
<1> QED  BY <1>1, <1>2

\* Types and control of the writer hold for every set of headers, every limit
\* and whatever fails, also when Flush is called with a compressor at work: the
\* open entry is one of the directory, offsets are not behind what was written,
\* and a comment fits its field (CreateHeader, close, SetComment, Close).
THEOREM TypeCorrect == Spec => []TypeOK
<1>1. Init => TypeInv /\ ControlInv
  BY InitTypes
<1>2. (TypeInv /\ ControlInv) /\ [Next]_vars => (TypeInv /\ ControlInv)'
  BY NextTypes
<1>3. TypeInv /\ ControlInv => TypeOK
  <2> SUFFICES ASSUME TypeInv, ControlInv PROVE TypeOK
    OBVIOUS
  <2> USE DEF TypeInv, ControlInv
  <2>1. DOMAIN dir = 1 .. Len(dir) /\ Len(dir) \in Nat
    BY DEF FieldType
  <2>2. ASSUME NEW i \in DOMAIN dir
        PROVE  dir[i].fh \in DOMAIN fhs /\ dir[i].offset \in 0 .. count
    <3>1. dir[i].fh \in DOMAIN fhs /\ dir[i].offset \in Nat /\ dir[i].offset <= count
      BY <2>1, DirElement DEF OffsetInv
    <3> QED  BY <3>1 DEF BufType
  <2>3. last.i \in 0 .. Len(dir) /\ (last.i = 0 => last.closed)
    <3>1. last.i \in Nat /\ last.i <= Len(dir) /\ (last.i = 0 => last.closed)
      BY DEF FieldType, FileWriter, LastInv
    <3> QED  BY <3>1, <2>1
  <2>4. /\ berr \in Outcomes /\ count \in Nat /\ closed \in BOOLEAN
        /\ comment \in 0 .. uint16max /\ compressors \subseteq {"LZMA"}
        /\ Len(made) = Len(dir) /\ Len(dir) <= MaxEntries
        /\ arg \in {0} \cup DOMAIN fhs
        /\ pc \in {"idle", "flush", "comp", "descriptor", "create", "close", "directory",
                   "finish", "panic"}
    BY DEF BufType, FieldType, DirInv, CallType
  <2> QED  BY <2>2, <2>3, <2>4 DEF TypeOK
<1> QED  BY <1>1, <1>2, <1>3, PTL DEF Spec

-----------------------------------------------------------------------------
(* What was written, and the count of it.                                   *)

\* Concatenation is associative, and the empty sequence does nothing.
LEMMA ConcatLaws ==
  ASSUME NEW s, NEW t, NEW u, IsSeq(s), IsSeq(t), IsSeq(u)
  PROVE  (s \o t) \o u = s \o (t \o u) /\ s \o <<>> = s
<1> DEFINE S == {s[k] : k \in DOMAIN s} \cup {t[k] : k \in DOMAIN t} \cup {u[k] : k \in DOMAIN u}
<1>1. s \in Seq(S) /\ t \in Seq(S) /\ u \in Seq(S)
  <2>1. /\ s \in Seq({s[k] : k \in DOMAIN s}) /\ t \in Seq({t[k] : k \in DOMAIN t})
        /\ u \in Seq({u[k] : k \in DOMAIN u})
    BY DEF IsSeq
  <2> QED  BY <2>1
<1> HIDE DEF S
<1>2. (s \o t) \o u = s \o (t \o u)
  BY <1>1, ConcatAssociative
<1>3. s \o <<>> = s
  BY <1>1, ConcatEmptySeq
<1> QED  BY <1>2, <1>3

\* The empty sequence is one.
LEMMA EmptyIsSeq == IsSeq(<<>>) /\ Len(<<>>) = 0
<1>1. <<>> \in Seq({}) /\ Len(<<>>) = 0
  OBVIOUS
<1> QED  BY <1>1, SeqIsSeq

\* What was written is a sequence.
LEMMA AllIsSeq ==
  ASSUME TypeInv
  PROVE  IsSeq(out) /\ IsSeq(buf) /\ IsSeq(out \o buf) /\ IsSeq(All) /\ Len(All) \in Nat
<1>1. IsSeq(out) /\ IsSeq(buf)
  BY DEF TypeInv, BufType
<1>2. IsSeq(out \o buf)
  BY <1>1, Concat
<1>3. IsSeq(All)
  BY <1>1, <1>2, Zenon DEF All
<1>4. Len(All) \in Nat
  BY <1>3, Concat
<1> QED  BY <1>1, <1>2, <1>3, <1>4

\* A write that leaves no error appends.
LEMMA WriteAll ==
  ASSUME TypeInv, pc # "flush", pc' # "flush", NEW b, IsSeq(b), NEW e, Write_(b, e),
         berr' = "nil"
  PROVE  berr = "nil" /\ All' = All \o b /\ count' = count + Len(b)
<1>1. BufType
  BY DEF TypeInv
<1>2. berr = "nil" /\ out' = out /\ buf' = buf \o b /\ count' = count + Len(b)
  BY <1>1, WriteStep
<1>3. All = out \o buf /\ All' = out' \o buf'
  BY Zenon DEF All
<1>4. IsSeq(out) /\ IsSeq(buf)
  BY <1>1 DEF BufType
<1>5. (out \o buf) \o b = out \o (buf \o b)
  BY <1>4, ConcatLaws
<1> QED  BY <1>2, <1>3, <1>5, Zenon

\* Steps that write nothing.
LEMMA SameAll ==
  ASSUME UNCHANGED <<out, buf>>, (pc # "flush" /\ pc' # "flush") \/ UNCHANGED pc
  PROVE  All' = All
<1>1. CASE pc # "flush" /\ pc' # "flush"
  BY <1>1, Zenon DEF All
<1>2. CASE UNCHANGED pc
  BY <1>2, Zenon DEF All
<1> QED  BY <1>1, <1>2

\* A flush moves bytes and loses none.
LEMMA FlushAll ==
  ASSUME TypeInv, Flush \/ FlushEnd \/ CloseFlush, berr' = "nil"
  PROVE  berr = "nil" /\ All' = All
<1>0. BufType /\ IsSeq(<<>>)
  BY EmptyIsSeq DEF TypeInv
<1>1. IsSeq(out) /\ IsSeq(buf) /\ IsSeq(out \o buf)
  BY AllIsSeq
<1>2. ~FlushError
  BY <1>0, WriteStep DEF FlushError
<1>3. CASE Flush
  <2>1. pc = "idle"
    BY <1>3 DEF Flush
  <2>2. CASE (buf = <<>> \/ berr # "nil") /\ Returns("Flush", berr) /\ UNCHANGED bufio
    BY <2>1, <2>2, SameAll DEF Returns
  <2>3. CASE buf # <<>> /\ berr = "nil" /\ out' = out \o buf /\ Goes("flush")
             /\ UNCHANGED <<buf, berr>>
    <3>1. pc' = "flush"
      BY <2>3 DEF Goes
    <3> QED  BY <3>1, <2>1, <2>3, Zenon DEF All
  <2> QED  BY <1>2, <1>3, <2>2, <2>3 DEF Flush
<1>4. CASE FlushEnd
  <2>1. pc = "flush" /\ buf' = <<>> /\ pc' = "idle" /\ UNCHANGED <<out, berr>>
    BY <1>4 DEF FlushEnd, Returns
  <2>2. out \o <<>> = out
    BY <1>1, ConcatLaws
  <2> QED  BY <2>1, <2>2, Zenon DEF All
<1>5. CASE CloseFlush
  <2>1. pc = "finish" /\ out' = out \o buf /\ buf' = <<>> /\ UNCHANGED berr /\ pc' = "idle"
    BY <1>2, <1>5 DEF CloseFlush, Returns
  <2>2. (out \o buf) \o <<>> = out \o buf
    BY <1>1, ConcatLaws
  <2>3. All' = (out \o buf) \o <<>>
    BY <2>1, Zenon DEF All
  <2> QED  BY <2>1, <2>2, <2>3, Zenon DEF All
<1> QED  BY <1>3, <1>4, <1>5

\* Bytes that the steps of a call write.
Written ==
  \/ \E m \in Chunks : Write(m)
  \/ Deliver \/ CompClose \/ Descriptor \/ Create \/ DirectoryHeader \/ End

\* Such a step writes one sequence of bytes, or none.
LEMMA WrittenBytes ==
  ASSUME TypeInv, ControlInv, pc # "flush", Written
  PROVE  /\ pc' # "flush" /\ UNCHANGED base
         /\ \/ UNCHANGED <<bufio, count>>
            \/ \E b, e : IsSeq(b) /\ Write_(b, e) /\ (NoEnd(b) \/ (End /\ b = EndBytes))
<1> USE DEF TypeInv, ControlInv
<1> DEFINE Goal == /\ pc' # "flush" /\ UNCHANGED base
                   /\ \/ UNCHANGED <<bufio, count>>
                      \/ \E b, e : IsSeq(b) /\ Write_(b, e) /\ (NoEnd(b) \/ (End /\ b = EndBytes))
<1>1. ASSUME NEW m \in Chunks, Write(m) PROVE Goal
  <2>1. m \in Nat /\ last.i \in Nat /\ last.raw \in Nat
    BY ZipWriterAssumption DEF FieldType, FileWriter
  <2>2. NoEnd(Raw(last.i, last.raw, m))
    BY <2>1, DataNoEnd, Zenon
  <2>3. pc' = "idle" /\ UNCHANGED base
    BY <1>1 DEF Write, Returns
  <2>4. UNCHANGED <<bufio, count>> \/ \E e : Write_(Raw(last.i, last.raw, m), e)
    BY <1>1, Zenon DEF Write
  <2> QED  BY <2>2, <2>3, <2>4, Zenon DEF NoEnd
<1>2. CASE Deliver
  <2>1. last.pending \in Seq(Units)
    BY DEF FieldType, FileWriter
  <2>2. NoEnd(Deflated(last.pending))
    BY <2>1, DataNoEnd, Zenon
  <2>3. pc' = pc /\ UNCHANGED base
    BY <1>2 DEF Deliver
  <2>4. \E e : Write_(Deflated(last.pending), e)
    BY <1>2, Zenon DEF Deliver
  <2> QED  BY <2>2, <2>3, <2>4, Zenon DEF NoEnd
<1>3. CASE CompClose
  <2>1. NoEnd(FinalBlock)
    BY DataNoEnd, Zenon
  <2>2. pc' # "flush" /\ UNCHANGED base
    BY <1>3 DEF CompClose, Returns, Goes
  <2>3. UNCHANGED <<bufio, count>> \/ \E e : Write_(FinalBlock, e)
    BY <1>3, Zenon DEF CompClose
  <2> QED  BY <2>1, <2>2, <2>3, Zenon DEF NoEnd
<1>4. CASE Descriptor
  <2> DEFINE fh == Updated(fhs[dir[last.i].fh])
  <2>1. NoEnd(DescriptorBytes(fh))
    BY DescriptorNoEnd, Zenon
  <2>2. pc' # "flush" /\ UNCHANGED base
    BY <1>4 DEF Descriptor, Returns, Goes
  <2>3. \E e : Write_(DescriptorBytes(fh), e)
    BY <1>4, Zenon DEF Descriptor
  <2> HIDE DEF fh
  <2> QED  BY <2>1, <2>2, <2>3, Zenon DEF NoEnd
<1>5. CASE Create
  <2> DEFINE fh == Prepared(fhs[arg])
  <2>1. arg \in DOMAIN fhs
    BY <1>5 DEF Create, CallInv
  <2>2. fh \in FileHeader
    BY <2>1, PreparedType DEF FieldType
  <2>3. fh.extra \in Seq(ExtraField)
    BY <2>2, Zenon DEF FileHeader
  <2>4. NoEnd(HeaderBytes(fh))
    BY <2>3, HeaderNoEnd, Zenon
  <2>5. pc' # "flush" /\ UNCHANGED base
    BY <1>5 DEF Create, Returns
  <2>6. UNCHANGED <<bufio, count>> \/ \E e : Write_(HeaderBytes(fh), e)
    BY <1>5, Zenon DEF Create
  <2> HIDE DEF fh
  <2> QED  BY <2>4, <2>5, <2>6, Zenon DEF NoEnd
<1>6. CASE DirectoryHeader
  <2> DEFINE h == dir[pos.k]
  <2>1. pos.k \in 1 .. Len(dir)
    BY <1>6 DEF DirectoryHeader, CallType, CallInv, FieldType
  <2>2. h.offset \in Nat /\ fhs[h.fh] \in FileHeader
    BY <2>1, DirElement
  <2>3. Listed(h).extra \in Seq(ExtraField)
    BY <2>2, ListedType
  <2>4. NoEnd(DirectoryBytes(h))
    BY <2>3, DirectoryNoEnd, Zenon
  <2>5. pc' # "flush" /\ UNCHANGED base
    BY <1>6 DEF DirectoryHeader, Returns
  <2>6. \E e : Write_(DirectoryBytes(h), e)
    BY <1>6, Zenon DEF DirectoryHeader
  <2> HIDE DEF h
  <2> QED  BY <2>4, <2>5, <2>6, Zenon DEF NoEnd
<1>7. CASE End
  <2>1. comment \in Nat
    BY DEF FieldType
  <2>2. IsSeq(EndBytes)
    BY <2>1, EndBytesEnd
  <2>3. pc' # "flush" /\ UNCHANGED base
    BY <1>7 DEF End, Returns, Goes
  <2>4. \E e : Write_(EndBytes, e)
    BY <1>7, Zenon DEF End
  <2> QED  BY <1>7, <2>2, <2>3, <2>4, Zenon
<1> QED  BY <1>1, <1>2, <1>3, <1>4, <1>5, <1>6, <1>7, Zenon DEF Written

\* Steps that write nothing and do not touch the count.
Silent ==
  \/ SetOffsetPanic \/ \E n \in Comments : SetComment(n)
  \/ RegisterCompressor("LZMA") \/ WriteRefused \/ Duplicate \/ CloseTwice
  \/ CreateFails \/ Close \/ \E p \in DOMAIN fhs : CreateHeader(p)
  \/ CloseStart

\* What they leave alone.
LEMMA SilentBytes ==
  ASSUME Silent
  PROVE  pc # "flush" /\ pc' # "flush" /\ UNCHANGED <<bufio, count, dir, made, hist>>
<1>1. CASE SetOffsetPanic
  BY <1>1 DEF SetOffsetPanic, Goes
<1>2. CASE \E n \in Comments : SetComment(n)
  BY <1>2 DEF SetComment, Call, Returns
<1>3. CASE RegisterCompressor("LZMA")
  BY <1>3 DEF RegisterCompressor, Call, Returns
<1>4. CASE WriteRefused
  BY <1>4 DEF WriteRefused, Call, Returns
<1>5. CASE Duplicate \/ CloseTwice \/ CreateFails
  BY <1>5 DEF Duplicate, CloseTwice, CreateFails, Returns
<1>6. CASE Close \/ \E p \in DOMAIN fhs : CreateHeader(p)
  BY <1>6 DEF Close, CreateHeader, CloseLast
<1>7. CASE CloseStart
  BY <1>7 DEF CloseStart
<1> QED  BY <1>1, <1>2, <1>3, <1>4, <1>5, <1>6, <1>7 DEF Silent

\* The actions by what they write.
LEMMA NextKinds ==
  Next <=> SetOffset \/ Flush \/ FlushEnd \/ CloseFlush \/ Written \/ Silent
BY Zenon DEF Next, Written, Silent

\* A step that leaves no error had none before.
LEMMA ErrorStays ==
  ASSUME TypeInv, ControlInv, CountInv, [Next]_vars, berr' = "nil"
  PROVE  berr = "nil"
<1>1. BufType
  BY DEF TypeInv
<1>2. CASE Written /\ pc # "flush"
  <2>1. \/ UNCHANGED <<bufio, count>>
        \/ \E b, e : IsSeq(b) /\ Write_(b, e)
    BY <1>2, WrittenBytes, Zenon
  <2> QED  BY <1>1, <2>1, WriteStep
<1>3. CASE Written /\ pc = "flush"
  <2>1. last.pending = <<>>
    BY <1>3 DEF CountInv
  <2> QED  BY <1>3, <2>1 DEF Written, Write, Deliver, CompClose, Descriptor, Create,
                             DirectoryHeader, End
<1>4. CASE Silent
  BY <1>4, SilentBytes
<1>5. CASE SetOffset \/ UNCHANGED vars
  BY <1>5 DEF SetOffset, vars
<1>6. CASE Flush \/ FlushEnd \/ CloseFlush
  BY <1>6, FlushAll
<1> QED  BY <1>2, <1>3, <1>4, <1>5, <1>6, NextKinds

\* Nothing that can write is enabled in the middle of a flush.
LEMMA FlushWaits ==
  ASSUME CountInv, Written
  PROVE  pc # "flush"
<1>1. pc = "flush" => last.pending = <<>>
  BY DEF CountInv
<1> QED  BY <1>1 DEF Written, Write, Deliver, CompClose, Descriptor, Create,
                     DirectoryHeader, End

\* The count is kept.
LEMMA CountStep ==
  ASSUME ~FlushRaces, TypeInv, ControlInv, CountInv, [Next]_vars
  PROVE  CountInv'
<1> USE DEF TypeInv, ControlInv
<1>1. Len(All) \in Nat /\ IsSeq(All) /\ count \in Nat /\ base \in Nat /\ prefix \in Nat
  BY AllIsSeq DEF BufType, HistType
<1>2. pc' = "flush" => last'.pending = <<>>
  <2>1. CASE Written
    <3>1. pc # "flush"
      BY <2>1, FlushWaits
    <3> QED  BY <2>1, <3>1, WrittenBytes
  <2>2. CASE Silent
    BY <2>2, SilentBytes
  <2>3. CASE SetOffset
    BY <2>3 DEF SetOffset, Call, Returns
  <2>4. CASE Flush
    BY <2>4 DEF Flush
  <2>5. CASE FlushEnd \/ CloseFlush
    BY <2>5 DEF FlushEnd, CloseFlush, Returns
  <2>6. CASE UNCHANGED vars
    BY <2>6 DEF vars, CountInv
  <2> QED  BY <2>1, <2>2, <2>3, <2>4, <2>5, <2>6, NextKinds
<1>3. ASSUME berr' = "nil" PROVE Len(All') = count' - base'
  <2>1. berr = "nil" /\ Len(All) = count - base
    BY <1>3, ErrorStays DEF CountInv
  <2>2. CASE All' = All /\ UNCHANGED <<count, base>>
    BY <2>1, <2>2
  <2>3. CASE Written
    <3>1. pc # "flush"
      BY <2>3, FlushWaits
    <3>2. /\ pc' # "flush" /\ UNCHANGED base
          /\ \/ UNCHANGED <<bufio, count>>
             \/ \E b, e : IsSeq(b) /\ Write_(b, e)
      BY <2>3, <3>1, WrittenBytes, Zenon
    <3>3. ASSUME NEW b, NEW e, IsSeq(b), Write_(b, e) PROVE Len(All') = count' - base'
      <4>1. All' = All \o b /\ count' = count + Len(b)
        BY <1>3, <3>1, <3>2, <3>3, WriteAll
      <4>2. Len(All \o b) = Len(All) + Len(b) /\ Len(b) \in Nat
        BY <1>1, <3>3, Concat
      <4>3. PICK n \in Nat, m \in Nat : n = Len(b) /\ m = Len(All)
        BY <4>2, <1>1
      <4>4. Len(All') = m + n /\ count' = count + n /\ m = count - base
        BY <4>1, <4>2, <4>3, <2>1, Zenon
      <4>5. m + n = count + n - base
        BY <4>4, <4>3, <1>1
      <4>6. count' - base' = count + n - base
        BY <4>4, <3>2, <1>1, <4>3
      <4> QED  BY <4>4, <4>5, <4>6, Zenon
    <3>4. CASE UNCHANGED <<bufio, count>>
      BY <3>1, <3>2, <3>4, <2>2, SameAll
    <3> QED  BY <3>2, <3>3, <3>4
  <2>4. CASE Silent
    BY <2>4, <2>2, SilentBytes, SameAll
  <2>5. CASE SetOffset
    <3>1. count = 0 /\ count' = prefix /\ base' = prefix /\ UNCHANGED <<out, buf>>
          /\ pc = "idle" /\ pc' = "idle"
      BY <2>5 DEF SetOffset, Call, Returns
    <3>2. All' = All
      BY <3>1, SameAll
    <3>3. PICK m \in Nat : m = Len(All)
      BY <1>1
    <3>4. m = 0
      BY <3>1, <3>3, <2>1, <1>1
    <3>5. prefix - prefix = 0
      BY <1>1
    <3> QED  BY <3>1, <3>2, <3>3, <3>4, <3>5, Zenon
  <2>6. CASE Flush \/ FlushEnd \/ CloseFlush
    <3>1. UNCHANGED <<count, base>>
      BY <2>6 DEF Flush, FlushEnd, CloseFlush
    <3> QED  BY <1>3, <2>2, <2>6, <3>1, FlushAll
  <2>7. CASE UNCHANGED vars
    BY <2>7, <2>2, SameAll DEF vars
  <2> QED  BY <2>3, <2>4, <2>5, <2>6, <2>7, NextKinds
<1> QED  BY <1>2, <1>3 DEF CountInv

\* The count holds initially.
LEMMA CountInit ==
  ASSUME Init PROVE CountInv
<1>1. IsSeq(<<>>) /\ Len(<<>>) = 0
  BY EmptyIsSeq
<1>2. <<>> \o <<>> = <<>>
  BY <1>1, ConcatLaws
<1>3. All = <<>> /\ pc # "flush"
  BY <1>2 DEF Init, All
<1> QED  BY <1>1, <1>3 DEF Init, CountInv

\* Nothing that was written is lost between countWriter, the bufio.Writer and
\* the sink as long as no write fails, if Flush is called only with no
\* compressor at work ("Flush flushes any buffered data to the underlying
\* writer."): for every sequence of calls, the bytes that were flushed and those
\* in the buffer are as many as were counted.
THEOREM FlushKeeps ==
  ASSUME ~FlushRaces
  PROVE  Spec => []FlushKeepsData
<1> DEFINE Inv == TypeInv /\ ControlInv /\ CountInv
<1>1. Init => Inv
  BY InitTypes, CountInit
<1>2. Inv /\ [Next]_vars => Inv'
  BY NextTypes, CountStep
<1>3. Inv => FlushKeepsData
  <2> SUFFICES ASSUME Inv, berr = "nil", pc # "flush"
               PROVE  Len(out) + Len(buf) = count - base
    BY DEF FlushKeepsData
  <2>1. Len(All) = count - base /\ All = out \o buf
    BY DEF CountInv, All
  <2>2. Len(out \o buf) = Len(out) + Len(buf)
    BY AllIsSeq, Concat
  <2> QED  BY <2>1, <2>2, Zenon
<1> QED  BY <1>1, <1>2, <1>3, PTL DEF Spec

-----------------------------------------------------------------------------
(* The end record.                                                          *)

\* Every end record of t is one of s, not farther back.
From(s, t) ==
  \A k \in 1 .. Len(t) : t[k].t = "end" => \E j \in 1 .. Len(s) : j <= k /\ s[j] = t[k]

\* Bytes that are no end record may follow.
LEMMA FromAppend ==
  ASSUME NEW s, NEW b, IsSeq(s), IsSeq(b), NoEnd(b)
  PROVE  From(s, s \o b)
<1>1. /\ Len(s) \in Nat /\ Len(b) \in Nat
      /\ Len(s \o b) = Len(s) + Len(b)
      /\ \A k \in 1 .. Len(s) : (s \o b)[k] = s[k]
      /\ \A k \in 1 .. Len(b) : (s \o b)[Len(s) + k] = b[k]
  BY Concat
<1>2. PICK m \in Nat, n \in Nat : m = Len(s) /\ n = Len(b)
  BY <1>1
<1>3. ASSUME NEW k \in 1 .. Len(s \o b), (s \o b)[k].t = "end"
      PROVE  \E j \in 1 .. Len(s) : j <= k /\ s[j] = (s \o b)[k]
  <2>1. k \in 1 .. m + n
    BY <1>1, <1>2, Zenon
  <2>2. CASE k \in 1 .. m
    <3>1. k \in 1 .. Len(s) /\ k <= k
      BY <2>1, <2>2, <1>2
    <3>2. s[k] = (s \o b)[k]
      BY <1>1, <3>1, Zenon
    <3> QED  BY <3>1, <3>2, Zenon
  <2>3. CASE k \notin 1 .. m
    <3>1. PICK j \in 1 .. n : k = m + j
      <4>1. k - m \in 1 .. n /\ k = m + (k - m)
        BY <2>1, <2>3, <1>2
      <4> QED  BY <4>1
    <3>2. (s \o b)[k] = b[j]
      BY <3>1, <1>1, <1>2, Zenon
    <3>3. b[j].t # "end"
      BY <3>1, <1>2, Zenon DEF NoEnd, EndKinds
    <3> QED  BY <3>2, <3>3, <1>3, Zenon
  <2> QED  BY <2>2, <2>3
<1> QED  BY <1>3 DEF From

\* In the middle of a flush the bytes of the buffer are there twice.
LEMMA FromTwice ==
  ASSUME NEW s, NEW b, IsSeq(s), IsSeq(b)
  PROVE  From(s \o b, (s \o b) \o b)
<1> DEFINE w == s \o b
<1>1. /\ IsSeq(w) /\ Len(s) \in Nat /\ Len(b) \in Nat
      /\ Len(w) = Len(s) + Len(b)
      /\ \A k \in 1 .. Len(b) : w[Len(s) + k] = b[k]
  BY Concat
<1> HIDE DEF w
<1>w. IsSeq(w)
  BY <1>1
<1>2. /\ Len(w) \in Nat /\ Len(w \o b) = Len(w) + Len(b)
      /\ \A k \in 1 .. Len(w) : (w \o b)[k] = w[k]
      /\ \A k \in 1 .. Len(b) : (w \o b)[Len(w) + k] = b[k]
  BY <1>w, Concat
<1>3. PICK m \in Nat, n \in Nat : m = Len(s) /\ n = Len(b)
  BY <1>1
<1>4. Len(w) = m + n /\ Len(w \o b) = (m + n) + n
  BY <1>1, <1>2, <1>3, Zenon
<1>5. ASSUME NEW k \in 1 .. Len(w \o b), (w \o b)[k].t = "end"
      PROVE  \E j \in 1 .. Len(w) : j <= k /\ w[j] = (w \o b)[k]
  <2>1. k \in 1 .. (m + n) + n
    BY <1>4, Zenon
  <2>2. CASE k \in 1 .. m + n
    <3>1. k \in 1 .. Len(w) /\ k <= k
      BY <2>1, <2>2, <1>4
    <3>2. w[k] = (w \o b)[k]
      BY <1>2, <3>1, Zenon
    <3> QED  BY <3>1, <3>2, Zenon
  <2>3. CASE k \notin 1 .. m + n
    <3>1. PICK j \in 1 .. n : k = (m + n) + j
      <4>1. k - (m + n) \in 1 .. n /\ k = (m + n) + (k - (m + n))
        BY <2>1, <2>3, <1>3
      <4> QED  BY <4>1
    <3>2. (w \o b)[k] = b[j]
      BY <3>1, <1>2, <1>3, <1>4, Zenon
    <3>3. w[m + j] = b[j]
      BY <3>1, <1>1, <1>3, Zenon
    <3>4. m + j \in 1 .. m + n /\ m + j <= k
      BY <3>1, <1>3
    <3> QED  BY <3>2, <3>3, <3>4, <1>4, Zenon
  <2> QED  BY <2>2, <2>3
<1>6. From(w, w \o b)
  BY <1>5 DEF From
<1> QED  BY <1>6 DEF w

\* What is flushed was there.
LEMMA FromFlushed ==
  ASSUME NEW s, NEW b, IsSeq(s), IsSeq(b)
  PROVE  From(s \o b, s)
<1>1. /\ Len(s) \in Nat /\ Len(b) \in Nat
      /\ Len(s \o b) = Len(s) + Len(b)
      /\ \A k \in 1 .. Len(s) : (s \o b)[k] = s[k]
  BY Concat
<1>2. PICK m \in Nat, n \in Nat : m = Len(s) /\ n = Len(b)
  BY <1>1
<1>3. ASSUME NEW k \in 1 .. Len(s)
      PROVE  \E j \in 1 .. Len(s \o b) : j <= k /\ (s \o b)[j] = s[k]
  <2>1. k \in 1 .. m
    BY <1>2
  <2>2. k \in 1 .. m + n /\ k <= k
    BY <2>1, <1>2
  <2>3. k \in 1 .. Len(s \o b)
    BY <2>2, <1>1, <1>2, Zenon
  <2> QED  BY <2>2, <2>3, <1>1, Zenon
<1> QED  BY <1>3 DEF From

\* The bytes are the same.
LEMMA FromSame ==
  ASSUME NEW s, IsSeq(s)
  PROVE  From(s, s)
<1>1. \A k \in 1 .. Len(s) : k <= k
  BY Concat
<1> QED  BY <1>1, Zenon DEF From

\* Where every end record was there before, EndInv is kept.
LEMMA EndKept ==
  ASSUME TypeInv, TypeInv', EndInv, From(out \o buf, out' \o buf'),
         base' >= base, end' = end, pc' = "directory" => closed',
         (~closed' \/ pc' = "directory") => (~closed \/ pc = "directory")
  PROVE  EndInv'
<1>0. Len(out \o buf) \in Nat /\ Len(out' \o buf') \in Nat
  <2>1. IsSeq(out \o buf) /\ IsSeq(out' \o buf')
    BY AllIsSeq, Concat DEF TypeInv, BufType
  <2> QED  BY <2>1, Concat
<1>1. PICK w, v : w = out \o buf /\ v = out' \o buf'
  OBVIOUS
<1>2. From(w, v) /\ Len(w) \in Nat /\ Len(v) \in Nat
  BY <1>0, <1>1, Zenon
<1>3. /\ (~closed \/ pc = "directory") => \A k \in 1 .. Len(w) : w[k].t # "end"
      /\ \A k \in 1 .. Len(w) : w[k].t = "end" => EndsThere(k, w[k], base, end)
  BY <1>1, Zenon DEF EndInv
<1>4. ASSUME NEW k \in 1 .. Len(v), v[k].t = "end"
      PROVE  EndsThere(k, v[k], base', end')
  <2>1. PICK j \in 1 .. Len(w) : j <= k /\ w[j] = v[k]
    BY <1>2, <1>4, Zenon DEF From
  <2>2. w[j].t = "end"
    BY <2>1, <1>4, Zenon
  <2>3. EndsThere(j, w[j], base, end)
    BY <1>3, <2>2, Zenon
  <2>4. EndsThere(j, v[k], base, end)
    BY <2>1, <2>3, Zenon
  <2>5. PICK c \in Nat : c = v[k].comment
    BY <2>4 DEF EndsThere
  <2>6. end > 0 /\ base + ((j - 1) + (directoryEndLen + c)) >= end
    BY <2>4, <2>5, Zenon DEF EndsThere
  <2>7. base \in Nat /\ base' \in Nat /\ end \in Nat /\ directoryEndLen \in Nat
    BY FormatAssumption DEF TypeInv, HistType
  <2>8. j \in Nat /\ k \in Nat /\ j <= k
    BY <2>1, <1>2
  <2>9. PICK b \in Nat : b = base' /\ b >= base
    BY <2>7
  <2>10. b + ((k - 1) + (directoryEndLen + c)) >= end
    <3>1. PICK d \in Nat : d = directoryEndLen + c
      BY <2>5, <2>7
    <3>2. base + ((j - 1) + d) >= end
      BY <2>6, <3>1, Zenon
    <3>3. ASSUME NEW x \in Nat, NEW z \in Nat, x + ((j - 1) + d) >= z, b >= x
          PROVE  b + ((k - 1) + d) >= z
      BY <3>1, <3>3, <2>8, <2>9, SMTT(60)
    <3>4. b + ((k - 1) + d) >= end
      BY <3>2, <3>3, <2>7, <2>9, Zenon
    <3> QED  BY <3>1, <3>4, Zenon
  <2>11. b + ((k - 1) + (directoryEndLen + v[k].comment)) >= end /\ v[k].comment \in Nat
    BY <2>5, <2>10, Zenon
  <2> QED  BY <2>6, <2>9, <2>11, Zenon DEF EndsThere
<1>5. ASSUME ~closed' \/ pc' = "directory", NEW k \in 1 .. Len(v) PROVE v[k].t # "end"
  <2>1. \A j \in 1 .. Len(w) : w[j].t # "end"
    BY <1>3, <1>5
  <2> QED  BY <2>1, <1>2, Zenon DEF From
<1>6. out' \o buf' = v
  BY <1>1
<1> QED  BY <1>4, <1>5, <1>6 DEF EndInv

\* Only CloseStart begins the directory, and only End ends the archive.
LEMMA CloseSteps ==
  ASSUME [Next]_vars
  PROVE  /\ \/ UNCHANGED closed /\ (pc' = "directory" => pc = "directory")
            \/ CloseStart
         /\ UNCHANGED end \/ End
<1>1. CASE SetOffset
  BY <1>1 DEF SetOffset, Call, Returns
<1>2. CASE Flush \/ FlushEnd \/ CloseFlush
  BY <1>2 DEF Flush, FlushEnd, CloseFlush, Goes, Returns
<1>3. CASE Silent
  <2>1. UNCHANGED end
    BY <1>3, SilentBytes
  <2>2. \/ UNCHANGED closed /\ (pc' = "directory" => pc = "directory")
        \/ CloseStart
    BY <1>3 DEF Silent, SetOffsetPanic, SetComment, RegisterCompressor, WriteRefused,
                Duplicate, CloseTwice, CreateFails, Close, CreateHeader, CloseLast,
                Call, Goes, Returns
  <2> QED  BY <2>1, <2>2
<1>4. CASE \E m \in Chunks : Write(m)
  BY <1>4 DEF Write, Returns
<1>5. CASE Deliver \/ CompClose \/ Descriptor
  BY <1>5 DEF Deliver, CompClose, Descriptor, Goes, Returns
<1>6. CASE Create
  BY <1>6 DEF Create, Returns
<1>7. CASE DirectoryHeader \/ End
  BY <1>7 DEF DirectoryHeader, End, Goes, Returns
<1>8. CASE UNCHANGED vars
  BY <1>8 DEF vars
<1> QED  BY <1>1, <1>2, <1>3, <1>4, <1>5, <1>6, <1>7, <1>8, NextKinds DEF Written

\* What the steps do to the end records that are there.
LEMMA EndFrom ==
  ASSUME TypeInv, ControlInv, CountInv, [Next]_vars
  PROVE  /\ base' >= base
         /\ \/ From(out \o buf, out' \o buf')
            \/ /\ End /\ berr = "nil" /\ out' \o buf' = (out \o buf) \o EndBytes
<1> USE DEF TypeInv, ControlInv
<1>1. IsSeq(out) /\ IsSeq(buf) /\ IsSeq(out \o buf) /\ IsSeq(<<>>) /\ BufType
  BY AllIsSeq, EmptyIsSeq
<1>2. base \in Nat /\ prefix \in Nat
  BY DEF HistType
<1>3. ASSUME UNCHANGED <<out, buf>> PROVE From(out \o buf, out' \o buf')
  <2>1. out' \o buf' = out \o buf
    BY <1>3, Zenon
  <2> QED  BY <1>1, <2>1, FromSame
<1>4. ASSUME NEW b, NEW e, IsSeq(b), NoEnd(b), Write_(b, e)
      PROVE  From(out \o buf, out' \o buf')
  <2>1. out' = out /\ (buf' = buf \/ buf' = buf \o b)
    BY <1>1, <1>4, WriteStep
  <2>2. CASE buf' = buf
    BY <2>1, <2>2, <1>3
  <2>3. CASE buf' = buf \o b
    <3>1. out' \o buf' = (out \o buf) \o b
      <4>1. (out \o buf) \o b = out \o (buf \o b)
        <5>1. IsSeq(out) /\ IsSeq(buf) /\ IsSeq(b)
          BY <1>1, <1>4
        <5> QED  BY <5>1, ConcatLaws
      <4> QED  BY <4>1, <2>1, <2>3, Zenon
    <3>2. From(out \o buf, (out \o buf) \o b)
      BY <1>1, <1>4, FromAppend
    <3> QED  BY <3>1, <3>2, Zenon
  <2> QED  BY <2>1, <2>2, <2>3
<1>5. ASSUME FlushError PROVE From(out \o buf, out' \o buf')
  <2>1. NoEnd(<<>>)
    BY EmptyIsSeq DEF NoEnd
  <2> QED  BY <1>5, <2>1, <1>1, <1>4 DEF FlushError
<1>6. CASE Written
  <2>1. pc # "flush"
    BY <1>6, FlushWaits
  <2>2. /\ UNCHANGED base
        /\ \/ UNCHANGED <<bufio, count>>
           \/ \E b, e : IsSeq(b) /\ Write_(b, e) /\ (NoEnd(b) \/ (End /\ b = EndBytes))
    BY <1>6, <2>1, WrittenBytes, Zenon
  <2>3. ASSUME NEW e, IsSeq(EndBytes), Write_(EndBytes, e), End
        PROVE  \/ From(out \o buf, out' \o buf')
               \/ /\ End /\ berr = "nil" /\ out' \o buf' = (out \o buf) \o EndBytes
    <3>1. out' = out /\ (buf' = buf \/ (buf' = buf \o EndBytes /\ berr = "nil"))
      BY <1>1, <2>3, WriteStep
    <3>2. CASE buf' = buf
      BY <3>1, <3>2, <1>3
    <3>3. CASE buf' = buf \o EndBytes /\ berr = "nil"
      <4>1. (out \o buf) \o EndBytes = out \o (buf \o EndBytes)
        BY <1>1, <2>3, ConcatLaws
      <4> QED  BY <4>1, <3>1, <3>3, <2>3, Zenon
    <3> QED  BY <3>1, <3>2, <3>3
  <2>4. base' >= base
    BY <2>2, <1>2
  <2> QED  BY <2>2, <2>3, <2>4, <1>3, <1>4
<1>7. CASE Silent
  <2>1. UNCHANGED <<out, buf, base>>
    BY <1>7, SilentBytes
  <2> QED  BY <2>1, <1>2, <1>3
<1>8. CASE SetOffset
  <2>1. UNCHANGED <<out, buf>> /\ count = 0 /\ base' = prefix
    BY <1>8 DEF SetOffset
  <2>2. base <= count
    BY DEF OffsetInv
  <2>3. base' >= base
    BY <2>1, <2>2, <1>2
  <2> QED  BY <2>1, <2>3, <1>3
<1>9. CASE Flush
  <2>1. base' >= base
    BY <1>9, <1>2 DEF Flush
  <2>2. CASE out' = out \o buf /\ UNCHANGED <<buf, berr>>
    <3>1. From(out \o buf, (out \o buf) \o buf)
      BY <1>1, FromTwice
    <3> QED  BY <2>1, <2>2, <3>1, Zenon
  <2> QED  BY <1>9, <2>1, <2>2, <1>3, <1>5 DEF Flush
<1>10. CASE FlushEnd
  <2>1. base' >= base
    BY <1>10, <1>2 DEF FlushEnd
  <2>2. out' = out /\ buf' = <<>>
    BY <1>10 DEF FlushEnd
  <2>3. out \o <<>> = out
    BY <1>1, ConcatLaws
  <2>4. From(out \o buf, out)
    BY <1>1, FromFlushed
  <2> QED  BY <2>1, <2>2, <2>3, <2>4, Zenon
<1>11. CASE CloseFlush
  <2>1. base' >= base
    BY <1>11, <1>2 DEF CloseFlush
  <2>2. CASE out' = out \o buf /\ buf' = <<>>
    <3>1. (out \o buf) \o <<>> = out \o buf
      BY <1>1, ConcatLaws
    <3>2. From(out \o buf, out \o buf)
      BY <1>1, FromSame
    <3> QED  BY <2>1, <2>2, <3>1, <3>2, Zenon
  <2> QED  BY <1>11, <2>1, <2>2, <1>5 DEF CloseFlush
<1>12. CASE UNCHANGED vars
  <2>1. UNCHANGED <<out, buf, base>>
    BY <1>12 DEF vars
  <2> QED  BY <2>1, <1>2, <1>3
<1> QED  BY <1>6, <1>7, <1>8, <1>9, <1>10, <1>11, <1>12, NextKinds

\* End records stay where the archive ends.
LEMMA EndStep ==
  ASSUME ~FlushRaces, TypeInv, ControlInv, CountInv, EndInv, TypeInv', [Next]_vars
  PROVE  EndInv'
<1>1. /\ \/ UNCHANGED closed /\ (pc' = "directory" => pc = "directory")
         \/ CloseStart
      /\ UNCHANGED end \/ End
  BY CloseSteps
<1>2. /\ base' >= base
      /\ \/ From(out \o buf, out' \o buf')
         \/ /\ End /\ berr = "nil" /\ out' \o buf' = (out \o buf) \o EndBytes
  BY EndFrom
<1>3. /\ pc' = "directory" => closed'
      /\ (~closed' \/ pc' = "directory") => (~closed \/ pc = "directory")
  BY <1>1 DEF EndInv, CloseStart
<1>4. CASE ~End
  BY <1>1, <1>2, <1>3, <1>4, EndKept
<1>5. CASE End
  <2>1. pc = "directory" /\ pc' # "directory" /\ closed'
    BY <1>3, <1>5 DEF End, EndInv, Goes, Returns
  <2>2. \A k \in 1 .. Len(out \o buf) : (out \o buf)[k].t # "end"
    BY <2>1 DEF EndInv
  <2>3. CASE From(out \o buf, out' \o buf')
    <3>1. \A k \in 1 .. Len(out' \o buf') : (out' \o buf')[k].t # "end"
      BY <2>2, <2>3, Zenon DEF From
    <3> QED  BY <2>1, <3>1 DEF EndInv
  <2>4. CASE berr = "nil" /\ out' \o buf' = (out \o buf) \o EndBytes
    <3>1. PICK w, b : w = out \o buf /\ b = EndBytes
      OBVIOUS
    <3>2. comment \in Nat /\ count \in Nat /\ base \in Nat
      BY DEF TypeInv, FieldType, BufType, HistType
    <3>3. /\ IsSeq(b) /\ Len(b) \in Nat /\ Len(b) > 0
          /\ \A k \in 1 .. Len(b) :
               b[k].t = "end" => /\ (k - 1) + (directoryEndLen + b[k].comment) = Len(b)
                                 /\ b[k].comment \in Nat
      <4>1. /\ IsSeq(EndBytes) /\ Len(EndBytes) \in Nat /\ Len(EndBytes) > 0
            /\ \A k \in 1 .. Len(EndBytes) :
                 EndBytes[k].t = "end" =>
                   /\ (k - 1) + (directoryEndLen + EndBytes[k].comment) = Len(EndBytes)
                   /\ EndBytes[k].comment \in Nat
        BY <3>2, EndBytesEnd
      <4> QED  BY <4>1, <3>1, Zenon
    <3>4. IsSeq(w) /\ IsSeq(b) /\ w = All
      BY <3>1, <3>3, <2>1, AllIsSeq DEF All
    <3>5. /\ Len(w) \in Nat
          /\ Len(w \o b) = Len(w) + Len(b)
          /\ \A k \in 1 .. Len(w) : (w \o b)[k] = w[k]
          /\ \A k \in 1 .. Len(b) : (w \o b)[Len(w) + k] = b[k]
      BY <3>4, Concat
    <3>6. PICK m \in Nat, n \in Nat : m = Len(w) /\ n = Len(b)
      BY <3>3, <3>5
    <3>7. n > 0 /\ m = count - base /\ end' = count + n /\ base' = base
      <4>1. n > 0
        BY <3>3, <3>6, Zenon
      <4>2. m = count - base
        BY <3>4, <3>6, <2>4 DEF CountInv
      <4>3. end' = count + n /\ base' = base
        BY <1>5, <3>1, <3>6 DEF End
      <4> QED  BY <4>1, <4>2, <4>3
    <3>8. out' \o buf' = w \o b
      BY <2>4, <3>1, Zenon
    <3>9. ASSUME NEW k \in 1 .. Len(w \o b), (w \o b)[k].t = "end"
          PROVE  EndsThere(k, (w \o b)[k], base', end')
      <4>1. k \in 1 .. m + n
        BY <3>5, <3>6, Zenon
      <4>2. CASE k \in 1 .. m
        <5>1. (w \o b)[k] = w[k] /\ w[k].t # "end"
          BY <4>2, <3>6, <3>5, <3>1, <2>2, Zenon
        <5> QED  BY <5>1, <3>9, Zenon
      <4>3. CASE k \notin 1 .. m
        <5>1. PICK j \in 1 .. n : k = m + j
          <6>1. k - m \in 1 .. n /\ k = m + (k - m)
            BY <4>1, <4>3, <3>6
          <6> QED  BY <6>1
        <5>2. (w \o b)[k] = b[j]
          BY <5>1, <3>5, <3>6, Zenon
        <5>3. (j - 1) + (directoryEndLen + b[j].comment) = n /\ b[j].comment \in Nat
          BY <5>1, <5>2, <3>3, <3>6, <3>9, Zenon
        <5>4. PICK d \in Nat : d = directoryEndLen + b[j].comment
          BY <5>3, FormatAssumption, SMTT(60)
        <5>5. (j - 1) + d = n
          BY <5>3, <5>4, Zenon
        <5>6. base + ((k - 1) + d) = count + n /\ count + n > 0
          <6>1. ASSUME NEW x \in Nat, NEW y \in Nat, m = y - x
                PROVE  x + ((k - 1) + d) = y + n /\ y + n > 0
            <7>1. n > 0 /\ j \in Nat /\ k = m + j /\ m \in Nat /\ n \in Nat /\ d \in Nat
              BY <5>1, <5>4, <3>6, <3>7
            <7>2. y = x + m
              BY <6>1, <7>1
            <7>3. (k - 1) + d = m + n
              BY <7>1, <5>5
            <7>4. x + (m + n) = y + n
              BY <7>1, <7>2
            <7> QED  BY <7>1, <7>3, <7>4
          <6> QED  BY <6>1, <3>2, <3>7, Zenon
        <5>7. PICK z \in Nat : z = count + n
          BY <3>2, <3>6
        <5>8. base + ((k - 1) + d) >= z /\ z > 0
          BY <5>6, <5>7
        <5>9. end' = z /\ base' = base
          BY <3>7, <5>7, Zenon
        <5>10. base + ((k - 1) + (directoryEndLen + b[j].comment)) >= z
          BY <5>8, <5>4, Zenon
        <5>11. EndsThere(k, b[j], base, z)
          BY <5>3, <5>8, <5>10, Zenon DEF EndsThere
        <5> QED  BY <5>2, <5>9, <5>11, Zenon
      <4> QED  BY <4>2, <4>3
    <3> QED  BY <2>1, <3>8, <3>9 DEF EndInv
  <2> QED  BY <1>2, <2>3, <2>4
<1> QED  BY <1>4, <1>5

\* No end record is there initially.
LEMMA EndInit ==
  ASSUME Init PROVE EndInv
<1>1. <<>> \o <<>> = <<>> /\ Len(<<>>) = 0
  BY EmptyIsSeq, ConcatLaws
<1>2. Len(out \o buf) = 0 /\ pc # "directory"
  BY <1>1 DEF Init
<1> QED  BY <1>2 DEF EndInv

\* The bytes of the file that somebody reads.
LEMMA FileBytes ==
  ASSUME TypeInv, NEW n \in 0 .. Len(out \o buf)
  PROVE  /\ n \in Nat /\ Len(File(n)) = prefix + n
         /\ \A k \in 1 .. prefix : File(n)[k] = PrefixByte(k)
         /\ \A k \in 1 .. n : File(n)[prefix + k] = (out \o buf)[k]
<1>1. PICK w : w = out \o buf
  OBVIOUS
<1>2. IsSeq(w) /\ prefix \in Nat
  BY <1>1, AllIsSeq DEF TypeInv, HistType
<1> DEFINE s == [k \in 1 .. prefix |-> PrefixByte(k)]  t == SubSeq(w, 1, n)
           S == {w[k] : k \in DOMAIN w}
<1>3. w \in Seq(S) /\ n \in 0 .. Len(w)
  BY <1>1, <1>2 DEF IsSeq
<1>4. IsSeq(s) /\ Len(s) = prefix
  <2>1. DOMAIN s = 1 .. prefix /\ s = [k \in 1 .. prefix |-> s[k]]
    OBVIOUS
  <2> HIDE DEF s
  <2> QED  BY <2>1, <1>2, FunctionIsSeq, Zenon
<1>5. \A k \in 1 .. prefix : s[k] = PrefixByte(k)
  OBVIOUS
<1> HIDE DEF s, S
<1>6. t \in Seq(S) /\ Len(t) = n /\ \A k \in 1 .. n : t[k] = w[k]
  BY <1>3
<1>7. IsSeq(t)
  BY <1>6, SeqIsSeq, Zenon
<1>8. File(n) = s \o t
  BY <1>1, Zenon DEF File, s
<1> HIDE DEF t
<1>9. /\ Len(s \o t) = Len(s) + Len(t)
      /\ \A k \in 1 .. Len(s) : (s \o t)[k] = s[k]
      /\ \A k \in 1 .. Len(t) : (s \o t)[Len(s) + k] = t[k]
  BY <1>4, <1>7, Concat
<1>10. Len(File(n)) = prefix + n
  BY <1>4, <1>6, <1>8, <1>9, Zenon
<1>11. \A k \in 1 .. prefix : File(n)[k] = PrefixByte(k)
  BY <1>4, <1>5, <1>8, <1>9, Zenon
<1>12. \A k \in 1 .. n : File(n)[prefix + k] = w[k]
  BY <1>4, <1>6, <1>8, <1>9, Zenon
<1>13. n \in Nat
  BY <1>3
<1> QED  BY <1>1, <1>10, <1>11, <1>12, <1>13, Zenon

\* The bytes in front of the zip data are no record of the format.
LEMMA PrefixKind ==
  ASSUME NEW k
  PROVE  /\ PrefixByte(k).t # "end" /\ PrefixByte(k).t # "locator"
         /\ PrefixByte(k).t # "end64"
BY DEF PrefixByte

\* There is a last one among offsets in a file.
LEMMA LastOffset ==
  ASSUME NEW S, S # {}, NEW m \in Nat, \A q \in S : q \in Nat, \A q \in S : q <= m
  PROVE  (CHOOSE o \in S : \A q \in S : q <= o) \in S
<1> DEFINE T == {m - q : q \in S}
<1>1. T \in SUBSET Nat
  OBVIOUS
<1>2. T # {}
  OBVIOUS
<1> HIDE DEF T
<1>3. PICK n \in T : \A k \in T : n <= k
  BY <1>1, <1>2, LeastElement, Zenon
<1>4. PICK x \in S : n = m - x
  BY DEF T
<1>5. ASSUME NEW q \in S PROVE q <= x
  <2>1. m - q \in T
    BY DEF T
  <2>2. m - x <= m - q
    BY <1>3, <1>4, <2>1
  <2>3. x \in Nat /\ q \in Nat
    OBVIOUS
  <2> QED  BY <2>2, <2>3
<1>6. \E o \in S : \A q \in S : q <= o
  BY <1>5, Zenon
<1> QED  BY <1>6, Zenon

\* What findSignatureInBlock finds is an end record whose comment is in the file.
LEMMA SignatureFound ==
  ASSUME NEW b, Len(b) \in Nat, findSignatureInBlock(b) # -1
  PROVE  LET o == findSignatureInBlock(b)
         IN /\ o \in Nat /\ o + directoryEndLen <= Len(b) /\ BeginsEnd(b[o + 1])
            /\ o + directoryEndLen + EndAt(b[o + 1]).comment <= Len(b)
<1> DEFINE first == IF Len(b) > SearchLen THEN Len(b) - SearchLen ELSE 0
           ends == {o \in first .. Len(b) - directoryEndLen :
                     /\ BeginsEnd(b[o + 1])
                     /\ o + directoryEndLen + EndAt(b[o + 1]).comment <= Len(b)}
           o == CHOOSE o \in ends : \A q \in ends : q <= o
<1>1. ends # {} /\ findSignatureInBlock(b) = o
  BY Zenon DEF findSignatureInBlock
<1>2. first \in Nat /\ directoryEndLen \in Nat
  BY FormatAssumption, DirectoryAssumption
<1>3. \A q \in ends : q \in Nat /\ q + directoryEndLen <= Len(b)
  BY <1>2
<1>4. \A q \in ends : /\ BeginsEnd(b[q + 1])
                       /\ q + directoryEndLen + EndAt(b[q + 1]).comment <= Len(b)
  OBVIOUS
<1> HIDE DEF ends
<1>5. \A q \in ends : q <= Len(b)
  BY <1>2, <1>3
<1>6. o \in ends
  BY <1>1, <1>3, <1>5, LastOffset, Zenon
<1> HIDE DEF o
<1> QED  BY <1>1, <1>3, <1>4, <1>6, Zenon

\* If the client's bytes do not mislead the search, the record is one of the writer.
LEMMA NotMisled ==
  ASSUME NEW b, findSignatureInBlock(b) \in Nat, ~Misled(b)
  PROVE  LET o == findSignatureInBlock(b)
         IN b[o + 1].t = "end" /\ EndAt(b[o + 1]) = b[o + 1]
<1>1. PICK o : o = findSignatureInBlock(b)
  OBVIOUS
<1>2. o >= 0
  BY <1>1
<1>3. b[o + 1].t = "end"
  BY <1>1, <1>2, Zenon DEF Misled
<1>4. EndAt(b[o + 1]) = b[o + 1]
  BY <1>3, Zenon DEF EndAt
<1> QED  BY <1>1, <1>3, <1>4, Zenon

\* Without an end record there is no reader.
LEMMA NoSignature ==
  ASSUME NEW b, Len(b) \in Nat, NewReader(b).err = "nil"
  PROVE  findSignatureInBlock(b) # -1
<1>1. SUFFICES ASSUME findSignatureInBlock(b) = -1 PROVE FALSE
  OBVIOUS
<1>2. readDirectoryEnd(b) = Failed("ErrFormat")
  <2>1. ReadEndAt(b, -1) = Failed("ErrFormat")
    BY DEF ReadEndAt
  <2> QED  BY <1>1, <2>1, Zenon DEF readDirectoryEnd
<1>3. PICK e : e = Failed("ErrFormat")
  OBVIOUS
<1>4. e.err = "ErrFormat" /\ e.records = 0
  BY <1>3 DEF Failed
<1>5. fileHeaderLen \in Nat \ {0}
  BY FormatAssumption
<1>6. Len(b) \div fileHeaderLen \in Nat
  BY <1>5
<1>7. ~(0 > Len(b) \div fileHeaderLen)
  BY <1>6
<1>8. ~(e.records > Len(b) \div fileHeaderLen)
  BY <1>4, <1>7, Zenon
<1>9. init(b, e) = NoReader("ErrFormat")
  BY <1>4, <1>8, Zenon DEF init
<1>10. NewReader(b).err = "ErrFormat"
  BY <1>2, <1>3, <1>9 DEF NewReader, NoReader
<1> QED  BY <1>10

\* A crash of the writer, a failure of its sink or a client that stops never
\* leaves a file that is read as an archive, unless all of the archive is in it or
\* the last end record in it is one that the client's own bytes hold: whatever part
\* of the buffer the sink has got, and whatever end records data, names and comments
\* hold, NewReader refuses a file without the end record and the comment behind it
\* (Close, findSignatureInBlock).
THEOREM UnfinishedRefused ==
  ASSUME ~FlushRaces
  PROVE  Spec => []TruncatedRefused
<1> DEFINE Inv == TypeInv /\ ControlInv /\ CountInv /\ EndInv
<1>1. Init => Inv
  BY InitTypes, CountInit, EndInit
<1>2. Inv /\ [Next]_vars => Inv'
  BY NextTypes, CountStep, EndStep
<1>3. Inv => TruncatedRefused
  <2> SUFFICES ASSUME Inv, NEW n \in Reached,
                      NewReader(File(n)).err = "nil", ~Misled(File(n))
               PROVE  end > 0 /\ n + base >= end
    BY DEF TruncatedRefused
  <2>1. PICK w : w = out \o buf
    OBVIOUS
  <2>2. n \in 0 .. Len(w) /\ Len(w) \in Nat
    <3>1. IsSeq(out) /\ IsSeq(buf) /\ IsSeq(out \o buf)
      BY AllIsSeq
    <3>2. Len(out) \in Nat /\ Len(w) \in Nat
      BY <3>1, <2>1, Concat
    <3>3. n \in Len(out) .. Len(w)
      BY <2>1, Zenon DEF Reached
    <3> QED  BY <3>2, <3>3
  <2>3. PICK b : b = File(n)
    OBVIOUS
  <2>4. /\ n \in Nat /\ Len(b) = prefix + n
        /\ \A k \in 1 .. prefix : b[k] = PrefixByte(k)
        /\ \A k \in 1 .. n : b[prefix + k] = w[k]
    BY <2>1, <2>2, <2>3, FileBytes
  <2>5. prefix \in Nat /\ base \in Nat /\ end \in Nat /\ directoryEndLen \in Nat \ {0}
    BY FormatAssumption DEF TypeInv, HistType
  <2>6. PICK l \in Nat : l = prefix + n /\ Len(b) = l
    BY <2>4, <2>5
  <2>7. findSignatureInBlock(b) # -1
    BY <2>3, <2>6, NoSignature
  <2>8. PICK o : o = findSignatureInBlock(b)
    OBVIOUS
  <2>9. /\ o \in Nat /\ o + directoryEndLen <= l /\ b[o + 1].t = "end"
        /\ o + directoryEndLen + b[o + 1].comment <= l
    <3>1. /\ o \in Nat /\ o + directoryEndLen <= l
          /\ o + directoryEndLen + EndAt(b[o + 1]).comment <= l
      BY <2>6, <2>7, <2>8, SignatureFound
    <3>2. b[o + 1].t = "end" /\ EndAt(b[o + 1]) = b[o + 1]
      BY <2>3, <2>8, <3>1, NotMisled, Zenon
    <3> QED  BY <3>1, <3>2, Zenon
  <2>10. o + 1 \notin 1 .. prefix
    BY <2>4, <2>9, PrefixKind, Zenon
  <2>11. PICK k \in 1 .. n : o + 1 = prefix + k
    <3>1. (o + 1) - prefix \in 1 .. n
      BY <2>4, <2>5, <2>6, <2>9, <2>10
    <3>2. o + 1 = prefix + ((o + 1) - prefix)
      BY <2>5, <2>9
    <3> QED  BY <3>1, <3>2
  <2>12. b[o + 1] = w[k] /\ w[k].t = "end"
    BY <2>4, <2>9, <2>11, Zenon
  <2>13. k \in 1 .. Len(w)
    BY <2>2, <2>11
  <2>14. EndsThere(k, w[k], base, end)
    BY <2>1, <2>12, <2>13 DEF EndInv
  <2>15. PICK c \in Nat : c = w[k].comment
    BY <2>14 DEF EndsThere
  <2>16. end > 0 /\ base + ((k - 1) + (directoryEndLen + c)) >= end
    BY <2>14, <2>15, Zenon DEF EndsThere
  <2>17. o + directoryEndLen + c <= l
    BY <2>9, <2>12, <2>15, Zenon
  <2>18. (k - 1) + (directoryEndLen + c) <= n
    <3>1. PICK d \in Nat : d = directoryEndLen
      BY <2>5
    <3>2. o + d + c <= l /\ o + 1 = prefix + k /\ l = prefix + n
      BY <3>1, <2>6, <2>11, <2>17, Zenon
    <3>3. k \in Nat /\ (k - 1) + (d + c) <= n
      BY <3>1, <3>2, <2>4, <2>5, <2>9, <2>11, <2>15, SMTT(60)
    <3> QED  BY <3>1, <3>3, Zenon
  <2>19. PICK x \in Int : x = (k - 1) + (directoryEndLen + c)
    BY <2>5, <2>11, <2>15
  <2>20. x <= n /\ base + x >= end
    BY <2>16, <2>18, <2>19, Zenon
  <2>21. n + base >= end
    BY <2>20, <2>19, <2>4, <2>5
  <2> QED  BY <2>16, <2>21
<1> QED  BY <1>1, <1>2, <1>3, PTL DEF Spec

=============================================================================
