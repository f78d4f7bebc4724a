--------------------------- MODULE TarReaderProofs ---------------------------
(***************************************************************************)
(* Proofs about TarReader, for every set of well-formed streams, every     *)
(* block size, buffer and number of checkpoints.                           *)
(*                                                                         *)
(* The inductive invariant has three layers.  BaseInv holds whatever the   *)
(* stream says: ErrorInv follows the error of the reader into its          *)
(* checkpoints, SparseInv keeps the fragments of a sparse file in order,   *)
(* inside the file and ahead of the position.  PlaceInv says where in the  *)
(* stream a reader that has not failed is: the bytes left of an entry and  *)
(* its padding lead to the header of an entry k, all files before k have   *)
(* been returned, and the size record the reader holds is the one in force *)
(* at k.  ContentInv, explained below, is about what Read has returned.    *)
(***************************************************************************)
EXTENDS TarReader, FiniteSetTheorems, FunctionTheorems, SequenceTheorems,
        NaturalsInduction, WellFoundedInduction, TLAPS

-----------------------------------------------------------------------------
(* Types.                                                                   *)

Fragment == [offset : Int, numBytes : Int]
CurrType == [kind : {"nil", "reg", "sparse", "nilsparse"}, nb : Nat,
             sp : Seq(Fragment), fpos : Int, total : Int]
ExtType == [name : Nat, size : Int, fmt : Formats, sp : Seq(Fragment),
            mapok : BOOLEAN, total : Int]
Errors == {"nil", "EOF", "ErrUnexpectedEOF", "ErrHeader", "io"}
RetType == [op : {"none", "Next", "Read"}, n : Int, err : Errors, m : Nat,
            failed : BOOLEAN]
CkptInv ==
  /\ ckpt.saved \in BOOLEAN
  /\ ckpt.saved =>
       /\ ckpt.Roffset \in Nat /\ ckpt.Pad \in 0 .. blockSize - 1
       /\ ckpt.curr \in CurrType /\ ckpt.cur \in 0 .. Len(src.entries)
       /\ ckpt.seen \in Seq(Nat) /\ ckpt.failed \in BOOLEAN

TypeInv ==
  /\ src \in Sources /\ pos \in Nat /\ count = pos
  /\ pad \in 0 .. blockSize - 1 /\ curr \in CurrType /\ err \in Errors
  /\ pc \in {"idle", "skip", "header", "panic"} /\ ext \in ExtType /\ ret \in RetType
  /\ resumes \in 0 .. MaxResumes /\ cur \in 0 .. Len(src.entries)
  /\ seen \in Seq(Nat) /\ stray \in BOOLEAN /\ CkptInv

\* The error of the reader.
ErrorInv ==
  /\ resumes > 0 => ckpt.saved
  /\ PastError => ret.failed
  /\ ret.failed /\ ~PastError => err # "nil"
  /\ err # "nil" => ret.failed
  /\ pc \in {"skip", "header"} => err = "nil"
  /\ ret.op = "Next" => ret.err = err

\* The fragments of a sparse file, from position fpos on.
FragmentsOK(sp, fpos, total) ==
  /\ fpos \in Nat /\ total \in Nat /\ fpos <= total
  /\ \A i \in 1 .. Len(sp) :
       /\ sp[i].offset >= 0 /\ sp[i].numBytes >= 0
       /\ sp[i].offset + sp[i].numBytes <= maxInt64
       /\ sp[i].offset + sp[i].numBytes <= total
       /\ fpos <= sp[i].offset + sp[i].numBytes
       /\ sp[i].numBytes # 0 => fpos < sp[i].offset + sp[i].numBytes
  /\ \A i, j \in 1 .. Len(sp) :
       i < j => sp[i].offset + sp[i].numBytes <= sp[j].offset

Inside(c) == c.kind = "sparse" => FragmentsOK(c.sp, c.fpos, c.total)

SparseInv == Inside(curr) /\ (ckpt.saved => Inside(ckpt.curr))

\* The files before entry k of the stream s are all in sn.
Returned(s, sn, k) ==
  \A i \in 1 .. k - 1 : IsFile(s.entries[i]) => \E j \in 1 .. Len(sn) : sn[j] = i

\* The data of entry c ends within the stream, or nb bytes after p.
DataEnd(s, c) == s.off[c + 1] - PadOf(s.entries[c].len)
DataThere(s, c, p, nb) == c > 0 => DataEnd(s, c) <= s.len \/ DataEnd(s, c) = p + nb

\* A reader between two calls: c is the entry returned last, p its position, nb
\* and pd what is left of it.
AtRest(s, c, p, nb, pd, sn) ==
  /\ p + nb + pd = s.off[c + 1] /\ p <= s.len
  /\ c > 0 => IsFile(s.entries[c])
  /\ Returned(s, sn, c + 1) /\ DataThere(s, c, p, nb)

\* A reader in Next: entry k comes next, with the size record z in force.
Ahead(s, k, c, p, nb, pd, z, sn) ==
  /\ p + nb + pd = s.off[k] /\ p <= s.len /\ SizeRecord(s, k, z)
  /\ Returned(s, sn, k) /\ DataThere(s, c, p, nb)

\* The stream holds no other file, and all the data of the last one.
Complete(s, c, sn) ==
  /\ \A i \in 1 .. Len(s.entries) :
       IsFile(s.entries[i]) /\ s.off[i] + blockSize <= s.len
         => \E j \in 1 .. Len(sn) : sn[j] = i
  /\ c > 0 => DataEnd(s, c) <= s.len

PlaceInv ==
  /\ ~PastError =>
       /\ ~stray
       /\ pc = "idle" /\ err = "nil" => AtRest(src, cur, pos, curr.nb, pad, seen)
       /\ pc \in {"skip", "header"} =>
            \E k \in 1 .. Len(src.entries) + 1 :
              Ahead(src, k, cur, pos, curr.nb, pad, ext.size, seen)
       /\ pc = "header" => curr.nb = 0 /\ pad = 0
       /\ err = "EOF" => Complete(src, cur, seen)
  /\ ckpt.saved /\ ~ckpt.failed =>
       AtRest(src, ckpt.cur, ckpt.Roffset, ckpt.curr.nb, ckpt.Pad, ckpt.seen)

-----------------------------------------------------------------------------
(* Arithmetic and sources.                                                  *)

\* The padding of a data section is less than a block.
LEMMA PadType == \A n \in Int : PadOf(n) \in 0 .. blockSize - 1
BY ConstantsAssumption DEF PadOf

\* A non-empty set of naturals has a least element.
LEMMA LeastElement ==
  ASSUME NEW T \in SUBSET Nat, T # {}
  PROVE  \E n \in T : \A m \in T : n <= m
<1>1. IsWellFoundedOn(OpToRel(<, Nat), Nat)
  BY NatLessThanWellFounded
<1>2. PICK n \in T : \A m \in T : ~(<<m, n>> \in OpToRel(<, Nat))
  BY <1>1, WFMin, Zenon
<1>3. ASSUME NEW m \in T PROVE n <= m
  <2>1. m \in Nat /\ n \in Nat
    OBVIOUS
  <2>2. ~(<<m, n>> \in OpToRel(<, Nat))
    BY <1>2
  <2>3. ~(m < n)
    BY <2>1, <2>2 DEF OpToRel
  <2> QED  BY <2>1, <2>3
<1> QED  BY <1>3

\* What the streams are made of.
LEMMA SourceFacts ==
  ASSUME NEW s \in Sources
  PROVE  /\ s.len \in Nat /\ s.seekable \in BOOLEAN
         /\ Len(s.entries) \in Nat
         /\ \A i \in 1 .. Len(s.entries) : s.entries[i] \in EntryType
         /\ \A i \in 1 .. Len(s.entries) + 1 : s.off[i] \in Nat
         /\ s.off[1] = 0
BY SourcesAssumption DEF LaidOut

\* An entry takes up at least its header block.
LEMMA ExtentPositive ==
  ASSUME NEW e \in EntryType
  PROVE  Extent(e) \in Nat /\ Extent(e) >= blockSize
<1>1. e.len \in Nat /\ e.blocks \in Nat
  BY DEF EntryType
<1>2. PadOf(e.len) \in Nat
  BY <1>1, PadType, ConstantsAssumption
<1>3. blockSize * e.blocks \in Nat
  BY <1>1, ConstantsAssumption
<1> QED  BY <1>1, <1>2, <1>3, ConstantsAssumption DEF Extent

\* Headers are in the order of their entries, at least a block apart.
LEMMA OffsetsOrdered ==
  ASSUME NEW s \in Sources,
         NEW i \in 1 .. Len(s.entries) + 1, NEW j \in 1 .. Len(s.entries) + 1, i < j
  PROVE  s.off[i] + blockSize <= s.off[j]
<1> DEFINE T == {k \in Nat : /\ k \in 1 .. Len(s.entries) + 1 /\ i < k
                             /\ ~(s.off[i] + blockSize <= s.off[k])}
<1>1. SUFFICES T = {}
  OBVIOUS
<1>2. SUFFICES ASSUME T # {} PROVE FALSE
  OBVIOUS
<1>3. PICK k \in T : \A m \in T : k <= m
  BY <1>2, LeastElement
<1>4. /\ k - 1 \in 1 .. Len(s.entries) /\ k - 1 \in 1 .. Len(s.entries) + 1
      /\ k - 1 \in Nat /\ k \in Nat /\ (k - 1) + 1 = k /\ i < k /\ ~(k <= k - 1)
      /\ i # k - 1 => i < k - 1
  BY <1>3, SourceFacts
<1>5. s.off[k] = s.off[k - 1] + Extent(s.entries[k - 1])
  <2>1. s.off[(k - 1) + 1] = s.off[k - 1] + Extent(s.entries[k - 1])
    BY <1>4, SourcesAssumption DEF LaidOut
  <2> QED  BY <2>1, <1>4
<1>6. Extent(s.entries[k - 1]) \in Nat /\ Extent(s.entries[k - 1]) >= blockSize
  BY <1>4, SourceFacts, ExtentPositive
<1>7. s.off[i] \in Nat /\ s.off[k - 1] \in Nat /\ s.off[k] \in Nat
  BY <1>4, SourceFacts
<1>8. ~(s.off[i] + blockSize <= s.off[k])
  BY <1>3
<1>9. k - 1 \notin T
  BY <1>3, <1>4
<1>10. i = k - 1 \/ s.off[i] + blockSize <= s.off[k - 1]
  BY <1>4, <1>9
<1> QED  BY <1>5, <1>6, <1>7, <1>8, <1>10, ConstantsAssumption, SMTT(30)

-----------------------------------------------------------------------------
(* Sparse maps.                                                             *)

\* A map that newSparseFileReader accepts has its fragments in order and inside
\* the file: the check of neighbours orders any two of them, and no sum wraps.
LEMMA AcceptedMap ==
  ASSUME NEW sp \in Seq(Fragment), NEW total \in Int, SparseOK(sp, total)
  PROVE  FragmentsOK(sp, 0, total)
<1>0. Len(sp) \in Nat /\ maxInt64 \in Nat /\ total \in Nat
  BY ConstantsAssumption DEF SparseOK
<1>1. ASSUME NEW i \in 1 .. Len(sp)
      PROVE  sp[i].offset \in Int /\ sp[i].numBytes \in Int
  <2>1. sp[i] \in Fragment
    OBVIOUS
  <2> QED  BY <2>1 DEF Fragment
<1>2. ASSUME NEW i \in 1 .. Len(sp)
      PROVE  /\ sp[i].offset >= 0 /\ sp[i].numBytes >= 0
             /\ sp[i].offset + sp[i].numBytes <= maxInt64
             /\ sp[i].offset + sp[i].numBytes <= total
             /\ i > 1 => sp[i - 1].offset + sp[i - 1].numBytes <= sp[i].offset
  <2>1. /\ sp[i].offset >= 0 /\ sp[i].numBytes >= 0
        /\ sp[i].offset <= maxInt64 - sp[i].numBytes
        /\ Add64(sp[i].offset, sp[i].numBytes) <= total
    BY DEF SparseOK
  <2>2. i > 1 => Add64(sp[i - 1].offset, sp[i - 1].numBytes) <= sp[i].offset
    BY DEF SparseOK
  <2>3. i > 1 => /\ i - 1 \in 1 .. Len(sp)
                 /\ sp[i - 1].offset <= maxInt64 - sp[i - 1].numBytes
    BY <1>0 DEF SparseOK
  <2>4. ASSUME NEW a \in Int, NEW b \in Int, a <= maxInt64 - b
        PROVE  Add64(a, b) = a + b /\ a + b <= maxInt64
    BY <2>4, <1>0 DEF Add64
  <2>5. sp[i].offset + sp[i].numBytes <= maxInt64
        /\ Add64(sp[i].offset, sp[i].numBytes) = sp[i].offset + sp[i].numBytes
    BY <2>4, <2>1, <1>1
  <2>6. i > 1 => Add64(sp[i - 1].offset, sp[i - 1].numBytes)
                   = sp[i - 1].offset + sp[i - 1].numBytes
    BY <2>4, <2>3, <1>1
  <2> QED  BY <2>1, <2>2, <2>5, <2>6
<1>3. ASSUME NEW i \in 1 .. Len(sp), NEW j \in 1 .. Len(sp), i < j
      PROVE  sp[i].offset + sp[i].numBytes <= sp[j].offset
  <2> DEFINE T == {k \in Nat : /\ k \in 1 .. Len(sp) /\ i < k
                               /\ ~(sp[i].offset + sp[i].numBytes <= sp[k].offset)}
  <2>1. SUFFICES ASSUME T # {} PROVE FALSE
    BY <1>3
  <2>2. PICK k \in T : \A m \in T : k <= m
    BY <2>1, LeastElement
  <2>3. /\ k - 1 \in 1 .. Len(sp) /\ k \in 1 .. Len(sp) /\ k - 1 \in Nat
        /\ i < k /\ ~(k <= k - 1) /\ k > 1 /\ (i # k - 1 => i < k - 1)
    BY <2>2, <1>0
  <2>4. ~(sp[i].offset + sp[i].numBytes <= sp[k].offset)
    BY <2>2
  <2>5. k - 1 \notin T
    BY <2>2, <2>3
  <2>6. i = k - 1 \/ sp[i].offset + sp[i].numBytes <= sp[k - 1].offset
    BY <2>3, <2>5
  <2>7. /\ sp[k - 1].offset + sp[k - 1].numBytes <= sp[k].offset
        /\ sp[k - 1].numBytes >= 0
    BY <1>2, <2>3
  <2>8. /\ sp[i].offset \in Int /\ sp[i].numBytes \in Int
        /\ sp[k].offset \in Int /\ sp[k - 1].offset \in Int /\ sp[k - 1].numBytes \in Int
    BY <1>1, <2>3
  <2>9. \A a, b, c, d, g \in Int :
          (a + b <= c /\ d >= 0 /\ c + d <= g) => a + b <= g
    OBVIOUS
  <2>10. CASE i = k - 1
    BY <2>10, <2>4, <2>7
  <2>11. CASE sp[i].offset + sp[i].numBytes <= sp[k - 1].offset
    BY <2>11, <2>4, <2>7, <2>8, <2>9
  <2> QED  BY <2>6, <2>10, <2>11
<1>4. ASSUME NEW i \in 1 .. Len(sp)
      PROVE  /\ 0 <= sp[i].offset + sp[i].numBytes
             /\ sp[i].numBytes # 0 => 0 < sp[i].offset + sp[i].numBytes
  BY <1>1, <1>2
<1>5. 0 \in Nat /\ 0 <= total
  BY <1>0
<1>6. \A i \in 1 .. Len(sp) :
       /\ sp[i].offset >= 0 /\ sp[i].numBytes >= 0
       /\ sp[i].offset + sp[i].numBytes <= maxInt64
       /\ sp[i].offset + sp[i].numBytes <= total
       /\ 0 <= sp[i].offset + sp[i].numBytes
       /\ sp[i].numBytes # 0 => 0 < sp[i].offset + sp[i].numBytes
  BY <1>2, <1>4
<1>7. \A i, j \in 1 .. Len(sp) :
       i < j => sp[i].offset + sp[i].numBytes <= sp[j].offset
  BY <1>3
<1> QED  BY <1>0, <1>5, <1>6, <1>7 DEF FragmentsOK

\* q is what is left of the map sp when its first d fragments are dropped.
Suffix(q, sp, d) ==
  /\ d \in Nat /\ q \in Seq(Fragment) /\ Len(q) + d = Len(sp)
  /\ \A i \in 1 .. Len(q) : q[i] = sp[i + d]

\* Dropping fragments leaves the others in order.
LEMMA SuffixOK ==
  ASSUME NEW sp \in Seq(Fragment), NEW q, NEW d, NEW f, NEW t,
         Suffix(q, sp, d), FragmentsOK(sp, f, t)
  PROVE  FragmentsOK(q, f, t)
<1>1. Len(q) \in Nat /\ Len(sp) \in Nat /\ d \in Nat /\ Len(q) + d = Len(sp)
  BY DEF Suffix
<1>2. ASSUME NEW i \in 1 .. Len(q)
      PROVE  i + d \in 1 .. Len(sp) /\ q[i] = sp[i + d]
  BY <1>1 DEF Suffix
<1>3. ASSUME NEW i \in 1 .. Len(q), NEW j \in 1 .. Len(q), i < j
      PROVE  q[i].offset + q[i].numBytes <= q[j].offset
  <2>1. i + d < j + d
    BY <1>1, <1>3
  <2>2. sp[i + d].offset + sp[i + d].numBytes <= sp[j + d].offset
    BY <1>2, <2>1 DEF FragmentsOK
  <2> QED  BY <1>2, <2>2
<1>4. ASSUME NEW i \in 1 .. Len(q)
      PROVE  /\ q[i].offset >= 0 /\ q[i].numBytes >= 0
             /\ q[i].offset + q[i].numBytes <= maxInt64
             /\ q[i].offset + q[i].numBytes <= t
             /\ f <= q[i].offset + q[i].numBytes
             /\ q[i].numBytes # 0 => f < q[i].offset + q[i].numBytes
  <2> DEFINE g == i + d
  <2>1. g \in 1 .. Len(sp) /\ q[i] = sp[g]
    BY <1>2
  <2> HIDE DEF g
  <2> QED  BY <2>1 DEF FragmentsOK
<1> QED  BY <1>3, <1>4 DEF FragmentsOK

\* Skipping the empty fragments leaves a map that is empty or starts with a
\* fragment that is not.
LEMMA LiveSuffix ==
  ASSUME NEW sp \in Seq(Fragment)
  PROVE  /\ Live(sp) \in Seq(Fragment)
         /\ \E d : Suffix(Live(sp), sp, d)
         /\ Live(sp) # <<>> => Len(Live(sp)) >= 1 /\ Live(sp)[1].numBytes # 0
<1> DEFINE live == {i \in 1 .. Len(sp) : sp[i].numBytes # 0}
           k == CHOOSE i \in live : \A j \in live : i <= j
<1>0. Len(sp) \in Nat
  OBVIOUS
<1>1. CASE live = {}
  <2>1. Live(sp) = <<>>
    BY <1>1 DEF Live
  <2>2. Suffix(<<>>, sp, Len(sp))
    BY <1>0 DEF Suffix
  <2> QED  BY <2>1, <2>2
<1>2. CASE live # {}
  <2>1. live \in SUBSET Nat
    OBVIOUS
  <2>2. \E i \in live : \A j \in live : i <= j
    BY <2>1, <1>2, LeastElement
  <2>3. k \in live
    BY <2>2
  <2>4. Live(sp) = SubSeq(sp, k, Len(sp))
    BY <1>2 DEF Live
  <2> HIDE DEF k
  <2>5. k \in 1 .. Len(sp) /\ k \in Nat /\ sp[k].numBytes # 0
    BY <2>3
  <2>6. k - 1 \in Nat /\ \A i \in Nat : (i + k) - 1 = i + (k - 1)
    BY <2>5
  <2>7. SubSeq(sp, k, Len(sp)) \in Seq(Fragment) /\ Len(SubSeq(sp, k, Len(sp))) = (Len(sp) - k) + 1
        /\ \A i \in 1 .. Len(SubSeq(sp, k, Len(sp))) : SubSeq(sp, k, Len(sp))[i] = sp[(i + k) - 1]
    BY <2>5, <1>0
  <2> DEFINE q == SubSeq(sp, k, Len(sp))
  <2>8. q \in Seq(Fragment) /\ Len(q) = (Len(sp) - k) + 1
        /\ \A i \in 1 .. Len(q) : q[i] = sp[(i + k) - 1]
    BY <2>7
  <2> HIDE DEF q
  <2>9. Len(q) + (k - 1) = Len(sp) /\ Len(q) >= 1 /\ Len(q) \in Nat
    BY <2>8, <2>5, <1>0
  <2>10. ASSUME NEW i \in 1 .. Len(q) PROVE q[i] = sp[i + (k - 1)]
    <3>1. i \in Nat
      BY <2>9
    <3>2. (i + k) - 1 = i + (k - 1)
      BY <3>1, <2>6
    <3>3. q[i] = sp[(i + k) - 1]
      BY <2>8
    <3> QED  BY <3>2, <3>3
  <2>11. Suffix(q, sp, k - 1)
    BY <2>6, <2>8, <2>9, <2>10 DEF Suffix
  <2>12. q[1].numBytes # 0
    <3>1. (1 + k) - 1 = k /\ 1 \in 1 .. Len(q)
      BY <2>5, <2>9
    <3> QED  BY <3>1, <2>8, <2>5
  <2>13. Live(sp) = q
    BY <2>4 DEF q
  <2> QED  BY <2>8, <2>9, <2>11, <2>12, <2>13
<1> QED  BY <1>1, <1>2

\* What is available in the stream.
LEMMA AvailFacts ==
  ASSUME src \in Sources, NEW p \in Nat
  PROVE  /\ Avail(p) \in Nat
         /\ p <= src.len => p + Avail(p) = src.len
         /\ p > src.len => Avail(p) = 0
         /\ Avail(p) > 0 => p <= src.len
<1>1. src.len \in Nat
  BY SourceFacts
<1> QED  BY <1>1 DEF Avail, Most

\* What reading a map gives.
MapType == [err : {"nil", "ErrUnexpectedEOF", "ErrHeader"}, read : Nat, used : Nat,
            sparse : BOOLEAN, sp : Seq(Fragment), total : Int]

\* The map that readGNUSparseMap0x1 takes from the PAX records.
LEMMA PaxMap ==
  ASSUME TypeInv, NEW x, x = [ext EXCEPT !.mapok = @ /\ ext.sp # <<>>]
  PROVE  x.mapok \in BOOLEAN /\ x.sp = ext.sp /\ x.sp \in Seq(Fragment)
<1>1. ext \in ExtType
  BY DEF TypeInv
<1>2. x.mapok = (ext.mapok /\ ext.sp # <<>>) /\ x.sp = ext.sp
  BY <1>1 DEF ExtType
<1>3. ext.sp \in Seq(Fragment)
  BY <1>1 DEF ExtType
<1> QED  BY <1>2, <1>3

\* Reading a map reads no more than there is, and all of it when it succeeds.
LEMMA ReadMapFacts ==
  ASSUME NEW raw \in Nat, NEW room \in Nat, NEW m,
         m.mapok \in BOOLEAN, m.sp \in Seq(Fragment)
  PROVE  /\ ReadMap(raw, room, m) \in MapType
         /\ ReadMap(raw, room, m).read <= room
         /\ ReadMap(raw, room, m).used = 0
         /\ ReadMap(raw, room, m).err = "nil" => ReadMap(raw, room, m).read = raw
<1>1. Least(room, raw) \in Nat /\ Least(room, raw) <= room
      /\ (~(room < raw) => Least(room, raw) = raw)
  BY DEF Least
<1> DEFINE r == ReadMap(raw, room, m)
<1>2. r = [err |-> IF room < raw THEN "ErrUnexpectedEOF"
                   ELSE IF m.mapok THEN "nil" ELSE "ErrHeader",
           read |-> Least(room, raw), used |-> 0, sparse |-> TRUE, sp |-> m.sp, total |-> 0]
  BY Zenon DEF ReadMap
<1>3. /\ r.err = IF room < raw THEN "ErrUnexpectedEOF"
                 ELSE IF m.mapok THEN "nil" ELSE "ErrHeader"
      /\ r.read = Least(room, raw) /\ r.used = 0
  <2> DEFINE er == IF room < raw THEN "ErrUnexpectedEOF"
                   ELSE IF m.mapok THEN "nil" ELSE "ErrHeader"
             sm == m.sp
  <2>1. r = [err |-> er, read |-> Least(room, raw), used |-> 0, sparse |-> TRUE,
             sp |-> sm, total |-> 0]
    BY <1>2
  <2> HIDE DEF er, r, sm
  <2>2. r.err = er /\ r.read = Least(room, raw) /\ r.used = 0
    BY <2>1
  <2> QED  BY <2>2 DEF er
<1>4. r \in MapType
  <2>1. (IF room < raw THEN "ErrUnexpectedEOF" ELSE IF m.mapok THEN "nil" ELSE "ErrHeader")
          \in {"nil", "ErrUnexpectedEOF", "ErrHeader"}
    BY Zenon
  <2>2. 0 \in Nat /\ 0 \in Int
    OBVIOUS
  <2> QED  BY <1>1, <1>2, <2>1, <2>2 DEF MapType
<1>5. r.err = "nil" => r.read = raw
  BY <1>1, <1>3
<1> QED  BY <1>1, <1>3, <1>4, <1>5

\* Wherever the map of a file is kept, the reader stays inside the data section
\* while it reads it, and what it leaves for Read is the rest of the section.
LEMMA SparseSetup ==
  ASSUME TypeInv, NEW e \in EntryType, NEW size \in Int, NEW n \in Nat,
         NEW h, h = handleSparseFile(e, size, n)
  PROVE  /\ h.err \in {"nil", "ErrUnexpectedEOF", "ErrHeader"}
         /\ h.read \in Nat /\ h.read <= Avail(pos + blockSize)
         /\ h.curr \in CurrType /\ Inside(h.curr)
         /\ h.err = "nil" =>
              IF e.type = "sparse" THEN h.read = blockSize * e.blocks /\ h.curr.nb = n
                                   ELSE h.read + h.curr.nb = n
<1> DEFINE m == IF e.type = "sparse" THEN readOldGNUSparseMap(e)
                ELSE checkForGNUSparsePAXHeaders(e, size, n)
           room == Avail(pos + blockSize)
           raw == blockSize * e.blocks
<1>1. /\ room \in Nat /\ raw \in Nat /\ e.blocks * blockSize = raw
      /\ e.mapok \in BOOLEAN /\ e.sp \in Seq(Fragment) /\ e.total \in Int
      /\ ext.mapok \in BOOLEAN /\ ext.sp \in Seq(Fragment) /\ ext.total \in Int
      /\ NoExt.mapok \in BOOLEAN /\ NoExt.sp \in Seq(Fragment)
  <2>1. src \in Sources /\ pos + blockSize \in Nat
    BY ConstantsAssumption DEF TypeInv
  <2>2. room \in Nat
    BY <2>1, AvailFacts
  <2>3. e.blocks \in Nat
    BY DEF EntryType
  <2>4. raw \in Nat /\ e.blocks * blockSize = raw
    BY <2>3, ConstantsAssumption
  <2>5. e.mapok \in BOOLEAN /\ e.sp \in Seq(Fragment) /\ e.total \in Int
    BY DEF EntryType, Fragment
  <2>6. ext.mapok \in BOOLEAN /\ ext.sp \in Seq(Fragment) /\ ext.total \in Int
    BY DEF TypeInv, ExtType
  <2>7. NoExt.mapok \in BOOLEAN /\ NoExt.sp \in Seq(Fragment)
    BY DEF NoExt
  <2> QED  BY <2>2, <2>4, <2>5, <2>6, <2>7
<1> HIDE DEF room, raw
<1>2. /\ m \in MapType /\ m.read <= room /\ m.used <= n
      /\ m.err = "nil" => IF e.type = "sparse" THEN m.read = raw /\ m.used = 0
                                               ELSE m.read = m.used
  <2>1. CASE e.type = "sparse"
    <3> DEFINE r == ReadMap(raw, room, e)
    <3>1. r \in MapType /\ r.read <= room /\ r.used = 0 /\ (r.err = "nil" => r.read = raw)
      BY <1>1, ReadMapFacts
    <3>2. m = IF e.total = Bad THEN [r EXCEPT !.err = "ErrHeader", !.read = 0]
                               ELSE [r EXCEPT !.total = e.total]
      BY <2>1, <1>1 DEF readOldGNUSparseMap, room
    <3> HIDE DEF r, m
    <3>3. CASE e.total = Bad
      <4>1. m = [r EXCEPT !.err = "ErrHeader", !.read = 0]
        BY <3>2, <3>3
      <4>2. m \in MapType
        BY <4>1, <3>1 DEF MapType
      <4>3. m.err = "ErrHeader" /\ m.read = 0 /\ m.used = r.used
        BY <4>1, <3>1 DEF MapType
      <4> QED  BY <4>2, <4>3, <3>1, <1>1, <2>1
    <3>4. CASE e.total # Bad
      <4>1. m = [r EXCEPT !.total = e.total]
        BY <3>2, <3>4
      <4>2. m \in MapType
        BY <4>1, <3>1, <1>1 DEF MapType
      <4>3. m.err = r.err /\ m.read = r.read /\ m.used = r.used
        BY <4>1, <3>1 DEF MapType
      <4> QED  BY <4>2, <4>3, <3>1, <1>1, <2>1
    <3> QED  BY <3>3, <3>4
  <2>2. CASE e.type # "sparse"
    <3> DEFINE lim == Least(n, room)
               r == ReadMap(raw, lim, e)
               r1 == [r EXCEPT !.used = r.read]
               x0 == [ext EXCEPT !.mapok = @ /\ ext.sp # <<>>]
               r0 == ReadMap(0, 0, x0)
               none == [ReadMap(0, 0, NoExt) EXCEPT !.sparse = FALSE]
               q == IF ext.fmt = "1.0" THEN r1 ELSE r0
               t == IF ext.total = None THEN size ELSE ext.total
    <3>0. lim \in Nat /\ lim <= room /\ lim <= n
      BY <1>1 DEF Least
    <3>1. r \in MapType /\ r.read <= lim
      BY <1>1, <3>0, ReadMapFacts, SMTT(60)
    <3>2. r0 \in MapType /\ r0.read <= 0 /\ r0.used = 0
      <4>1. x0.mapok \in BOOLEAN /\ x0.sp \in Seq(Fragment)
        BY PaxMap, Zenon
      <4> HIDE DEF x0
      <4> QED  BY <4>1, ReadMapFacts
    <3>3. ReadMap(0, 0, NoExt) \in MapType /\ ReadMap(0, 0, NoExt).read <= 0
          /\ ReadMap(0, 0, NoExt).used = 0
      BY <1>1, ReadMapFacts
    <3>4. m = IF ext.fmt \notin {"0.0", "0.1", "1.0"} THEN none
              ELSE IF ext.total = Bad THEN [none EXCEPT !.err = "ErrHeader"]
              ELSE [q EXCEPT !.total = t]
      BY <2>2, <1>1 DEF checkForGNUSparsePAXHeaders, readGNUSparseMap1x0,
                        readGNUSparseMap0x1, room
    <3>5. t \in Int
      BY <1>1
    <3> HIDE DEF lim, r, r0, t, m
    <3>6. none \in MapType /\ none.read = 0 /\ none.used = 0
      <4> DEFINE z == ReadMap(0, 0, NoExt)
      <4>1. z \in MapType /\ z.read <= 0 /\ z.used = 0
        BY <3>3
      <4> HIDE DEF z
      <4>2. none = [z EXCEPT !.sparse = FALSE]
        BY DEF z
      <4> HIDE DEF none
      <4>3. none \in MapType /\ none.read = z.read /\ none.used = z.used
        BY <4>1, <4>2 DEF MapType
      <4>4. z.read = 0
        BY <4>1 DEF MapType
      <4> QED  BY <4>1, <4>3, <4>4
    <3>7. r1 \in MapType /\ r1.read <= lim /\ r1.used = r1.read
      BY <3>1 DEF MapType
    <3> HIDE DEF none, r1
    <3>8. q \in MapType /\ q.read <= room /\ q.used <= n /\ q.read = q.used
      <4>1. CASE ext.fmt = "1.0"
        <5>1. r1.read \in Nat
          BY <3>7 DEF MapType
        <5> QED  BY <4>1, <3>0, <3>7, <1>1, <5>1
      <4>2. CASE ext.fmt # "1.0"
        <5>1. r0.read \in Nat
          BY <3>2 DEF MapType
        <5> QED  BY <4>2, <3>2, <1>1, <5>1
      <4> QED  BY <4>1, <4>2
    <3> HIDE DEF q
    <3>9. CASE m = none
      BY <3>9, <3>6, <1>1, <2>2
    <3>10. CASE m = [none EXCEPT !.err = "ErrHeader"]
      BY <3>10, <3>6, <1>1, <2>2, SMTT(60) DEF MapType
    <3>11. CASE m = [q EXCEPT !.total = t]
      BY <3>11, <3>8, <3>5, <1>1, <2>2 DEF MapType
    <3> QED  BY <3>4, <3>9, <3>10, <3>11
  <2> QED  BY <2>1, <2>2
<1> DEFINE left == n - m.used
           refused == m.err = "nil" /\ m.sparse /\ ~SparseOK(m.sp, m.total)
<1>3. h = [err |-> IF refused THEN "ErrHeader" ELSE m.err, read |-> m.read,
           curr |-> IF refused THEN [NoCurr EXCEPT !.kind = "nilsparse"]
                    ELSE IF m.err # "nil" \/ ~m.sparse THEN Reg(left)
                    ELSE [kind |-> "sparse", nb |-> left, sp |-> m.sp, fpos |-> 0,
                          total |-> m.total]]
  BY Zenon DEF handleSparseFile
<1> HIDE DEF m
<1>4. left \in Nat
  BY <1>2 DEF MapType
<1>5. CASE refused
  <2>1. h.err = "ErrHeader" /\ h.read = m.read /\ h.curr = [NoCurr EXCEPT !.kind = "nilsparse"]
    BY <1>3, <1>5
  <2>2. h.curr \in CurrType /\ h.curr.kind = "nilsparse"
    <3>1. <<>> \in Seq(Fragment)
      OBVIOUS
    <3>2. h.curr = [kind |-> "nilsparse", nb |-> 0, sp |-> <<>>, fpos |-> 0, total |-> 0]
      BY <2>1 DEF NoCurr
    <3> QED  BY <3>1, <3>2 DEF CurrType
  <2>3. Inside(h.curr)
    BY <2>2 DEF Inside
  <2>4. m.read \in Nat
    BY <1>2 DEF MapType
  <2> QED  BY <2>1, <2>2, <2>3, <2>4, <1>2 DEF room
<1>6. CASE ~refused /\ (m.err # "nil" \/ ~m.sparse)
  <2>1. h.err = m.err /\ h.read = m.read /\ h.curr = Reg(left)
    BY <1>3, <1>6
  <2>2. h.curr \in CurrType /\ h.curr.kind = "reg" /\ h.curr.nb = left
    <3>1. <<>> \in Seq(Fragment)
      OBVIOUS
    <3>2. h.curr = [kind |-> "reg", nb |-> left, sp |-> <<>>, fpos |-> 0, total |-> 0]
      BY <2>1 DEF NoCurr, Reg
    <3> QED  BY <3>1, <3>2, <1>4 DEF CurrType
  <2>3. Inside(h.curr)
    BY <2>2 DEF Inside
  <2>4. m.read \in Nat /\ m.used \in Nat /\ m.err \in {"nil", "ErrUnexpectedEOF", "ErrHeader"}
    BY <1>2 DEF MapType
  <2>5. h.err = "nil" => IF e.type = "sparse" THEN h.read = raw /\ h.curr.nb = n
                                              ELSE h.read + h.curr.nb = n
    BY <2>1, <2>2, <2>4, <1>2, <1>4
  <2> QED  BY <2>1, <2>2, <2>3, <2>4, <2>5, <1>2 DEF room, raw
<1>7. CASE ~refused /\ ~(m.err # "nil" \/ ~m.sparse)
  <2>1. h.err = m.err /\ h.read = m.read
        /\ h.curr = [kind |-> "sparse", nb |-> left, sp |-> m.sp, fpos |-> 0, total |-> m.total]
    BY <1>3, <1>7
  <2>2. m.sp \in Seq(Fragment) /\ m.total \in Int /\ SparseOK(m.sp, m.total)
    BY <1>2, <1>7 DEF MapType
  <2>3. FragmentsOK(m.sp, 0, m.total)
    BY <2>2, AcceptedMap
  <2>4. h.curr \in CurrType /\ h.curr.nb = left /\ h.curr.sp = m.sp /\ h.curr.fpos = 0
        /\ h.curr.total = m.total
    BY <2>1, <2>2, <1>4 DEF CurrType
  <2>5. Inside(h.curr)
    BY <2>3, <2>4 DEF Inside
  <2>6. m.read \in Nat /\ m.used \in Nat /\ m.err \in {"nil", "ErrUnexpectedEOF", "ErrHeader"}
    BY <1>2 DEF MapType
  <2>7. h.err = "nil" => IF e.type = "sparse" THEN h.read = raw /\ h.curr.nb = n
                                              ELSE h.read + h.curr.nb = n
    BY <2>1, <2>4, <2>6, <1>2, <1>4
  <2> QED  BY <2>1, <2>4, <2>5, <2>6, <2>7, <1>2 DEF room, raw
<1> QED  BY <1>5, <1>6, <1>7

-----------------------------------------------------------------------------
(* What the parts of an action do.                                          *)

\* The fields a call leaves when Next returns.
LEMMA NextReturnsType ==
  ASSUME TypeInv, NEW e \in Errors, NextReturns(e)
  PROVE  err' = e /\ err' \in Errors /\ pc' = "idle" /\ ext' \in ExtType /\ ret' \in RetType
<1>1. <<>> \in Seq(Fragment)
  OBVIOUS
<1>2. ext' = [name |-> 0, size |-> None, fmt |-> "none", sp |-> <<>>, mapok |-> TRUE,
              total |-> None]
  BY DEF NextReturns, NoExt
<1>3. ext' \in ExtType
  <2>1. None \in Int /\ 0 \in Nat
    BY DEF None
  <2>2. "none" \in Formats /\ TRUE \in BOOLEAN
    BY Zenon DEF Formats
  <2> QED  BY <1>1, <1>2, <2>1, <2>2, Zenon DEF ExtType
<1>4. ret.failed \in BOOLEAN
  BY DEF TypeInv, RetType
<1>5. ret' = [op |-> "Next", n |-> 0, err |-> e, m |-> 0, failed |-> ret.failed \/ e # "nil"]
  BY DEF NextReturns
<1>6. (ret.failed \/ e # "nil") \in BOOLEAN
  BY <1>4
<1>7. ret' \in RetType
  BY <1>5, <1>6 DEF RetType
<1> QED  BY <1>3, <1>7 DEF NextReturns

\* The fields a call leaves when Read returns.
LEMMA ReadReturnsType ==
  ASSUME TypeInv, NEW m \in Nat, NEW n \in Int, NEW e \in Errors, ReadReturns(m, n, e)
  PROVE  err' \in Errors /\ ret' \in RetType
<1>1. ret.failed \in BOOLEAN
  BY DEF TypeInv, RetType
<1>2. (ret.failed \/ e \notin {"nil", "EOF"}) \in BOOLEAN
  BY <1>1
<1>3. ret' = [op |-> "Read", n |-> n, err |-> e, m |-> m,
             failed |-> ret.failed \/ e \notin {"nil", "EOF"}]
  BY DEF ReadReturns
<1>4. ret' \in RetType
  BY <1>2, <1>3 DEF RetType
<1>5. err' \in Errors
  BY DEF ReadReturns, TypeInv
<1> QED  BY <1>4, <1>5

\* regFileReader.Read returns no more than is asked for, left and there; no byte
\* only with a reason; and io.EOF only with the last byte of the data.
LEMMA RegReadFacts ==
  ASSUME TypeInv, NEW b \in Nat, NEW u \in RegRead(b)
  PROVE  /\ u.n \in Nat /\ u.n <= b /\ u.n <= curr.nb /\ u.n <= Avail(pos)
         /\ u.err \in Errors
         /\ b > 0 /\ u.n = 0 => u.err # "nil"
         /\ u.err = "EOF" => u.n = curr.nb
<1>0. curr.nb \in Nat /\ Avail(pos) \in Nat
  BY AvailFacts DEF TypeInv, CurrType
<1>1. CASE numBytes = 0
  <2>1. u = [n |-> 0, err |-> "EOF"]
    BY <1>1 DEF RegRead
  <2> QED  BY <2>1, <1>0, <1>1 DEF Errors, numBytes
<1>2. CASE numBytes # 0
  <2> DEFINE c == Least(b, numBytes)
             most == Least(c, Avail(pos))
  <2>0. curr.nb > 0
    BY <1>0, <1>2 DEF numBytes
  <2>1. PICK v \in UnderlyingRead(c) :
          u = [n |-> v.n, err |-> IF v.err = "EOF" /\ v.n < numBytes
                                  THEN "ErrUnexpectedEOF" ELSE v.err]
    BY <1>2 DEF RegRead
  <2>2. c \in Nat /\ c <= b /\ c <= curr.nb /\ (b > 0 => c > 0)
    BY <1>0, <2>0 DEF Least, numBytes
  <2> HIDE DEF c
  <2>3. most \in Nat /\ most <= c /\ most <= Avail(pos)
    BY <1>0, <2>2 DEF Least
  <2>4. v \in UnderlyingRead(c)
    BY <2>1
  <2>5. /\ v.n \in Nat /\ v.n <= most /\ v.err \in {"nil", "EOF", "io"}
        /\ c > 0 /\ v.n = 0 => v.err # "nil"
    <3>1. \/ v \in {[n |-> n, err |-> "nil"] : n \in (IF c = 0 THEN {0} ELSE 1 .. most)}
          \/ v = [n |-> most, err |-> "EOF"]
          \/ v \in {[n |-> n, err |-> "io"] : n \in 0 .. most}
      BY <2>4 DEF UnderlyingRead
    <3> HIDE DEF most
    <3>2. CASE v \in {[n |-> n, err |-> "nil"] : n \in (IF c = 0 THEN {0} ELSE 1 .. most)}
      <4>1. PICK n \in (IF c = 0 THEN {0} ELSE 1 .. most) : v = [n |-> n, err |-> "nil"]
        BY <3>2
      <4>2. v.n = n /\ v.err = "nil"
        BY <4>1
      <4>3. n \in Nat /\ n <= most /\ (c > 0 => n # 0)
        BY <4>1, <2>2, <2>3
      <4> QED  BY <4>2, <4>3
    <3>3. CASE v = [n |-> most, err |-> "EOF"]
      BY <3>3, <2>3
    <3>4. CASE v \in {[n |-> n, err |-> "io"] : n \in 0 .. most}
      <4>1. PICK n \in 0 .. most : v = [n |-> n, err |-> "io"]
        BY <3>4
      <4>2. v.n = n /\ v.err = "io"
        BY <4>1
      <4>3. n \in Nat /\ n <= most
        BY <4>1, <2>3
      <4> QED  BY <4>2, <4>3
    <3> QED  BY <3>1, <3>2, <3>3, <3>4
  <2> HIDE DEF most
  <2>6. /\ u.n = v.n
        /\ u.err = IF v.err = "EOF" /\ v.n < curr.nb THEN "ErrUnexpectedEOF" ELSE v.err
    BY <2>1 DEF numBytes
  <2>7. u.n \in Nat /\ u.n <= b /\ u.n <= curr.nb /\ u.n <= Avail(pos)
    BY <2>2, <2>3, <2>5, <2>6, <1>0
  <2>8. u.err \in Errors
    BY <2>5, <2>6 DEF Errors
  <2>9. b > 0 /\ u.n = 0 => u.err # "nil"
    BY <2>2, <2>5, <2>6
  <2>10. u.err = "EOF" => u.n = curr.nb
    BY <2>5, <2>6, <2>7, <1>0
  <2> QED  BY <2>7, <2>8, <2>9, <2>10
<1> QED  BY <1>1, <1>2

\* skipUnread leaves the reader at the end of the entry, or past the end of what
\* there is of the stream; io.EOF means that all the data was there.
LEMMA SkipFacts ==
  ASSUME TypeInv, SkipUnread
  PROVE  /\ pos' \in Nat /\ count' = pos' /\ curr' = NoCurr /\ pad' = 0
         /\ \/ /\ pc' = "header" /\ UNCHANGED <<err, ext, ret>>
               /\ pos' = pos + curr.nb + pad
               /\ pos <= src.len => pos' <= src.len
            \/ \E e \in {"ErrUnexpectedEOF", "EOF"} :
                 /\ NextReturns(e)
                 /\ pos + curr.nb + pad > src.len
                 /\ e = "EOF" /\ pos <= src.len => pos + curr.nb <= src.len
<1> DEFINE sk == IF src.seekable /\ numBytes > 1 THEN numBytes - 1 ELSE 0
           want == numBytes + (pad - sk)
           av == Avail(pos + sk)
           copied == Least(want, av)
<1>1. curr.nb \in Nat /\ pad \in Nat /\ pos \in Nat /\ count = pos /\ src \in Sources
      /\ src.len \in Nat
  BY SourceFacts, ConstantsAssumption DEF TypeInv, CurrType
<1>2. sk \in Nat /\ sk <= curr.nb /\ (sk # 0 => sk + 1 = curr.nb)
  BY <1>1 DEF numBytes
<1>3. /\ pos' = pos + (sk + copied) /\ count' = count + (sk + copied)
      /\ curr' = NoCurr /\ pad' = 0
      /\ IF copied = want THEN pc' = "header" /\ UNCHANGED <<err, ext, ret>>
         ELSE NextReturns(IF sk + copied < numBytes THEN "ErrUnexpectedEOF" ELSE "EOF")
  BY DEF SkipUnread, Advance
<1>4. want \in Nat /\ sk + want = curr.nb + pad
  BY <1>1, <1>2 DEF numBytes
<1>5. /\ av \in Nat /\ (pos + sk <= src.len => (pos + sk) + av = src.len)
      /\ (pos + sk > src.len => av = 0)
  BY <1>1, <1>2, AvailFacts
<1> HIDE DEF sk, want, av
<1>6. copied \in Nat /\ copied <= want /\ copied <= av /\ (copied = want \/ copied = av)
  BY <1>4, <1>5 DEF Least
<1> HIDE DEF copied
<1>7. pos' \in Nat /\ count' = pos'
  BY <1>1, <1>2, <1>3, <1>6
<1>8. CASE copied = want
  <2>1. pos' = pos + curr.nb + pad
    BY <1>8, <1>1, <1>2, <1>3, <1>4
  <2>2. pos <= src.len => pos' <= src.len
    <3>1. CASE pos + sk <= src.len
      BY <3>1, <1>8, <1>1, <1>2, <1>3, <1>4, <1>5, <1>6
    <3>2. CASE pos + sk > src.len
      <4>1. want = 0
        BY <3>2, <1>8, <1>5, <1>6, <1>4
      <4>2. sk = 0
        BY <4>1, <1>1, <1>2, <1>4
      <4> QED  BY <4>2, <3>2, <1>1
    <3> QED  BY <3>1, <3>2, <1>1, <1>2
  <2> QED  BY <1>3, <1>7, <1>8, <2>1, <2>2
<1>9. CASE copied # want
  <2> DEFINE e == IF sk + copied < numBytes THEN "ErrUnexpectedEOF" ELSE "EOF"
  <2>1. NextReturns(e) /\ e \in {"ErrUnexpectedEOF", "EOF"}
    BY <1>3, <1>9
  <2>2. copied = av /\ av < want
    BY <1>4, <1>5, <1>6, <1>9
  <2>3. pos + curr.nb + pad > src.len
    BY <2>2, <1>1, <1>2, <1>4, <1>5
  <2>4. e = "EOF" /\ pos <= src.len => pos + curr.nb <= src.len
    <3>1. SUFFICES ASSUME e = "EOF", pos <= src.len PROVE pos + curr.nb <= src.len
      OBVIOUS
    <3>2. curr.nb <= sk + copied
      BY <3>1, <1>1, <1>2, <1>6 DEF numBytes
    <3>3. CASE pos + sk <= src.len
      BY <3>2, <3>3, <2>2, <1>1, <1>2, <1>5
    <3>4. CASE pos + sk > src.len
      BY <3>1, <3>2, <3>4, <2>2, <1>1, <1>2, <1>5
    <3> QED  BY <3>3, <3>4, <1>1, <1>2
  <2> HIDE DEF e
  <2> QED  BY <1>3, <1>7, <2>1, <2>3, <2>4
<1> QED  BY <1>8, <1>9

\* A reader over no data.
LEMMA RegType ==
  ASSUME NEW n \in Nat
  PROVE  /\ Reg(n) \in CurrType /\ Reg(n).nb = n /\ Inside(Reg(n))
         /\ NoCurr \in CurrType /\ NoCurr.nb = 0 /\ Inside(NoCurr)
<1>1. <<>> \in Seq(Fragment)
  OBVIOUS
<1>2. NoCurr = [kind |-> "nil", nb |-> 0, sp |-> <<>>, fpos |-> 0, total |-> 0]
  BY DEF NoCurr
<1>3. Reg(n) = [kind |-> "reg", nb |-> n, sp |-> <<>>, fpos |-> 0, total |-> 0]
  <2>1. PICK c : c = Reg(n)
    OBVIOUS
  <2>2. c = [kind |-> "reg", nb |-> n, sp |-> <<>>, fpos |-> 0, total |-> 0]
    BY <2>1 DEF NoCurr, Reg
  <2> QED  BY <2>1, <2>2
<1>4. NoCurr \in CurrType /\ NoCurr.nb = 0 /\ NoCurr.kind = "nil"
  BY <1>1, <1>2 DEF CurrType
<1>5. Reg(n) \in CurrType /\ Reg(n).nb = n /\ Reg(n).kind = "reg"
  BY <1>1, <1>3 DEF CurrType
<1>6. Inside(NoCurr)
  BY <1>4 DEF Inside
<1>7. Inside(Reg(n))
  BY <1>5 DEF Inside
<1> QED  BY <1>4, <1>5, <1>6, <1>7

\* An entry that describes the next one: the reader ends up after its data, or
\* at the end of the stream.
LEMMA MetaFacts ==
  ASSUME TypeInv, ReadMeta
  PROVE  \E i \in 1 .. Len(src.entries) :
           /\ HeaderAt(i) /\ ~IsFile(src.entries[i]) /\ src.entries[i].size \in Nat
           /\ pos' \in Nat /\ count' = pos' /\ pos' <= src.len
           /\ pad' = PadOf(src.entries[i].size)
           /\ curr' \in CurrType /\ Inside(curr')
           /\ pos' + curr'.nb = pos + blockSize + src.entries[i].size
           /\ \/ \E e \in {"ErrUnexpectedEOF", "ErrHeader"} : NextReturns(e)
              \/ /\ src.entries[i].valid /\ curr'.nb = 0
                 /\ pc' = "skip" /\ ext' = MetaExt(i) /\ UNCHANGED <<err, ret>>
<1>1. PICK i \in 1 .. Len(src.entries) :
       LET e == src.entries[i]
           here == Least(e.size, Avail(pos + blockSize)) IN
       /\ HeaderAt(i) /\ ~IsFile(e) /\ e.size >= 0 /\ (e.valid \/ e.type = "x")
       /\ Advance(blockSize + here)
       /\ pad' = PadOf(e.size) /\ curr' = Reg(e.size - here)
       /\ CASE here < e.size -> NextReturns("ErrUnexpectedEOF")
            [] here = e.size /\ ~e.valid -> NextReturns("ErrHeader")
            [] OTHER -> pc' = "skip" /\ ext' = MetaExt(i) /\ UNCHANGED <<err, ret>>
  BY DEF ReadMeta
<1> DEFINE e == src.entries[i]
           av == Avail(pos + blockSize)
           here == Least(e.size, av)
<1>2. src \in Sources /\ e \in EntryType /\ src.len \in Nat /\ pos \in Nat /\ count = pos
      /\ blockSize \in Nat /\ blockSize > 0
  BY SourceFacts, ConstantsAssumption DEF TypeInv
<1>3. e.size \in Nat /\ e.valid \in BOOLEAN
  BY <1>1, <1>2 DEF EntryType
<1>4. pos + blockSize \in Nat
  BY <1>2
<1>5. av \in Nat /\ (pos + blockSize <= src.len => (pos + blockSize) + av = src.len)
  BY <1>2, <1>4, AvailFacts
<1>6. Avail(pos) \in Nat /\ (pos <= src.len => pos + Avail(pos) = src.len)
      /\ (pos > src.len => Avail(pos) = 0)
  BY <1>2, AvailFacts
<1>7. Avail(pos) >= blockSize
  BY DEF ReadMeta
<1>8. pos + blockSize <= src.len
  BY <1>2, <1>6, <1>7
<1>9. here \in Nat /\ here <= e.size /\ here <= av
  BY <1>3, <1>5 DEF Least
<1>10. /\ HeaderAt(i) /\ ~IsFile(e)
       /\ pos' = pos + (blockSize + here) /\ count' = count + (blockSize + here)
       /\ pad' = PadOf(e.size) /\ curr' = Reg(e.size - here)
  BY <1>1 DEF Advance
<1>11. \/ NextReturns("ErrUnexpectedEOF") \/ NextReturns("ErrHeader")
       \/ /\ ~(here < e.size) /\ ~(here = e.size /\ ~e.valid)
          /\ pc' = "skip" /\ ext' = MetaExt(i) /\ UNCHANGED <<err, ret>>
  BY <1>1
<1> HIDE DEF here, av
<1>12. pos' \in Nat /\ count' = pos' /\ pos' <= src.len
  BY <1>2, <1>5, <1>8, <1>9, <1>10
<1>13. e.size - here \in Nat
  BY <1>3, <1>9
<1>14. curr' \in CurrType /\ curr'.nb = e.size - here /\ Inside(curr')
  <2>1. Reg(e.size - here) \in CurrType /\ Reg(e.size - here).nb = e.size - here
        /\ Inside(Reg(e.size - here))
    BY <1>13, RegType
  <2> QED  BY <2>1, <1>10, Zenon
<1>15. pos' + curr'.nb = pos + blockSize + e.size
  BY <1>2, <1>3, <1>9, <1>10, <1>14
<1>16. \/ \E er \in {"ErrUnexpectedEOF", "ErrHeader"} : NextReturns(er)
       \/ /\ e.valid /\ curr'.nb = 0
          /\ pc' = "skip" /\ ext' = MetaExt(i) /\ UNCHANGED <<err, ret>>
  <2>1. ~(here < e.size) => here = e.size /\ e.size - here = 0
    BY <1>3, <1>9
  <2> QED  BY <1>3, <1>11, <1>14, <2>1
<1> QED  BY <1>3, <1>10, <1>12, <1>14, <1>15, <1>16

\* A failure in the data that Next reads leaves the rest of the data.
LEMMA DataErrorFacts ==
  ASSUME TypeInv, NextDataIOError
  PROVE  /\ pos' \in Nat /\ count' = pos' /\ pad' \in 0 .. blockSize - 1
         /\ curr' \in CurrType /\ Inside(curr')
<1>1. PICK i \in 1 .. Len(src.entries) :
       LET e == src.entries[i]
           size == IF IsFile(e) THEN mergePAX(e, ext.size) ELSE e.size
           n == DataSize(e.type, size) IN
       /\ n >= 0 /\ pad' = PadOf(n)
       /\ \E k \in 0 .. Least(ReadByNext(e, n), Avail(pos + blockSize)) :
            /\ Advance(blockSize + k)
            /\ curr' = Reg(IF e.type = "sparse" THEN n ELSE n - k)
  BY DEF NextDataIOError
<1> DEFINE e == src.entries[i]
           size == IF IsFile(e) THEN mergePAX(e, ext.size) ELSE e.size
           n == DataSize(e.type, size)
           r == ReadByNext(e, n)
           av == Avail(pos + blockSize)
<1>2. src \in Sources /\ e \in EntryType /\ pos \in Nat /\ count = pos
      /\ blockSize \in Nat /\ ext.size \in Int
  BY SourceFacts, ConstantsAssumption DEF TypeInv, ExtType
<1>3. /\ e.size \in Int /\ e.blocks \in Nat
      /\ e.type \in {"reg", "dir", "sparse", "x", "L"}
  BY <1>2 DEF EntryType
<1>4. size \in Int
  BY <1>2, <1>3 DEF mergePAX
<1>5. n \in Nat /\ pad' = PadOf(n)
  <2>1. n \in Int
    BY <1>3, <1>4 DEF DataSize
  <2> QED  BY <1>1, <2>1
<1>6. PICK k \in 0 .. Least(r, av) :
         Advance(blockSize + k) /\ curr' = Reg(IF e.type = "sparse" THEN n ELSE n - k)
  BY <1>1
<1>7. av \in Nat
  BY <1>2, AvailFacts
<1> HIDE DEF size, n, av
<1>8. r \in Nat /\ (e.type # "sparse" => r <= n)
  <2>1. e.blocks * blockSize \in Nat
    BY <1>2, <1>3
  <2>2. Least(n, e.blocks * blockSize) \in Nat /\ Least(n, e.blocks * blockSize) <= n
    BY <2>1, <1>5 DEF Least
  <2> QED  BY <2>1, <2>2, <1>3, <1>5 DEF ReadByNext, IsFile
<1> HIDE DEF r
<1>9. k \in Nat /\ k <= r
  BY <1>6, <1>7, <1>8 DEF Least
<1>10. PICK m \in Nat : m = IF e.type = "sparse" THEN n ELSE n - k
  <2>1. e.type # "sparse" => n - k \in Nat
    BY <1>5, <1>8, <1>9
  <2> QED  BY <2>1, <1>5
<1>11. Reg(m) \in CurrType /\ Inside(Reg(m)) /\ curr' = Reg(m)
  BY <1>6, <1>10, RegType
<1>12. pos' \in Nat /\ count' = pos'
  BY <1>2, <1>6, <1>9 DEF Advance
<1>13. pad' \in 0 .. blockSize - 1
  <2>1. n \in Int
    BY <1>5
  <2> QED  BY <2>1, <1>5, PadType
<1> QED  BY <1>11, <1>12, <1>13, Zenon

\* A file: Next fails, or leaves the reader where the rest of the data is as
\* long as the merged size says.
LEMMA FileFacts ==
  ASSUME TypeInv, ReadFile
  PROVE  \E i \in 1 .. Len(src.entries) :
           LET e == src.entries[i]
               n == DataSize(e.type, mergePAX(e, ext.size))
               blocks == IF e.type = "sparse" THEN blockSize * e.blocks ELSE 0 IN
           /\ HeaderAt(i) /\ IsFile(e) /\ e.valid /\ DataSize(e.type, e.size) >= 0
           /\ pos' \in Nat /\ count' = pos' /\ pos' <= src.len
           /\ pad' \in 0 .. blockSize - 1 /\ curr' \in CurrType /\ Inside(curr')
           /\ \/ /\ \E er \in {"ErrUnexpectedEOF", "ErrHeader"} : NextReturns(er)
                 /\ UNCHANGED <<cur, seen>>
              \/ /\ NextReturns("nil") /\ mergePAX(e, ext.size) # Bad /\ n \in Nat
                 /\ pad' = PadOf(n) /\ pos' + curr'.nb = pos + blockSize + blocks + n
                 /\ cur' = i /\ seen' = Append(seen, i)
<1>1. PICK i \in 1 .. Len(src.entries) :
       LET e == src.entries[i]
           size == mergePAX(e, ext.size)
           n == DataSize(e.type, size)
           s == handleSparseFile(e, size, n) IN
       /\ HeaderAt(i) /\ IsFile(e) /\ e.valid /\ DataSize(e.type, e.size) >= 0
       /\ IF size = Bad \/ n < 0
          THEN /\ Advance(blockSize) /\ NextReturns("ErrHeader")
               /\ pad' = PadOf(DataSize(e.type, e.size))
               /\ curr' = Reg(DataSize(e.type, e.size))
               /\ UNCHANGED <<cur, name, got, seen>>
          ELSE /\ Advance(blockSize + s.read) /\ NextReturns(s.err)
               /\ pad' = PadOf(n) /\ curr' = s.curr
               /\ IF s.err = "nil"
                  THEN /\ cur' = i /\ name' = ext.name /\ got' = <<>>
                       /\ seen' = Append(seen, i)
                  ELSE UNCHANGED <<cur, name, got, seen>>
  BY DEF ReadFile
<1> DEFINE e == src.entries[i]
           size == mergePAX(e, ext.size)
           n == DataSize(e.type, size)
           n0 == DataSize(e.type, e.size)
           s == handleSparseFile(e, size, n)
           av == Avail(pos + blockSize)
           blocks == IF e.type = "sparse" THEN blockSize * e.blocks ELSE 0
<1>2. src \in Sources /\ e \in EntryType /\ src.len \in Nat /\ pos \in Nat /\ count = pos
      /\ blockSize \in Nat /\ blockSize > 0 /\ ext.size \in Int
  BY SourceFacts, ConstantsAssumption DEF TypeInv, ExtType
<1>3. e.size \in Int /\ e.blocks \in Nat
  BY <1>2 DEF EntryType
<1>4. size \in Int
  BY <1>2, <1>3 DEF mergePAX
<1>5. n \in Int /\ n0 \in Int
  BY <1>3, <1>4 DEF DataSize
<1>6. /\ av \in Nat /\ pos + blockSize \in Nat
      /\ (pos + blockSize <= src.len => (pos + blockSize) + av = src.len)
  BY <1>2, AvailFacts
<1>7. Avail(pos) \in Nat /\ (pos <= src.len => pos + Avail(pos) = src.len)
      /\ (pos > src.len => Avail(pos) = 0)
  BY <1>2, AvailFacts
<1>8. Avail(pos) >= blockSize
  BY DEF ReadFile
<1>9. pos + blockSize <= src.len
  BY <1>2, <1>7, <1>8
<1>10. HeaderAt(i) /\ IsFile(e) /\ e.valid /\ n0 >= 0
  BY <1>1
<1>11. PadOf(n) \in 0 .. blockSize - 1 /\ PadOf(n0) \in 0 .. blockSize - 1
  BY <1>5, PadType
<1>12. CASE size = Bad \/ n < 0
  <2>1. /\ pos' = pos + blockSize /\ count' = count + blockSize /\ NextReturns("ErrHeader")
        /\ pad' = PadOf(n0) /\ curr' = Reg(n0) /\ UNCHANGED <<cur, seen>>
    BY <1>1, <1>12 DEF Advance
  <2> HIDE DEF n, size, n0, s, e
  <2>2. n0 \in Nat
    BY <1>5, <1>10
  <2>3. curr' \in CurrType /\ Inside(curr')
    <3>1. Reg(n0) \in CurrType /\ Inside(Reg(n0))
      BY <2>2, RegType
    <3> QED  BY <2>1, <3>1, Zenon
  <2>4. pos' \in Nat /\ count' = pos' /\ pos' <= src.len
    BY <2>1, <1>2, <1>9
  <2>5. pad' \in 0 .. blockSize - 1
    BY <2>1, <1>11
  <2>6. /\ HeaderAt(i) /\ IsFile(e) /\ e.valid /\ DataSize(e.type, e.size) >= 0
        /\ pos' \in Nat /\ count' = pos' /\ pos' <= src.len
        /\ pad' \in 0 .. blockSize - 1 /\ curr' \in CurrType /\ Inside(curr')
        /\ \E er \in {"ErrUnexpectedEOF", "ErrHeader"} : NextReturns(er)
        /\ UNCHANGED <<cur, seen>>
    BY <1>10, <2>1, <2>3, <2>4, <2>5 DEF n0
  <2> QED  BY <2>6 DEF e
<1>13. CASE ~(size = Bad \/ n < 0)
  <2>1. /\ pos' = pos + (blockSize + s.read) /\ count' = count + (blockSize + s.read)
        /\ NextReturns(s.err) /\ pad' = PadOf(n) /\ curr' = s.curr
        /\ IF s.err = "nil" THEN cur' = i /\ seen' = Append(seen, i)
                            ELSE UNCHANGED <<cur, seen>>
    BY <1>1, <1>13 DEF Advance
  <2>2. n \in Nat /\ size # Bad
    BY <1>5, <1>13
  <2>3. /\ s.err \in {"nil", "ErrUnexpectedEOF", "ErrHeader"}
        /\ s.read \in Nat /\ s.read <= av
        /\ s.curr \in CurrType /\ Inside(s.curr)
        /\ s.err = "nil" =>
             IF e.type = "sparse" THEN s.read = blockSize * e.blocks /\ s.curr.nb = n
                                  ELSE s.read + s.curr.nb = n
    <3> HIDE DEF e, size, n
    <3> QED  BY SparseSetup, <1>2, <1>4, <2>2
  <2> HIDE DEF s, n, size, av, e
  <2>4. pos' \in Nat /\ count' = pos' /\ pos' <= src.len
    BY <2>1, <2>3, <1>2, <1>6, <1>9
  <2>5. pad' \in 0 .. blockSize - 1
    BY <2>1, <1>11
  <2>6. curr' \in CurrType /\ Inside(curr')
    BY <2>1, <2>3, Zenon
  <2>7. CASE s.err = "nil"
    <3>1. curr'.nb \in Nat /\ curr'.nb = s.curr.nb
      BY <2>1, <2>6 DEF CurrType
    <3>2. blocks \in Nat /\ s.read + curr'.nb = blocks + n
      <4>1. CASE e.type = "sparse"
        <5>1. blocks = blockSize * e.blocks /\ blockSize * e.blocks \in Nat
          BY <4>1, <1>2, <1>3
        <5> QED  BY <4>1, <5>1, <2>3, <2>7, <3>1
      <4>2. CASE e.type # "sparse"
        BY <4>2, <2>2, <2>3, <2>7, <3>1
      <4> QED  BY <4>1, <4>2
    <3> HIDE DEF blocks
    <3>3. pos' + curr'.nb = pos + blockSize + blocks + n
      <4>1. PICK r \in Nat : r = s.read
        BY <2>3
      <4>2. PICK c \in Nat : c = curr'.nb
        BY <3>1
      <4>3. r + c = blocks + n
        BY <3>2, <4>1, <4>2
      <4>4. (pos + (blockSize + r)) + c = pos + blockSize + blocks + n
        BY <1>2, <2>2, <3>2, <4>3
      <4> QED  BY <2>1, <4>1, <4>2, <4>4
    <3>4. /\ HeaderAt(i) /\ IsFile(e) /\ e.valid /\ DataSize(e.type, e.size) >= 0
          /\ pos' \in Nat /\ count' = pos' /\ pos' <= src.len
          /\ pad' \in 0 .. blockSize - 1 /\ curr' \in CurrType /\ Inside(curr')
          /\ NextReturns("nil") /\ size # Bad /\ n \in Nat
          /\ pad' = PadOf(n) /\ pos' + curr'.nb = pos + blockSize + blocks + n
          /\ cur' = i /\ seen' = Append(seen, i)
      BY <1>10, <2>1, <2>2, <2>4, <2>5, <2>6, <2>7, <3>3
    <3> QED  BY <3>4 DEF e, n, size, blocks
  <2>8. CASE s.err # "nil"
    <3>1. \E er \in {"ErrUnexpectedEOF", "ErrHeader"} : NextReturns(er)
      BY <2>1, <2>3, <2>8
    <3>2. /\ HeaderAt(i) /\ IsFile(e) /\ e.valid /\ DataSize(e.type, e.size) >= 0
          /\ pos' \in Nat /\ count' = pos' /\ pos' <= src.len
          /\ pad' \in 0 .. blockSize - 1 /\ curr' \in CurrType /\ Inside(curr')
          /\ \E er \in {"ErrUnexpectedEOF", "ErrHeader"} : NextReturns(er)
          /\ UNCHANGED <<cur, seen>>
      BY <1>10, <2>1, <2>4, <2>5, <2>6, <2>8, <3>1
    <3> QED  BY <3>2 DEF e
  <2> QED  BY <2>7, <2>8
<1> QED  BY <1>12, <1>13

\* What a Read that is not refused does: it returns n bytes, d of them from the
\* stream, and no byte only with a reason.
ReadEffect(m) ==
  /\ pc = "idle" /\ err = "nil"
  /\ UNCHANGED <<src, pad, pc, ext, ckpt, resumes, cur, name, seen, stray>>
  /\ \E n, d \in Nat, e \in Errors :
       /\ pos' = pos + d /\ count' = count + d /\ d <= Avail(pos)
       /\ curr' \in CurrType /\ Inside(curr') /\ curr'.nb + d = curr.nb
       /\ ReadReturns(m, n, e) /\ (m > 0 /\ n = 0 => e # "nil")

\* regFileReader.Read.
LEMMA RegEffect ==
  ASSUME TypeInv, SparseInv, NEW m \in Nat, ReadReg(m)
  PROVE  ReadEffect(m)
<1>1. PICK u \in RegRead(m) :
        /\ pos' = pos + u.n /\ count' = count + u.n /\ curr' = [curr EXCEPT !.nb = @ - u.n]
        /\ ReadReturns(m, u.n, u.err)
  BY DEF ReadReg, Advance
<1>2. /\ u.n \in Nat /\ u.n <= curr.nb /\ u.n <= Avail(pos) /\ u.err \in Errors
      /\ (m > 0 /\ u.n = 0 => u.err # "nil")
  BY RegReadFacts
<1>3. curr \in CurrType /\ curr.kind = "reg" /\ curr.nb \in Nat
  BY DEF TypeInv, CurrType, ReadReg
<1>4. curr.nb - u.n \in Nat /\ (curr.nb - u.n) + u.n = curr.nb
  BY <1>2, <1>3
<1>5. curr' \in CurrType /\ curr'.kind = "reg" /\ curr'.nb = curr.nb - u.n
  BY <1>1, <1>3, <1>4 DEF CurrType
<1>6. Inside(curr')
  BY <1>5 DEF Inside
<1>7. curr'.nb + u.n = curr.nb
  BY <1>4, <1>5
<1>8. pc = "idle" /\ err = "nil"
      /\ UNCHANGED <<src, pad, pc, ext, ckpt, resumes, cur, name, seen, stray>>
  BY DEF ReadReg
<1> QED  BY <1>1, <1>2, <1>5, <1>6, <1>7, <1>8 DEF ReadEffect

\* The current sparse file, its empty fragments skipped.
LEMMA SparseHere ==
  ASSUME TypeInv, SparseInv, curr.kind = "sparse"
  PROVE  /\ curr \in CurrType /\ curr.nb \in Nat /\ Live(curr.sp) \in Seq(Fragment)
         /\ FragmentsOK(Live(curr.sp), curr.fpos, curr.total)
         /\ Live(curr.sp) # <<>> =>
              Len(Live(curr.sp)) >= 1 /\ Live(curr.sp)[1].numBytes # 0
         /\ curr.fpos \in Nat /\ curr.total \in Nat /\ curr.fpos <= curr.total
<1>1. curr \in CurrType /\ curr.nb \in Nat /\ curr.sp \in Seq(Fragment)
  BY DEF TypeInv, CurrType
<1>2. FragmentsOK(curr.sp, curr.fpos, curr.total)
  BY DEF SparseInv, Inside
<1>3. /\ Live(curr.sp) \in Seq(Fragment) /\ \E d : Suffix(Live(curr.sp), curr.sp, d)
      /\ Live(curr.sp) # <<>> => Len(Live(curr.sp)) >= 1 /\ Live(curr.sp)[1].numBytes # 0
  BY <1>1, LiveSuffix
<1>4. FragmentsOK(Live(curr.sp), curr.fpos, curr.total)
  BY <1>1, <1>2, <1>3, SuffixOK
<1> QED  BY <1>1, <1>2, <1>3, <1>4 DEF FragmentsOK

\* The position may move up to the start of the first fragment.
LEMMA HoleMoves ==
  ASSUME NEW sp \in Seq(Fragment), NEW f \in Nat, NEW t \in Nat, NEW g \in Nat,
         FragmentsOK(sp, f, t), g <= t, sp # <<>> => g <= sp[1].offset
  PROVE  FragmentsOK(sp, g, t)
<1>1. Len(sp) \in Nat
  OBVIOUS
<1>2. ASSUME NEW i \in 1 .. Len(sp)
      PROVE  /\ g <= sp[i].offset + sp[i].numBytes
             /\ sp[i].numBytes # 0 => g < sp[i].offset + sp[i].numBytes
  <2>1. 1 \in 1 .. Len(sp) /\ sp # <<>> /\ (i = 1 \/ 1 < i)
    BY <1>1
  <2>2. sp[1] \in Fragment /\ sp[i] \in Fragment
    BY <2>1
  <2>3. sp[1].offset \in Int /\ sp[1].numBytes \in Int
        /\ sp[i].offset \in Int /\ sp[i].numBytes \in Int
    BY <2>2 DEF Fragment
  <2>4. sp[1].numBytes >= 0 /\ sp[i].numBytes >= 0
        /\ (i = 1 \/ sp[1].offset + sp[1].numBytes <= sp[i].offset)
    BY <2>1 DEF FragmentsOK
  <2>5. g <= sp[1].offset
    BY <2>1
  <2>6. g <= sp[i].offset
    BY <2>3, <2>4, <2>5
  <2> QED  BY <2>3, <2>4, <2>6
<1> QED  BY <1>2 DEF FragmentsOK

\* readHole.
LEMMA HoleEffect ==
  ASSUME TypeInv, SparseInv, NEW m \in Nat, ReadHole(m)
  PROVE  ReadEffect(m)
<1> DEFINE sp == Live(curr.sp)
           n == Least(HoleEnd(sp) - curr.fpos, m)
           g == curr.fpos + n
<1>1. /\ curr.fpos < HoleEnd(sp) /\ curr' = [curr EXCEPT !.sp = sp, !.fpos = g]
      /\ ReadReturns(m, n, "nil")
  BY DEF ReadHole
<1>2. pc = "idle" /\ err = "nil" /\ curr.kind = "sparse"
      /\ UNCHANGED <<src, pad, pc, ext, ckpt, resumes, cur, name, seen, stray>>
      /\ UNCHANGED <<pos, count>>
  BY DEF ReadHole
<1>3. /\ curr \in CurrType /\ curr.nb \in Nat /\ sp \in Seq(Fragment)
      /\ FragmentsOK(sp, curr.fpos, curr.total)
      /\ sp # <<>> => Len(sp) >= 1 /\ sp[1].numBytes # 0
      /\ curr.fpos \in Nat /\ curr.total \in Nat /\ curr.fpos <= curr.total
  BY <1>2, SparseHere
<1> HIDE DEF sp
<1>4. HoleEnd(sp) \in Int /\ HoleEnd(sp) <= curr.total /\ (sp # <<>> => HoleEnd(sp) = sp[1].offset)
  <2>1. CASE sp = <<>>
    BY <2>1, <1>3 DEF HoleEnd
  <2>2. CASE sp # <<>>
    <3>1. 1 \in 1 .. Len(sp)
      BY <2>2, <1>3
    <3>2. sp[1] \in Fragment
      BY <3>1, <1>3
    <3>3. sp[1].offset \in Int /\ sp[1].numBytes \in Int
      BY <3>2 DEF Fragment
    <3>4. sp[1].numBytes >= 0 /\ sp[1].offset + sp[1].numBytes <= curr.total
      BY <3>1, <1>3 DEF FragmentsOK
    <3>5. sp[1].offset <= curr.total
      BY <3>3, <3>4, <1>3
    <3> QED  BY <2>2, <3>3, <3>5 DEF HoleEnd
  <2> QED  BY <2>1, <2>2
<1> DEFINE he == HoleEnd(sp)
<1> HIDE DEF he
<1>5. n \in Nat /\ (m > 0 => n > 0) /\ g <= HoleEnd(sp) /\ g \in Nat
  BY <1>1, <1>3, <1>4 DEF Least
<1> HIDE DEF n
<1>6. g \in Nat /\ g <= curr.total /\ (sp # <<>> => g <= sp[1].offset)
  BY <1>3, <1>4, <1>5
<1> HIDE DEF g
<1>7. FragmentsOK(sp, g, curr.total)
  BY <1>3, <1>6, HoleMoves
<1>8. curr' \in CurrType /\ curr'.nb = curr.nb /\ curr'.sp = sp /\ curr'.fpos = g
      /\ curr'.total = curr.total
  <2>1. g \in Int
    BY <1>6
  <2>2. curr' = [curr EXCEPT !.sp = sp, !.fpos = g]
    BY <1>1 DEF g
  <2>3. curr' \in CurrType
    BY <2>1, <2>2, <1>3 DEF CurrType
  <2>4. curr'.nb = curr.nb /\ curr'.total = curr.total
    BY <2>2, <1>3 DEF CurrType
  <2>5. curr'.sp = sp /\ curr'.fpos = g
    BY <2>2, <1>3 DEF CurrType
  <2> QED  BY <2>3, <2>4, <2>5
<1>9. Inside(curr')
  BY <1>7, <1>8 DEF Inside
<1>10. /\ 0 \in Nat /\ pos' = pos + 0 /\ count' = count + 0 /\ 0 <= Avail(pos)
       /\ curr'.nb + 0 = curr.nb
  <2>1. pos \in Nat /\ src \in Sources /\ count = pos
    BY DEF TypeInv
  <2>2. Avail(pos) \in Nat
    BY <2>1, AvailFacts
  <2> QED  BY <1>2, <1>3, <1>8, <2>1, <2>2
<1>11. "nil" \in Errors /\ ~(m > 0 /\ n = 0)
  BY <1>5 DEF Errors
<1> QED  BY <1>1, <1>2, <1>5, <1>8, <1>9, <1>10, <1>11 DEF ReadEffect

\* sparseFileReader.Read at the end of the file.
LEMMA SparseEndEffect ==
  ASSUME TypeInv, SparseInv, NEW m \in Nat, ReadSparseEnd(m)
  PROVE  ReadEffect(m)
<1>1. /\ pc = "idle" /\ err = "nil" /\ curr.kind = "sparse" /\ Live(curr.sp) = <<>>
      /\ curr' = [curr EXCEPT !.sp = <<>>] /\ ReadReturns(m, 0, "EOF")
      /\ UNCHANGED <<src, pad, pc, ext, ckpt, resumes, cur, name, seen, stray>>
      /\ UNCHANGED <<pos, count>>
  BY DEF ReadSparseEnd, histVars
<1>2. /\ curr \in CurrType /\ curr.nb \in Nat
      /\ FragmentsOK(<<>>, curr.fpos, curr.total)
  BY <1>1, SparseHere
<1>3. <<>> \in Seq(Fragment)
  OBVIOUS
<1>4. curr' \in CurrType /\ curr'.nb = curr.nb /\ curr'.sp = <<>> /\ curr'.fpos = curr.fpos
      /\ curr'.total = curr.total
  BY <1>1, <1>2, <1>3 DEF CurrType
<1>5. Inside(curr')
  BY <1>2, <1>4 DEF Inside
<1>6. /\ 0 \in Nat /\ pos' = pos + 0 /\ count' = count + 0 /\ 0 <= Avail(pos)
      /\ curr'.nb + 0 = curr.nb
  BY <1>1, <1>2, <1>4, AvailFacts DEF TypeInv
<1>7. "EOF" \in Errors /\ "EOF" # "nil"
  BY DEF Errors
<1> QED  BY <1>1, <1>4, <1>5, <1>6, <1>7 DEF ReadEffect

\* sparseFileReader.Read in a fragment.
LEMMA FragmentEffect ==
  ASSUME TypeInv, SparseInv, NEW m \in Nat, ReadFragment(m)
  PROVE  ReadEffect(m)
<1> DEFINE sp == Live(curr.sp)
           endPos == Add64(sp[1].offset, sp[1].numBytes)
           b == Least(m, endPos - curr.fpos)
<1>1. PICK u \in RegRead(b) :
        LET fpos == curr.fpos + u.n
            e == IF u.err # "EOF" THEN u.err
                 ELSE IF fpos < endPos THEN "ErrUnexpectedEOF"
                 ELSE IF fpos < curr.total THEN "nil" ELSE "EOF"
        IN /\ pos' = pos + u.n /\ count' = count + u.n
           /\ curr' = [curr EXCEPT !.nb = @ - u.n, !.fpos = fpos,
                                   !.sp = IF fpos = endPos THEN Tail(sp) ELSE sp]
           /\ ReadReturns(m, u.n, e)
  BY DEF ReadFragment, Advance
<1>2. pc = "idle" /\ err = "nil" /\ curr.kind = "sparse" /\ sp # <<>>
      /\ curr.fpos >= sp[1].offset
      /\ UNCHANGED <<src, pad, pc, ext, ckpt, resumes, cur, name, seen, stray>>
  BY DEF ReadFragment
<1>3. /\ curr \in CurrType /\ curr.nb \in Nat /\ sp \in Seq(Fragment)
      /\ FragmentsOK(sp, curr.fpos, curr.total)
      /\ Len(sp) >= 1 /\ sp[1].numBytes # 0
      /\ curr.fpos \in Nat /\ curr.total \in Nat /\ curr.fpos <= curr.total
  BY <1>2, SparseHere
<1> HIDE DEF sp
<1>4. /\ 1 \in 1 .. Len(sp) /\ sp[1].offset \in Int /\ sp[1].numBytes \in Int
      /\ Len(sp) \in Nat
  <2>1. 1 \in 1 .. Len(sp) /\ Len(sp) \in Nat
    BY <1>3
  <2>2. sp[1] \in Fragment
    BY <2>1, <1>3
  <2> QED  BY <2>1, <2>2 DEF Fragment
<1>5. endPos = sp[1].offset + sp[1].numBytes /\ endPos <= curr.total /\ curr.fpos < endPos
      /\ endPos \in Int
  <2>1. /\ sp[1].offset + sp[1].numBytes <= maxInt64
        /\ sp[1].offset + sp[1].numBytes <= curr.total
        /\ curr.fpos < sp[1].offset + sp[1].numBytes
    BY <1>3, <1>4 DEF FragmentsOK
  <2>2. endPos = sp[1].offset + sp[1].numBytes
    BY <2>1, <1>4, ConstantsAssumption DEF Add64
  <2> QED  BY <2>1, <2>2, <1>4
<1> HIDE DEF endPos
<1>6. b \in Nat /\ b <= endPos - curr.fpos /\ (m > 0 => b > 0)
  BY <1>3, <1>5 DEF Least
<1> HIDE DEF b
<1>7. /\ u.n \in Nat /\ u.n <= b /\ u.n <= curr.nb /\ u.n <= Avail(pos) /\ u.err \in Errors
      /\ (b > 0 /\ u.n = 0 => u.err # "nil")
  BY <1>6, RegReadFacts
<1> DEFINE fpos == curr.fpos + u.n
           q == IF fpos = endPos THEN Tail(sp) ELSE sp
           e == IF u.err # "EOF" THEN u.err
                ELSE IF fpos < endPos THEN "ErrUnexpectedEOF"
                ELSE IF fpos < curr.total THEN "nil" ELSE "EOF"
<1>8. /\ pos' = pos + u.n /\ count' = count + u.n
      /\ curr' = [curr EXCEPT !.nb = @ - u.n, !.fpos = fpos, !.sp = q]
      /\ ReadReturns(m, u.n, e)
  BY <1>1
<1>9. fpos \in Nat /\ fpos <= endPos /\ (u.n = 0 => fpos < endPos)
  BY <1>3, <1>5, <1>6, <1>7
<1> HIDE DEF fpos
<1>10. q \in Seq(Fragment) /\ FragmentsOK(q, fpos, curr.total)
  <2>1. ASSUME NEW i \in 1 .. Len(sp), i > 1 PROVE endPos <= sp[i].offset
    BY <2>1, <1>3, <1>4, <1>5 DEF FragmentsOK
  <2>2. ASSUME NEW i \in 1 .. Len(sp), i > 1
        PROVE  /\ fpos <= sp[i].offset + sp[i].numBytes
               /\ sp[i].numBytes # 0 => fpos < sp[i].offset + sp[i].numBytes
    <3>1. endPos <= sp[i].offset
      BY <2>1, <2>2
    <3>2. sp[i] \in Fragment /\ sp[i].numBytes >= 0
      BY <1>3 DEF FragmentsOK
    <3>3. sp[i].offset \in Int /\ sp[i].numBytes \in Int
      BY <3>2 DEF Fragment
    <3> QED  BY <3>1, <3>2, <3>3, <1>5, <1>9
  <2>3. fpos <= curr.total
    BY <1>3, <1>5, <1>9
  <2>4. CASE fpos = endPos
    <3> DEFINE r == Tail(sp)
    <3>1. r \in Seq(Fragment) /\ Len(r) + 1 = Len(sp) /\ Len(r) \in Nat
          /\ \A i \in 1 .. Len(r) : r[i] = sp[i + 1]
      BY <1>3, <1>4
    <3>2. q = r
      BY <2>4
    <3> HIDE DEF r, q
    <3>3. Suffix(r, sp, 1)
      BY <3>1 DEF Suffix
    <3>4. FragmentsOK(r, curr.fpos, curr.total)
      BY <3>3, <1>3, SuffixOK
    <3>5. ASSUME NEW i \in 1 .. Len(r)
          PROVE  /\ fpos <= r[i].offset + r[i].numBytes
                 /\ r[i].numBytes # 0 => fpos < r[i].offset + r[i].numBytes
      <4>1. i + 1 \in 1 .. Len(sp) /\ i + 1 > 1 /\ r[i] = sp[i + 1]
        BY <3>1
      <4> QED  BY <4>1, <2>2
    <3>6. FragmentsOK(r, fpos, curr.total)
      BY <3>4, <3>5, <1>9, <2>3, <1>3 DEF FragmentsOK
    <3> QED  BY <3>1, <3>2, <3>6
  <2>5. CASE fpos # endPos
    <3>1. q = sp
      BY <2>5
    <3>2. fpos < sp[1].offset + sp[1].numBytes
      BY <2>5, <1>5, <1>9
    <3>3. ASSUME NEW i \in 1 .. Len(sp)
          PROVE  /\ fpos <= sp[i].offset + sp[i].numBytes
                 /\ sp[i].numBytes # 0 => fpos < sp[i].offset + sp[i].numBytes
      <4>1. CASE i = 1
        BY <4>1, <3>2, <1>4, <1>9
      <4>2. CASE i > 1
        BY <4>2, <2>2
      <4> QED  BY <4>1, <4>2, <1>4
    <3>4. FragmentsOK(sp, fpos, curr.total)
      BY <3>3, <1>3, <1>9, <2>3 DEF FragmentsOK
    <3> QED  BY <3>1, <3>4, <1>3
  <2> QED  BY <2>4, <2>5
<1> HIDE DEF q
<1>11. e \in Errors /\ (m > 0 /\ u.n = 0 => e # "nil")
  BY <1>6, <1>7, <1>9 DEF Errors
<1> HIDE DEF e
<1>12. curr.nb - u.n \in Nat /\ (curr.nb - u.n) + u.n = curr.nb
  BY <1>3, <1>7
<1>13. curr' \in CurrType /\ curr'.nb = curr.nb - u.n /\ curr'.sp = q /\ curr'.fpos = fpos
       /\ curr'.total = curr.total
  <2>1. fpos \in Int /\ q \in Seq(Fragment)
    BY <1>9, <1>10
  <2>2. PICK x \in Nat : x = curr.nb - u.n
    BY <1>12
  <2>3. curr' = [curr EXCEPT !.nb = x, !.fpos = fpos, !.sp = q]
    BY <1>8, <2>2
  <2>4. curr' \in CurrType
    BY <2>1, <2>3, <1>3 DEF CurrType
  <2>5. curr'.nb = x /\ curr'.sp = q /\ curr'.fpos = fpos /\ curr'.total = curr.total
    BY <2>3, <1>3 DEF CurrType
  <2> QED  BY <2>2, <2>4, <2>5
<1>14. Inside(curr')
  BY <1>10, <1>13 DEF Inside
<1>15. curr'.nb + u.n = curr.nb
  BY <1>12, <1>13
<1> QED  BY <1>2, <1>7, <1>8, <1>11, <1>13, <1>14, <1>15 DEF ReadEffect

\* What a step of Next does to the types.
NextEffect ==
  /\ pc \in {"skip", "header"} /\ UNCHANGED <<src, ckpt, resumes>>
  /\ pos' \in Nat /\ count' = pos' /\ pad' \in 0 .. blockSize - 1
  /\ curr' \in CurrType /\ Inside(curr')
  /\ cur' \in 0 .. Len(src.entries) /\ seen' \in Seq(Nat) /\ stray' \in BOOLEAN
  /\ \/ pc' \in {"skip", "header"} /\ ext' \in ExtType /\ UNCHANGED <<err, ret>>
     \/ \E e \in Errors : NextReturns(e)

\* What the reader keeps of a meta entry.
LEMMA MetaExtType ==
  ASSUME TypeInv, NEW i \in 1 .. Len(src.entries)
  PROVE  MetaExt(i) \in ExtType
<1>1. i \in Nat /\ 0 \in Nat /\ src.entries[i] \in EntryType /\ ext \in ExtType
  BY SourceFacts DEF TypeInv
<1>2. PICK e \in EntryType : e = src.entries[i]
  BY <1>1
<1>3. /\ e.named \in BOOLEAN /\ e.rsize \in Int /\ e.fmt \in Formats /\ e.sp \in Seq(Fragment)
      /\ e.mapok \in BOOLEAN /\ e.total \in Int
  BY <1>2 DEF EntryType, Fragment
<1>4. CASE e.type = "x"
  <2>1. MetaExt(i) = [name |-> IF e.named THEN i ELSE 0, size |-> e.rsize, fmt |-> e.fmt,
                      sp |-> e.sp, mapok |-> e.mapok, total |-> e.total]
    BY <1>2, <1>4 DEF MetaExt
  <2>2. (IF e.named THEN i ELSE 0) \in Nat
    BY <1>1
  <2> DEFINE nm == IF e.named THEN i ELSE 0
  <2> HIDE DEF nm
  <2>3. nm \in Nat /\ MetaExt(i) = [name |-> nm, size |-> e.rsize, fmt |-> e.fmt,
                      sp |-> e.sp, mapok |-> e.mapok, total |-> e.total]
    BY <2>1, <2>2 DEF nm
  <2>4. ASSUME NEW a \in Nat, NEW b \in Int, NEW c \in Formats, NEW d \in Seq(Fragment),
               NEW f \in BOOLEAN, NEW g \in Int
        PROVE  [name |-> a, size |-> b, fmt |-> c, sp |-> d, mapok |-> f, total |-> g]
                 \in ExtType
    BY Zenon DEF ExtType
  <2> QED  BY <2>3, <2>4, <1>3
<1>5. CASE e.type # "x"
  <2>1. MetaExt(i) = [ext EXCEPT !.name = i]
    BY <1>2, <1>5 DEF MetaExt
  <2> QED  BY <2>1, <1>1 DEF ExtType
<1> QED  BY <1>4, <1>5

\* Every step of Next is of that form.
LEMMA NextMoves ==
  ASSUME TypeInv, SparseInv, NextStep \/ NextIOError \/ NextDataIOError
  PROVE  NextEffect
<1>0. /\ src \in Sources /\ src.len \in Nat /\ pos \in Nat /\ count = pos
      /\ blockSize \in Nat /\ blockSize > 0 /\ pad \in 0 .. blockSize - 1
      /\ curr \in CurrType /\ cur \in 0 .. Len(src.entries) /\ seen \in Seq(Nat)
      /\ stray \in BOOLEAN /\ Inside(curr) /\ Len(src.entries) \in Nat
  BY SourceFacts, ConstantsAssumption DEF TypeInv, SparseInv
<1>1. NoCurr \in CurrType /\ Inside(NoCurr) /\ 0 \in 0 .. blockSize - 1
  <2>1. 0 \in Nat
    OBVIOUS
  <2>2. NoCurr \in CurrType /\ Inside(NoCurr)
    BY <2>1, RegType
  <2> QED  BY <2>2, <1>0
<1>2. Avail(pos) \in Nat
  BY <1>0, AvailFacts
<1>3. CASE SkipUnread
  <2>1. /\ pos' \in Nat /\ count' = pos' /\ curr' = NoCurr /\ pad' = 0
        /\ \/ pc' = "header" /\ UNCHANGED <<err, ext, ret>>
           \/ \E e \in {"ErrUnexpectedEOF", "EOF"} : NextReturns(e)
    BY <1>3, SkipFacts
  <2>2. pc = "skip" /\ UNCHANGED <<src, ckpt, resumes>> /\ UNCHANGED <<cur, seen, stray>>
    BY <1>3 DEF SkipUnread, histVars
  <2>3. ext \in ExtType
    BY DEF TypeInv
  <2>4. \/ pc' \in {"skip", "header"} /\ ext' \in ExtType /\ UNCHANGED <<err, ret>>
        \/ \E e \in Errors : NextReturns(e)
    BY <2>1, <2>3 DEF Errors
  <2> QED  BY <2>1, <2>2, <2>4, <1>0, <1>1 DEF NextEffect
<1>4. CASE ReadHeaderEnd
  <2>1. /\ pc = "header" /\ UNCHANGED <<src, ckpt, resumes>> /\ UNCHANGED <<cur, seen, stray>>
        /\ UNCHANGED <<pad, curr>>
    BY <1>4 DEF ReadHeaderEnd, histVars
  <2>2. pos' \in Nat /\ count' = pos' /\ \E e \in Errors : NextReturns(e)
    <3>1. \A p : ReadFullError(p) \in Errors
      BY DEF ReadFullError, Errors
    <3>2. "EOF" \in Errors
      BY DEF Errors
    <3>3. \E n \in Nat, e \in Errors : Advance(n) /\ NextReturns(e)
      <4>1. 2 * blockSize \in Nat
        BY <1>0
      <4> QED  BY <1>4, <1>2, <3>1, <3>2, <4>1 DEF ReadHeaderEnd
    <3> QED  BY <3>3, <1>0 DEF Advance
  <2> QED  BY <2>1, <2>2, <1>0 DEF NextEffect
<1>5. CASE ReadStray
  <2>1. /\ pc = "header" /\ UNCHANGED <<src, ckpt, resumes>> /\ UNCHANGED <<cur, seen>>
        /\ UNCHANGED <<pad, curr>> /\ stray' = TRUE
    BY <1>5 DEF ReadStray, histVars
  <2>2. pos' \in Nat /\ count' = pos' /\ \E e \in Errors : NextReturns(e)
    BY <1>5, <1>0 DEF ReadStray, Advance, Errors
  <2> QED  BY <2>1, <2>2, <1>0 DEF NextEffect
<1>6. CASE ReadHeaderBad
  <2>1. /\ pc = "header" /\ UNCHANGED <<src, ckpt, resumes>> /\ UNCHANGED <<cur, seen, stray>>
        /\ UNCHANGED <<pad, curr>>
    BY <1>6 DEF ReadHeaderBad, histVars
  <2>2. pos' \in Nat /\ count' = pos' /\ \E e \in Errors : NextReturns(e)
    BY <1>6, <1>0 DEF ReadHeaderBad, Advance, Errors
  <2> QED  BY <2>1, <2>2, <1>0 DEF NextEffect
<1>7. CASE ReadMeta
  <2>1. PICK i \in 1 .. Len(src.entries) :
          /\ src.entries[i].size \in Nat
          /\ pos' \in Nat /\ count' = pos' /\ pad' = PadOf(src.entries[i].size)
          /\ curr' \in CurrType /\ Inside(curr')
          /\ \/ \E e \in {"ErrUnexpectedEOF", "ErrHeader"} : NextReturns(e)
             \/ pc' = "skip" /\ ext' = MetaExt(i) /\ UNCHANGED <<err, ret>>
    BY <1>7, MetaFacts
  <2>2. pc = "header" /\ UNCHANGED <<src, ckpt, resumes>> /\ UNCHANGED <<cur, seen, stray>>
    BY <1>7 DEF ReadMeta, histVars
  <2>3. pad' \in 0 .. blockSize - 1
    <3>1. src.entries[i].size \in Int
      BY <2>1
    <3> QED  BY <2>1, <3>1, PadType, Zenon
  <2>4. MetaExt(i) \in ExtType
    BY MetaExtType
  <2>5. \/ pc' \in {"skip", "header"} /\ ext' \in ExtType /\ UNCHANGED <<err, ret>>
        \/ \E e \in Errors : NextReturns(e)
    BY <2>1, <2>4 DEF Errors
  <2> QED  BY <2>1, <2>2, <2>3, <2>5, <1>0 DEF NextEffect
<1>8. CASE ReadFile
  <2>1. PICK i \in 1 .. Len(src.entries) :
          /\ pos' \in Nat /\ count' = pos' /\ pad' \in 0 .. blockSize - 1
          /\ curr' \in CurrType /\ Inside(curr')
          /\ \/ /\ \E er \in {"ErrUnexpectedEOF", "ErrHeader"} : NextReturns(er)
                /\ UNCHANGED <<cur, seen>>
             \/ NextReturns("nil") /\ cur' = i /\ seen' = Append(seen, i)
    BY <1>8, FileFacts
  <2>2. pc = "header" /\ UNCHANGED <<src, ckpt, resumes>> /\ stray' = stray
    BY <1>8 DEF ReadFile
  <2>3. i \in Nat /\ i \in 0 .. Len(src.entries) /\ Append(seen, i) \in Seq(Nat)
    BY <1>0
  <2>4. \E e \in Errors : NextReturns(e)
    BY <2>1 DEF Errors
  <2>5. cur' \in 0 .. Len(src.entries) /\ seen' \in Seq(Nat)
    BY <2>1, <2>3, <1>0
  <2> QED  BY <2>1, <2>2, <2>4, <2>5, <1>0 DEF NextEffect
<1>9. CASE NextIOError
  <2>1. /\ pc \in {"skip", "header"} /\ UNCHANGED <<src, ckpt, resumes>>
        /\ UNCHANGED <<cur, seen, stray>> /\ NextReturns("io") /\ "io" \in Errors
    BY <1>9 DEF NextIOError, histVars, Errors
  <2>2. pad' \in 0 .. blockSize - 1 /\ curr' \in CurrType /\ Inside(curr')
    <3>1. (curr' = NoCurr /\ pad' = 0) \/ UNCHANGED <<curr, pad>>
      BY <1>9 DEF NextIOError
    <3> QED  BY <3>1, <1>0, <1>1
  <2>3. pos' \in Nat /\ count' = pos'
    <3>1. PICK n \in 0 .. Least(blockSize, Avail(pos)) : Advance(n)
      BY <1>9 DEF NextIOError
    <3>2. n \in Nat
      BY <1>0, <1>2 DEF Least
    <3> QED  BY <3>1, <3>2, <1>0 DEF Advance
  <2> QED  BY <2>1, <2>2, <2>3, <1>0 DEF NextEffect
<1>10. CASE NextDataIOError
  <2>1. /\ pc = "header" /\ UNCHANGED <<src, ckpt, resumes>>
        /\ UNCHANGED <<cur, seen, stray>> /\ NextReturns("io") /\ "io" \in Errors
    BY <1>10 DEF NextDataIOError, histVars, Errors
  <2>2. /\ pos' \in Nat /\ count' = pos' /\ pad' \in 0 .. blockSize - 1
        /\ curr' \in CurrType /\ Inside(curr')
    BY <1>10, DataErrorFacts
  <2> QED  BY <2>1, <2>2, <1>0 DEF NextEffect
<1> QED  BY <1>3, <1>4, <1>5, <1>6, <1>7, <1>8, <1>9, <1>10 DEF NextStep

-----------------------------------------------------------------------------
(* Types, errors and sparse files: every step.                              *)

BaseInv == TypeInv /\ ErrorInv /\ ReadProgress /\ PersistentError /\ SparseInv

\* A step that leaves the checkpoint alone leaves its type alone.
LEMMA CkptKept ==
  ASSUME TypeInv, SparseInv, UNCHANGED <<src, ckpt>>
  PROVE  CkptInv' /\ (ckpt'.saved => Inside(ckpt'.curr))
<1>1. CkptInv /\ (ckpt.saved => Inside(ckpt.curr))
  BY DEF TypeInv, SparseInv
<1>2. CkptInv' <=> CkptInv
  BY DEF CkptInv
<1> QED  BY <1>1, <1>2

\* The fields of what Next and Read return.
LEMMA ReturnFields ==
  ASSUME TypeInv
  PROVE  /\ \A e : NextReturns(e) =>
              /\ ret'.op = "Next" /\ ret'.err = e /\ err' = e
              /\ ret'.failed <=> (ret.failed \/ e # "nil")
         /\ \A m, n, e : ReadReturns(m, n, e) =>
              /\ ret'.op = "Read" /\ ret'.err = e /\ ret'.m = m /\ ret'.n = n
              /\ err' = IF e \in {"nil", "EOF"} THEN err ELSE e
              /\ ret'.failed <=> (ret.failed \/ e \notin {"nil", "EOF"})
<1>1. ASSUME NEW e, NextReturns(e)
      PROVE  /\ ret'.op = "Next" /\ ret'.err = e /\ err' = e
             /\ ret'.failed <=> (ret.failed \/ e # "nil")
  <2> DEFINE f == ret.failed \/ e # "nil"
  <2>1. ret' = [op |-> "Next", n |-> 0, err |-> e, m |-> 0, failed |-> f] /\ err' = e
    BY <1>1 DEF NextReturns
  <2> HIDE DEF f
  <2>2. ret'.op = "Next" /\ ret'.err = e /\ ret'.failed = f
    BY <2>1
  <2> QED  BY <2>1, <2>2 DEF f
<1>2. ASSUME NEW m, NEW n, NEW e, ReadReturns(m, n, e)
      PROVE  /\ ret'.op = "Read" /\ ret'.err = e /\ ret'.m = m /\ ret'.n = n
             /\ err' = IF e \in {"nil", "EOF"} THEN err ELSE e
             /\ ret'.failed <=> (ret.failed \/ e \notin {"nil", "EOF"})
  <2> DEFINE f == ret.failed \/ e \notin {"nil", "EOF"}
  <2>1. /\ ret' = [op |-> "Read", n |-> n, err |-> e, m |-> m, failed |-> f]
        /\ err' = IF e \in {"nil", "EOF"} THEN err ELSE e
    BY <1>2 DEF ReadReturns
  <2> HIDE DEF f
  <2>2. ret'.op = "Read" /\ ret'.err = e /\ ret'.m = m /\ ret'.n = n /\ ret'.failed = f
    BY <2>1
  <2> QED  BY <2>1, <2>2 DEF f
<1> QED  BY <1>1, <1>2

\* A step of Next.
LEMMA BaseNext ==
  ASSUME BaseInv, NextEffect
  PROVE  BaseInv'
<1>1. TypeInv /\ ErrorInv /\ SparseInv /\ ReadProgress /\ PersistentError
  BY DEF BaseInv
<1>2. CkptInv' /\ (ckpt'.saved => Inside(ckpt'.curr))
  BY <1>1, CkptKept DEF NextEffect
<1>3. SparseInv'
  BY <1>2 DEF SparseInv, NextEffect
<1>4. /\ UNCHANGED <<src, ckpt, resumes>> /\ (PastError' <=> PastError)
      /\ err = "nil" /\ (ret.failed => PastError) /\ (PastError => ret.failed)
  BY <1>1 DEF NextEffect, PastError, ErrorInv
<1>5. CASE pc' \in {"skip", "header"} /\ ext' \in ExtType /\ UNCHANGED <<err, ret>>
  <2>1. TypeInv'
    BY <1>1, <1>2, <1>5 DEF TypeInv, NextEffect
  <2>2. ErrorInv'
    BY <1>1, <1>4, <1>5 DEF ErrorInv
  <2>3. ReadProgress' /\ PersistentError'
    BY <1>1, <1>4, <1>5 DEF ReadProgress, PersistentError
  <2> QED  BY <2>1, <2>2, <2>3, <1>3 DEF BaseInv
<1>6. CASE \E e \in Errors : NextReturns(e)
  <2>1. PICK e \in Errors : NextReturns(e)
    BY <1>6
  <2>2. /\ ret'.op = "Next" /\ ret'.err = e /\ err' = e
        /\ ret'.failed <=> (ret.failed \/ e # "nil")
    BY <1>1, <2>1, ReturnFields
  <2>3. pc' = "idle" /\ ext' \in ExtType /\ ret' \in RetType /\ err' \in Errors
    BY <1>1, <2>1, NextReturnsType
  <2>4. TypeInv'
    BY <1>1, <1>2, <2>3 DEF TypeInv, NextEffect
  <2>5. ErrorInv'
    BY <1>1, <1>4, <2>2, <2>3 DEF ErrorInv
  <2>6. ReadProgress' /\ PersistentError'
    BY <1>4, <2>2 DEF ReadProgress, PersistentError
  <2> QED  BY <2>4, <2>5, <2>6, <1>3 DEF BaseInv
<1> QED  BY <1>5, <1>6 DEF NextEffect

\* A Read that is not refused.
LEMMA BaseRead ==
  ASSUME BaseInv, NEW m \in Nat, ReadEffect(m)
  PROVE  BaseInv'
<1>1. TypeInv /\ ErrorInv /\ SparseInv /\ ReadProgress /\ PersistentError
  BY DEF BaseInv
<1>2. /\ pc = "idle" /\ err = "nil"
      /\ UNCHANGED <<src, pad, pc, ext, ckpt, resumes, cur, seen, stray>>
  BY DEF ReadEffect
<1>3. PICK n \in Nat, d \in Nat, e \in Errors :
        /\ pos' = pos + d /\ count' = count + d
        /\ curr' \in CurrType /\ Inside(curr')
        /\ ReadReturns(m, n, e) /\ (m > 0 /\ n = 0 => e # "nil")
  BY DEF ReadEffect
<1>4. CkptInv' /\ (ckpt'.saved => Inside(ckpt'.curr))
  BY <1>1, <1>2, CkptKept
<1>5. /\ ret'.op = "Read" /\ ret'.err = e /\ ret'.m = m /\ ret'.n = n
      /\ err' = IF e \in {"nil", "EOF"} THEN err ELSE e
      /\ ret'.failed <=> (ret.failed \/ e \notin {"nil", "EOF"})
  BY <1>1, <1>3, ReturnFields
<1>6. n \in Int
  OBVIOUS
<1>7. err' \in Errors /\ ret' \in RetType
  BY <1>1, <1>3, <1>6, ReadReturnsType
<1>8. pos' \in Nat /\ count' = pos'
  BY <1>1, <1>3 DEF TypeInv
<1>9. TypeInv'
  BY <1>1, <1>2, <1>3, <1>4, <1>7, <1>8 DEF TypeInv
<1>10. /\ (PastError' <=> PastError) /\ (ret.failed => PastError) /\ (PastError => ret.failed)
  BY <1>1, <1>2 DEF PastError, ErrorInv
<1>11. ErrorInv'
  BY <1>1, <1>2, <1>5, <1>10 DEF ErrorInv
<1>12. ReadProgress'
  BY <1>3, <1>5 DEF ReadProgress
<1>13. PersistentError'
  BY <1>5, <1>10 DEF PersistentError
<1> QED  BY <1>3, <1>4, <1>9, <1>11, <1>12, <1>13 DEF BaseInv, SparseInv

\* A call that is refused, and the start of Next.
LEMMA BaseRefused ==
  ASSUME BaseInv, NextRefused \/ Next_ \/ \E m \in 0 .. MaxBuffer : ReadRefused(m)
  PROVE  BaseInv'
<1>1. TypeInv /\ ErrorInv /\ SparseInv /\ ReadProgress /\ PersistentError
  BY DEF BaseInv
<1>2. /\ pc = "idle"
      /\ UNCHANGED <<src, pos, count, pad, curr, err, ckpt, resumes, cur, seen, stray>>
  BY DEF NextRefused, Next_, ReadRefused, readerVars, histVars
<1>3. CkptInv' /\ (ckpt'.saved => Inside(ckpt'.curr))
  BY <1>1, <1>2, CkptKept
<1>4. SparseInv'
  BY <1>1, <1>2, <1>3 DEF SparseInv
<1>5. PastError' <=> PastError
  BY <1>2 DEF PastError
<1>6. CASE NextRefused
  <2>1. ret' = [op |-> "Next", n |-> 0, err |-> err, m |-> 0, failed |-> TRUE]
        /\ UNCHANGED <<pc, ext>> /\ err # "nil"
    BY <1>6 DEF NextRefused
  <2>2. ret' \in RetType /\ ret'.op = "Next" /\ ret'.err = err /\ ret'.failed
    BY <2>1, <1>1 DEF RetType, TypeInv
  <2>3. TypeInv'
    BY <1>1, <1>2, <1>3, <2>1, <2>2 DEF TypeInv
  <2>4. ErrorInv'
    BY <1>1, <1>2, <1>5, <2>1, <2>2 DEF ErrorInv
  <2>5. ReadProgress' /\ PersistentError'
    BY <2>1, <2>2 DEF ReadProgress, PersistentError
  <2> QED  BY <1>4, <2>3, <2>4, <2>5 DEF BaseInv
<1>7. CASE Next_
  <2>1. pc' = "skip" /\ ext' = NoExt /\ ret' = ret /\ err = "nil"
    BY <1>7 DEF Next_
  <2>2. ext' \in ExtType
    <3>1. <<>> \in Seq(Fragment) /\ None \in Int /\ 0 \in Nat
      BY DEF None
    <3>2. "none" \in Formats /\ TRUE \in BOOLEAN
      BY Zenon DEF Formats
    <3>3. ext' = [name |-> 0, size |-> None, fmt |-> "none", sp |-> <<>>, mapok |-> TRUE,
                  total |-> None]
      BY <2>1 DEF NoExt
    <3> QED  BY <3>1, <3>2, <3>3, Zenon DEF ExtType
  <2>3. TypeInv'
    BY <1>1, <1>2, <1>3, <2>1, <2>2 DEF TypeInv
  <2>4. ErrorInv'
    BY <1>1, <1>2, <1>5, <2>1 DEF ErrorInv
  <2>5. ReadProgress' /\ PersistentError'
    BY <1>1, <1>5, <2>1 DEF ReadProgress, PersistentError
  <2> QED  BY <1>4, <2>3, <2>4, <2>5 DEF BaseInv
<1>8. ASSUME NEW m \in 0 .. MaxBuffer, ReadRefused(m) PROVE BaseInv'
  <2> DEFINE f == ret.failed \/ err # "nil"
             r == IF err # "nil" THEN err ELSE "EOF"
  <2>1. ret' = [op |-> "Read", n |-> 0, err |-> r, m |-> m, failed |-> f]
        /\ UNCHANGED <<pc, ext>>
    BY <1>8 DEF ReadRefused
  <2>2. r \in Errors /\ r # "nil" /\ f \in BOOLEAN /\ m \in Nat /\ 0 \in Int
    BY <1>1, ConstantsAssumption DEF TypeInv, RetType, Errors
  <2>3. f => ret.failed \/ err # "nil"
    OBVIOUS
  <2>4. ret.failed \/ err # "nil" => f
    OBVIOUS
  <2> HIDE DEF f, r
  <2>5. ret' \in RetType /\ ret'.op = "Read" /\ ret'.err = r /\ ret'.failed = f
    BY <2>1, <2>2 DEF RetType
  <2>6. TypeInv'
    BY <1>1, <1>2, <1>3, <2>1, <2>5 DEF TypeInv
  <2>7. ErrorInv'
    BY <1>1, <1>2, <1>5, <2>1, <2>3, <2>4, <2>5 DEF ErrorInv
  <2>8. ReadProgress' /\ PersistentError'
    BY <2>2, <2>5 DEF ReadProgress, PersistentError
  <2> QED  BY <1>4, <2>6, <2>7, <2>8 DEF BaseInv
<1> QED  BY <1>6, <1>7, <1>8

\* Save and Resume.
LEMMA BaseCheckpoint ==
  ASSUME BaseInv, Save \/ SavePanic \/ Resume
  PROVE  BaseInv'
<1>1. TypeInv /\ ErrorInv /\ SparseInv /\ ReadProgress /\ PersistentError
  BY DEF BaseInv
<1>2. pc = "idle" /\ src' = src /\ ext' = ext /\ stray' = stray
  BY DEF Save, SavePanic, Resume, readerVars, histVars
<1>3. CASE Save
  <2>1. UNCHANGED <<pos, count, pad, curr, err, pc, ret, resumes, cur, seen>>
    BY <1>3 DEF Save, readerVars, histVars
  <2>2. ckpt' = [saved |-> TRUE, Roffset |-> count, Pad |-> pad, curr |-> curr,
                 cur |-> cur, name |-> name, got |-> got, seen |-> seen,
                 failed |-> ret.failed]
    BY <1>3 DEF Save
  <2>3. /\ ckpt'.saved /\ ckpt'.Roffset = count /\ ckpt'.Pad = pad /\ ckpt'.curr = curr
        /\ ckpt'.cur = cur /\ ckpt'.seen = seen /\ ckpt'.failed = ret.failed
        /\ ckpt'.saved \in BOOLEAN
    BY <2>2
  <2>4. ret.failed \in BOOLEAN
    BY <1>1 DEF TypeInv, RetType
  <2>5. CkptInv'
    BY <1>1, <1>2, <2>3, <2>4 DEF CkptInv, TypeInv
  <2>6. TypeInv'
    BY <1>1, <1>2, <2>1, <2>5 DEF TypeInv
  <2>7. SparseInv'
    BY <1>1, <2>1, <2>3 DEF SparseInv
  <2>8. /\ PastError' <=> (resumes > 0 /\ ret.failed)
        /\ PastError => PastError'
    BY <1>1, <2>1, <2>3 DEF PastError, ErrorInv
  <2>9. ErrorInv'
    BY <1>1, <2>1, <2>3, <2>8 DEF ErrorInv
  <2>10. ReadProgress' /\ PersistentError'
    BY <1>1, <2>1, <2>8 DEF ReadProgress, PersistentError
  <2> QED  BY <2>6, <2>7, <2>9, <2>10 DEF BaseInv
<1>4. CASE SavePanic
  <2>1. UNCHANGED <<pos, count, pad, curr, err, ret, ckpt, resumes, cur, seen>>
        /\ pc' = "panic"
    BY <1>4 DEF SavePanic, readerVars, histVars
  <2>2. CkptInv' /\ (ckpt'.saved => Inside(ckpt'.curr))
    BY <1>1, <1>2, <2>1, CkptKept
  <2>3. TypeInv'
    BY <1>1, <1>2, <2>1, <2>2 DEF TypeInv
  <2>4. PastError' <=> PastError
    BY <2>1 DEF PastError
  <2>5. ErrorInv'
    BY <1>1, <2>1, <2>4 DEF ErrorInv
  <2>6. ReadProgress' /\ PersistentError' /\ SparseInv'
    BY <1>1, <2>1, <2>2, <2>4 DEF ReadProgress, PersistentError, SparseInv
  <2> QED  BY <2>3, <2>5, <2>6 DEF BaseInv
<1>5. CASE Resume
  <2>1. /\ ckpt.saved /\ resumes < MaxResumes
        /\ pos' = ckpt.Roffset /\ count' = ckpt.Roffset /\ pad' = ckpt.Pad
        /\ curr' = ckpt.curr /\ err' = "nil" /\ resumes' = resumes + 1
        /\ cur' = ckpt.cur /\ seen' = ckpt.seen /\ UNCHANGED <<pc, ckpt>>
        /\ ret' = [NoRet EXCEPT !.failed = ckpt.failed]
    BY <1>5 DEF Resume
  <2>2. CkptInv' /\ (ckpt'.saved => Inside(ckpt'.curr))
    BY <1>1, <1>2, <2>1, CkptKept
  <2>3. CkptInv /\ Inside(ckpt.curr) /\ ckpt.failed \in BOOLEAN
    BY <1>1, <2>1 DEF TypeInv, CkptInv, SparseInv
  <2>4. /\ ret' = [op |-> "none", n |-> 0, err |-> "nil", m |-> 0, failed |-> ckpt.failed]
    BY <2>1 DEF NoRet
  <2>5. ret' \in RetType /\ ret'.op = "none" /\ ret'.failed = ckpt.failed
    <3>1. PICK f \in BOOLEAN : f = ckpt.failed
      BY <2>3
    <3>2. ret' = [op |-> "none", n |-> 0, err |-> "nil", m |-> 0, failed |-> f]
      BY <2>4, <3>1
    <3> QED  BY <3>1, <3>2 DEF RetType, Errors
  <2>6. resumes' \in 0 .. MaxResumes /\ resumes' > 0
    BY <1>1, <2>1, ConstantsAssumption DEF TypeInv
  <2>7. "nil" \in Errors
    BY DEF Errors
  <2>8. TypeInv'
    BY <1>1, <1>2, <2>1, <2>2, <2>3, <2>5, <2>6, <2>7 DEF TypeInv, CkptInv
  <2>9. PastError' <=> ckpt.failed
    BY <2>1, <2>6 DEF PastError
  <2>10. ErrorInv'
    BY <1>2, <2>1, <2>5, <2>9 DEF ErrorInv
  <2>11. ReadProgress' /\ PersistentError'
    BY <2>5 DEF ReadProgress, PersistentError
  <2>12. SparseInv'
    BY <2>1, <2>2, <2>3 DEF SparseInv
  <2> QED  BY <2>8, <2>10, <2>11, <2>12 DEF BaseInv
<1> QED  BY <1>3, <1>4, <1>5

\* The initial state.
LEMMA BaseInit == Init => BaseInv
<1> SUFFICES ASSUME Init PROVE BaseInv
  OBVIOUS
<1>1. /\ src \in Sources /\ pos = 0 /\ count = 0 /\ pad = 0 /\ curr = NoCurr /\ err = "nil"
      /\ pc = "idle" /\ ext = NoExt /\ ret = NoRet /\ ckpt = NoCheckpoint /\ resumes = 0
      /\ cur = 0 /\ seen = <<>> /\ stray = FALSE
  BY DEF Init
<1>2. NoCurr \in CurrType /\ Inside(NoCurr)
  <2>1. 0 \in Nat
    OBVIOUS
  <2> QED  BY <2>1, RegType
<1>3. ext \in ExtType
  <2>1. <<>> \in Seq(Fragment) /\ None \in Int /\ 0 \in Nat
    BY DEF None
  <2>2. "none" \in Formats /\ TRUE \in BOOLEAN
    BY Zenon DEF Formats
  <2>3. ext = [name |-> 0, size |-> None, fmt |-> "none", sp |-> <<>>, mapok |-> TRUE,
               total |-> None]
    BY <1>1 DEF NoExt
  <2> QED  BY <2>1, <2>2, <2>3, Zenon DEF ExtType
<1>4. ret \in RetType /\ ret.op = "none" /\ ret.failed = FALSE
  BY <1>1 DEF NoRet, RetType, Errors
<1>5. ckpt.saved = FALSE
  BY <1>1 DEF NoCheckpoint
<1>6. <<>> \in Seq(Nat) /\ 0 \in 0 .. blockSize - 1 /\ 0 \in 0 .. MaxResumes
      /\ 0 \in 0 .. Len(src.entries)
  BY <1>1, SourceFacts, ConstantsAssumption
<1>7. TypeInv
  BY <1>1, <1>2, <1>3, <1>4, <1>5, <1>6 DEF TypeInv, CkptInv, Errors
<1>8. ErrorInv /\ ReadProgress /\ PersistentError
  BY <1>1, <1>4 DEF ErrorInv, PastError, ReadProgress, PersistentError
<1>9. SparseInv
  BY <1>1, <1>2, <1>5 DEF SparseInv
<1> QED  BY <1>7, <1>8, <1>9 DEF BaseInv

\* Every step.
LEMMA BaseStep == BaseInv /\ [Next]_vars => BaseInv'
<1> SUFFICES ASSUME BaseInv, [Next]_vars PROVE BaseInv'
  OBVIOUS
<1>0. TypeInv /\ SparseInv
  BY DEF BaseInv
<1>1. CASE NextStep \/ NextIOError \/ NextDataIOError
  BY <1>0, <1>1, NextMoves, BaseNext
<1>2. CASE NextRefused \/ Next_
  BY <1>2, BaseRefused
<1>3. ASSUME NEW m \in 0 .. MaxBuffer, Read(m) PROVE BaseInv'
  <2>1. m \in Nat
    BY ConstantsAssumption
  <2>2. CASE ReadRefused(m)
    BY <2>2, BaseRefused
  <2>3. CASE ReadReg(m) \/ ReadHole(m) \/ ReadSparseEnd(m) \/ ReadFragment(m)
    <3>1. ReadEffect(m)
      BY <1>0, <2>1, <2>3, RegEffect, HoleEffect, SparseEndEffect, FragmentEffect
    <3> QED  BY <2>1, <3>1, BaseRead
  <2> QED  BY <1>3, <2>2, <2>3 DEF Read
<1>4. CASE Save \/ SavePanic \/ Resume
  BY <1>4, BaseCheckpoint
<1>5. CASE UNCHANGED vars
  <2>1. UNCHANGED <<src, pos, count, pad, curr, err, pc, ext, ret, ckpt, resumes, cur, seen, stray>>
    BY <1>5 DEF vars, readerVars, histVars
  <2>2. CkptInv' <=> CkptInv
    BY <2>1 DEF CkptInv
  <2>3. TypeInv' <=> TypeInv
    BY <2>1, <2>2 DEF TypeInv
  <2>4. PastError' <=> PastError
    BY <2>1 DEF PastError
  <2>5. (ErrorInv' <=> ErrorInv) /\ (PersistentError' <=> PersistentError)
    BY <2>1, <2>4 DEF ErrorInv, PersistentError
  <2>6. (ReadProgress' <=> ReadProgress) /\ (SparseInv' <=> SparseInv)
    BY <2>1 DEF ReadProgress, SparseInv
  <2> QED  BY <2>3, <2>5, <2>6 DEF BaseInv
<1> QED  BY <1>1, <1>2, <1>3, <1>4, <1>5 DEF Next

\* The three facts together.
LEMMA BaseCorrect == Spec => []BaseInv
BY BaseInit, BaseStep, PTL DEF Spec

-----------------------------------------------------------------------------
(***************************************************************************)
(* The reader has its types, whatever the streams hold; above all the      *)
(* bytes left of an entry never become negative, over short reads, sparse  *)
(* maps kept in the data, and Resume.                                      *)
(***************************************************************************)
THEOREM TypeCorrect == Spec => []TypeOK
<1>1. BaseInv => TypeOK
  BY DEF BaseInv, TypeInv, TypeOK, CurrType, Errors
<1> QED  BY <1>1, BaseCorrect, PTL

\* The error of the reader is persistent (tr.err in Next and Read), also on a
\* reader resumed from a checkpoint that was saved before the error.
THEOREM ErrorsPersist == Spec => []PersistentError
<1>1. BaseInv => PersistentError
  BY DEF BaseInv
<1> QED  BY <1>1, BaseCorrect, PTL

\* A Read into a non-empty slice returns a byte or an error: a client that loops
\* over Read does not spin, in the holes and at the ends of fragments too.
THEOREM ReadsProgress == Spec => []ReadProgress
<1>1. BaseInv => ReadProgress
  BY DEF BaseInv
<1> QED  BY <1>1, BaseCorrect, PTL

\* The fragments of a sparse file stay inside the file and ahead of the position,
\* for every map that newSparseFileReader accepts.
THEOREM FragmentsInside == Spec => []SparseInside
<1>1. BaseInv => SparseInside
  BY DEF BaseInv, SparseInv, Inside, FragmentsOK, SparseInside
<1> QED  BY <1>1, BaseCorrect, PTL

-----------------------------------------------------------------------------
(* Where the reader is: facts about the streams.                            *)

\* Two entries do not share an offset.
LEMMA HeaderUnique ==
  ASSUME NEW s \in Sources, NEW i \in 1 .. Len(s.entries) + 1,
         NEW k \in 1 .. Len(s.entries) + 1, s.off[i] = s.off[k]
  PROVE  i = k
<1>1. s.off[i] \in Nat /\ s.off[k] \in Nat /\ i \in Int /\ k \in Int
  BY SourceFacts
<1>2. ~(i < k)
  <2>1. SUFFICES ASSUME i < k PROVE FALSE
    OBVIOUS
  <2>2. s.off[i] + blockSize <= s.off[k]
    BY <2>1, OffsetsOrdered
  <2> QED  BY <2>2, <1>1, ConstantsAssumption
<1>3. ~(k < i)
  <2>1. SUFFICES ASSUME k < i PROVE FALSE
    OBVIOUS
  <2>2. s.off[k] + blockSize <= s.off[i]
    BY <2>1, OffsetsOrdered
  <2> QED  BY <2>2, <1>1, ConstantsAssumption
<1> QED  BY <1>1, <1>2, <1>3

\* After a file, or at the start, no PAX records are in force.
LEMMA NoPax ==
  ASSUME NEW s \in Sources, NEW c \in 0 .. Len(s.entries),
         c > 0 => IsFile(s.entries[c])
  PROVE  PaxBefore(s, c + 1) = {}
<1>0. c \in Nat /\ (c + 1) - 1 = c
  BY SourceFacts
<1>1. ASSUME NEW j \in PaxBefore(s, c + 1) PROVE FALSE
  <2>1. j \in 1 .. c /\ s.entries[j].type = "x" /\ \A k \in j + 1 .. c : s.entries[k].type = "L"
    BY <1>0 DEF PaxBefore
  <2>2. c > 0 /\ s.entries[c].type \in {"reg", "dir", "sparse"}
    BY <1>0, <2>1 DEF IsFile
  <2>3. j # c
    BY <2>1, <2>2
  <2>4. c \in j + 1 .. c
    BY <1>0, <2>1, <2>3
  <2> QED  BY <2>1, <2>2, <2>4
<1> QED  BY <1>1

\* After a PAX entry, its records are.
LEMMA OnlyPax ==
  ASSUME NEW s \in Sources, NEW k \in 1 .. Len(s.entries), s.entries[k].type = "x"
  PROVE  PaxBefore(s, k + 1) = {k}
<1>0. k \in Nat /\ (k + 1) - 1 = k /\ k + 1 .. k = {} /\ k \in 1 .. k
  BY SourceFacts
<1>1. k \in PaxBefore(s, k + 1)
  BY <1>0 DEF PaxBefore
<1>2. ASSUME NEW j \in PaxBefore(s, k + 1) PROVE j = k
  <2>1. j \in 1 .. k /\ \A l \in j + 1 .. k : s.entries[l].type = "L"
    BY <1>0 DEF PaxBefore
  <2>2. j # k => k \in j + 1 .. k
    BY <1>0, <2>1
  <2> QED  BY <2>1, <2>2
<1> QED  BY <1>1, <1>2

\* A GNU long name leaves those before it.
LEMMA SamePax ==
  ASSUME NEW s \in Sources, NEW k \in 1 .. Len(s.entries), s.entries[k].type = "L"
  PROVE  PaxBefore(s, k + 1) = PaxBefore(s, k)
<1>0. k \in Nat /\ (k + 1) - 1 = k
  BY SourceFacts
<1>1. ASSUME NEW j \in PaxBefore(s, k) PROVE j \in PaxBefore(s, k + 1)
  <2>1. j \in 1 .. k - 1 /\ j \in 1 .. k /\ s.entries[j].type = "x"
    BY <1>0 DEF PaxBefore
  <2>2. ASSUME NEW l \in j + 1 .. k PROVE s.entries[l].type = "L"
    <3>1. l = k \/ l \in j + 1 .. k - 1
      BY <1>0, <2>1
    <3> QED  BY <3>1 DEF PaxBefore
  <2> QED  BY <1>0, <2>1, <2>2 DEF PaxBefore
<1>2. ASSUME NEW j \in PaxBefore(s, k + 1) PROVE j \in PaxBefore(s, k)
  <2>1. j \in 1 .. k /\ s.entries[j].type = "x" /\ \A l \in j + 1 .. k : s.entries[l].type = "L"
    BY <1>0 DEF PaxBefore
  <2>2. j # k
    BY <2>1
  <2>3. j \in 1 .. k - 1
    BY <1>0, <2>1, <2>2
  <2>4. \A l \in j + 1 .. k - 1 : l \in j + 1 .. k
    BY <1>0, <2>3
  <2> QED  BY <2>1, <2>3, <2>4 DEF PaxBefore
<1> QED  BY <1>1, <1>2

\* The same for the size record.
LEMMA NoRecord ==
  ASSUME NEW s \in Sources, NEW c \in 0 .. Len(s.entries),
         c > 0 => IsFile(s.entries[c])
  PROVE  SizeRecord(s, c + 1, None)
BY NoPax DEF SizeRecord

\* It is that of the PAX entry in front.
LEMMA PaxRecord ==
  ASSUME NEW s \in Sources, NEW k \in 1 .. Len(s.entries), s.entries[k].type = "x"
  PROVE  SizeRecord(s, k + 1, s.entries[k].rsize)
BY OnlyPax DEF SizeRecord

\* It stays over a GNU long name.
LEMMA LongNameRecord ==
  ASSUME NEW s \in Sources, NEW k \in 1 .. Len(s.entries), s.entries[k].type = "L",
         NEW z, SizeRecord(s, k, z)
  PROVE  SizeRecord(s, k + 1, z)
BY SamePax DEF SizeRecord

\* A size record in force is None or that of an earlier entry.
LEMMA RecordFrom ==
  ASSUME NEW s \in Sources, NEW k \in 1 .. Len(s.entries), NEW z, SizeRecord(s, k, z)
  PROVE  z \in {None} \cup {s.entries[j].rsize : j \in 1 .. k - 1}
BY DEF SizeRecord, PaxBefore

\* The end of an entry.
LEMMA EntryEnd ==
  ASSUME NEW s \in Sources, NEW k \in 1 .. Len(s.entries)
  PROVE  LET e == s.entries[k]
             blocks == IF e.type = "sparse" THEN blockSize * e.blocks ELSE 0 IN
         /\ s.off[k + 1] = s.off[k] + blockSize + blocks + e.len + PadOf(e.len)
         /\ DataEnd(s, k) = s.off[k] + blockSize + blocks + e.len
<1> DEFINE e == s.entries[k]
           blocks == IF e.type = "sparse" THEN blockSize * e.blocks ELSE 0
<1>1. e \in EntryType /\ s.off[k] \in Nat /\ blockSize \in Nat
  <2>1. k \in 1 .. Len(s.entries) + 1
    BY SourceFacts
  <2> QED  BY <2>1, SourceFacts, ConstantsAssumption
<1>2. e.len \in Nat /\ e.blocks \in Nat
  BY <1>1 DEF EntryType
<1>3. blocks \in Nat
  <2>1. blockSize * e.blocks \in Nat
    BY <1>1, <1>2
  <2> QED  BY <2>1
<1>5. s.off[k + 1] = s.off[k] + (blockSize + blocks + e.len + PadOf(e.len))
  BY SourcesAssumption DEF LaidOut, Extent
<1> HIDE DEF e, blocks
<1>4. PadOf(e.len) \in Nat
  <2>1. e.len \in Int
    BY <1>2
  <2>2. PadOf(e.len) \in 0 .. blockSize - 1
    BY <2>1, PadType, Zenon
  <2> QED  BY <2>2, ConstantsAssumption
<1>7. s.off[k + 1] = s.off[k] + blockSize + blocks + e.len + PadOf(e.len)
      /\ (s.off[k] + blockSize + blocks + e.len + PadOf(e.len)) - PadOf(e.len)
           = s.off[k] + blockSize + blocks + e.len
  <2>1. PICK a \in Nat, f \in Nat, l \in Nat, b \in Nat :
          a = s.off[k] /\ f = PadOf(e.len) /\ l = e.len /\ b = blocks
    BY <1>1, <1>2, <1>3, <1>4
  <2>2. a + (blockSize + b + l + f) = a + blockSize + b + l + f
        /\ (a + blockSize + b + l + f) - f = a + blockSize + b + l
    BY ConstantsAssumption
  <2> QED  BY <2>1, <2>2, <1>5, Zenon
<1>8. DataEnd(s, k) = s.off[k + 1] - PadOf(e.len)
  BY DEF DataEnd, e
<1> QED  BY <1>7, <1>8 DEF e, blocks

\* One more entry that is no file, and one more file.
LEMMA ReturnedMore ==
  ASSUME NEW s \in Sources, NEW k \in 1 .. Len(s.entries), NEW sn \in Seq(Nat),
         Returned(s, sn, k)
  PROVE  /\ ~IsFile(s.entries[k]) => Returned(s, sn, k + 1)
         /\ Returned(s, Append(sn, k), k + 1)
<1>0. k \in Nat /\ (k + 1) - 1 = k /\ Len(sn) \in Nat
  BY SourceFacts
<1>1. ASSUME NEW i \in 1 .. k PROVE i = k \/ i \in 1 .. k - 1
  BY <1>0
<1>2. ~IsFile(s.entries[k]) => Returned(s, sn, k + 1)
  BY <1>0, <1>1 DEF Returned
<1>3. Returned(s, Append(sn, k), k + 1)
  <2> DEFINE t == Append(sn, k)
  <2>1. Len(t) = Len(sn) + 1 /\ t[Len(sn) + 1] = k /\ \A j \in 1 .. Len(sn) : t[j] = sn[j]
    BY <1>0
  <2> HIDE DEF t
  <2>2. ASSUME NEW i \in 1 .. k, IsFile(s.entries[i])
        PROVE  \E j \in 1 .. Len(t) : t[j] = i
    <3>1. CASE i = k
      <4>1. Len(sn) + 1 \in 1 .. Len(t)
        BY <1>0, <2>1
      <4> QED  BY <3>1, <4>1, <2>1
    <3>2. CASE i \in 1 .. k - 1
      <4>1. PICK j \in 1 .. Len(sn) : sn[j] = i
        BY <3>2, <2>2 DEF Returned
      <4>2. j \in 1 .. Len(t) /\ t[j] = i
        BY <4>1, <1>0, <2>1
      <4> QED  BY <4>2
    <3> QED  BY <1>1, <3>1, <3>2
  <2>3. Returned(s, t, k + 1)
    BY <1>0, <2>2 DEF Returned
  <2> QED  BY <2>3 DEF t
<1> QED  BY <1>2, <1>3

\* No file is left when the next header would lie past the end of the stream.
LEMMA NothingLeft ==
  ASSUME NEW s \in Sources, NEW k \in 1 .. Len(s.entries) + 1, NEW sn, NEW c,
         Returned(s, sn, k), s.off[k] + blockSize > s.len \/ k = Len(s.entries) + 1,
         c > 0 => DataEnd(s, c) <= s.len
  PROVE  Complete(s, c, sn)
<1>0. k \in Nat /\ s.len \in Nat /\ blockSize \in Nat /\ Len(s.entries) \in Nat
  BY SourceFacts, ConstantsAssumption
<1>1. ASSUME NEW i \in 1 .. Len(s.entries), IsFile(s.entries[i]),
             s.off[i] + blockSize <= s.len
      PROVE  \E j \in 1 .. Len(sn) : sn[j] = i
  <2>0. i \in 1 .. Len(s.entries) + 1 /\ i \in Nat
    BY <1>0
  <2>1. CASE i \in 1 .. k - 1
    BY <2>1, <1>1 DEF Returned
  <2>2. CASE ~(i \in 1 .. k - 1)
    <3>1. k <= i /\ k # Len(s.entries) + 1
      BY <2>0, <2>2, <1>0
    <3>2. k = i \/ s.off[k] + blockSize <= s.off[i]
      <4>1. k = i \/ k < i
        BY <3>1, <2>0, <1>0
      <4> QED  BY <4>1, <2>0, OffsetsOrdered
    <3>3. s.off[k] \in Nat /\ s.off[i] \in Nat
      BY <2>0, SourceFacts
    <3> QED  BY <3>1, <3>2, <3>3, <1>0, <1>1
  <2> QED  BY <2>1, <2>2
<1> QED  BY <1>1 DEF Complete

-----------------------------------------------------------------------------
(* Where the reader is: every step.                                         *)

\* Next fails: nothing is promised of the reader but that io.EOF is justified.
LEMMA PlaceFails ==
  ASSUME PlaceInv, UNCHANGED <<src, ckpt, resumes>>, NEW e, NextReturns(e), e # "nil",
         ~PastError => ~stray',
         ~PastError /\ e = "EOF" => Complete(src, cur', seen')
  PROVE  PlaceInv'
<1>1. err' = e /\ pc' = "idle" /\ (PastError' <=> PastError)
  BY DEF NextReturns, PastError
<1>2. ckpt'.saved /\ ~ckpt'.failed =>
        AtRest(src', ckpt'.cur, ckpt'.Roffset, ckpt'.curr.nb, ckpt'.Pad, ckpt'.seen)
  BY DEF PlaceInv
<1> QED  BY <1>1, <1>2 DEF PlaceInv

\* What is known of a reader in Next.
LEMMA InNext ==
  ASSUME TypeInv, PlaceInv, ~PastError, pc \in {"skip", "header"}
  PROVE  /\ src \in Sources /\ src.len \in Nat /\ pos \in Nat /\ curr.nb \in Nat /\ pad \in Nat
         /\ \E k \in 1 .. Len(src.entries) + 1 :
              /\ Ahead(src, k, cur, pos, curr.nb, pad, ext.size, seen)
              /\ src.off[k] \in Nat /\ (cur > 0 => DataEnd(src, cur) \in Int)
         /\ pc = "header" => curr.nb = 0 /\ pad = 0
<1>1. src \in Sources /\ src.len \in Nat /\ pos \in Nat /\ curr.nb \in Nat /\ pad \in Nat
  BY SourceFacts, ConstantsAssumption DEF TypeInv, CurrType
<1>2. PICK k \in 1 .. Len(src.entries) + 1 :
        Ahead(src, k, cur, pos, curr.nb, pad, ext.size, seen)
  BY DEF PlaceInv
<1>3. src.off[k] \in Nat
  BY <1>1, SourceFacts
<1>4. cur > 0 => DataEnd(src, cur) \in Int
  <2>1. SUFFICES ASSUME cur > 0 PROVE DataEnd(src, cur) \in Int
    OBVIOUS
  <2>2. cur \in 1 .. Len(src.entries) /\ cur + 1 \in 1 .. Len(src.entries) + 1
    BY <2>1, <1>1, SourceFacts DEF TypeInv
  <2>3. src.off[cur + 1] \in Nat /\ src.entries[cur] \in EntryType
    BY <2>2, <1>1, SourceFacts
  <2>4. src.entries[cur].len \in Int
    BY <2>3 DEF EntryType
  <2>5. PadOf(src.entries[cur].len) \in 0 .. blockSize - 1
    BY <2>4, PadType, Zenon
  <2>6. PadOf(src.entries[cur].len) \in Int
    BY <2>5
  <2> QED  BY <2>3, <2>6 DEF DataEnd
<1>5. pc = "header" => curr.nb = 0 /\ pad = 0
  BY DEF PlaceInv
<1> QED  BY <1>1, <1>2, <1>3, <1>4, <1>5

\* At a header: it is that of entry k, and the data of the current file is there.
LEMMA AtHeader ==
  ASSUME TypeInv, PlaceInv, ~PastError, pc = "header"
  PROVE  \E k \in 1 .. Len(src.entries) + 1 :
           /\ pos = src.off[k] /\ SizeRecord(src, k, ext.size) /\ Returned(src, seen, k)
           /\ cur > 0 => DataEnd(src, cur) <= src.len
           /\ \A i \in 1 .. Len(src.entries) : HeaderAt(i) => i = k
<1>1. PICK k \in 1 .. Len(src.entries) + 1 :
        /\ Ahead(src, k, cur, pos, curr.nb, pad, ext.size, seen)
        /\ src.off[k] \in Nat /\ (cur > 0 => DataEnd(src, cur) \in Int)
  BY InNext
<1>2. src \in Sources /\ src.len \in Nat /\ pos \in Nat /\ curr.nb = 0 /\ pad = 0
  BY InNext
<1>3. /\ pos + curr.nb + pad = src.off[k] /\ pos <= src.len /\ SizeRecord(src, k, ext.size)
      /\ Returned(src, seen, k) /\ DataThere(src, cur, pos, curr.nb)
  BY <1>1 DEF Ahead
<1>4. pos = src.off[k]
  BY <1>2, <1>3
<1>5. cur > 0 => DataEnd(src, cur) <= src.len
  BY <1>1, <1>2, <1>3 DEF DataThere
<1>6. ASSUME NEW i \in 1 .. Len(src.entries), HeaderAt(i) PROVE i = k
  <2>1. i \in 1 .. Len(src.entries) + 1 /\ src.off[i] = src.off[k]
    BY <1>2, <1>4, <1>6, SourceFacts DEF HeaderAt
  <2> QED  BY <2>1, <1>2, HeaderUnique
<1> QED  BY <1>3, <1>4, <1>5, <1>6

\* skipUnread.
LEMMA PlaceSkip ==
  ASSUME BaseInv, PlaceInv, SkipUnread
  PROVE  PlaceInv'
<1>0. TypeInv
  BY DEF BaseInv
<1>1. /\ pc = "skip" /\ UNCHANGED <<src, ckpt, resumes>> /\ UNCHANGED <<cur, seen, stray>>
      /\ (PastError' <=> PastError)
  BY DEF SkipUnread, histVars, PastError
<1>2. /\ pos' \in Nat /\ curr' = NoCurr /\ pad' = 0
      /\ \/ /\ pc' = "header" /\ UNCHANGED <<err, ext, ret>>
            /\ pos' = pos + curr.nb + pad
            /\ pos <= src.len => pos' <= src.len
         \/ \E e \in {"ErrUnexpectedEOF", "EOF"} :
              /\ NextReturns(e)
              /\ pos + curr.nb + pad > src.len
              /\ e = "EOF" /\ pos <= src.len => pos + curr.nb <= src.len
  BY <1>0, SkipFacts
<1>3. ~PastError => ~stray'
  BY <1>1 DEF PlaceInv
<1>4. ckpt'.saved /\ ~ckpt'.failed =>
        AtRest(src', ckpt'.cur, ckpt'.Roffset, ckpt'.curr.nb, ckpt'.Pad, ckpt'.seen)
  BY <1>1 DEF PlaceInv
<1>5. CASE PastError
  BY <1>1, <1>4, <1>5 DEF PlaceInv
<1>6. CASE ~PastError
  <2>1. PICK k \in 1 .. Len(src.entries) + 1 :
          /\ Ahead(src, k, cur, pos, curr.nb, pad, ext.size, seen)
          /\ src.off[k] \in Nat /\ (cur > 0 => DataEnd(src, cur) \in Int)
    BY <1>0, <1>1, <1>6, InNext
  <2>2. src \in Sources /\ src.len \in Nat /\ pos \in Nat /\ curr.nb \in Nat /\ pad \in Nat
    BY <1>0, <1>1, <1>6, InNext
  <2>3. /\ pos + curr.nb + pad = src.off[k] /\ pos <= src.len /\ SizeRecord(src, k, ext.size)
        /\ Returned(src, seen, k) /\ DataThere(src, cur, pos, curr.nb)
    BY <2>1 DEF Ahead
  <2>4. CASE /\ pc' = "header" /\ UNCHANGED <<err, ext, ret>>
             /\ pos' = pos + curr.nb + pad
             /\ pos <= src.len => pos' <= src.len
    <3>1. curr'.nb = 0 /\ pad' = 0
      BY <1>2 DEF NoCurr
    <3>2. pos' + 0 + 0 = src.off[k] /\ pos' <= src.len
      BY <1>2, <2>1, <2>3, <2>4
    <3>3. cur > 0 => DataEnd(src, cur) <= src.len
      <4>1. pos + curr.nb <= pos'
        BY <2>2, <2>4
      <4> QED  BY <4>1, <1>2, <2>1, <2>2, <2>3, <3>2 DEF DataThere
    <3>4. DataThere(src, cur, pos', 0)
      BY <3>3 DEF DataThere
    <3>5. Ahead(src, k, cur, pos', 0, 0, ext.size, seen)
      BY <2>3, <3>2, <3>4 DEF Ahead
    <3>6. Ahead(src', k, cur', pos', curr'.nb, pad', ext'.size, seen')
      BY <1>1, <2>4, <3>1, <3>5, Zenon
    <3>7. k \in 1 .. Len(src'.entries) + 1
      BY <1>1
    <3>8. err' # "EOF"
      BY <2>4, <1>1 DEF BaseInv, ErrorInv
    <3> QED  BY <1>1, <1>3, <1>4, <1>6, <2>4, <3>1, <3>6, <3>7, <3>8 DEF PlaceInv
  <2>5. CASE \E e \in {"ErrUnexpectedEOF", "EOF"} :
               /\ NextReturns(e)
               /\ pos + curr.nb + pad > src.len
               /\ e = "EOF" /\ pos <= src.len => pos + curr.nb <= src.len
    <3>1. PICK e \in {"ErrUnexpectedEOF", "EOF"} :
            /\ NextReturns(e)
            /\ pos + curr.nb + pad > src.len
            /\ e = "EOF" /\ pos <= src.len => pos + curr.nb <= src.len
      BY <2>5
    <3>2. e = "EOF" => Complete(src, cur', seen')
      <4>1. SUFFICES ASSUME e = "EOF" PROVE Complete(src, cur, seen)
        BY <1>1
      <4>2. src.off[k] + blockSize > src.len
        BY <2>1, <2>2, <2>3, <3>1, ConstantsAssumption
      <4>3. cur > 0 => DataEnd(src, cur) <= src.len
        BY <4>1, <2>1, <2>2, <2>3, <3>1 DEF DataThere
      <4> QED  BY <4>2, <4>3, <2>2, <2>3, NothingLeft
    <3> QED  BY <1>1, <1>3, <3>1, <3>2, PlaceFails
  <2> QED  BY <1>2, <2>4, <2>5
<1> QED  BY <1>5, <1>6

\* No header: io.EOF, or an error, with nothing left.
LEMMA PlaceHeaderEnd ==
  ASSUME BaseInv, PlaceInv, ReadHeaderEnd
  PROVE  PlaceInv'
<1>0. TypeInv
  BY DEF BaseInv
<1>1. /\ pc = "header" /\ UNCHANGED <<src, ckpt, resumes>> /\ UNCHANGED <<cur, seen, stray>>
      /\ Avail(pos) < blockSize \/ AtZeroBlock
  BY DEF ReadHeaderEnd, histVars
<1>2. \E e : NextReturns(e) /\ e # "nil"
  BY DEF ReadHeaderEnd, ReadFullError
<1>3. ~PastError => ~stray'
  BY <1>1 DEF PlaceInv
<1>4. ~PastError => Complete(src, cur', seen')
  <2>1. SUFFICES ASSUME ~PastError PROVE Complete(src, cur, seen)
    BY <1>1
  <2>2. PICK k \in 1 .. Len(src.entries) + 1 :
          /\ pos = src.off[k] /\ Returned(src, seen, k)
          /\ cur > 0 => DataEnd(src, cur) <= src.len
    BY <1>0, <1>1, <2>1, AtHeader
  <2>3. src \in Sources /\ src.len \in Nat /\ pos \in Nat
    BY <1>0, <1>1, <2>1, InNext
  <2>4. Len(src.entries) \in Nat /\ blockSize \in Nat /\ blockSize > 0 /\ k \in Nat
    BY <2>3, SourceFacts, ConstantsAssumption
  <2>5. src.off[k] + blockSize > src.len \/ k = Len(src.entries) + 1
    <3>1. CASE Avail(pos) < blockSize
      <4>1. /\ Avail(pos) \in Nat /\ (pos <= src.len => pos + Avail(pos) = src.len)
        BY <2>3, AvailFacts
      <4> QED  BY <3>1, <4>1, <2>2, <2>3, <2>4
    <3>2. CASE AtZeroBlock
      <4>1. pos >= src.off[Len(src.entries) + 1]
        BY <3>2 DEF AtZeroBlock
      <4>2. Len(src.entries) + 1 \in 1 .. Len(src.entries) + 1
        BY <2>4
      <4>3. src.off[Len(src.entries) + 1] \in Nat
        BY <2>3, <4>2, SourceFacts
      <4>4. ~(k < Len(src.entries) + 1)
        <5>1. SUFFICES ASSUME k < Len(src.entries) + 1 PROVE FALSE
          OBVIOUS
        <5>2. src.off[k] + blockSize <= src.off[Len(src.entries) + 1]
          BY <5>1, <2>3, <4>2, OffsetsOrdered
        <5> QED  BY <5>2, <4>1, <4>3, <2>2, <2>3, <2>4
      <4> QED  BY <4>4, <2>4
    <3> QED  BY <3>1, <3>2, <1>1
  <2> QED  BY <2>2, <2>3, <2>5, NothingLeft
<1> QED  BY <1>1, <1>2, <1>3, <1>4, PlaceFails

\* A reader that has not failed finds a header where it looks for one.
LEMMA PlaceStray ==
  ASSUME BaseInv, PlaceInv, ReadStray
  PROVE  PlaceInv'
<1>0. TypeInv
  BY DEF BaseInv
<1>1. /\ pc = "header" /\ UNCHANGED <<src, ckpt, resumes>> /\ NextReturns("ErrHeader")
      /\ Avail(pos) >= blockSize /\ ~AtZeroBlock
      /\ \A i \in 1 .. Len(src.entries) : ~HeaderAt(i)
  BY DEF ReadStray
<1>2. PastError
  <2>1. SUFFICES ASSUME ~PastError PROVE FALSE
    OBVIOUS
  <2>2. PICK k \in 1 .. Len(src.entries) + 1 : pos = src.off[k]
    BY <1>0, <1>1, <2>1, AtHeader
  <2>3. src \in Sources /\ pos \in Nat
    BY <1>0, <1>1, <2>1, InNext
  <2>4. k \in 1 .. Len(src.entries) \/ k = Len(src.entries) + 1
    BY <2>3, SourceFacts
  <2>5. k # Len(src.entries) + 1
    BY <1>1, <2>2, <2>3 DEF AtZeroBlock
  <2> QED  BY <1>1, <2>2, <2>4, <2>5 DEF HeaderAt
<1> QED  BY <1>1, <1>2, PlaceFails

\* A header that is refused, or a reader that fails.
LEMMA PlaceErrors ==
  ASSUME BaseInv, PlaceInv, ReadHeaderBad \/ NextIOError \/ NextDataIOError
  PROVE  PlaceInv'
<1>1. UNCHANGED <<src, ckpt, resumes>> /\ stray' = stray
  BY DEF ReadHeaderBad, NextIOError, NextDataIOError, histVars
<1>2. \E e : NextReturns(e) /\ e # "nil" /\ e # "EOF"
  BY DEF ReadHeaderBad, NextIOError, NextDataIOError
<1>3. ~PastError => ~stray'
  BY <1>1 DEF PlaceInv
<1> QED  BY <1>1, <1>2, <1>3, PlaceFails

\* A meta entry that is accepted leads to the entry after it.
LEMMA MetaPlace ==
  ASSUME TypeInv, PlaceInv, ~PastError, pc = "header",
         NEW i \in 1 .. Len(src.entries), HeaderAt(i), ~IsFile(src.entries[i]),
         src.entries[i].size \in Nat, src.entries[i].valid,
         pos' \in Nat, pad' = PadOf(src.entries[i].size), curr'.nb = 0,
         pos' + curr'.nb = pos + blockSize + src.entries[i].size
  PROVE  /\ pos = src.off[i] /\ SizeRecord(src, i, ext.size) /\ Returned(src, seen, i)
         /\ cur > 0 => DataEnd(src, cur) <= src.len
         /\ src.entries[i].type \in {"x", "L"} /\ src.entries[i] \in EntryType
         /\ pos' + 0 + pad' = src.off[i + 1]
<1> DEFINE e == src.entries[i]
<1>1. /\ pos = src.off[i] /\ SizeRecord(src, i, ext.size) /\ Returned(src, seen, i)
      /\ cur > 0 => DataEnd(src, cur) <= src.len
  <2>1. PICK k \in 1 .. Len(src.entries) + 1 :
          /\ pos = src.off[k] /\ SizeRecord(src, k, ext.size) /\ Returned(src, seen, k)
          /\ cur > 0 => DataEnd(src, cur) <= src.len
          /\ \A l \in 1 .. Len(src.entries) : HeaderAt(l) => l = k
    BY AtHeader
  <2>2. i = k
    BY <2>1
  <2> QED  BY <2>1, <2>2
<1>2. src \in Sources /\ pos \in Nat /\ e \in EntryType /\ seen \in Seq(Nat)
      /\ Len(src.entries) \in Nat
  BY SourceFacts DEF TypeInv
<1>3. e.type \in {"x", "L"}
  BY <1>2 DEF EntryType, IsFile
<1>4. e.len = e.size
  <2>1. DataSize(e.type, e.size) >= 0
    BY <1>3 DEF DataSize
  <2>2. SizesHold(src)
    BY <1>2, SizesAssumption
  <2> QED  BY <2>1, <2>2 DEF SizesHold
<1>5. src.off[i + 1] = src.off[i] + blockSize + 0 + e.len + PadOf(e.len)
  BY <1>2, <1>3, EntryEnd
<1>6. pos' + 0 + pad' = src.off[i + 1]
  <2>1. PICK z \in Nat, f \in Nat : z = e.size /\ f = PadOf(e.size)
    <3>1. e.size \in Int
      OBVIOUS
    <3>2. PadOf(e.size) \in 0 .. blockSize - 1
      BY <3>1, PadType, Zenon
    <3>3. PadOf(e.size) \in Nat
      BY <3>2, ConstantsAssumption
    <3> QED  BY <3>3
  <2>2. pos' + 0 = pos + blockSize + z /\ pad' = f
    BY <2>1
  <2>3. src.off[i + 1] = pos + blockSize + 0 + z + f
    BY <1>1, <1>4, <1>5, <2>1, Zenon
  <2>4. (pos' + 0) + f = pos + blockSize + 0 + z + f
    <3>1. PICK p \in Nat : p = pos'
      OBVIOUS
    <3>2. p + 0 = pos + blockSize + z
      BY <2>2, <3>1
    <3>3. (p + 0) + f = pos + blockSize + 0 + z + f
      BY <3>2, <1>2, ConstantsAssumption
    <3> QED  BY <3>1, <3>3
  <2> QED  BY <2>2, <2>3, <2>4, Zenon
<1> QED  BY <1>1, <1>2, <1>3, <1>6

\* A meta entry leads to the entry after it, and keeps its size record.
LEMMA PlaceMeta ==
  ASSUME BaseInv, PlaceInv, ReadMeta
  PROVE  PlaceInv'
<1>0. TypeInv
  BY DEF BaseInv
<1>1. /\ pc = "header" /\ UNCHANGED <<src, ckpt, resumes>> /\ UNCHANGED <<cur, seen, stray>>
      /\ (PastError' <=> PastError)
  BY DEF ReadMeta, histVars, PastError
<1>2. PICK i \in 1 .. Len(src.entries) :
        /\ HeaderAt(i) /\ ~IsFile(src.entries[i]) /\ src.entries[i].size \in Nat
        /\ pos' \in Nat /\ pos' <= src.len
        /\ pad' = PadOf(src.entries[i].size) /\ curr' \in CurrType
        /\ pos' + curr'.nb = pos + blockSize + src.entries[i].size
        /\ \/ \E e \in {"ErrUnexpectedEOF", "ErrHeader"} : NextReturns(e)
           \/ /\ src.entries[i].valid /\ curr'.nb = 0
              /\ pc' = "skip" /\ ext' = MetaExt(i) /\ UNCHANGED <<err, ret>>
  BY <1>0, MetaFacts
<1>3. ~PastError => ~stray'
  BY <1>1 DEF PlaceInv
<1>4. ckpt'.saved /\ ~ckpt'.failed =>
        AtRest(src', ckpt'.cur, ckpt'.Roffset, ckpt'.curr.nb, ckpt'.Pad, ckpt'.seen)
  BY <1>1 DEF PlaceInv
<1>5. CASE \E e \in {"ErrUnexpectedEOF", "ErrHeader"} : NextReturns(e)
  BY <1>1, <1>3, <1>5, PlaceFails
<1>6. CASE PastError
  BY <1>1, <1>4, <1>6 DEF PlaceInv
<1>7. CASE /\ ~PastError /\ src.entries[i].valid /\ curr'.nb = 0
           /\ pc' = "skip" /\ ext' = MetaExt(i) /\ UNCHANGED <<err, ret>>
  <2> DEFINE e == src.entries[i]
  <2>1. /\ pos = src.off[i] /\ SizeRecord(src, i, ext.size) /\ Returned(src, seen, i)
        /\ cur > 0 => DataEnd(src, cur) <= src.len
        /\ e.type \in {"x", "L"}
        /\ pos' + 0 + pad' = src.off[i + 1]
    BY <1>0, <1>1, <1>2, <1>7, MetaPlace
  <2>2. src \in Sources /\ pos \in Nat /\ e \in EntryType /\ seen \in Seq(Nat)
        /\ Len(src.entries) \in Nat
    BY <1>0, SourceFacts DEF TypeInv
  <2>7. Returned(src, seen, i + 1)
    BY <1>2, <2>1, <2>2, ReturnedMore
  <2>8. SizeRecord(src, i + 1, ext'.size)
    <3>1. CASE e.type = "x"
      <4>1. ext'.size = e.rsize
        BY <1>7, <3>1 DEF MetaExt
      <4>2. SizeRecord(src, i + 1, e.rsize)
        BY <3>1, <2>2, PaxRecord
      <4> QED  BY <4>1, <4>2
    <3>2. CASE e.type = "L"
      <4>1. ext'.size = ext.size
        <5>1. ext' = [ext EXCEPT !.name = i] /\ ext \in ExtType
          BY <1>0, <1>7, <3>2 DEF MetaExt, TypeInv
        <5> QED  BY <5>1 DEF ExtType
      <4>2. SizeRecord(src, i + 1, ext.size)
        BY <3>2, <2>1, <2>2, LongNameRecord
      <4> QED  BY <4>1, <4>2
    <3> QED  BY <2>1, <3>1, <3>2
  <2>9. DataThere(src, cur, pos', 0)
    BY <2>1 DEF DataThere
  <2>10. Ahead(src, i + 1, cur, pos', 0, pad', ext'.size, seen)
    BY <1>2, <2>1, <2>7, <2>8, <2>9 DEF Ahead
  <2>11. Ahead(src', i + 1, cur', pos', curr'.nb, pad', ext'.size, seen')
    BY <1>1, <1>7, <2>10, Zenon
  <2>12. i + 1 \in 1 .. Len(src'.entries) + 1
    BY <1>1, <2>2
  <2>13. err' # "EOF"
    BY <1>1, <1>7 DEF BaseInv, ErrorInv
  <2> QED  BY <1>1, <1>3, <1>4, <1>7, <2>11, <2>12, <2>13 DEF PlaceInv
<1> QED  BY <1>2, <1>5, <1>6, <1>7

\* The data of a file that is accepted is as long as the merged size says.
LEMMA SizeMerged ==
  ASSUME NEW s \in Sources, NEW i \in 1 .. Len(s.entries), NEW z, SizeRecord(s, i, z),
         IsFile(s.entries[i]), s.entries[i].valid,
         DataSize(s.entries[i].type, s.entries[i].size) >= 0,
         mergePAX(s.entries[i], z) # Bad,
         DataSize(s.entries[i].type, mergePAX(s.entries[i], z)) \in Nat
  PROVE  DataSize(s.entries[i].type, mergePAX(s.entries[i], z)) = s.entries[i].len
<1> DEFINE e == s.entries[i]
<1>1. SizesHold(s)
  BY SizesAssumption
<1>2. z \in {None} \cup {s.entries[j].rsize : j \in 1 .. i - 1}
  BY RecordFrom
<1>3. \/ mergePAX(e, z) = Bad \/ DataSize(e.type, mergePAX(e, z)) < 0
      \/ DataSize(e.type, mergePAX(e, z)) = e.len
  BY <1>1, <1>2 DEF SizesHold
<1> QED  BY <1>3

\* A file is returned where its data begins, or where the sparse map in front of
\* or in its data ends.
LEMMA PlaceFile ==
  ASSUME BaseInv, PlaceInv, ReadFile
  PROVE  PlaceInv'
<1>0. TypeInv
  BY DEF BaseInv
<1>1. /\ pc = "header" /\ UNCHANGED <<src, ckpt, resumes>> /\ stray' = stray
      /\ (PastError' <=> PastError)
  BY DEF ReadFile, histVars, PastError
<1>2. ~PastError => ~stray'
  BY <1>1 DEF PlaceInv
<1>3. ckpt'.saved /\ ~ckpt'.failed =>
        AtRest(src', ckpt'.cur, ckpt'.Roffset, ckpt'.curr.nb, ckpt'.Pad, ckpt'.seen)
  BY <1>1 DEF PlaceInv
<1>4. CASE PastError
  BY <1>1, <1>3, <1>4 DEF PlaceInv
<1>5. CASE ~PastError
  <2>1. PICK i \in 1 .. Len(src.entries) :
           LET e == src.entries[i]
               n == DataSize(e.type, mergePAX(e, ext.size))
               blocks == IF e.type = "sparse" THEN blockSize * e.blocks ELSE 0 IN
           /\ HeaderAt(i) /\ IsFile(e) /\ e.valid /\ DataSize(e.type, e.size) >= 0
           /\ pos' \in Nat /\ count' = pos' /\ pos' <= src.len
           /\ pad' \in 0 .. blockSize - 1 /\ curr' \in CurrType /\ Inside(curr')
           /\ \/ /\ \E er \in {"ErrUnexpectedEOF", "ErrHeader"} : NextReturns(er)
                 /\ UNCHANGED <<cur, seen>>
              \/ /\ NextReturns("nil") /\ mergePAX(e, ext.size) # Bad /\ n \in Nat
                 /\ pad' = PadOf(n) /\ pos' + curr'.nb = pos + blockSize + blocks + n
                 /\ cur' = i /\ seen' = Append(seen, i)
    BY <1>0, FileFacts
  <2> DEFINE e == src.entries[i]
             n == DataSize(e.type, mergePAX(e, ext.size))
             blocks == IF e.type = "sparse" THEN blockSize * e.blocks ELSE 0
  <2>2. CASE \E er \in {"ErrUnexpectedEOF", "ErrHeader"} : NextReturns(er)
    BY <2>2, <1>1, <1>2, PlaceFails
  <2>3. CASE /\ NextReturns("nil") /\ mergePAX(e, ext.size) # Bad /\ n \in Nat
             /\ pad' = PadOf(n) /\ pos' + curr'.nb = pos + blockSize + blocks + n
             /\ cur' = i /\ seen' = Append(seen, i)
    <3>1. pos = src.off[i] /\ SizeRecord(src, i, ext.size) /\ Returned(src, seen, i)
      <4>1. PICK k \in 1 .. Len(src.entries) + 1 :
              /\ pos = src.off[k] /\ SizeRecord(src, k, ext.size) /\ Returned(src, seen, k)
              /\ \A l \in 1 .. Len(src.entries) : HeaderAt(l) => l = k
        BY <1>0, <1>1, <1>5, AtHeader
      <4>2. i = k
        BY <4>1, <2>1
      <4> QED  BY <4>1, <4>2
    <3>2. src \in Sources /\ pos \in Nat /\ e \in EntryType /\ seen \in Seq(Nat)
          /\ Len(src.entries) \in Nat
      BY <1>0, SourceFacts DEF TypeInv
    <3>3. n = e.len
      BY <2>1, <2>3, <3>1, <3>2, SizeMerged
    <3>4. /\ src.off[i + 1] = src.off[i] + blockSize + blocks + e.len + PadOf(e.len)
          /\ DataEnd(src, i) = src.off[i] + blockSize + blocks + e.len
      BY <3>2, EntryEnd
    <3>5. pos' + curr'.nb + pad' = src.off[i + 1] /\ DataEnd(src, i) = pos' + curr'.nb
      BY <2>3, <3>1, <3>3, <3>4, Zenon
    <3>6. Returned(src, Append(seen, i), i + 1)
      BY <3>1, <3>2, ReturnedMore
    <3>7. DataThere(src, i, pos', curr'.nb)
      BY <3>5 DEF DataThere
    <3>8. IsFile(src.entries[i]) /\ pos' <= src.len
      BY <2>1
    <3>9. AtRest(src, i, pos', curr'.nb, pad', Append(seen, i))
      BY <3>5, <3>6, <3>7, <3>8 DEF AtRest
    <3>10. AtRest(src', cur', pos', curr'.nb, pad', seen')
      BY <1>1, <2>3, <3>9, Zenon
    <3>11. err' = "nil" /\ pc' = "idle"
      BY <2>3 DEF NextReturns
    <3> QED  BY <1>1, <1>2, <1>3, <1>5, <3>10, <3>11 DEF PlaceInv
  <2> QED  BY <2>1, <2>2, <2>3
<1> QED  BY <1>4, <1>5

\* The start of Next: the entry after the current one comes next.
LEMMA PlaceStart ==
  ASSUME BaseInv, PlaceInv, Next_
  PROVE  PlaceInv'
<1>0. TypeInv
  BY DEF BaseInv
<1>1. /\ pc = "idle" /\ err = "nil" /\ pc' = "skip" /\ ext' = NoExt
      /\ UNCHANGED <<src, pos, pad, curr, err, ckpt, resumes, cur, seen, stray>>
      /\ (PastError' <=> PastError)
  BY DEF Next_, readerVars, histVars, PastError
<1>2. ~PastError => ~stray'
  BY <1>1 DEF PlaceInv
<1>3. ckpt'.saved /\ ~ckpt'.failed =>
        AtRest(src', ckpt'.cur, ckpt'.Roffset, ckpt'.curr.nb, ckpt'.Pad, ckpt'.seen)
  BY <1>1 DEF PlaceInv
<1>4. CASE PastError
  BY <1>1, <1>3, <1>4 DEF PlaceInv
<1>5. CASE ~PastError
  <2>1. AtRest(src, cur, pos, curr.nb, pad, seen)
    BY <1>1, <1>5 DEF PlaceInv
  <2>2. src \in Sources /\ cur \in 0 .. Len(src.entries) /\ Len(src.entries) \in Nat
    BY <1>0, SourceFacts DEF TypeInv
  <2>3. SizeRecord(src, cur + 1, None)
    BY <2>1, <2>2, NoRecord DEF AtRest
  <2>4. Ahead(src, cur + 1, cur, pos, curr.nb, pad, None, seen)
    BY <2>1, <2>3 DEF AtRest, Ahead
  <2>5. ext'.size = None
    BY <1>1 DEF NoExt
  <2>6. Ahead(src', cur + 1, cur', pos', curr'.nb, pad', ext'.size, seen')
    BY <1>1, <2>4, <2>5, Zenon
  <2>7. cur + 1 \in 1 .. Len(src'.entries) + 1
    BY <1>1, <2>2
  <2> QED  BY <1>1, <1>2, <1>3, <1>5, <2>6, <2>7 DEF PlaceInv
<1> QED  BY <1>4, <1>5

\* Read: what is read of an entry is no longer left of it.
LEMMA PlaceRead ==
  ASSUME BaseInv, PlaceInv, NEW m, ReadEffect(m)
  PROVE  PlaceInv'
<1>0. TypeInv
  BY DEF BaseInv
<1>1. /\ pc = "idle" /\ err = "nil"
      /\ UNCHANGED <<src, pad, pc, ext, ckpt, resumes, cur, seen, stray>>
      /\ (PastError' <=> PastError)
  BY DEF ReadEffect, PastError
<1>2. PICK d \in Nat : /\ pos' = pos + d /\ d <= Avail(pos)
                       /\ curr' \in CurrType /\ curr'.nb + d = curr.nb
  BY DEF ReadEffect
<1>3. ~PastError => ~stray'
  BY <1>1 DEF PlaceInv
<1>4. ckpt'.saved /\ ~ckpt'.failed =>
        AtRest(src', ckpt'.cur, ckpt'.Roffset, ckpt'.curr.nb, ckpt'.Pad, ckpt'.seen)
  BY <1>1 DEF PlaceInv
<1>5. err' # "EOF"
  BY <1>1 DEF ReadEffect, ReadReturns
<1>6. CASE PastError
  BY <1>1, <1>4, <1>6 DEF PlaceInv
<1>7. CASE ~PastError
  <2>1. AtRest(src, cur, pos, curr.nb, pad, seen)
    BY <1>1, <1>7 DEF PlaceInv
  <2>2. src \in Sources /\ pos \in Nat /\ src.len \in Nat /\ curr'.nb \in Nat /\ pad \in Nat
        /\ curr.nb \in Nat
    BY <1>0, <1>2, SourceFacts, ConstantsAssumption DEF TypeInv, CurrType
  <2>3. pos + Avail(pos) = src.len /\ Avail(pos) \in Nat
    BY <2>1, <2>2, AvailFacts DEF AtRest
  <2>4. pos' <= src.len
    BY <1>2, <2>2, <2>3
  <2>5. pos' + curr'.nb = pos + curr.nb
    <3>1. PICK x \in Nat : x = curr'.nb
      BY <2>2
    <3>2. (pos + d) + x = pos + (x + d)
      BY <2>2
    <3> QED  BY <1>2, <3>1, <3>2
  <2>6. AtRest(src, cur, pos', curr'.nb, pad, seen)
    BY <2>1, <2>4, <2>5, Zenon DEF AtRest, DataThere
  <2>7. AtRest(src', cur', pos', curr'.nb, pad', seen')
    BY <1>1, <2>6, Zenon
  <2> QED  BY <1>1, <1>3, <1>4, <1>5, <1>7, <2>7 DEF PlaceInv
<1> QED  BY <1>6, <1>7

\* A step that moves nothing.
LEMMA PlaceSame ==
  ASSUME PlaceInv, pc' = pc \/ pc' = "panic",
         UNCHANGED <<src, pos, pad, curr, err, ext, ckpt, resumes, cur, seen, stray>>
  PROVE  PlaceInv'
<1>1. PastError' <=> PastError
  BY DEF PastError
<1> QED  BY <1>1 DEF PlaceInv

\* Save and Resume.
LEMMA PlaceCheckpoint ==
  ASSUME BaseInv, PlaceInv, Save \/ Resume
  PROVE  PlaceInv'
<1>0. TypeInv /\ ErrorInv
  BY DEF BaseInv
<1>1. CASE Save
  <2>1. /\ pc = "idle" /\ UNCHANGED <<src, pos, pad, curr, err, pc, ext, ret, resumes, cur, seen, stray>>
    BY <1>1 DEF Save, readerVars, histVars
  <2>2. ckpt' = [saved |-> TRUE, Roffset |-> count, Pad |-> pad, curr |-> curr,
                 cur |-> cur, name |-> name, got |-> got, seen |-> seen,
                 failed |-> ret.failed]
    BY <1>1 DEF Save
  <2>3. /\ ckpt'.Roffset = count /\ ckpt'.Pad = pad /\ ckpt'.curr = curr
        /\ ckpt'.cur = cur /\ ckpt'.seen = seen /\ ckpt'.failed = ret.failed
    BY <2>2
  <2>4. ~ret.failed => ~PastError /\ err = "nil"
    BY <1>0 DEF ErrorInv
  <2>5. ~ret.failed => AtRest(src, cur, pos, curr.nb, pad, seen)
    BY <2>1, <2>4 DEF PlaceInv
  <2>6. count = pos
    BY <1>0 DEF TypeInv
  <2>7. ckpt'.saved /\ ~ckpt'.failed =>
          AtRest(src', ckpt'.cur, ckpt'.Roffset, ckpt'.curr.nb, ckpt'.Pad, ckpt'.seen)
    <3>1. SUFFICES ASSUME ~ret.failed
                   PROVE  AtRest(src', ckpt'.cur, ckpt'.Roffset, ckpt'.curr.nb, ckpt'.Pad, ckpt'.seen)
      BY <2>3
    <3>2. AtRest(src, cur, pos, curr.nb, pad, seen)
      BY <3>1, <2>5
    <3> QED  BY <3>2, <2>1, <2>3, <2>6, Zenon
  <2>8. PastError => PastError'
    BY <1>0, <2>1, <2>3 DEF PastError, ErrorInv
  <2> QED  BY <2>1, <2>7, <2>8 DEF PlaceInv
<1>2. CASE Resume
  <2>1. /\ pc = "idle" /\ ckpt.saved /\ UNCHANGED <<src, pc, ext, ckpt, stray>>
        /\ pos' = ckpt.Roffset /\ pad' = ckpt.Pad /\ curr' = ckpt.curr /\ err' = "nil"
        /\ cur' = ckpt.cur /\ seen' = ckpt.seen /\ resumes' = resumes + 1
    BY <1>2 DEF Resume
  <2>2. /\ PastError' <=> ckpt.failed
        /\ PastError => ckpt.failed
    BY <1>0, <2>1 DEF PastError, TypeInv
  <2>3. ckpt'.saved /\ ~ckpt'.failed =>
          AtRest(src', ckpt'.cur, ckpt'.Roffset, ckpt'.curr.nb, ckpt'.Pad, ckpt'.seen)
    BY <2>1 DEF PlaceInv
  <2>4. ~ckpt.failed => AtRest(src', cur', pos', curr'.nb, pad', seen')
    BY <2>1, <2>3
  <2> QED  BY <2>1, <2>2, <2>3, <2>4 DEF PlaceInv
<1> QED  BY <1>1, <1>2

\* The initial state: the first header is at the start of the stream.
LEMMA PlaceInit == Init => PlaceInv
<1> SUFFICES ASSUME Init PROVE PlaceInv
  OBVIOUS
<1>1. /\ src \in Sources /\ pos = 0 /\ pad = 0 /\ curr = NoCurr /\ err = "nil"
      /\ pc = "idle" /\ ckpt = NoCheckpoint /\ cur = 0 /\ seen = <<>> /\ stray = FALSE
  BY DEF Init
<1>2. curr.nb = 0 /\ ckpt.saved = FALSE
  BY <1>1 DEF NoCurr, NoCheckpoint
<1>3. src.off[0 + 1] = 0 /\ 0 <= src.len
  BY <1>1, SourceFacts
<1>4. Returned(src, <<>>, 0 + 1)
  BY DEF Returned
<1>5. DataThere(src, 0, 0, 0)
  BY DEF DataThere
<1>6. AtRest(src, 0, 0, 0, 0, <<>>)
  BY <1>3, <1>4, <1>5 DEF AtRest
<1>7. AtRest(src, cur, pos, curr.nb, pad, seen)
  BY <1>1, <1>2, <1>6, Zenon
<1> QED  BY <1>1, <1>2, <1>7 DEF PlaceInv

\* Every step.
LEMMA PlaceStep == BaseInv /\ PlaceInv /\ [Next]_vars => PlaceInv'
<1> SUFFICES ASSUME BaseInv, PlaceInv, [Next]_vars PROVE PlaceInv'
  OBVIOUS
<1>0. TypeInv /\ SparseInv
  BY DEF BaseInv
<1>1. CASE NextStep
  BY <1>1, PlaceSkip, PlaceHeaderEnd, PlaceStray, PlaceErrors, PlaceMeta, PlaceFile
     DEF NextStep
<1>2. CASE NextIOError \/ NextDataIOError
  BY <1>2, PlaceErrors
<1>3. CASE Next_
  BY <1>3, PlaceStart
<1>4. CASE NextRefused \/ SavePanic
  <2>1. /\ pc' = pc \/ pc' = "panic"
        /\ UNCHANGED <<src, pos, pad, curr, err, ext, ckpt, resumes, cur, seen, stray>>
    BY <1>4 DEF NextRefused, SavePanic, readerVars, histVars
  <2> QED  BY <2>1, PlaceSame
<1>5. ASSUME NEW m \in 0 .. MaxBuffer, Read(m) PROVE PlaceInv'
  <2>1. m \in Nat
    BY ConstantsAssumption
  <2>2. CASE ReadRefused(m)
    <3>1. pc' = pc /\ UNCHANGED <<src, pos, pad, curr, err, ext, ckpt, resumes, cur, seen, stray>>
      BY <2>2 DEF ReadRefused, readerVars, histVars
    <3> QED  BY <3>1, PlaceSame
  <2>3. CASE ReadReg(m) \/ ReadHole(m) \/ ReadSparseEnd(m) \/ ReadFragment(m)
    <3>1. ReadEffect(m)
      BY <1>0, <2>1, <2>3, RegEffect, HoleEffect, SparseEndEffect, FragmentEffect
    <3> QED  BY <3>1, PlaceRead
  <2> QED  BY <1>5, <2>2, <2>3 DEF Read
<1>6. CASE Save \/ Resume
  BY <1>6, PlaceCheckpoint
<1>7. CASE UNCHANGED vars
  <2>1. pc' = pc /\ UNCHANGED <<src, pos, pad, curr, err, ext, ckpt, resumes, cur, seen, stray>>
    BY <1>7 DEF vars, readerVars, histVars
  <2> QED  BY <2>1, PlaceSame
<1> QED  BY <1>1, <1>2, <1>3, <1>4, <1>5, <1>6, <1>7 DEF Next

\* The inductive invariant.
LEMMA PlaceCorrect == Spec => [](BaseInv /\ PlaceInv)
<1>1. BaseInv /\ PlaceInv /\ [Next]_vars => (BaseInv /\ PlaceInv)'
  BY BaseStep, PlaceStep
<1>2. Init => BaseInv /\ PlaceInv
  BY BaseInit, PlaceInit
<1> QED  BY <1>1, <1>2, PTL DEF Spec

\* Next looks for headers only where the writer put them: a reader that has not
\* failed never takes another block for a header, over short reads, seeks,
\* sparse maps, PAX sizes, and Save and Resume.
THEOREM HeadersFound == Spec => []NeverStray
<1>1. BaseInv /\ PlaceInv => NeverStray
  BY DEF PlaceInv, NeverStray, AtRest, numBytes
<1> QED  BY <1>1, PlaceCorrect, PTL

\* Next reports io.EOF only when no file is left in the stream and the data of the
\* last one was all there, read, copied or skipped with Seek.
THEOREM EOFComplete == Spec => []EOFMeansComplete
<1>1. BaseInv /\ PlaceInv => EOFMeansComplete
  <2>1. SUFFICES ASSUME BaseInv, PlaceInv, ret.op = "Next", ret.err = "EOF", ~PastError
                 PROVE  /\ \A i \in 1 .. Len(src.entries) :
                             (IsFile(src.entries[i]) /\ src.off[i] + blockSize <= src.len)
                               => \E k \in 1 .. Len(seen) : seen[k] = i
                        /\ cur > 0 => DataStart(cur) + src.entries[cur].len <= src.len
    BY DEF EOFMeansComplete
  <2>2. TypeInv /\ ErrorInv
    BY <2>1 DEF BaseInv
  <2>3. err = "EOF"
    BY <2>1, <2>2 DEF ErrorInv
  <2>4. Complete(src, cur, seen)
    BY <2>1, <2>3 DEF PlaceInv
  <2>5. cur > 0 => DataStart(cur) + src.entries[cur].len <= src.len
    <3>1. SUFFICES ASSUME cur > 0 PROVE DataStart(cur) + src.entries[cur].len <= src.len
      OBVIOUS
    <3>2. src \in Sources /\ cur \in 1 .. Len(src.entries) /\ cur # 0
      BY <3>1, <2>2, SourceFacts DEF TypeInv
    <3>3. DataEnd(src, cur) = DataStart(cur) + src.entries[cur].len
      BY <3>2, EntryEnd DEF DataStart
    <3>4. DataEnd(src, cur) <= src.len
      BY <3>1, <2>4 DEF Complete
    <3> QED  BY <3>3, <3>4
  <2> QED  BY <2>4, <2>5 DEF Complete
<1> QED  BY <1>1, PlaceCorrect, PTL

-----------------------------------------------------------------------------
(***************************************************************************)
(* The content of files: Read returns the bytes of the current file and    *)
(* nothing else, for plain files, old GNU sparse files and the PAX formats *)
(* 0.0, 0.1 and 1.0, over short reads, cut streams, Save and Resume.       *)
(*                                                                         *)
(* On top of BaseInv and PlaceInv, ContentInv relates what a reader has    *)
(* returned to where it is: a file with the map s, of which f bytes were   *)
(* returned, has as many bytes of its data section read as fragments hold  *)
(* of the first f, and the fragments the reader still has hold the same    *)
(* bytes from f on as those of s.  In Next, the PAX records kept are those *)
(* in force for the entry that comes next.                                 *)
(***************************************************************************)

\* What was returned of a file with the map s: the bytes g.
GotOK(s, g) ==
  /\ s.total \in Nat /\ s.skip \in Nat /\ s.sp \in Seq(Fragment)
  /\ g \in Seq(Int) /\ Len(g) <= s.total
  /\ \A q \in 1 .. Len(g) : g[q] = IF Held(s.sp, q) THEN s.skip + DataUpTo(s.sp, q) ELSE 0

\* A reader c in the file, at position p of the stream: d is where the data
\* section of the file starts.
InFile(s, d, c, p, g) ==
  /\ p = d + (s.skip + DataUpTo(s.sp, Len(g)))
  /\ c.kind \in {"reg", "sparse"}
  /\ c.kind = "reg" => s.total = Len(g) + c.nb /\ \A q \in 1 .. s.total : Held(s.sp, q)
  /\ c.kind = "sparse" =>
       /\ c.fpos = Len(g) /\ c.total = s.total
       /\ \A q \in Len(g) + 1 .. s.total : Held(s.sp, q) <=> Held(c.sp, q)

\* The PAX records x, name apart, are those in force for entry k of the stream s.
RecordsOf(s, x, k) ==
  LET y == PaxRecords(s, k) IN
  /\ x.size = y.size /\ x.fmt = y.fmt /\ x.sp = y.sp
  /\ x.mapok = y.mapok /\ x.total = y.total

\* Where the data section of entry i of the stream s starts.
StartOf(s, i) ==
  s.off[i] + blockSize
    + (IF s.entries[i].type = "sparse" THEN blockSize * s.entries[i].blocks ELSE 0)

ContentInv ==
  /\ ~PastError =>
       /\ cur > 0 => GotOK(SparseMapOf(src, cur), got)
       /\ cur > 0 /\ pc = "idle" /\ err = "nil" =>
            InFile(SparseMapOf(src, cur), StartOf(src, cur), curr, pos, got)
       /\ cur > 0 /\ ret.op = "Read" /\ ret.err = "EOF" /\ err = "nil" =>
            Len(got) = SparseMapOf(src, cur).total
       /\ pc \in {"skip", "header"} =>
            \A k \in 1 .. Len(src.entries) + 1 :
              pos + curr.nb + pad = src.off[k] => RecordsOf(src, ext, k)
  /\ ckpt.saved /\ ~ckpt.failed /\ ckpt.cur > 0 =>
       /\ GotOK(SparseMapOf(src, ckpt.cur), ckpt.got)
       /\ InFile(SparseMapOf(src, ckpt.cur), StartOf(src, ckpt.cur), ckpt.curr,
                 ckpt.Roffset, ckpt.got)

-----------------------------------------------------------------------------
(* Counting the bytes fragments hold.                                       *)

\* A prefix of a file holds a number of bytes.
LEMMA UpToType ==
  ASSUME NEW sp, NEW f \in Nat
  PROVE  IsFiniteSet({q \in 1 .. f : Held(sp, q)}) /\ DataUpTo(sp, f) \in Nat
<1>1. IsFiniteSet(1 .. f)
  BY FS_Interval
<1>2. {q \in 1 .. f : Held(sp, q)} \in SUBSET (1 .. f)
  OBVIOUS
<1>3. IsFiniteSet({q \in 1 .. f : Held(sp, q)})
  BY <1>1, <1>2, FS_Subset
<1> QED  BY <1>3, FS_CardinalityType DEF DataUpTo

\* Nothing is held of an empty prefix.
LEMMA UpToZero ==
  ASSUME NEW sp
  PROVE  DataUpTo(sp, 0) = 0
<1>1. {q \in 1 .. 0 : Held(sp, q)} = {}
  OBVIOUS
<1> QED  BY <1>1, FS_EmptySet DEF DataUpTo

\* Every byte of a stretch of data counts.
LEMMA DataRun ==
  ASSUME NEW sp, NEW f \in Nat, NEW n \in Nat,
         \A q \in f + 1 .. f + n : Held(sp, q)
  PROVE  DataUpTo(sp, f + n) = DataUpTo(sp, f) + n
<1> DEFINE A == {q \in 1 .. f : Held(sp, q)}
           B == f + 1 .. f + n
           C == {q \in 1 .. f + n : Held(sp, q)}
<1>1. IsFiniteSet(A) /\ Cardinality(A) \in Nat
  BY UpToType, FS_CardinalityType
<1>2. IsFiniteSet(B) /\ Cardinality(B) = n
  <2>1. IsFiniteSet(B) /\ Cardinality(B) = IF f + 1 > f + n THEN 0 ELSE (f + n) - (f + 1) + 1
    BY FS_Interval
  <2>2. (IF f + 1 > f + n THEN 0 ELSE (f + n) - (f + 1) + 1) = n
    OBVIOUS
  <2> QED  BY <2>1, <2>2
<1>3. C = A \cup B
  <2>1. ASSUME NEW q PROVE q \in C <=> q \in A \cup B
    <3>1. q \in 1 .. f + n <=> q \in 1 .. f \/ q \in f + 1 .. f + n
      OBVIOUS
    <3> QED  BY <3>1
  <2> QED  BY <2>1
<1>4. A \cap B = {}
  BY DEF Held
<1> HIDE DEF A, B, C
<1>5. Cardinality(A \cup B) = Cardinality(A) + Cardinality(B) - Cardinality(A \cap B)
  BY <1>1, <1>2, FS_Union
<1>6. Cardinality(A \cap B) = 0
  BY <1>4, FS_EmptySet
<1>7. Cardinality(C) = Cardinality(A) + n
  BY <1>1, <1>2, <1>3, <1>5, <1>6
<1> QED  BY <1>7, Zenon DEF DataUpTo, A, C

\* No byte of a hole does.
LEMMA HoleRun ==
  ASSUME NEW sp, NEW f \in Nat, NEW n \in Nat,
         \A q \in f + 1 .. f + n : ~Held(sp, q)
  PROVE  DataUpTo(sp, f + n) = DataUpTo(sp, f)
<1>1. {q \in 1 .. f + n : Held(sp, q)} = {q \in 1 .. f : Held(sp, q)}
  <2>1. ASSUME NEW q
        PROVE  q \in {r \in 1 .. f + n : Held(sp, r)} <=> q \in {r \in 1 .. f : Held(sp, r)}
    <3>1. q \in 1 .. f + n <=> q \in 1 .. f \/ q \in f + 1 .. f + n
      OBVIOUS
    <3> QED  BY <3>1
  <2> QED  BY <2>1
<1> QED  BY <1>1 DEF DataUpTo

\* The same for the bytes of the stretch one by one.
LEMMA DataRunEach ==
  ASSUME NEW sp, NEW f \in Nat, NEW n \in Nat,
         \A q \in f + 1 .. f + n : Held(sp, q), NEW k \in 0 .. n
  PROVE  DataUpTo(sp, f + k) = DataUpTo(sp, f) + k
<1>1. k \in Nat /\ \A q \in f + 1 .. f + k : Held(sp, q)
  OBVIOUS
<1> QED  BY <1>1, DataRun

-----------------------------------------------------------------------------
(* What was returned grows.                                                 *)

\* The bytes of two sequences one after the other.
LEMMA ConcatFacts ==
  ASSUME NEW g \in Seq(Int), NEW b \in Seq(Int)
  PROVE  /\ g \o b \in Seq(Int) /\ Len(g \o b) = Len(g) + Len(b)
         /\ \A q \in 1 .. Len(g) : (g \o b)[q] = g[q]
         /\ \A k \in 1 .. Len(b) : (g \o b)[Len(g) + k] = b[k]
OBVIOUS

\* The bytes that the data section has next, for a stretch of data.
LEMMA MoreData ==
  ASSUME NEW s, NEW g, GotOK(s, g), NEW b \in Seq(Int), Len(g) + Len(b) <= s.total,
         \A q \in Len(g) + 1 .. Len(g) + Len(b) : Held(s.sp, q),
         \A k \in 1 .. Len(b) : b[k] = (s.skip + DataUpTo(s.sp, Len(g))) + k
  PROVE  /\ GotOK(s, g \o b)
         /\ DataUpTo(s.sp, Len(g \o b)) = DataUpTo(s.sp, Len(g)) + Len(b)
<1>1. /\ s.total \in Nat /\ s.skip \in Nat /\ s.sp \in Seq(Fragment)
      /\ g \in Seq(Int) /\ Len(g) \in Nat /\ Len(b) \in Nat
      /\ \A q \in 1 .. Len(g) : g[q] = IF Held(s.sp, q) THEN s.skip + DataUpTo(s.sp, q) ELSE 0
  BY DEF GotOK
<1> DEFINE h == g \o b
<1>2. /\ h \in Seq(Int) /\ Len(h) = Len(g) + Len(b)
      /\ \A q \in 1 .. Len(g) : h[q] = g[q]
      /\ \A k \in 1 .. Len(b) : h[Len(g) + k] = b[k]
  BY <1>1, ConcatFacts
<1> HIDE DEF h
<1>3. DataUpTo(s.sp, Len(g)) \in Nat
  BY <1>1, UpToType
<1>4. ASSUME NEW q \in 1 .. Len(h)
      PROVE  h[q] = IF Held(s.sp, q) THEN s.skip + DataUpTo(s.sp, q) ELSE 0
  <2>1. CASE q \in 1 .. Len(g)
    BY <2>1, <1>1, <1>2
  <2>2. CASE q \notin 1 .. Len(g)
    <3>1. PICK k \in 1 .. Len(b) : q = Len(g) + k
      <4>1. q - Len(g) \in 1 .. Len(b) /\ q = Len(g) + (q - Len(g))
        BY <2>2, <1>1, <1>2
      <4> QED  BY <4>1
    <3>2. h[q] = (s.skip + DataUpTo(s.sp, Len(g))) + k
      BY <3>1, <1>2
    <3>3. q \in Len(g) + 1 .. Len(g) + Len(b)
      BY <3>1, <1>1
    <3>4. Held(s.sp, q)
      BY <3>3
    <3>5. DataUpTo(s.sp, q) = DataUpTo(s.sp, Len(g)) + k
      <4>1. k \in 0 .. Len(b)
        BY <1>1
      <4> QED  BY <3>1, <4>1, <1>1, DataRunEach
    <3>6. s.skip + DataUpTo(s.sp, q) = (s.skip + DataUpTo(s.sp, Len(g))) + k
      BY <3>5, <1>1, <1>3
    <3> QED  BY <3>2, <3>4, <3>6
  <2> QED  BY <2>1, <2>2
<1>5. GotOK(s, h)
  BY <1>1, <1>2, <1>4 DEF GotOK
<1>6. DataUpTo(s.sp, Len(h)) = DataUpTo(s.sp, Len(g)) + Len(b)
  <2>1. DataUpTo(s.sp, Len(g) + Len(b)) = DataUpTo(s.sp, Len(g)) + Len(b)
    BY <1>1, DataRun
  <2> QED  BY <2>1, <1>2
<1> QED  BY <1>5, <1>6 DEF h

\* Zeros, for a hole.
LEMMA MoreZeros ==
  ASSUME NEW s, NEW g, GotOK(s, g), NEW b \in Seq(Int), Len(g) + Len(b) <= s.total,
         \A q \in Len(g) + 1 .. Len(g) + Len(b) : ~Held(s.sp, q),
         \A k \in 1 .. Len(b) : b[k] = 0
  PROVE  /\ GotOK(s, g \o b)
         /\ DataUpTo(s.sp, Len(g \o b)) = DataUpTo(s.sp, Len(g))
<1>1. /\ s.total \in Nat /\ s.skip \in Nat /\ s.sp \in Seq(Fragment)
      /\ g \in Seq(Int) /\ Len(g) \in Nat /\ Len(b) \in Nat
      /\ \A q \in 1 .. Len(g) : g[q] = IF Held(s.sp, q) THEN s.skip + DataUpTo(s.sp, q) ELSE 0
  BY DEF GotOK
<1> DEFINE h == g \o b
<1>2. /\ h \in Seq(Int) /\ Len(h) = Len(g) + Len(b)
      /\ \A q \in 1 .. Len(g) : h[q] = g[q]
      /\ \A k \in 1 .. Len(b) : h[Len(g) + k] = b[k]
  BY <1>1, ConcatFacts
<1> HIDE DEF h
<1>4. ASSUME NEW q \in 1 .. Len(h)
      PROVE  h[q] = IF Held(s.sp, q) THEN s.skip + DataUpTo(s.sp, q) ELSE 0
  <2>1. CASE q \in 1 .. Len(g)
    BY <2>1, <1>1, <1>2
  <2>2. CASE q \notin 1 .. Len(g)
    <3>1. PICK k \in 1 .. Len(b) : q = Len(g) + k
      <4>1. q - Len(g) \in 1 .. Len(b) /\ q = Len(g) + (q - Len(g))
        BY <2>2, <1>1, <1>2
      <4> QED  BY <4>1
    <3>2. h[q] = 0
      BY <3>1, <1>2
    <3>3. q \in Len(g) + 1 .. Len(g) + Len(b)
      BY <3>1, <1>1
    <3>4. ~Held(s.sp, q)
      BY <3>3
    <3> QED  BY <3>2, <3>4
  <2> QED  BY <2>1, <2>2
<1>5. GotOK(s, h)
  BY <1>1, <1>2, <1>4 DEF GotOK
<1>6. DataUpTo(s.sp, Len(h)) = DataUpTo(s.sp, Len(g))
  <2>1. DataUpTo(s.sp, Len(g) + Len(b)) = DataUpTo(s.sp, Len(g))
    BY <1>1, HoleRun
  <2> QED  BY <2>1, <1>2
<1> QED  BY <1>5, <1>6 DEF h

-----------------------------------------------------------------------------
(* The fragments a reader has left.                                         *)

\* Fragments are in Int.
LEMMA FragmentFields ==
  ASSUME NEW sp \in Seq(Fragment), NEW i \in 1 .. Len(sp)
  PROVE  sp[i].offset \in Int /\ sp[i].numBytes \in Int
<1>1. sp[i] \in Fragment
  OBVIOUS
<1> QED  BY <1>1 DEF Fragment

\* Skipping the empty fragments loses no byte.
LEMMA LiveHolds ==
  ASSUME NEW sp \in Seq(Fragment), NEW q \in Nat
  PROVE  Held(sp, q) <=> Held(Live(sp), q)
<1> DEFINE live == {i \in 1 .. Len(sp) : sp[i].numBytes # 0}
           k == CHOOSE i \in live : \A j \in live : i <= j
<1>0. Len(sp) \in Nat
  OBVIOUS
<1>1. CASE live = {}
  <2>1. Live(sp) = <<>>
    BY <1>1 DEF Live
  <2>2. ~Held(<<>>, q)
    BY DEF Held
  <2>3. ASSUME NEW f \in 1 .. Len(sp), sp[f].offset < q, q <= sp[f].offset + sp[f].numBytes
        PROVE  FALSE
    <3>1. sp[f].numBytes = 0 /\ sp[f].offset \in Int
      BY <1>1, FragmentFields
    <3> QED  BY <2>3, <3>1
  <2> QED  BY <2>1, <2>2, <2>3 DEF Held
<1>2. CASE live # {}
  <2>1. live \in SUBSET Nat
    OBVIOUS
  <2>2. \E i \in live : \A j \in live : i <= j
    BY <2>1, <1>2, LeastElement
  <2>3. k \in live /\ \A j \in live : k <= j
    BY <2>2
  <2>4. Live(sp) = SubSeq(sp, k, Len(sp))
    BY <1>2 DEF Live
  <2> HIDE DEF k
  <2>5. k \in 1 .. Len(sp) /\ k \in Nat
    BY <2>3
  <2> DEFINE r == SubSeq(sp, k, Len(sp))
  <2>6. Len(r) = (Len(sp) - k) + 1
        /\ \A i \in 1 .. Len(r) : r[i] = sp[(i + k) - 1]
    BY <2>5, <1>0
  <2> HIDE DEF r
  <2>7. ASSUME NEW f \in 1 .. Len(sp), sp[f].offset < q, q <= sp[f].offset + sp[f].numBytes
        PROVE  Held(r, q)
    <3>1. sp[f].numBytes # 0
      <4>1. sp[f].offset \in Int
        BY FragmentFields
      <4> QED  BY <4>1, <2>7
    <3>2. f \in live
      BY <3>1
    <3>3. k <= f
      BY <3>2, <2>3
    <3>4. (f - k) + 1 \in 1 .. Len(r) /\ (((f - k) + 1) + k) - 1 = f
      BY <3>3, <2>5, <2>6, <1>0
    <3>5. r[(f - k) + 1] = sp[f]
      BY <3>4, <2>6
    <3> QED  BY <3>4, <3>5, <2>7 DEF Held
  <2>8. ASSUME NEW f \in 1 .. Len(r), r[f].offset < q, q <= r[f].offset + r[f].numBytes
        PROVE  Held(sp, q)
    <3>1. (f + k) - 1 \in 1 .. Len(sp) /\ r[f] = sp[(f + k) - 1]
      BY <2>5, <2>6, <1>0
    <3> QED  BY <3>1, <2>8 DEF Held
  <2>9. Live(sp) = r
    BY <2>4 DEF r
  <2> QED  BY <2>7, <2>8, <2>9 DEF Held
<1> QED  BY <1>1, <1>2

\* Up to the first fragment there is a hole.
LEMMA BeforeFirst ==
  ASSUME NEW sp \in Seq(Fragment), NEW f, NEW t, FragmentsOK(sp, f, t), NEW q \in Nat,
         sp # <<>> => q <= sp[1].offset
  PROVE  ~Held(sp, q)
<1>1. SUFFICES ASSUME NEW i \in 1 .. Len(sp), sp[i].offset < q PROVE FALSE
  BY DEF Held
<1>2. 1 \in 1 .. Len(sp) /\ sp # <<>> /\ (i = 1 \/ 1 < i)
  OBVIOUS
<1>3. /\ sp[1].offset \in Int /\ sp[1].numBytes \in Int /\ sp[i].offset \in Int
  BY <1>2, FragmentFields
<1>4. sp[1].numBytes >= 0 /\ (i = 1 \/ sp[1].offset + sp[1].numBytes <= sp[i].offset)
  BY <1>2 DEF FragmentsOK
<1> QED  BY <1>1, <1>2, <1>3, <1>4

\* In the first fragment there is data.
LEMMA InFirst ==
  ASSUME NEW sp \in Seq(Fragment), sp # <<>>, NEW q \in Nat,
         sp[1].offset < q, q <= sp[1].offset + sp[1].numBytes
  PROVE  Held(sp, q)
<1>1. 1 \in 1 .. Len(sp)
  OBVIOUS
<1> QED  BY <1>1 DEF Held

\* After the first fragment the others hold what the map holds.
LEMMA AfterFirst ==
  ASSUME NEW sp \in Seq(Fragment), sp # <<>>, NEW q \in Nat,
         sp[1].offset + sp[1].numBytes < q
  PROVE  Held(sp, q) <=> Held(Tail(sp), q)
<1> DEFINE r == Tail(sp)
<1>1. Len(r) + 1 = Len(sp) /\ Len(r) \in Nat /\ \A i \in 1 .. Len(r) : r[i] = sp[i + 1]
  OBVIOUS
<1> HIDE DEF r
<1>2. ASSUME NEW f \in 1 .. Len(sp), sp[f].offset < q, q <= sp[f].offset + sp[f].numBytes
      PROVE  Held(r, q)
  <2>1. f # 1
    <3>1. SUFFICES ASSUME f = 1 PROVE FALSE
      OBVIOUS
    <3>2. sp[1].offset \in Int /\ sp[1].numBytes \in Int
      BY <3>1, FragmentFields
    <3>3. q <= sp[1].offset + sp[1].numBytes
      BY <1>2, <3>1
    <3> QED  BY <3>2, <3>3
  <2>2. f - 1 \in 1 .. Len(r) /\ (f - 1) + 1 = f
    BY <2>1, <1>1
  <2>3. r[f - 1] = sp[f]
    BY <2>2, <1>1
  <2> QED  BY <2>2, <2>3, <1>2 DEF Held
<1>3. ASSUME NEW f \in 1 .. Len(r), r[f].offset < q, q <= r[f].offset + r[f].numBytes
      PROVE  Held(sp, q)
  <2>1. f + 1 \in 1 .. Len(sp) /\ r[f] = sp[f + 1]
    BY <1>1
  <2> QED  BY <2>1, <1>3 DEF Held
<1> QED  BY <1>2, <1>3 DEF Held, r

-----------------------------------------------------------------------------
(* Read.                                                                    *)

\* Where the data section of an entry starts.
LEMMA DataStartType ==
  ASSUME TypeInv, cur > 0
  PROVE  DataStart(cur) \in Nat
<1>1. src \in Sources /\ cur \in 1 .. Len(src.entries) /\ cur # 0
  BY SourceFacts DEF TypeInv
<1>2. cur \in 1 .. Len(src.entries) + 1 /\ src.entries[cur] \in EntryType
  BY <1>1, SourceFacts
<1>3. src.off[cur] \in Nat /\ src.entries[cur].blocks \in Nat
  BY <1>1, <1>2, SourceFacts DEF EntryType
<1>4. blockSize * src.entries[cur].blocks \in Nat
  BY <1>3, ConstantsAssumption
<1> DEFINE b == IF src.entries[cur].type = "sparse" THEN blockSize * src.entries[cur].blocks ELSE 0
<1>5. b \in Nat
  BY <1>4
<1>6. DataStart(cur) = src.off[cur] + blockSize + b
  BY <1>1 DEF DataStart
<1> HIDE DEF b
<1> QED  BY <1>3, <1>5, <1>6, ConstantsAssumption

\* The bytes that the stream holds next.
LEMMA BytesFacts ==
  ASSUME TypeInv, cur > 0, NEW n \in Nat, NEW x \in Nat, pos = DataStart(cur) + x
  PROVE  /\ Bytes(n) \in Seq(Int) /\ Len(Bytes(n)) = n
         /\ \A k \in 1 .. n : Bytes(n)[k] = x + k
<1>1. PICK d \in Nat : d = DataStart(cur)
  BY DataStartType
<1>2. pos = d + x /\ pos \in Nat
  BY <1>1
<1>3. Bytes(n) = [k \in 1 .. n |-> pos + k - d]
  BY <1>1 DEF Bytes
<1>4. \A k \in 1 .. n : pos + k - d = x + k
  BY <1>2
<1>5. \A k \in 1 .. n : pos + k - d \in Int
  BY <1>2
<1> QED  BY <1>3, <1>4, <1>5

\* What a Read has to keep of the current file, with the map s.
ReadKeeps(s) ==
  /\ GotOK(s, got') /\ InFile(s, DataStart(cur), curr', pos', got')
  /\ ret'.err = "EOF" => Len(got') = s.total

\* n bytes of data are returned where the fragments hold data.
LEMMA TakeData ==
  ASSUME TypeInv, cur > 0, NEW s, GotOK(s, got), NEW n \in Nat,
         pos = DataStart(cur) + (s.skip + DataUpTo(s.sp, Len(got))),
         Len(got) + n <= s.total,
         \A q \in Len(got) + 1 .. Len(got) + n : Held(s.sp, q),
         pos' = pos + n, got' = got \o Bytes(n)
  PROVE  /\ GotOK(s, got') /\ Len(got') = Len(got) + n
         /\ pos' = DataStart(cur) + (s.skip + DataUpTo(s.sp, Len(got')))
<1>1. s.skip \in Nat /\ got \in Seq(Int) /\ Len(got) \in Nat
  BY DEF GotOK
<1>0. DataUpTo(s.sp, Len(got)) \in Nat
  BY <1>1, UpToType
<1>2. PICK x \in Nat : x = s.skip + DataUpTo(s.sp, Len(got))
  BY <1>0, <1>1
<1>3. pos = DataStart(cur) + x
  BY <1>2
<1> DEFINE b == Bytes(n)
<1>4. b \in Seq(Int) /\ Len(b) = n /\ \A k \in 1 .. n : b[k] = x + k
  BY <1>3, BytesFacts
<1> HIDE DEF b
<1>5. Len(got) + Len(b) <= s.total
      /\ \A q \in Len(got) + 1 .. Len(got) + Len(b) : Held(s.sp, q)
  BY <1>4
<1>6. \A k \in 1 .. Len(b) : b[k] = (s.skip + DataUpTo(s.sp, Len(got))) + k
  BY <1>2, <1>4
<1>7. /\ GotOK(s, got \o b)
      /\ DataUpTo(s.sp, Len(got \o b)) = DataUpTo(s.sp, Len(got)) + Len(b)
  BY <1>4, <1>5, <1>6, MoreData
<1>8. got' = got \o b
  BY DEF b
<1>9. Len(got \o b) = Len(got) + Len(b)
  BY <1>1, <1>4, ConcatFacts
<1>10. DataUpTo(s.sp, Len(got')) = DataUpTo(s.sp, Len(got)) + n
  BY <1>4, <1>7, <1>8
<1>11. pos' = DataStart(cur) + (s.skip + DataUpTo(s.sp, Len(got')))
  <2>1. PICK d \in Nat, u \in Nat : d = DataStart(cur) /\ u = DataUpTo(s.sp, Len(got))
    BY <1>1, DataStartType, UpToType
  <2>2. (d + (s.skip + u)) + n = d + (s.skip + (u + n))
    BY <1>1
  <2> QED  BY <1>10, <2>1, <2>2
<1> QED  BY <1>4, <1>7, <1>8, <1>9, <1>11

\* regFileReader.Read.
LEMMA ContentReg ==
  ASSUME TypeInv, cur > 0, NEW m \in Nat, ReadReg(m), NEW s, GotOK(s, got),
         InFile(s, DataStart(cur), curr, pos, got)
  PROVE  ReadKeeps(s)
<1>1. PICK u \in RegRead(m) :
        /\ pos' = pos + u.n /\ curr' = [curr EXCEPT !.nb = @ - u.n]
        /\ got' = got \o Bytes(u.n)
        /\ ReadReturns(m, u.n, u.err)
  BY DEF ReadReg, Advance
<1>2. u.n \in Nat /\ u.n <= curr.nb /\ (u.err = "EOF" => u.n = curr.nb)
  BY RegReadFacts
<1>3. curr \in CurrType /\ curr.kind = "reg" /\ curr.nb \in Nat
  BY DEF TypeInv, CurrType, ReadReg
<1>4. /\ pos = DataStart(cur) + (s.skip + DataUpTo(s.sp, Len(got)))
      /\ s.total = Len(got) + curr.nb /\ \A q \in 1 .. s.total : Held(s.sp, q)
  BY <1>3 DEF InFile
<1>5. s.total \in Nat /\ Len(got) \in Nat
  BY DEF GotOK
<1>6. Len(got) + u.n <= s.total /\ \A q \in Len(got) + 1 .. Len(got) + u.n : Held(s.sp, q)
  BY <1>2, <1>3, <1>4, <1>5
<1>7. /\ GotOK(s, got') /\ Len(got') = Len(got) + u.n
      /\ pos' = DataStart(cur) + (s.skip + DataUpTo(s.sp, Len(got')))
  BY <1>1, <1>2, <1>4, <1>6, TakeData
<1>8. curr'.kind = "reg" /\ curr'.nb = curr.nb - u.n
  BY <1>1, <1>3 DEF CurrType
<1>9. s.total = Len(got') + curr'.nb
  <2>1. PICK x \in Nat, y \in Nat, z \in Nat : x = Len(got) /\ y = curr.nb /\ z = u.n
    BY <1>2, <1>3, <1>5
  <2>2. x + y = (x + z) + (y - z)
    OBVIOUS
  <2> QED  BY <1>4, <1>7, <1>8, <2>1, <2>2
<1>10. InFile(s, DataStart(cur), curr', pos', got')
  BY <1>4, <1>7, <1>8, <1>9 DEF InFile
<1>11. ret'.err = "EOF" => Len(got') = s.total
  BY <1>1, <1>2, <1>4, <1>7, ReturnFields
<1> QED  BY <1>7, <1>10, <1>11 DEF ReadKeeps

\* A reader of a sparse file, its empty fragments skipped.
LEMMA SparseFile ==
  ASSUME TypeInv, SparseInv, curr.kind = "sparse", NEW s, NEW d, GotOK(s, got),
         InFile(s, d, curr, pos, got)
  PROVE  /\ pos = d + (s.skip + DataUpTo(s.sp, Len(got)))
         /\ s.total \in Nat /\ Len(got) \in Nat /\ Len(got) <= s.total
         /\ curr.fpos = Len(got) /\ curr.total = s.total
         /\ \A q \in Len(got) + 1 .. s.total : Held(s.sp, q) <=> Held(Live(curr.sp), q)
<1>1. /\ pos = d + (s.skip + DataUpTo(s.sp, Len(got)))
      /\ curr.fpos = Len(got) /\ curr.total = s.total
      /\ \A q \in Len(got) + 1 .. s.total : Held(s.sp, q) <=> Held(curr.sp, q)
  BY DEF InFile
<1>2. s.total \in Nat /\ Len(got) \in Nat /\ Len(got) <= s.total
  BY DEF GotOK
<1>3. curr.sp \in Seq(Fragment)
  BY DEF TypeInv, CurrType
<1>4. ASSUME NEW q \in Len(got) + 1 .. s.total
      PROVE  Held(s.sp, q) <=> Held(Live(curr.sp), q)
  <2>1. q \in Nat
    BY <1>2
  <2> QED  BY <2>1, <1>1, <1>3, LiveHolds
<1> QED  BY <1>1, <1>2, <1>4

\* readHole.
LEMMA ContentHole ==
  ASSUME TypeInv, SparseInv, cur > 0, NEW m \in Nat, ReadHole(m), NEW s, GotOK(s, got),
         InFile(s, DataStart(cur), curr, pos, got)
  PROVE  ReadKeeps(s)
<1> DEFINE sp == Live(curr.sp)
           n == Least(HoleEnd(sp) - curr.fpos, m)
           g == curr.fpos + n
           b == [k \in 1 .. n |-> 0]
<1>1. /\ curr.fpos < HoleEnd(sp) /\ curr' = [curr EXCEPT !.sp = sp, !.fpos = g]
      /\ got' = got \o b /\ pos' = pos
      /\ ReadReturns(m, n, "nil")
  BY DEF ReadHole
<1>2. curr.kind = "sparse"
  BY DEF ReadHole
<1>3. /\ curr \in CurrType /\ sp \in Seq(Fragment)
      /\ FragmentsOK(sp, curr.fpos, curr.total)
      /\ sp # <<>> => Len(sp) >= 1
      /\ curr.fpos \in Nat /\ curr.total \in Nat /\ curr.fpos <= curr.total
  BY <1>2, SparseHere
<1>4. /\ pos = DataStart(cur) + (s.skip + DataUpTo(s.sp, Len(got)))
      /\ s.total \in Nat /\ Len(got) \in Nat /\ Len(got) <= s.total
      /\ curr.fpos = Len(got) /\ curr.total = s.total
      /\ \A q \in Len(got) + 1 .. s.total : Held(s.sp, q) <=> Held(sp, q)
  BY <1>2, SparseFile
<1> HIDE DEF sp
<1>5. /\ HoleEnd(sp) \in Int /\ HoleEnd(sp) <= curr.total
      /\ sp # <<>> => HoleEnd(sp) = sp[1].offset
  <2>1. CASE sp = <<>>
    BY <2>1, <1>3 DEF HoleEnd
  <2>2. CASE sp # <<>>
    <3>1. 1 \in 1 .. Len(sp)
      BY <2>2, <1>3
    <3>2. sp[1].offset \in Int /\ sp[1].numBytes \in Int
      BY <3>1, <1>3, FragmentFields
    <3>3. sp[1].numBytes >= 0 /\ sp[1].offset + sp[1].numBytes <= curr.total
      BY <3>1, <1>3 DEF FragmentsOK
    <3>4. sp[1].offset <= curr.total
      BY <3>2, <3>3, <1>3
    <3> QED  BY <2>2, <3>2, <3>4 DEF HoleEnd
  <2> QED  BY <2>1, <2>2
<1> DEFINE he == HoleEnd(sp)
<1>6. he \in Int /\ he <= curr.total /\ (sp # <<>> => he = sp[1].offset) /\ curr.fpos < he
      /\ n = Least(he - curr.fpos, m)
  BY <1>1, <1>5
<1> HIDE DEF he
<1>7. n \in Nat /\ g <= he /\ g \in Nat /\ g = Len(got) + n
  BY <1>3, <1>4, <1>6 DEF Least
<1> HIDE DEF n
<1>8. b \in Seq(Int) /\ Len(b) = n /\ \A k \in 1 .. Len(b) : b[k] = 0
  BY <1>7
<1> HIDE DEF b, g
<1>9. Len(got) + Len(b) <= s.total
  BY <1>4, <1>6, <1>7, <1>8
<1>10. ASSUME NEW q \in Len(got) + 1 .. Len(got) + Len(b) PROVE ~Held(s.sp, q)
  <2>1. q \in Nat /\ q <= he /\ q \in Len(got) + 1 .. s.total
    BY <1>4, <1>6, <1>7, <1>8, <1>9, SMTT(60)
  <2>2. sp # <<>> => q <= sp[1].offset
    BY <2>1, <1>6
  <2>3. ~Held(sp, q)
    BY <2>1, <2>2, <1>3, BeforeFirst
  <2> QED  BY <2>1, <2>3, <1>4
<1>11. /\ GotOK(s, got \o b)
       /\ DataUpTo(s.sp, Len(got \o b)) = DataUpTo(s.sp, Len(got))
  BY <1>8, <1>9, <1>10, MoreZeros
<1>12. Len(got') = g
  <2>1. got \in Seq(Int)
    BY DEF GotOK
  <2> QED  BY <2>1, <1>1, <1>7, <1>8, ConcatFacts
<1>13. GotOK(s, got') /\ pos' = DataStart(cur) + (s.skip + DataUpTo(s.sp, Len(got')))
  BY <1>1, <1>4, <1>11
<1>14. curr'.kind = "sparse" /\ curr'.sp = sp /\ curr'.fpos = g /\ curr'.total = curr.total
  BY <1>1, <1>2, <1>3 DEF CurrType
<1>15. ASSUME NEW q \in Len(got') + 1 .. s.total PROVE Held(s.sp, q) <=> Held(curr'.sp, q)
  <2>1. q \in Len(got) + 1 .. s.total
    BY <1>4, <1>7, <1>12
  <2> QED  BY <2>1, <1>4, <1>14
<1>16. InFile(s, DataStart(cur), curr', pos', got')
  BY <1>4, <1>12, <1>13, <1>14, <1>15 DEF InFile
<1>17. ret'.err # "EOF"
  BY <1>1, ReturnFields
<1> QED  BY <1>13, <1>16, <1>17 DEF ReadKeeps

\* sparseFileReader.Read at the end of the file: all of it was returned.
LEMMA ContentSparseEnd ==
  ASSUME TypeInv, SparseInv, cur > 0, NEW m \in Nat, ReadSparseEnd(m), NEW s,
         GotOK(s, got), InFile(s, DataStart(cur), curr, pos, got)
  PROVE  ReadKeeps(s)
<1>1. /\ curr.kind = "sparse" /\ Live(curr.sp) = <<>> /\ curr.fpos >= curr.total
      /\ curr' = [curr EXCEPT !.sp = <<>>] /\ pos' = pos /\ got' = got
  BY DEF ReadSparseEnd, histVars
<1>2. /\ pos = DataStart(cur) + (s.skip + DataUpTo(s.sp, Len(got)))
      /\ s.total \in Nat /\ Len(got) \in Nat /\ Len(got) <= s.total
      /\ curr.fpos = Len(got) /\ curr.total = s.total
      /\ \A q \in Len(got) + 1 .. s.total : Held(s.sp, q) <=> Held(<<>>, q)
  BY <1>1, SparseFile
<1>3. curr \in CurrType
  BY DEF TypeInv
<1>4. curr'.kind = "sparse" /\ curr'.sp = <<>> /\ curr'.fpos = curr.fpos
      /\ curr'.total = curr.total
  BY <1>1, <1>3 DEF CurrType
<1>5. InFile(s, DataStart(cur), curr', pos', got')
  BY <1>1, <1>2, <1>4 DEF InFile
<1>6. Len(got') = s.total
  BY <1>1, <1>2
<1> QED  BY <1>1, <1>5, <1>6 DEF ReadKeeps

\* sparseFileReader.Read in a fragment.
LEMMA ContentFragment ==
  ASSUME TypeInv, SparseInv, cur > 0, NEW m \in Nat, ReadFragment(m), NEW s,
         GotOK(s, got), InFile(s, DataStart(cur), curr, pos, got)
  PROVE  ReadKeeps(s)
<1> DEFINE sp == Live(curr.sp)
           endPos == Add64(sp[1].offset, sp[1].numBytes)
           b == Least(m, endPos - curr.fpos)
<1>1. PICK u \in RegRead(b) :
        LET fpos == curr.fpos + u.n
            e == IF u.err # "EOF" THEN u.err
                 ELSE IF fpos < endPos THEN "ErrUnexpectedEOF"
                 ELSE IF fpos < curr.total THEN "nil" ELSE "EOF"
        IN /\ pos' = pos + u.n
           /\ curr' = [curr EXCEPT !.nb = @ - u.n, !.fpos = fpos,
                                   !.sp = IF fpos = endPos THEN Tail(sp) ELSE sp]
           /\ got' = got \o Bytes(u.n)
           /\ ReadReturns(m, u.n, e)
  BY DEF ReadFragment, Advance
<1>2. curr.kind = "sparse" /\ sp # <<>> /\ curr.fpos >= sp[1].offset
  BY DEF ReadFragment
<1>3. /\ curr \in CurrType /\ curr.nb \in Nat /\ sp \in Seq(Fragment)
      /\ FragmentsOK(sp, curr.fpos, curr.total)
      /\ Len(sp) >= 1 /\ sp[1].numBytes # 0
      /\ curr.fpos \in Nat /\ curr.total \in Nat /\ curr.fpos <= curr.total
  BY <1>2, SparseHere
<1>4. /\ pos = DataStart(cur) + (s.skip + DataUpTo(s.sp, Len(got)))
      /\ s.total \in Nat /\ Len(got) \in Nat /\ Len(got) <= s.total
      /\ curr.fpos = Len(got) /\ curr.total = s.total
      /\ \A q \in Len(got) + 1 .. s.total : Held(s.sp, q) <=> Held(sp, q)
  BY <1>2, SparseFile
<1> HIDE DEF sp
<1>5. 1 \in 1 .. Len(sp) /\ sp[1].offset \in Int /\ sp[1].numBytes \in Int
  BY <1>3, FragmentFields
<1>6. endPos = sp[1].offset + sp[1].numBytes /\ endPos <= curr.total /\ curr.fpos < endPos
      /\ endPos \in Int
  <2>1. /\ sp[1].offset + sp[1].numBytes <= maxInt64
        /\ sp[1].offset + sp[1].numBytes <= curr.total
        /\ curr.fpos < sp[1].offset + sp[1].numBytes
    BY <1>3, <1>5 DEF FragmentsOK
  <2>2. endPos = sp[1].offset + sp[1].numBytes
    BY <2>1, <1>5, ConstantsAssumption DEF Add64
  <2> QED  BY <2>1, <2>2, <1>5
<1> HIDE DEF endPos
<1>7. b \in Nat /\ b <= endPos - curr.fpos
  BY <1>3, <1>6 DEF Least
<1> HIDE DEF b
<1>8. u.n \in Nat /\ u.n <= b
  BY <1>7, RegReadFacts
<1> DEFINE fpos == curr.fpos + u.n
           r == IF fpos = endPos THEN Tail(sp) ELSE sp
           e == IF u.err # "EOF" THEN u.err
                ELSE IF fpos < endPos THEN "ErrUnexpectedEOF"
                ELSE IF fpos < curr.total THEN "nil" ELSE "EOF"
<1>9. /\ pos' = pos + u.n /\ got' = got \o Bytes(u.n)
      /\ curr' = [curr EXCEPT !.nb = @ - u.n, !.fpos = fpos, !.sp = r]
      /\ ReadReturns(m, u.n, e)
  BY <1>1
<1>10. fpos \in Nat /\ fpos <= endPos /\ fpos = Len(got) + u.n
  <2>1. PICK x \in Nat, y \in Nat : x = curr.fpos /\ y = u.n
    BY <1>3, <1>8
  <2>2. x + y \in Nat /\ x + y <= endPos
    BY <2>1, <1>6, <1>7, <1>8
  <2>3. fpos = x + y /\ Len(got) = x
    BY <2>1, <1>4
  <2> QED  BY <2>1, <2>2, <2>3
<1> HIDE DEF fpos
<1>11. e = "EOF" => ~(fpos < curr.total)
  OBVIOUS
<1> HIDE DEF r, e
<1>12. Len(got) + u.n <= s.total
  BY <1>4, <1>6, <1>8, <1>10
<1>13. ASSUME NEW q \in Len(got) + 1 .. Len(got) + u.n PROVE Held(s.sp, q)
  <2>1. q \in Nat /\ q \in Len(got) + 1 .. s.total /\ sp[1].offset < q
        /\ q <= sp[1].offset + sp[1].numBytes
    BY <1>2, <1>4, <1>5, <1>6, <1>8, <1>10, <1>12, SMTT(60)
  <2>2. Held(sp, q)
    BY <2>1, <1>2, <1>3, InFirst
  <2> QED  BY <2>1, <2>2, <1>4
<1>14. /\ GotOK(s, got') /\ Len(got') = Len(got) + u.n
       /\ pos' = DataStart(cur) + (s.skip + DataUpTo(s.sp, Len(got')))
  BY <1>4, <1>8, <1>9, <1>12, <1>13, TakeData
<1>15. curr'.kind = "sparse" /\ curr'.sp = r /\ curr'.fpos = fpos /\ curr'.total = curr.total
  BY <1>2, <1>3, <1>9 DEF CurrType
<1>16. ASSUME NEW q \in Len(got') + 1 .. s.total PROVE Held(s.sp, q) <=> Held(r, q)
  <2>1. q \in Len(got) + 1 .. s.total /\ q \in Nat /\ q > fpos
    BY <1>4, <1>8, <1>10, <1>14
  <2>2. Held(s.sp, q) <=> Held(sp, q)
    BY <2>1, <1>4
  <2>3. CASE fpos = endPos
    <3>1. r = Tail(sp)
      BY <2>3 DEF r
    <3>2. sp[1].offset + sp[1].numBytes < q
      BY <2>1, <2>3, <1>6, <1>10
    <3>3. Held(sp, q) <=> Held(Tail(sp), q)
      BY <2>1, <3>2, <1>2, <1>3, AfterFirst
    <3> QED  BY <2>2, <3>1, <3>3
  <2>4. CASE fpos # endPos
    <3>1. r = sp
      BY <2>4 DEF r
    <3> QED  BY <2>2, <3>1
  <2> QED  BY <2>3, <2>4
<1>17. curr'.fpos = Len(got') /\ curr'.total = s.total
  BY <1>4, <1>10, <1>14, <1>15
<1>18. InFile(s, DataStart(cur), curr', pos', got')
  BY <1>14, <1>15, <1>16, <1>17 DEF InFile
<1>19. ret'.err = "EOF" => Len(got') = s.total
  <2>1. ret'.err = e
    BY <1>9, ReturnFields
  <2> QED  BY <2>1, <1>4, <1>10, <1>11, <1>12, <1>14
<1> QED  BY <1>14, <1>18, <1>19 DEF ReadKeeps

-----------------------------------------------------------------------------
(* The map of a file.                                                       *)

\* The fields of what reading a map gives.
LEMMA ReadMapFields ==
  ASSUME NEW raw \in Nat, NEW room \in Nat, NEW x,
         x.mapok \in BOOLEAN, x.sp \in Seq(Fragment)
  PROVE  /\ ReadMap(raw, room, x) \in MapType
         /\ ReadMap(raw, room, x).sparse /\ ReadMap(raw, room, x).sp = x.sp
         /\ ReadMap(raw, room, x).used = 0
         /\ ReadMap(raw, room, x).err = "nil" => ReadMap(raw, room, x).read = raw
<1> DEFINE r == ReadMap(raw, room, x)
<1>1. r \in MapType /\ r.used = 0 /\ (r.err = "nil" => r.read = raw)
  BY ReadMapFacts
<1> DEFINE er == IF room < raw THEN "ErrUnexpectedEOF"
                 ELSE IF x.mapok THEN "nil" ELSE "ErrHeader"
           l == Least(room, raw)
           z == x.sp
<1>2. r = [err |-> er, read |-> l, used |-> 0, sparse |-> TRUE, sp |-> z, total |-> 0]
  BY Zenon DEF ReadMap
<1> HIDE DEF er, l, z, r
<1>3. r.sparse /\ r.sp = z
  BY <1>2
<1> QED  BY <1>1, <1>3 DEF z, r

\* The length a PAX sparse file has.
PaxTotal(x, size) == IF x.total = None THEN size ELSE x.total

\* handleSparseFile takes the map from where the format keeps it.
LEMMA MapRead ==
  ASSUME TypeInv, NEW e \in EntryType, NEW size \in Int, NEW n \in Nat, NEW m,
         m = IF e.type = "sparse" THEN readOldGNUSparseMap(e)
             ELSE checkForGNUSparsePAXHeaders(e, size, n),
         m.err = "nil"
  PROVE  /\ m \in MapType
         /\ e.type = "sparse" =>
              m.sparse /\ m.sp = e.sp /\ m.total = e.total /\ m.read = e.blocks * blockSize
         /\ e.type # "sparse" /\ ext.fmt \in {"0.0", "0.1"} =>
              m.sparse /\ m.sp = ext.sp /\ m.total = PaxTotal(ext, size) /\ m.read = 0
         /\ e.type # "sparse" /\ ext.fmt = "1.0" =>
              /\ m.sparse /\ m.sp = e.sp /\ m.total = PaxTotal(ext, size)
              /\ m.read = e.blocks * blockSize
         /\ e.type # "sparse" /\ ext.fmt \notin {"0.0", "0.1", "1.0"} =>
              ~m.sparse /\ m.read = 0 /\ m.used = 0
<1> DEFINE room == Avail(pos + blockSize)
           raw == e.blocks * blockSize
<1>1. /\ room \in Nat /\ raw \in Nat
      /\ e.mapok \in BOOLEAN /\ e.sp \in Seq(Fragment) /\ e.total \in Int
      /\ ext.mapok \in BOOLEAN /\ ext.sp \in Seq(Fragment) /\ ext.total \in Int
      /\ NoExt.mapok \in BOOLEAN /\ NoExt.sp \in Seq(Fragment)
  <2>1. src \in Sources /\ pos + blockSize \in Nat
    BY ConstantsAssumption DEF TypeInv
  <2>2. room \in Nat
    BY <2>1, AvailFacts
  <2>3. e.blocks \in Nat
    BY DEF EntryType
  <2>4. raw \in Nat
    BY <2>3, ConstantsAssumption
  <2>5. e.mapok \in BOOLEAN /\ e.sp \in Seq(Fragment) /\ e.total \in Int
    BY DEF EntryType, Fragment
  <2>6. ext.mapok \in BOOLEAN /\ ext.sp \in Seq(Fragment) /\ ext.total \in Int
    BY DEF TypeInv, ExtType
  <2>7. NoExt.mapok \in BOOLEAN /\ NoExt.sp \in Seq(Fragment)
    BY DEF NoExt
  <2> QED  BY <2>2, <2>4, <2>5, <2>6, <2>7
<1>2. CASE e.type = "sparse"
  <2> DEFINE r == ReadMap(raw, room, e)
  <2>1. m = IF e.total = Bad THEN [r EXCEPT !.err = "ErrHeader", !.read = 0]
                             ELSE [r EXCEPT !.total = e.total]
    BY <1>2 DEF readOldGNUSparseMap
  <2> HIDE DEF room, raw
  <2>2. /\ r \in MapType /\ r.sparse /\ r.sp = e.sp
        /\ r.err = "nil" => r.read = raw
    BY <1>1, ReadMapFields
  <2> HIDE DEF r
  <2>3. m = [r EXCEPT !.total = e.total]
    <3>1. SUFFICES ASSUME m = [r EXCEPT !.err = "ErrHeader", !.read = 0] PROVE FALSE
      BY <2>1
    <3>2. m.err = "ErrHeader"
      BY <3>1, <2>2 DEF MapType
    <3> QED  BY <3>2
  <2>4. m \in MapType
    BY <2>3, <2>2, <1>1 DEF MapType
  <2>5. m.err = r.err /\ m.sparse = r.sparse /\ m.sp = r.sp /\ m.read = r.read /\ m.total = e.total
    BY <2>3, <2>2 DEF MapType
  <2> QED  BY <1>2, <2>2, <2>4, <2>5 DEF raw
<1>3. CASE e.type # "sparse"
  <2> DEFINE lim == Least(n, room)
             r == ReadMap(raw, lim, e)
             r1 == [r EXCEPT !.used = r.read]
             x0 == [ext EXCEPT !.mapok = @ /\ ext.sp # <<>>]
             r0 == ReadMap(0, 0, x0)
             z == ReadMap(0, 0, NoExt)
             none == [z EXCEPT !.sparse = FALSE]
             q == IF ext.fmt = "1.0" THEN r1 ELSE r0
             t == PaxTotal(ext, size)
  <2>1. m = IF ext.fmt \notin {"0.0", "0.1", "1.0"} THEN none
            ELSE IF ext.total = Bad THEN [none EXCEPT !.err = "ErrHeader"]
            ELSE [q EXCEPT !.total = t]
    BY <1>3 DEF checkForGNUSparsePAXHeaders, readGNUSparseMap1x0,
                readGNUSparseMap0x1, PaxTotal
  <2>2. lim \in Nat
    BY <1>1 DEF Least
  <2>3. t \in Int
    BY <1>1 DEF PaxTotal
  <2> HIDE DEF room, raw, lim, t
  <2>4. r \in MapType /\ r.sparse /\ r.sp = e.sp /\ (r.err = "nil" => r.read = raw)
    BY <1>1, <2>2, ReadMapFields
  <2>5. r0 \in MapType /\ r0.sparse /\ r0.sp = ext.sp /\ (r0.err = "nil" => r0.read = 0)
    <3>1. x0.mapok \in BOOLEAN /\ x0.sp = ext.sp /\ x0.sp \in Seq(Fragment)
      BY PaxMap, Zenon
    <3> HIDE DEF x0
    <3> QED  BY <3>1, ReadMapFields
  <2>6. z \in MapType /\ z.used = 0 /\ (z.err = "nil" => z.read = 0)
    BY <1>1, ReadMapFields
  <2> HIDE DEF r, r0, z
  <2>7. none \in MapType /\ none.sparse = FALSE /\ none.used = z.used /\ none.read = z.read
        /\ none.err = z.err
    BY <2>6 DEF MapType
  <2>8. r1 \in MapType /\ r1.sparse = r.sparse /\ r1.sp = r.sp /\ r1.read = r.read
        /\ r1.err = r.err
    BY <2>4 DEF MapType
  <2> HIDE DEF none, r1
  <2>9. CASE ext.fmt \notin {"0.0", "0.1", "1.0"}
    <3>1. m = none
      BY <2>1, <2>9
    <3> QED  BY <1>3, <2>6, <2>7, <2>9, <3>1
  <2>10. CASE ext.fmt \in {"0.0", "0.1", "1.0"}
    <3>1. m = [q EXCEPT !.total = t]
      <4>1. SUFFICES ASSUME m = [none EXCEPT !.err = "ErrHeader"] PROVE FALSE
        BY <2>1, <2>10
      <4>2. m.err = "ErrHeader"
        BY <4>1, <2>7 DEF MapType
      <4> QED  BY <4>2
    <3>2. q \in MapType
      BY <2>5, <2>8
    <3> HIDE DEF q
    <3>3. m \in MapType
      BY <3>1, <3>2, <2>3 DEF MapType
    <3>4. m.err = q.err /\ m.sparse = q.sparse /\ m.sp = q.sp /\ m.read = q.read /\ m.total = t
      BY <3>1, <3>2 DEF MapType
    <3>5. CASE ext.fmt = "1.0"
      <4>1. q = r1
        BY <3>5 DEF q
      <4> QED  BY <1>3, <2>4, <2>8, <3>3, <3>4, <3>5, <4>1 DEF t, raw
    <3>6. CASE ext.fmt \in {"0.0", "0.1"}
      <4>1. q = r0 /\ ext.fmt # "1.0"
        BY <3>6 DEF q
      <4> QED  BY <1>3, <2>5, <3>3, <3>4, <3>6, <4>1 DEF t
    <3> QED  BY <2>10, <3>5, <3>6
  <2> QED  BY <2>9, <2>10
<1> QED  BY <1>2, <1>3

\* The map of a file with the header e, the PAX records x, and n bytes of data.
MapBy(e, x, size, n) ==
  IF e.type = "sparse" THEN [sp |-> e.sp, total |-> e.total, skip |-> 0]
  ELSE IF x.fmt \in {"0.0", "0.1"} THEN [sp |-> x.sp, total |-> PaxTotal(x, size), skip |-> 0]
  ELSE IF x.fmt = "1.0"
       THEN [sp |-> e.sp, total |-> PaxTotal(x, size), skip |-> e.blocks * blockSize]
  ELSE [sp |-> <<[offset |-> 0, numBytes |-> n]>>, total |-> n, skip |-> 0]

\* The one fragment of a plain file holds all of it.
LEMMA PlainMap ==
  ASSUME NEW n \in Nat, NEW sp, sp = <<[offset |-> 0, numBytes |-> n]>>
  PROVE  sp \in Seq(Fragment) /\ \A q \in 1 .. n : Held(sp, q)
<1>1. [offset |-> 0, numBytes |-> n] \in Fragment
  BY DEF Fragment
<1>2. Len(sp) = 1 /\ sp[1] = [offset |-> 0, numBytes |-> n] /\ sp \in Seq(Fragment)
  BY <1>1
<1>3. sp[1].offset = 0 /\ sp[1].numBytes = n /\ 1 \in 1 .. Len(sp)
  BY <1>2
<1>4. \A q \in 1 .. n : 0 < q /\ q <= 0 + n
  OBVIOUS
<1> QED  BY <1>2, <1>3, <1>4 DEF Held

\* What handleSparseFile sets up when it accepts the map.
LEMMA HandleMap ==
  ASSUME TypeInv, NEW e \in EntryType, NEW size \in Int, NEW n \in Nat,
         NEW h, h = handleSparseFile(e, size, n), h.err = "nil",
         NEW s, s = MapBy(e, ext, size, n)
  PROVE  /\ s.total \in Nat /\ s.skip \in Nat /\ s.sp \in Seq(Fragment)
         /\ h.read = (IF e.type = "sparse" THEN blockSize * e.blocks ELSE 0) + s.skip
         /\ \/ /\ h.curr.kind = "sparse" /\ h.curr.sp = s.sp /\ h.curr.fpos = 0
               /\ h.curr.total = s.total
            \/ /\ h.curr.kind = "reg" /\ h.curr.nb = s.total
               /\ \A q \in 1 .. s.total : Held(s.sp, q)
<1> DEFINE m == IF e.type = "sparse" THEN readOldGNUSparseMap(e)
                ELSE checkForGNUSparsePAXHeaders(e, size, n)
           left == n - m.used
           refused == m.err = "nil" /\ m.sparse /\ ~SparseOK(m.sp, m.total)
           raw == e.blocks * blockSize
<1>1. h = [err |-> IF refused THEN "ErrHeader" ELSE m.err, read |-> m.read,
           curr |-> IF refused THEN [NoCurr EXCEPT !.kind = "nilsparse"]
                    ELSE IF m.err # "nil" \/ ~m.sparse THEN Reg(left)
                    ELSE [kind |-> "sparse", nb |-> left, sp |-> m.sp, fpos |-> 0,
                          total |-> m.total]]
  BY Zenon DEF handleSparseFile
<1>2. ~refused
  <2>1. SUFFICES ASSUME refused PROVE FALSE
    OBVIOUS
  <2> HIDE DEF m
  <2>2. h.err = "ErrHeader"
    BY <1>1, <2>1
  <2> QED  BY <2>2
<1>3. m.err = "nil"
  <2> HIDE DEF m
  <2>1. h.err = m.err
    BY <1>1, <1>2
  <2> QED  BY <2>1
<1>4. /\ m \in MapType
      /\ e.type = "sparse" =>
           m.sparse /\ m.sp = e.sp /\ m.total = e.total /\ m.read = raw
      /\ e.type # "sparse" /\ ext.fmt \in {"0.0", "0.1"} =>
           m.sparse /\ m.sp = ext.sp /\ m.total = PaxTotal(ext, size) /\ m.read = 0
      /\ e.type # "sparse" /\ ext.fmt = "1.0" =>
           /\ m.sparse /\ m.sp = e.sp /\ m.total = PaxTotal(ext, size)
           /\ m.read = raw
      /\ e.type # "sparse" /\ ext.fmt \notin {"0.0", "0.1", "1.0"} =>
           ~m.sparse /\ m.read = 0 /\ m.used = 0
  BY <1>3, MapRead
<1> HIDE DEF m
<1>5. raw \in Nat /\ raw = blockSize * e.blocks
  <2>1. e.blocks \in Nat
    BY DEF EntryType
  <2> QED  BY <2>1, ConstantsAssumption
<1> HIDE DEF raw
<1>6. h.read = m.read
  BY <1>1
<1>7. ASSUME m.sparse
      PROVE  /\ h.curr.kind = "sparse" /\ h.curr.sp = m.sp /\ h.curr.fpos = 0
             /\ h.curr.total = m.total /\ m.total \in Nat /\ m.sp \in Seq(Fragment)
  <2>1. h.curr = [kind |-> "sparse", nb |-> left, sp |-> m.sp, fpos |-> 0, total |-> m.total]
    BY <1>1, <1>2, <1>3, <1>7
  <2>2. m.sp \in Seq(Fragment) /\ m.total \in Int /\ SparseOK(m.sp, m.total)
    BY <1>2, <1>3, <1>4, <1>7 DEF MapType
  <2>3. m.total \in Nat
    BY <2>2 DEF SparseOK
  <2> QED  BY <2>1, <2>2, <2>3
<1>8. CASE e.type = "sparse"
  <2>1. s = [sp |-> e.sp, total |-> e.total, skip |-> 0]
    BY <1>8 DEF MapBy
  <2>2. s.sp = e.sp /\ s.total = e.total /\ s.skip = 0
    BY <2>1
  <2> QED  BY <1>4, <1>5, <1>6, <1>7, <1>8, <2>2
<1>9. CASE e.type # "sparse" /\ ext.fmt \in {"0.0", "0.1"}
  <2>1. s = [sp |-> ext.sp, total |-> PaxTotal(ext, size), skip |-> 0]
    BY <1>9 DEF MapBy
  <2>2. s.sp = ext.sp /\ s.total = PaxTotal(ext, size) /\ s.skip = 0
    BY <2>1
  <2> QED  BY <1>4, <1>6, <1>7, <1>9, <2>2
<1>10. CASE e.type # "sparse" /\ ext.fmt = "1.0"
  <2>1. s = [sp |-> e.sp, total |-> PaxTotal(ext, size), skip |-> raw]
    BY <1>10 DEF MapBy, raw
  <2>2. s.sp = e.sp /\ s.total = PaxTotal(ext, size) /\ s.skip = raw
    BY <2>1
  <2> QED  BY <1>4, <1>5, <1>6, <1>7, <1>10, <2>2
<1>11. CASE e.type # "sparse" /\ ext.fmt \notin {"0.0", "0.1", "1.0"}
  <2> DEFINE p == <<[offset |-> 0, numBytes |-> n]>>
  <2>1. s = [sp |-> p, total |-> n, skip |-> 0]
    BY <1>11 DEF MapBy
  <2>2. p \in Seq(Fragment) /\ \A q \in 1 .. n : Held(p, q)
    BY PlainMap
  <2> HIDE DEF p
  <2>3. s.sp = p /\ s.total = n /\ s.skip = 0
    BY <2>1
  <2>4. ~m.sparse /\ m.read = 0 /\ left = n
    BY <1>4, <1>11
  <2>5. h.curr = Reg(n)
    BY <1>1, <1>2, <2>4
  <2>6. h.curr.kind = "reg" /\ h.curr.nb = n
    <3>1. Reg(n) \in CurrType /\ Reg(n).nb = n
      BY RegType
    <3>2. Reg(n).kind = "reg"
      BY DEF Reg, NoCurr
    <3> QED  BY <2>5, <3>1, <3>2
  <2> QED  BY <1>6, <1>11, <2>2, <2>3, <2>4, <2>6
<1> QED  BY <1>8, <1>9, <1>10, <1>11

\* The map of entry i, by the PAX records that are in force for it.
LEMMA MapOf ==
  ASSUME NEW s, NEW i, NEW x, RecordsOf(s, x, i), NEW n, n = s.entries[i].len
  PROVE  SparseMapOf(s, i) = MapBy(s.entries[i], x, mergePAX(s.entries[i], x.size), n)
<1> DEFINE y == PaxRecords(s, i)
           e == s.entries[i]
<1>1. /\ x.size = y.size /\ x.fmt = y.fmt /\ x.sp = y.sp
      /\ x.mapok = y.mapok /\ x.total = y.total
  BY DEF RecordsOf
<1>2. SparseMapOf(s, i) = MapBy(e, y, mergePAX(e, y.size), e.len)
  BY Zenon DEF SparseMapOf, MapBy, PaxTotal
<1> HIDE DEF y
<1>3. MapBy(e, y, mergePAX(e, y.size), e.len) = MapBy(e, x, mergePAX(e, x.size), e.len)
  BY <1>1, Zenon DEF MapBy, PaxTotal
<1> QED  BY <1>2, <1>3

-----------------------------------------------------------------------------
(* The PAX records in force.                                                *)

\* After a file, or at the start, there are none.
LEMMA RecordsNone ==
  ASSUME NEW s \in Sources, NEW c \in 0 .. Len(s.entries),
         c > 0 => IsFile(s.entries[c])
  PROVE  RecordsOf(s, NoExt, c + 1)
<1>1. PaxBefore(s, c + 1) = {}
  BY NoPax
<1>2. PaxRecords(s, c + 1) = NoExt
  BY <1>1, Zenon DEF PaxRecords
<1> QED  BY <1>2, Zenon DEF RecordsOf

\* After a meta entry, they are those the reader keeps of it.
LEMMA RecordsMeta ==
  ASSUME TypeInv, NEW i \in 1 .. Len(src.entries), src.entries[i].type \in {"x", "L"},
         RecordsOf(src, ext, i), NEW x, x = MetaExt(i)
  PROVE  RecordsOf(src, x, i + 1)
<1> DEFINE e == src.entries[i]
<1>0. src \in Sources
  BY DEF TypeInv
<1>1. CASE e.type = "x"
  <2>1. PaxBefore(src, i + 1) = {i}
    BY <1>0, <1>1, OnlyPax
  <2>2. (CHOOSE j \in {i} : TRUE) = i
    OBVIOUS
  <2> DEFINE y == [name |-> 0, size |-> e.rsize, fmt |-> e.fmt, sp |-> e.sp,
                   mapok |-> e.mapok, total |-> e.total]
  <2>3. PaxRecords(src, i + 1) = y
    <3>1. {i} # {}
      OBVIOUS
    <3> QED  BY <2>1, <2>2, <3>1, Zenon DEF PaxRecords
  <2>4. x = [name |-> IF e.named THEN i ELSE 0, size |-> e.rsize, fmt |-> e.fmt,
             sp |-> e.sp, mapok |-> e.mapok, total |-> e.total]
    BY <1>1 DEF MetaExt
  <2> HIDE DEF e
  <2>5. /\ x.size = y.size /\ x.fmt = y.fmt /\ x.sp = y.sp
        /\ x.mapok = y.mapok /\ x.total = y.total
    BY <2>4
  <2> QED  BY <2>3, <2>5, Zenon DEF RecordsOf
<1>2. CASE e.type = "L"
  <2>1. PaxBefore(src, i + 1) = PaxBefore(src, i)
    BY <1>0, <1>2, SamePax
  <2>2. PaxRecords(src, i + 1) = PaxRecords(src, i)
    BY <2>1, Zenon DEF PaxRecords
  <2>3. x = [ext EXCEPT !.name = i] /\ ext \in ExtType
    BY <1>2 DEF MetaExt, TypeInv
  <2>4. /\ x.size = ext.size /\ x.fmt = ext.fmt /\ x.sp = ext.sp
        /\ x.mapok = ext.mapok /\ x.total = ext.total
    BY <2>3 DEF ExtType
  <2> QED  BY <2>2, <2>4, Zenon DEF RecordsOf
<1> QED  BY <1>1, <1>2

-----------------------------------------------------------------------------
(* Every step.                                                              *)

\* The records of a reader that is n bytes before the next entry.
RecordsAhead(s, p, x) ==
  \A k \in 1 .. Len(s.entries) + 1 : p = s.off[k] => RecordsOf(s, x, k)

\* Records that are in force for the entry at an offset are so for no other entry.
LEMMA AheadOne ==
  ASSUME NEW s \in Sources, NEW k \in 1 .. Len(s.entries) + 1, NEW p, p = s.off[k],
         NEW x, RecordsOf(s, x, k)
  PROVE  RecordsAhead(s, p, x)
BY HeaderUnique DEF RecordsAhead

\* A step of Next that returns no file.
LEMMA ContentNext ==
  ASSUME TypeInv, ContentInv, UNCHANGED <<src, ckpt, resumes, cur, got>>,
         \/ \E e : NextReturns(e) /\ e # "nil"
         \/ /\ pc' \in {"skip", "header"} /\ UNCHANGED <<err, ret>>
            /\ ~PastError => RecordsAhead(src', pos' + curr'.nb + pad', ext')
  PROVE  ContentInv'
<1>1. PastError' <=> PastError
  BY DEF PastError
<1>2. ckpt'.saved /\ ~ckpt'.failed /\ ckpt'.cur > 0 =>
        /\ GotOK(SparseMapOf(src', ckpt'.cur), ckpt'.got)
        /\ InFile(SparseMapOf(src', ckpt'.cur), StartOf(src', ckpt'.cur), ckpt'.curr,
                  ckpt'.Roffset, ckpt'.got)
  BY DEF ContentInv
<1>3. ~PastError /\ cur > 0 => GotOK(SparseMapOf(src', cur'), got')
  BY DEF ContentInv
<1>4. CASE \E e : NextReturns(e) /\ e # "nil"
  <2>1. pc' = "idle" /\ err' # "nil"
    BY <1>4 DEF NextReturns
  <2> QED  BY <1>1, <1>2, <1>3, <2>1 DEF ContentInv
<1>5. CASE /\ pc' \in {"skip", "header"} /\ UNCHANGED <<err, ret>>
           /\ ~PastError => RecordsAhead(src', pos' + curr'.nb + pad', ext')
  <2>1. pc' # "idle"
    BY <1>5
  <2>2. ~PastError /\ cur > 0 /\ ret.op = "Read" /\ ret.err = "EOF" /\ err = "nil" =>
          Len(got) = SparseMapOf(src, cur).total
    BY DEF ContentInv
  <2>3. ~PastError' /\ cur' > 0 /\ ret'.op = "Read" /\ ret'.err = "EOF" /\ err' = "nil" =>
          Len(got') = SparseMapOf(src', cur').total
    BY <1>1, <1>5, <2>2, Zenon
  <2> QED  BY <1>1, <1>2, <1>3, <1>5, <2>1, <2>3 DEF ContentInv, RecordsAhead
<1> QED  BY <1>4, <1>5

\* What ContentInv says of a reader in Next.
LEMMA AheadNow ==
  ASSUME ContentInv, ~PastError, pc \in {"skip", "header"}
  PROVE  RecordsAhead(src, pos + curr.nb + pad, ext)
BY DEF ContentInv, RecordsAhead

\* skipUnread.
LEMMA ContentSkip ==
  ASSUME TypeInv, ContentInv, SkipUnread
  PROVE  ContentInv'
<1>1. pc = "skip" /\ UNCHANGED <<src, ckpt, resumes, cur, got>>
  BY DEF SkipUnread, histVars
<1>2. /\ pos' \in Nat /\ curr' = NoCurr /\ pad' = 0
      /\ \/ /\ pc' = "header" /\ UNCHANGED <<err, ext, ret>>
            /\ pos' = pos + curr.nb + pad
         \/ \E e \in {"ErrUnexpectedEOF", "EOF"} : NextReturns(e)
  BY SkipFacts
<1>3. CASE \E e \in {"ErrUnexpectedEOF", "EOF"} : NextReturns(e)
  <2>1. \E e : NextReturns(e) /\ e # "nil"
    BY <1>3
  <2> QED  BY <1>1, <2>1, ContentNext
<1>4. CASE /\ pc' = "header" /\ UNCHANGED <<err, ext, ret>>
           /\ pos' = pos + curr.nb + pad
  <2>1. SUFFICES ASSUME ~PastError PROVE RecordsAhead(src', pos' + curr'.nb + pad', ext')
    BY <1>1, <1>4, ContentNext
  <2>2. RecordsAhead(src, pos + curr.nb + pad, ext)
    BY <1>1, <2>1, AheadNow
  <2>3. pos' + curr'.nb + pad' = pos'
    <3>1. curr'.nb = 0
      BY <1>2 DEF NoCurr
    <3>2. \A p \in Nat : p + 0 + 0 = p
      OBVIOUS
    <3> QED  BY <1>2, <3>1, <3>2, Zenon
  <2> QED  BY <1>1, <1>4, <2>2, <2>3, Zenon
<1> QED  BY <1>2, <1>3, <1>4

\* The steps of Next that fail.
LEMMA ContentErrors ==
  ASSUME TypeInv, ContentInv,
         \/ ReadHeaderEnd \/ ReadStray \/ ReadHeaderBad
         \/ NextIOError \/ NextDataIOError
  PROVE  ContentInv'
<1>1. UNCHANGED <<src, ckpt, resumes, cur, got>>
  BY DEF ReadHeaderEnd, ReadStray, ReadHeaderBad, NextIOError, NextDataIOError, histVars
<1>2. \E e : NextReturns(e) /\ e # "nil"
  BY DEF ReadHeaderEnd, ReadStray, ReadHeaderBad, NextIOError, NextDataIOError,
         ReadFullError
<1> QED  BY <1>1, <1>2, ContentNext

\* A meta entry: what the reader keeps of it is in force for the entry after it.
LEMMA ContentMeta ==
  ASSUME TypeInv, PlaceInv, ContentInv, ReadMeta
  PROVE  ContentInv'
<1>1. pc = "header" /\ UNCHANGED <<src, ckpt, resumes, cur, got>>
  BY DEF ReadMeta, histVars
<1>2. PICK i \in 1 .. Len(src.entries) :
        /\ HeaderAt(i) /\ ~IsFile(src.entries[i]) /\ src.entries[i].size \in Nat
        /\ pos' \in Nat /\ pad' = PadOf(src.entries[i].size)
        /\ pos' + curr'.nb = pos + blockSize + src.entries[i].size
        /\ \/ \E e \in {"ErrUnexpectedEOF", "ErrHeader"} : NextReturns(e)
           \/ /\ src.entries[i].valid /\ curr'.nb = 0
              /\ pc' = "skip" /\ ext' = MetaExt(i) /\ UNCHANGED <<err, ret>>
  BY MetaFacts
<1>3. CASE \E e \in {"ErrUnexpectedEOF", "ErrHeader"} : NextReturns(e)
  <2>1. \E e : NextReturns(e) /\ e # "nil"
    BY <1>3
  <2> QED  BY <1>1, <2>1, ContentNext
<1>4. CASE /\ src.entries[i].valid /\ curr'.nb = 0
           /\ pc' = "skip" /\ ext' = MetaExt(i) /\ UNCHANGED <<err, ret>>
  <2>1. SUFFICES ASSUME ~PastError PROVE RecordsAhead(src', pos' + curr'.nb + pad', ext')
    BY <1>1, <1>4, ContentNext
  <2>2. /\ pos = src.off[i] /\ src.entries[i].type \in {"x", "L"}
        /\ pos' + 0 + pad' = src.off[i + 1]
    BY <1>1, <1>2, <1>4, <2>1, MetaPlace
  <2>3. src \in Sources /\ pos \in Nat /\ i \in 1 .. Len(src.entries) + 1
        /\ i + 1 \in 1 .. Len(src.entries) + 1
    BY SourceFacts DEF TypeInv
  <2>4. pos + curr.nb + pad = src.off[i]
    <3>1. curr.nb = 0 /\ pad = 0
      BY <1>1, <2>1 DEF PlaceInv
    <3>2. pos + 0 + 0 = pos
      BY <2>3
    <3> QED  BY <2>2, <3>1, <3>2, Zenon
  <2>5. RecordsAhead(src, pos + curr.nb + pad, ext)
    BY <1>1, <2>1, AheadNow
  <2>6. RecordsOf(src, ext, i)
    BY <2>3, <2>4, <2>5, Zenon DEF RecordsAhead
  <2>7. RecordsOf(src, ext', i + 1)
    BY <1>4, <2>2, <2>6, RecordsMeta
  <2>8. pos' + curr'.nb + pad' = src.off[i + 1]
    BY <1>4, <2>2, Zenon
  <2>9. RecordsAhead(src, pos' + curr'.nb + pad', ext')
    BY <2>3, <2>7, <2>8, AheadOne
  <2> QED  BY <1>1, <2>9, Zenon
<1> QED  BY <1>2, <1>3, <1>4

\* The start of Next: no records are in force after a file.
LEMMA ContentStart ==
  ASSUME TypeInv, PlaceInv, ContentInv, Next_
  PROVE  ContentInv'
<1>1. /\ pc = "idle" /\ err = "nil" /\ pc' = "skip" /\ ext' = NoExt
      /\ UNCHANGED <<src, pos, pad, curr, err, ret, ckpt, resumes, cur, got>>
  BY DEF Next_, readerVars, histVars
<1>2. SUFFICES ASSUME ~PastError PROVE RecordsAhead(src', pos' + curr'.nb + pad', ext')
  BY <1>1, ContentNext
<1>3. AtRest(src, cur, pos, curr.nb, pad, seen)
  BY <1>1, <1>2 DEF PlaceInv
<1>4. src \in Sources /\ cur \in 0 .. Len(src.entries)
      /\ cur + 1 \in 1 .. Len(src.entries) + 1
  BY SourceFacts DEF TypeInv
<1>5. RecordsOf(src, NoExt, cur + 1)
  BY <1>3, <1>4, RecordsNone DEF AtRest
<1>6. pos + curr.nb + pad = src.off[cur + 1]
  BY <1>3 DEF AtRest
<1>7. RecordsAhead(src, pos + curr.nb + pad, NoExt)
  BY <1>4, <1>5, <1>6, AheadOne
<1> QED  BY <1>1, <1>7, Zenon

\* A file that Next returns: nothing of it has been returned yet, and the reader is
\* where the data of its first fragment starts.
LEMMA FileStart ==
  ASSUME TypeInv, NEW i \in 1 .. Len(src.entries), NEW n \in Nat, n = src.entries[i].len,
         NEW size \in Int, size = mergePAX(src.entries[i], ext.size),
         RecordsOf(src, ext, i), pos = src.off[i],
         NEW h, h = handleSparseFile(src.entries[i], size, n), h.err = "nil"
  PROVE  /\ GotOK(SparseMapOf(src, i), <<>>)
         /\ InFile(SparseMapOf(src, i), StartOf(src, i), h.curr,
                   pos + (blockSize + h.read), <<>>)
<1> DEFINE e == src.entries[i]
           b == IF e.type = "sparse" THEN blockSize * e.blocks ELSE 0
<1>1. PICK s : s = SparseMapOf(src, i)
  OBVIOUS
<1>2. e \in EntryType /\ pos \in Nat /\ blockSize \in Nat
  BY SourceFacts, ConstantsAssumption DEF TypeInv
<1>3. s = MapBy(e, ext, size, n)
  BY <1>1, MapOf
<1>4. /\ s.total \in Nat /\ s.skip \in Nat /\ s.sp \in Seq(Fragment)
      /\ h.read = b + s.skip
      /\ \/ /\ h.curr.kind = "sparse" /\ h.curr.sp = s.sp /\ h.curr.fpos = 0
            /\ h.curr.total = s.total
         \/ /\ h.curr.kind = "reg" /\ h.curr.nb = s.total
            /\ \A q \in 1 .. s.total : Held(s.sp, q)
  BY <1>2, <1>3, HandleMap, SMTT(60)
<1>5. b \in Nat
  <2>1. e.blocks \in Nat
    BY <1>2 DEF EntryType
  <2>2. blockSize * e.blocks \in Nat
    BY <1>2, <2>1
  <2> QED  BY <2>2
<1>6. StartOf(src, i) = pos + blockSize + b
  BY DEF StartOf
<1> HIDE DEF b, e
<1>7. Len(<<>>) = 0 /\ <<>> \in Seq(Int)
  OBVIOUS
<1>8. GotOK(s, <<>>)
  BY <1>4, <1>7 DEF GotOK
<1>9. pos + (blockSize + h.read) = StartOf(src, i) + (s.skip + DataUpTo(s.sp, Len(<<>>)))
  <2>1. DataUpTo(s.sp, Len(<<>>)) = 0
    BY <1>7, UpToZero
  <2>2. PICK k \in Nat : k = s.skip
    BY <1>4
  <2>3. pos + (blockSize + (b + k)) = (pos + blockSize + b) + (k + 0)
    BY <1>2, <1>5
  <2>4. pos + (blockSize + h.read) = pos + (blockSize + (b + k))
    <3>1. h.read = b + k
      BY <1>4, <2>2
    <3> QED  BY <3>1, Zenon
  <2>5. StartOf(src, i) + (s.skip + DataUpTo(s.sp, Len(<<>>)))
          = (pos + blockSize + b) + (k + 0)
    <3>1. PICK u : u = DataUpTo(s.sp, Len(<<>>))
      OBVIOUS
    <3>2. u = 0
      BY <2>1, <3>1
    <3>3. s.skip + u = k + 0
      BY <2>2, <3>2, Zenon
    <3> QED  BY <1>6, <3>1, <3>3, Zenon
  <2> QED  BY <2>3, <2>4, <2>5, Zenon
<1>10. InFile(s, StartOf(src, i), h.curr, pos + (blockSize + h.read), <<>>)
  <2>1. s.total = Len(<<>>) + s.total
    BY <1>4, <1>7
  <2> QED  BY <1>4, <1>7, <1>9, <2>1 DEF InFile
<1> QED  BY <1>1, <1>8, <1>10

\* A file.
LEMMA ContentFile ==
  ASSUME TypeInv, ErrorInv, PlaceInv, ContentInv, ReadFile
  PROVE  ContentInv'
<1>1. /\ pc = "header" /\ UNCHANGED <<src, ckpt, resumes>> /\ (PastError' <=> PastError)
  BY DEF ReadFile, PastError
<1>2. PICK i \in 1 .. Len(src.entries) :
        LET e == src.entries[i]
            size == mergePAX(e, ext.size)
            n == DataSize(e.type, size)
            s == handleSparseFile(e, size, n) IN
        /\ HeaderAt(i) /\ IsFile(e) /\ e.valid /\ DataSize(e.type, e.size) >= 0
        /\ IF size = Bad \/ n < 0
           THEN NextReturns("ErrHeader") /\ UNCHANGED <<cur, got>>
           ELSE /\ pos' = pos + (blockSize + s.read) /\ NextReturns(s.err)
                /\ curr' = s.curr
                /\ IF s.err = "nil" THEN cur' = i /\ got' = <<>>
                   ELSE UNCHANGED <<cur, got>>
  BY Zenon DEF ReadFile, Advance
<1> DEFINE e == src.entries[i]
           size == mergePAX(e, ext.size)
           n == DataSize(e.type, size)
           h == handleSparseFile(e, size, n)
<1>3. CASE UNCHANGED <<cur, got>> /\ \E er : NextReturns(er) /\ er # "nil"
  BY <1>1, <1>3, ContentNext
<1>4. CASE /\ size # Bad /\ ~(n < 0) /\ pos' = pos + (blockSize + h.read)
           /\ NextReturns(h.err) /\ curr' = h.curr
           /\ h.err = "nil" /\ cur' = i /\ got' = <<>>
  <2>0. ckpt'.saved /\ ~ckpt'.failed /\ ckpt'.cur > 0 =>
          /\ GotOK(SparseMapOf(src', ckpt'.cur), ckpt'.got)
          /\ InFile(SparseMapOf(src', ckpt'.cur), StartOf(src', ckpt'.cur), ckpt'.curr,
                    ckpt'.Roffset, ckpt'.got)
    BY <1>1 DEF ContentInv
  <2>1. pc' = "idle" /\ ret'.op = "Next"
    BY <1>4, ReturnFields DEF NextReturns
  <2>2. SUFFICES ASSUME ~PastError
                 PROVE  /\ GotOK(SparseMapOf(src', cur'), got')
                        /\ InFile(SparseMapOf(src', cur'), StartOf(src', cur'), curr', pos', got')
    BY <1>1, <2>0, <2>1 DEF ContentInv
  <2>3. src \in Sources /\ pos \in Nat /\ e \in EntryType /\ ext \in ExtType
        /\ i \in 1 .. Len(src.entries) + 1
    BY SourceFacts DEF TypeInv
  <2>4. size \in Int /\ n \in Nat
    <3>1. e.size \in Int /\ ext.size \in Int
      BY <2>3 DEF EntryType, ExtType
    <3>2. size \in Int
      BY <3>1 DEF mergePAX
    <3>3. n \in Int
      BY <3>2 DEF DataSize
    <3> HIDE DEF n, size
    <3> QED  BY <1>4, <3>2, <3>3
  <2>5. PICK k \in 1 .. Len(src.entries) + 1 :
          /\ pos = src.off[k] /\ SizeRecord(src, k, ext.size)
          /\ \A l \in 1 .. Len(src.entries) : HeaderAt(l) => l = k
    BY <1>1, <2>2, AtHeader
  <2>6. pos = src.off[i] /\ SizeRecord(src, i, ext.size)
    <3>1. i = k
      BY <1>2, <2>5
    <3> QED  BY <2>5, <3>1
  <2>7. n = e.len
    BY <1>2, <1>4, <2>3, <2>4, <2>6, SizeMerged
  <2>8. RecordsOf(src, ext, i)
    <3>1. curr.nb = 0 /\ pad = 0
      BY <1>1, <2>2 DEF PlaceInv
    <3>2. \A p \in Nat : p + 0 + 0 = p
      OBVIOUS
    <3>3. pos + curr.nb + pad = src.off[i]
      BY <2>3, <2>6, <3>1, <3>2, Zenon
    <3>4. RecordsAhead(src, pos + curr.nb + pad, ext)
      BY <1>1, <2>2, AheadNow
    <3> QED  BY <2>3, <3>3, <3>4, Zenon DEF RecordsAhead
  <2>9. /\ GotOK(SparseMapOf(src, i), <<>>)
        /\ InFile(SparseMapOf(src, i), StartOf(src, i), h.curr,
                  pos + (blockSize + h.read), <<>>)
    BY <1>4, <2>4, <2>6, <2>7, <2>8, FileStart, Zenon
  <2> HIDE DEF h
  <2> QED  BY <1>1, <1>4, <2>9, Zenon
<1>5. \/ UNCHANGED <<cur, got>> /\ \E er : NextReturns(er) /\ er # "nil"
      \/ /\ size # Bad /\ ~(n < 0) /\ pos' = pos + (blockSize + h.read)
         /\ NextReturns(h.err) /\ curr' = h.curr
         /\ h.err = "nil" /\ cur' = i /\ got' = <<>>
  <2>1. CASE size = Bad \/ n < 0
    <3>1. NextReturns("ErrHeader") /\ UNCHANGED <<cur, got>> /\ "ErrHeader" # "nil"
      BY <1>2, <2>1
    <3> QED  BY <3>1
  <2>2. CASE ~(size = Bad \/ n < 0)
    <3>1. /\ pos' = pos + (blockSize + h.read) /\ NextReturns(h.err)
          /\ curr' = h.curr
          /\ IF h.err = "nil" THEN cur' = i /\ got' = <<>> ELSE UNCHANGED <<cur, got>>
      BY <1>2, <2>2, Zenon
    <3> HIDE DEF h
    <3> QED  BY <2>2, <3>1
  <2> QED  BY <2>1, <2>2
<1> QED  BY <1>3, <1>4, <1>5

\* Read returns bytes of the file, or fails.
LEMMA ContentRead ==
  ASSUME TypeInv, SparseInv, ContentInv, NEW m \in Nat,
         ReadReg(m) \/ ReadHole(m) \/ ReadSparseEnd(m) \/ ReadFragment(m)
  PROVE  ContentInv'
<1>1. /\ pc = "idle" /\ err = "nil" /\ pc' = "idle"
      /\ UNCHANGED <<src, ckpt, resumes, cur>> /\ (PastError' <=> PastError)
  BY DEF ReadReg, ReadHole, ReadSparseEnd, ReadFragment, histVars, PastError
<1>2. ckpt'.saved /\ ~ckpt'.failed /\ ckpt'.cur > 0 =>
        /\ GotOK(SparseMapOf(src', ckpt'.cur), ckpt'.got)
        /\ InFile(SparseMapOf(src', ckpt'.cur), StartOf(src', ckpt'.cur), ckpt'.curr,
                  ckpt'.Roffset, ckpt'.got)
  BY <1>1 DEF ContentInv
<1>3. SUFFICES ASSUME ~PastError, cur > 0
               PROVE  /\ GotOK(SparseMapOf(src', cur'), got')
                      /\ InFile(SparseMapOf(src', cur'), StartOf(src', cur'), curr', pos', got')
                      /\ ret'.err = "EOF" => Len(got') = SparseMapOf(src', cur').total
  BY <1>1, <1>2 DEF ContentInv
<1>4. PICK s : s = SparseMapOf(src, cur)
  OBVIOUS
<1>5. DataStart(cur) = StartOf(src, cur)
  <2>1. cur # 0
    BY <1>3 DEF TypeInv
  <2> QED  BY <2>1 DEF DataStart, StartOf
<1>6. GotOK(s, got) /\ InFile(s, DataStart(cur), curr, pos, got)
  BY <1>1, <1>3, <1>4, <1>5, Zenon DEF ContentInv
<1>7. ReadKeeps(s)
  BY <1>3, <1>6, ContentReg, ContentHole, ContentSparseEnd, ContentFragment
<1>8. /\ GotOK(s, got') /\ InFile(s, DataStart(cur), curr', pos', got')
      /\ ret'.err = "EOF" => Len(got') = s.total
  BY <1>7 DEF ReadKeeps
<1> QED  BY <1>1, <1>4, <1>5, <1>8, Zenon

\* A call that is refused: io.EOF of a Read without an error is that of a reader
\* before its first file.
LEMMA ContentRefused ==
  ASSUME TypeInv, ContentInv,
         \/ NextRefused
         \/ \E m : ReadRefused(m)
         \/ SavePanic
         \/ UNCHANGED vars
  PROVE  ContentInv'
<1>1. UNCHANGED <<src, pos, pad, curr, err, ext, ckpt, resumes, cur, got>>
  BY DEF NextRefused, ReadRefused, SavePanic, vars, readerVars, histVars
<1>2. PastError' <=> PastError
  BY <1>1 DEF PastError
<1>3. pc' = pc \/ pc' = "panic"
  BY DEF NextRefused, ReadRefused, SavePanic, vars
<1>4. ckpt'.saved /\ ~ckpt'.failed /\ ckpt'.cur > 0 =>
        /\ GotOK(SparseMapOf(src', ckpt'.cur), ckpt'.got)
        /\ InFile(SparseMapOf(src', ckpt'.cur), StartOf(src', ckpt'.cur), ckpt'.curr,
                  ckpt'.Roffset, ckpt'.got)
  BY <1>1 DEF ContentInv
<1>5. ~PastError /\ cur > 0 /\ ret'.op = "Read" /\ ret'.err = "EOF" /\ err = "nil" =>
        Len(got) = SparseMapOf(src, cur).total
  <2>1. CASE ret' = ret
    BY <2>1 DEF ContentInv
  <2>2. CASE NextRefused
    <3>1. ret' = [op |-> "Next", n |-> 0, err |-> err, m |-> 0, failed |-> TRUE]
      BY <2>2 DEF NextRefused
    <3>2. ret'.op = "Next"
      BY <3>1
    <3> QED  BY <3>2
  <2>3. CASE \E m : ReadRefused(m)
    <3>1. SUFFICES ASSUME ~PastError, cur > 0, err = "nil" PROVE FALSE
      OBVIOUS
    <3>2. pc = "idle" /\ curr.kind = "nil"
      BY <2>3, <3>1 DEF ReadRefused
    <3>3. InFile(SparseMapOf(src, cur), StartOf(src, cur), curr, pos, got)
      BY <3>1, <3>2 DEF ContentInv
    <3> QED  BY <3>2, <3>3 DEF InFile
  <2> QED  BY <2>1, <2>2, <2>3 DEF SavePanic, vars
<1> QED  BY <1>1, <1>2, <1>3, <1>4, <1>5 DEF ContentInv

\* Save and Resume.
LEMMA ContentCheckpoint ==
  ASSUME TypeInv, ErrorInv, ContentInv, Save \/ Resume
  PROVE  ContentInv'
<1>1. CASE Save
  <2>1. /\ pc = "idle" /\ UNCHANGED <<src, pos, pad, curr, err, pc, ext, ret, resumes, cur, got>>
    BY <1>1 DEF Save, readerVars, histVars
  <2>2. ckpt' = [saved |-> TRUE, Roffset |-> count, Pad |-> pad, curr |-> curr,
                 cur |-> cur, name |-> name, got |-> got, seen |-> seen,
                 failed |-> ret.failed]
    BY <1>1 DEF Save
  <2>3. /\ ckpt'.Roffset = count /\ ckpt'.curr = curr
        /\ ckpt'.cur = cur /\ ckpt'.got = got /\ ckpt'.failed = ret.failed
    BY <2>2
  <2>4. ~ret.failed => ~PastError /\ err = "nil"
    BY DEF ErrorInv
  <2>5. count = pos
    BY DEF TypeInv
  <2>6. ckpt'.saved /\ ~ckpt'.failed /\ ckpt'.cur > 0 =>
          /\ GotOK(SparseMapOf(src', ckpt'.cur), ckpt'.got)
          /\ InFile(SparseMapOf(src', ckpt'.cur), StartOf(src', ckpt'.cur), ckpt'.curr,
                    ckpt'.Roffset, ckpt'.got)
    <3>1. SUFFICES ASSUME ~ret.failed, cur > 0
                   PROVE  /\ GotOK(SparseMapOf(src', ckpt'.cur), ckpt'.got)
                          /\ InFile(SparseMapOf(src', ckpt'.cur), StartOf(src', ckpt'.cur),
                                    ckpt'.curr, ckpt'.Roffset, ckpt'.got)
      BY <2>3
    <3>2. /\ GotOK(SparseMapOf(src, cur), got)
          /\ InFile(SparseMapOf(src, cur), StartOf(src, cur), curr, pos, got)
      BY <2>1, <2>4, <3>1 DEF ContentInv
    <3> QED  BY <2>1, <2>3, <2>5, <3>2, Zenon
  <2>7. PastError => PastError'
    BY <2>1, <2>3 DEF PastError, ErrorInv
  <2> QED  BY <2>1, <2>6, <2>7 DEF ContentInv
<1>2. CASE Resume
  <2>1. /\ pc = "idle" /\ ckpt.saved /\ UNCHANGED <<src, pc, ext, ckpt>>
        /\ pos' = ckpt.Roffset /\ pad' = ckpt.Pad /\ curr' = ckpt.curr /\ err' = "nil"
        /\ cur' = ckpt.cur /\ got' = ckpt.got /\ resumes' = resumes + 1
        /\ ret' = [NoRet EXCEPT !.failed = ckpt.failed]
    BY <1>2 DEF Resume
  <2>2. PastError' <=> ckpt.failed
    BY <2>1 DEF PastError, TypeInv
  <2>3. ckpt'.saved /\ ~ckpt'.failed /\ ckpt'.cur > 0 =>
          /\ GotOK(SparseMapOf(src', ckpt'.cur), ckpt'.got)
          /\ InFile(SparseMapOf(src', ckpt'.cur), StartOf(src', ckpt'.cur), ckpt'.curr,
                    ckpt'.Roffset, ckpt'.got)
    BY <2>1 DEF ContentInv
  <2>4. ret'.op = "none"
    BY <2>1 DEF NoRet
  <2>5. ~ckpt.failed /\ cur' > 0 =>
          /\ GotOK(SparseMapOf(src', cur'), got')
          /\ InFile(SparseMapOf(src', cur'), StartOf(src', cur'), curr', pos', got')
    BY <2>1, <2>3, Zenon
  <2> QED  BY <2>1, <2>2, <2>3, <2>4, <2>5 DEF ContentInv
<1> QED  BY <1>1, <1>2

\* The initial state.
LEMMA ContentInit == Init => ContentInv
<1> SUFFICES ASSUME Init PROVE ContentInv
  OBVIOUS
<1>1. pc = "idle" /\ ckpt.saved = FALSE /\ cur = 0
  BY DEF Init, NoCheckpoint
<1> QED  BY <1>1 DEF ContentInv

\* Every step.
LEMMA ContentStep == BaseInv /\ PlaceInv /\ ContentInv /\ [Next]_vars => ContentInv'
<1> SUFFICES ASSUME BaseInv, PlaceInv, ContentInv, [Next]_vars PROVE ContentInv'
  OBVIOUS
<1>0. TypeInv /\ ErrorInv /\ SparseInv
  BY DEF BaseInv
<1>1. CASE NextStep
  BY <1>0, <1>1, ContentSkip, ContentErrors, ContentMeta, ContentFile DEF NextStep
<1>2. CASE NextIOError \/ NextDataIOError
  BY <1>0, <1>2, ContentErrors
<1>3. CASE Next_
  BY <1>0, <1>3, ContentStart
<1>4. CASE NextRefused \/ SavePanic \/ UNCHANGED vars
  BY <1>0, <1>4, ContentRefused
<1>5. ASSUME NEW m \in 0 .. MaxBuffer, Read(m) PROVE ContentInv'
  <2>1. m \in Nat
    BY ConstantsAssumption
  <2>2. CASE ReadRefused(m)
    BY <1>0, <2>2, ContentRefused
  <2>3. CASE ReadReg(m) \/ ReadHole(m) \/ ReadSparseEnd(m) \/ ReadFragment(m)
    BY <1>0, <2>1, <2>3, ContentRead
  <2> QED  BY <1>5, <2>2, <2>3 DEF Read
<1>6. CASE Save \/ Resume
  BY <1>0, <1>6, ContentCheckpoint
<1> QED  BY <1>1, <1>2, <1>3, <1>4, <1>5, <1>6 DEF Next

\* The inductive invariant.
LEMMA ContentCorrect == Spec => [](BaseInv /\ PlaceInv /\ ContentInv)
<1>1. BaseInv /\ PlaceInv /\ ContentInv /\ [Next]_vars => (BaseInv /\ PlaceInv /\ ContentInv)'
  BY BaseStep, PlaceStep, ContentStep
<1>2. Init => BaseInv /\ PlaceInv /\ ContentInv
  BY BaseInit, PlaceInit, ContentInit
<1> QED  BY <1>1, <1>2, PTL DEF Spec

\* A sequence that agrees with another as far as it goes is a prefix of it.
LEMMA PrefixEqual ==
  ASSUME NEW g \in Seq(Int), NEW x \in Seq(Int), Len(g) <= Len(x),
         \A q \in 1 .. Len(g) : g[q] = x[q]
  PROVE  g = SubSeq(x, 1, Len(g)) /\ (Len(g) = Len(x) => g = x)
<1>1. Len(g) \in Nat /\ Len(x) \in Nat
  OBVIOUS
<1>2. PICK y : y = SubSeq(x, 1, Len(g))
  OBVIOUS
<1>3. y \in Seq(Int) /\ Len(y) = Len(g) /\ \A q \in 1 .. Len(g) : y[q] = x[q]
  BY <1>1, <1>2
<1>4. g = y
  BY <1>1, <1>3, SeqEqual
<1>5. Len(g) = Len(x) => g = x
  BY <1>1, SeqEqual
<1> QED  BY <1>2, <1>4, <1>5

\* What was returned of a file is a prefix of it, and all of it when as long.
LEMMA GotPrefix ==
  ASSUME NEW s, NEW g, GotOK(s, g), NEW x,
         x = [p \in 1 .. s.total |-> IF Held(s.sp, p) THEN s.skip + DataUpTo(s.sp, p) ELSE 0]
  PROVE  /\ Len(g) <= Len(x) /\ g = SubSeq(x, 1, Len(g))
         /\ Len(g) = s.total => g = x
<1>1. /\ s.total \in Nat /\ s.skip \in Nat /\ g \in Seq(Int) /\ Len(g) <= s.total
      /\ \A q \in 1 .. Len(g) : g[q] = IF Held(s.sp, q) THEN s.skip + DataUpTo(s.sp, q) ELSE 0
  BY DEF GotOK
<1>2. ASSUME NEW p \in 1 .. s.total
      PROVE  (IF Held(s.sp, p) THEN s.skip + DataUpTo(s.sp, p) ELSE 0) \in Int
  <2>1. p \in Nat
    BY <1>1
  <2>2. DataUpTo(s.sp, p) \in Nat
    BY <2>1, UpToType
  <2> QED  BY <1>1, <2>2
<1>3. x \in Seq(Int) /\ Len(x) = s.total /\ Len(g) \in Nat
  <2>1. x \in [1 .. s.total -> Int]
    BY <1>2
  <2> QED  BY <1>1, <2>1
<1>4. \A q \in 1 .. Len(g) : g[q] = x[q]
  <2>1. SUFFICES ASSUME NEW q \in 1 .. Len(g) PROVE g[q] = x[q]
    OBVIOUS
  <2>2. q \in 1 .. s.total
    BY <1>1, <1>3
  <2>3. x[q] = IF Held(s.sp, q) THEN s.skip + DataUpTo(s.sp, q) ELSE 0
    BY <2>2, Zenon
  <2> QED  BY <1>1, <2>3, Zenon
<1>5. g = SubSeq(x, 1, Len(g)) /\ (Len(g) = Len(x) => g = x)
  BY <1>1, <1>3, <1>4, PrefixEqual
<1> QED  BY <1>1, <1>3, <1>5

\* Read returns the bytes of the current file, in order, with zeros for its holes,
\* and io.EOF only after the last one, whatever the sparse format, the sizes of the
\* reads and the point where the stream is cut, and across Save and Resume.
THEOREM ReadsExact == Spec => []ContentExact
<1>1. ContentInv => ContentExact
  <2>1. SUFFICES ASSUME ContentInv, cur > 0, ~PastError
                 PROVE  /\ Len(got) <= Len(Expected(cur))
                        /\ got = SubSeq(Expected(cur), 1, Len(got))
                        /\ (ret.op = "Read" /\ ret.err = "EOF" /\ err = "nil")
                             => got = Expected(cur)
    BY DEF ContentExact
  <2>2. PICK s : s = SparseMapOf(src, cur)
    OBVIOUS
  <2>3. /\ GotOK(s, got)
        /\ ret.op = "Read" /\ ret.err = "EOF" /\ err = "nil" => Len(got) = s.total
    BY <2>1, <2>2, Zenon DEF ContentInv
  <2>4. Expected(cur) =
          [p \in 1 .. s.total |-> IF Held(s.sp, p) THEN s.skip + DataUpTo(s.sp, p) ELSE 0]
    BY <2>2, Zenon DEF Expected
  <2>5. PICK x : x = Expected(cur)
    OBVIOUS
  <2>6. /\ Len(got) <= Len(x) /\ got = SubSeq(x, 1, Len(got))
        /\ Len(got) = s.total => got = x
    BY <2>3, <2>4, <2>5, GotPrefix
  <2> QED  BY <2>3, <2>5, <2>6, Zenon
<1> QED  BY <1>1, ContentCorrect, PTL
=============================================================================
