--------------------------- MODULE ZipEntryProofs ---------------------------
(***************************************************************************)
(* The entries of an archive that is being written are where the directory *)
(* will say they are, if Flush waits for the compressor of the open entry. *)
(*                                                                         *)
(* OpenInv says of the open entry what its writer took and what part of it *)
(* the compressor still holds; EntriesInv places the bytes of every entry, *)
(* and the end of the archive behind the last of them.  The entry that is  *)
(* open grows with what is written (LastGrow), no other one is touched     *)
(* (OthersStay).                                                           *)
(***************************************************************************)
EXTENDS ZipArchiveProofs

-----------------------------------------------------------------------------
(* The invariant.                                                           *)

\* The units a + 1 .. a + n of entry i.
Run(i, a, n) == [k \in 1 .. n |-> <<i, a + k>>]

\* The method of entry i.
Method(i) == fhs[dir[i].fh].method

\* The open entry: what its writer took and what the compressor still holds.
Taken ==
  /\ made[last.i] = last.raw /\ last.sum = Run(last.i, 0, last.raw)
  /\ Len(last.pending) <= last.raw
  /\ last.pending = Run(last.i, last.raw - Len(last.pending), Len(last.pending))
OpenInv ==
  /\ \A i \in 1 .. Len(dir) : i > last.i => made[i] = -1
  /\ pc \in {"close", "directory", "finish"} => last.closed
  /\ pc = "directory" => closed
  /\ last.i # 0 => (last.kind = "Deflate" <=> Method(last.i) = "Deflate")
  /\ (last.i # 0 /\ berr = "nil" /\ made[last.i] # -1) => Taken

\* The offset of the data of the entry whose local header is at offset at.
Body(all, at) == at + findBodyOffset(all[at + 1])

\* The local header is there, and behind it the bytes d; if the entry is done,
\* then a descriptor with its checksum.
Placed(all, at, d) ==
  /\ at \in Nat /\ at + fileHeaderLen <= Len(all) /\ all[at + 1].t = "file"
  /\ findBodyOffset(all[at + 1]) \in Nat
  /\ Body(all, at) \in Nat /\ Body(all, at) + Len(d) <= Len(all)
  /\ \A k \in 1 .. Len(d) : all[Body(all, at) + k] = d[k]
Ended(all, after, crc) ==
  /\ after + dataDescriptorLen <= Len(all)
  /\ all[after + 1].t = "descriptor" /\ all[after + 1].crc = crc
EntryOK(all, at, d, done, crc) ==
  Placed(all, at, d) /\ (done => Ended(all, Body(all, at) + Len(d), crc))

\* The offset right behind the data of entry i.
Behind(i) == Body(All, dir[i].offset - base) + Len(EntryData(i))
DescriptorLens == {dataDescriptorLen, dataDescriptor64Len}

\* Every entry is in its place; the next one follows, or will.
EntryInv(i) ==
  /\ EntryOK(All, dir[i].offset - base, EntryData(i), Done(i), Contents(i))
  /\ (Done(i) /\ i < Len(dir) /\ ~closed) =>
       dir[i + 1].offset - base - Behind(i) \in DescriptorLens
\* The archive ends with the open entry; a descriptor is still missing or there.
LastPlace ==
  (last.i # 0 /\ made[last.i] # -1) =>
    /\ ~Done(last.i) => last.i = Len(dir) /\ Len(All) = Behind(last.i)
    /\ (Done(last.i) /\ last.i = Len(dir) /\ ~closed) =>
         Len(All) - Behind(last.i) \in DescriptorLens
EntriesInv ==
  berr = "nil" => LastPlace /\ \A i \in 1 .. Len(dir) : made[i] # -1 => EntryInv(i)

-----------------------------------------------------------------------------
(* The units of an entry, and the bytes made of them.                       *)

\* A run of units.
LEMMA RunType ==
  ASSUME NEW i \in Nat, NEW a \in Nat, NEW n \in Nat
  PROVE  Run(i, a, n) \in Seq(Units) /\ Len(Run(i, a, n)) = n
<1>1. Run(i, a, n) \in Seq(Units)
  BY UnitsType DEF Run
<1>2. Len(Run(i, a, n)) = n
  BY DEF Run
<1> QED  BY <1>1, <1>2

\* One run follows another.
LEMMA RunConcat ==
  ASSUME NEW i \in Nat, NEW a \in Nat, NEW n \in Nat, NEW m \in Nat
  PROVE  Run(i, a, n) \o Run(i, a + n, m) = Run(i, a, n + m)
<1>1. PICK s, t : s = Run(i, a, n) /\ t = Run(i, a + n, m)
  OBVIOUS
<1>2. s \in Seq(Units) /\ Len(s) = n /\ t \in Seq(Units) /\ Len(t) = m
  BY <1>1, RunType
<1>3. PICK r : r = Run(i, a, n + m)
  OBVIOUS
<1>4. r \in Seq(Units) /\ Len(r) = n + m
  BY <1>3, RunType
<1>5. s \o t \in Seq(Units) /\ Len(s \o t) = n + m
  BY <1>2
<1>6. ASSUME NEW k \in 1 .. n + m PROVE (s \o t)[k] = r[k]
  <2>1. r[k] = <<i, a + k>>
    BY <1>3 DEF Run
  <2>2. CASE k \in 1 .. n
    <3>1. s[k] = <<i, a + k>>
      BY <1>1, <2>2, Zenon DEF Run
    <3>2. (s \o t)[k] = s[k]
      BY <1>2, <2>2
    <3> QED  BY <2>1, <3>1, <3>2, Zenon
  <2>3. CASE k \notin 1 .. n
    <3>1. PICK j \in 1 .. m : k = n + j
      <4>1. k - n \in 1 .. m /\ k = n + (k - n)
        BY <2>3
      <4> QED  BY <4>1
    <3>2. (s \o t)[k] = t[j]
      BY <1>2, <3>1
    <3>3. t[j] = <<i, (a + n) + j>>
      BY <1>1, Zenon DEF Run
    <3>4. (a + n) + j = a + k
      BY <3>1
    <3> QED  BY <2>1, <3>2, <3>3, <3>4, Zenon
  <2> QED  BY <2>2, <2>3
<1>7. s \o t = r
  BY <1>4, <1>5, <1>6, SeqEqual, Zenon
<1> QED  BY <1>1, <1>3, <1>7, Zenon

\* Bytes of data as functions.
LEMMA DeflatedRun ==
  ASSUME NEW i \in Nat, NEW a \in Nat, NEW n \in Nat
  PROVE  /\ IsSeq(Deflated(Run(i, a, n))) /\ Len(Deflated(Run(i, a, n))) = n
         /\ \A k \in 1 .. n : Deflated(Run(i, a, n))[k] = [t |-> "deflated", unit |-> <<i, a + k>>]
<1>1. Run(i, a, n) \in Seq(Units) /\ Len(Run(i, a, n)) = n
  BY RunType
<1>2. IsSeq(Deflated(Run(i, a, n))) /\ Len(Deflated(Run(i, a, n))) = n
  BY <1>1, DataNoEnd, Zenon DEF NoEnd
<1>3. ASSUME NEW k \in 1 .. n
      PROVE  Deflated(Run(i, a, n))[k] = [t |-> "deflated", unit |-> <<i, a + k>>]
  <2>1. DOMAIN Run(i, a, n) = 1 .. n /\ Run(i, a, n)[k] = <<i, a + k>>
    BY Zenon DEF Run
  <2> QED  BY <2>1, Zenon DEF Deflated
<1> QED  BY <1>2, <1>3, Zenon

\* Two sequences with the same elements are the same.
LEMMA SameSeq ==
  ASSUME NEW s, NEW t, IsSeq(s), IsSeq(t), Len(s) = Len(t),
         \A k \in 1 .. Len(s) : s[k] = t[k]
  PROVE  s = t
<1>1. s \in Seq({s[k] : k \in DOMAIN s}) /\ t \in Seq({t[k] : k \in DOMAIN t})
  BY DEF IsSeq
<1>2. s = [k \in 1 .. Len(s) |-> s[k]] /\ t = [k \in 1 .. Len(t) |-> t[k]]
  BY <1>1
<1> QED  BY <1>2

\* Deflating two runs one after the other.
LEMMA DeflatedConcat ==
  ASSUME NEW i \in Nat, NEW n \in Nat, NEW m \in Nat
  PROVE  Deflated(Run(i, 0, n)) \o Deflated(Run(i, n, m)) = Deflated(Run(i, 0, n + m))
<1>0. n + m \in Nat /\ 0 \in Nat
  OBVIOUS
<1>1. PICK s, t, r : s = Deflated(Run(i, 0, n)) /\ t = Deflated(Run(i, n, m)) /\ r = Deflated(Run(i, 0, n + m))
  OBVIOUS
<1>2. IsSeq(s) /\ Len(s) = n /\ IsSeq(t) /\ Len(t) = m /\ IsSeq(r) /\ Len(r) = n + m
  <2>1. IsSeq(s) /\ Len(s) = n
    BY <1>0, <1>1, DeflatedRun, Zenon
  <2>2. IsSeq(t) /\ Len(t) = m
    BY <1>0, <1>1, DeflatedRun, Zenon
  <2>3. IsSeq(r) /\ Len(r) = n + m
    BY <1>0, <1>1, DeflatedRun, Zenon
  <2> QED  BY <2>1, <2>2, <2>3
<1>3. /\ \A k \in 1 .. n : s[k] = [t |-> "deflated", unit |-> <<i, 0 + k>>]
      /\ \A k \in 1 .. m : t[k] = [t |-> "deflated", unit |-> <<i, n + k>>]
      /\ \A k \in 1 .. n + m : r[k] = [t |-> "deflated", unit |-> <<i, 0 + k>>]
  <2>1. \A k \in 1 .. n : s[k] = [t |-> "deflated", unit |-> <<i, 0 + k>>]
    BY <1>0, <1>1, DeflatedRun, ZenonT(60)
  <2>2. \A k \in 1 .. m : t[k] = [t |-> "deflated", unit |-> <<i, n + k>>]
    BY <1>0, <1>1, DeflatedRun, ZenonT(60)
  <2>3. \A k \in 1 .. n + m : r[k] = [t |-> "deflated", unit |-> <<i, 0 + k>>]
    BY <1>0, <1>1, DeflatedRun, ZenonT(60)
  <2> QED  BY <2>1, <2>2, <2>3, Zenon
<1>5. IsSeq(s) /\ IsSeq(t)
  BY <1>2
<1>6. /\ IsSeq(s \o t) /\ Len(s \o t) = Len(s) + Len(t)
      /\ \A k \in 1 .. Len(s) : (s \o t)[k] = s[k]
      /\ \A k \in 1 .. Len(t) : (s \o t)[Len(s) + k] = t[k]
  BY <1>5, Concat
<1>7. Len(s \o t) = n + m
  BY <1>2, <1>6, Zenon
<1>8. ASSUME NEW k \in 1 .. n + m PROVE (s \o t)[k] = r[k]
  <2>1. CASE k \in 1 .. n
    BY <2>1, <1>2, <1>3, <1>6, Zenon
  <2>2. CASE k \notin 1 .. n
    <3>1. PICK j \in 1 .. m : k = n + j /\ n + j = 0 + k
      <4>1. k - n \in 1 .. m /\ k = n + (k - n) /\ n + (k - n) = 0 + k
        BY <2>2
      <4> QED  BY <4>1
    <3>2. (s \o t)[k] = t[j]
      BY <3>1, <1>2, <1>6, Zenon
    <3> QED  BY <3>1, <3>2, <1>3, Zenon
  <2> QED  BY <2>1, <2>2
<1>9. s \o t = r
  BY <1>2, <1>6, <1>7, <1>8, SameSeq, Zenon
<1> QED  BY <1>1, <1>9, Zenon

\* Stored data one after the other.
LEMMA RawConcat ==
  ASSUME NEW i \in Nat, NEW n \in Nat, NEW m \in Nat
  PROVE  Raw(i, 0, n) \o Raw(i, n, m) = Raw(i, 0, n + m)
<1>0. n + m \in Nat /\ 0 \in Nat
  OBVIOUS
<1>1. PICK s, t, r : s = Raw(i, 0, n) /\ t = Raw(i, n, m) /\ r = Raw(i, 0, n + m)
  OBVIOUS
<1>2. IsSeq(s) /\ Len(s) = n /\ IsSeq(t) /\ Len(t) = m /\ IsSeq(r) /\ Len(r) = n + m
  BY <1>0, <1>1, DataNoEnd, Zenon DEF NoEnd
<1>3. /\ \A k \in 1 .. n : s[k] = [t |-> "raw", unit |-> <<i, 0 + k>>]
      /\ \A k \in 1 .. m : t[k] = [t |-> "raw", unit |-> <<i, n + k>>]
      /\ \A k \in 1 .. n + m : r[k] = [t |-> "raw", unit |-> <<i, 0 + k>>]
  BY <1>1, Zenon DEF Raw
<1>5. IsSeq(s) /\ IsSeq(t)
  BY <1>2
<1>6. /\ IsSeq(s \o t) /\ Len(s \o t) = Len(s) + Len(t)
      /\ \A k \in 1 .. Len(s) : (s \o t)[k] = s[k]
      /\ \A k \in 1 .. Len(t) : (s \o t)[Len(s) + k] = t[k]
  BY <1>5, Concat
<1>7. Len(s \o t) = n + m
  BY <1>2, <1>6, Zenon
<1>8. ASSUME NEW k \in 1 .. n + m PROVE (s \o t)[k] = r[k]
  <2>1. CASE k \in 1 .. n
    BY <2>1, <1>2, <1>3, <1>6, Zenon
  <2>2. CASE k \notin 1 .. n
    <3>1. PICK j \in 1 .. m : k = n + j /\ n + j = 0 + k
      <4>1. k - n \in 1 .. m /\ k = n + (k - n) /\ n + (k - n) = 0 + k
        BY <2>2
      <4> QED  BY <4>1
    <3>2. (s \o t)[k] = t[j]
      BY <3>1, <1>2, <1>6, Zenon
    <3> QED  BY <3>1, <3>2, <1>3, Zenon
  <2> QED  BY <2>1, <2>2
<1>9. s \o t = r
  BY <1>2, <1>6, <1>7, <1>8, SameSeq, Zenon
<1> QED  BY <1>1, <1>9, Zenon

\* The data of an entry: m units delivered, the end written or not.
Data(i, method, m, ended) ==
  IF method = "Deflate" THEN Deflated(Run(i, 0, m)) \o (IF ended THEN FinalBlock ELSE <<>>)
  ELSE Raw(i, 0, m)

\* Data is a sequence, and each of the ways in which it grows appends to it.
LEMMA DataGrows ==
  ASSUME NEW i \in Nat, NEW m \in Nat, NEW n \in Nat
  PROVE  /\ \A method, ended : IsSeq(Data(i, method, m, ended))
         /\ Data(i, "Deflate", m, FALSE) \o Deflated(Run(i, m, n)) = Data(i, "Deflate", m + n, FALSE)
         /\ Data(i, "Deflate", m, FALSE) \o FinalBlock = Data(i, "Deflate", m, TRUE)
         /\ \A method : method # "Deflate" =>
              \A e : Data(i, method, m, e) \o Raw(i, m, n) = Data(i, method, m + n, e)
         /\ \A method : method # "Deflate" => Data(i, method, m, TRUE) = Data(i, method, m, FALSE)
         /\ \A method : Data(i, method, 0, FALSE) = <<>>
<1>1. 0 \in Nat /\ 0 + m = m /\ m + n \in Nat
  OBVIOUS
<1>2. IsSeq(Deflated(Run(i, 0, m))) /\ IsSeq(Raw(i, 0, m)) /\ IsSeq(FinalBlock) /\ IsSeq(<<>>)
      /\ IsSeq(Deflated(Run(i, 0, m + n)))
  <2>1. IsSeq(Deflated(Run(i, 0, m))) /\ IsSeq(Deflated(Run(i, 0, m + n)))
    BY <1>1, DeflatedRun
  <2>2. IsSeq(Raw(i, 0, m)) /\ IsSeq(FinalBlock)
    BY <1>1, DataNoEnd, Zenon DEF NoEnd
  <2> QED  BY <2>1, <2>2, EmptyIsSeq
<1>3. Deflated(Run(i, 0, m)) \o <<>> = Deflated(Run(i, 0, m))
  BY <1>2, ConcatLaws, Zenon
<1>4. Deflated(Run(i, 0, m + n)) \o <<>> = Deflated(Run(i, 0, m + n))
  BY <1>2, ConcatLaws, Zenon
<1>5. \A method, ended : IsSeq(Data(i, method, m, ended))
  <2>1. IsSeq(Deflated(Run(i, 0, m)) \o FinalBlock) /\ IsSeq(Deflated(Run(i, 0, m)) \o <<>>)
    BY <1>2, Concat
  <2> QED  BY <2>1, <1>2, Zenon DEF Data
<1>6. Data(i, "Deflate", m, FALSE) \o Deflated(Run(i, m, n)) = Data(i, "Deflate", m + n, FALSE)
  <2>1. Deflated(Run(i, 0, m)) \o Deflated(Run(i, m, n)) = Deflated(Run(i, 0, m + n))
    BY DeflatedConcat, Zenon
  <2> QED  BY <2>1, <1>3, <1>4, Zenon DEF Data
<1>7. Data(i, "Deflate", m, FALSE) \o FinalBlock = Data(i, "Deflate", m, TRUE)
  BY <1>3, Zenon DEF Data
<1>8. ASSUME NEW method, method # "Deflate", NEW e
      PROVE  Data(i, method, m, e) \o Raw(i, m, n) = Data(i, method, m + n, e)
  BY <1>8, RawConcat, Zenon DEF Data
<1>9. ASSUME NEW method, method # "Deflate"
      PROVE  Data(i, method, m, TRUE) = Data(i, method, m, FALSE)
  BY <1>9, Zenon DEF Data
<1>10. ASSUME NEW method PROVE Data(i, method, 0, FALSE) = <<>>
  <2>1. Run(i, 0, 0) \in Seq(Units) /\ Len(Run(i, 0, 0)) = 0
    BY <1>1, RunType, Zenon
  <2>2. Len(Deflated(Run(i, 0, 0))) = 0 /\ IsSeq(Deflated(Run(i, 0, 0)))
    BY <1>1, DeflatedRun
  <2>3. Len(Raw(i, 0, 0)) = 0 /\ IsSeq(Raw(i, 0, 0))
    BY <1>1, DataNoEnd, Zenon DEF NoEnd
  <2>4. ASSUME NEW s, IsSeq(s), Len(s) = 0 PROVE s = <<>>
    BY <2>4, EmptyIsSeq, SameSeq
  <2>5. Deflated(Run(i, 0, 0)) = <<>> /\ Raw(i, 0, 0) = <<>>
    BY <2>2, <2>3, <2>4, Zenon
  <2>6. <<>> \o <<>> = <<>>
    BY EmptyIsSeq, ConcatLaws
  <2> QED  BY <2>5, <2>6, Zenon DEF Data
<1> QED  BY <1>5, <1>6, <1>7, <1>8, <1>9, <1>10, Zenon

\* Deflated data goes on.
LEMMA DeflateGrows ==
  ASSUME NEW i \in Nat, NEW m \in Nat, NEW n \in Nat
  PROVE  Data(i, "Deflate", m, FALSE) \o Deflated(Run(i, m, n)) = Data(i, "Deflate", m + n, FALSE)
BY DataGrows

-----------------------------------------------------------------------------
(* One entry, when bytes are appended to the archive.                       *)

\* A byte that is there stays where it is.
LEMMA ByteStays ==
  ASSUME NEW all, NEW b, IsSeq(all), IsSeq(b), NEW k \in Nat, k >= 1, k <= Len(all)
  PROVE  (all \o b)[k] = all[k] /\ k <= Len(all \o b)
<1>1. /\ Len(all) \in Nat /\ Len(b) \in Nat /\ Len(all \o b) = Len(all) + Len(b)
      /\ \A j \in 1 .. Len(all) : (all \o b)[j] = all[j]
  BY Concat
<1>2. PICK m \in Nat, n \in Nat : m = Len(all) /\ n = Len(b)
  BY <1>1
<1>3. k \in 1 .. m /\ k <= m + n
  BY <1>2
<1> QED  BY <1>1, <1>2, <1>3, Zenon

\* So does an entry, and the place of its data.
LEMMA EntryAppend ==
  ASSUME NEW all, NEW b, IsSeq(all), IsSeq(b), NEW at, NEW d, IsSeq(d), NEW done, NEW crc,
         EntryOK(all, at, d, done, crc)
  PROVE  EntryOK(all \o b, at, d, done, crc) /\ Body(all \o b, at) = Body(all, at)
<1>0. /\ fileHeaderLen \in Nat \ {0} /\ dataDescriptorLen \in Nat \ {0}
  BY FormatAssumption
<1>1. Len(all) \in Nat /\ Len(d) \in Nat /\ Len(b) \in Nat /\ Len(all \o b) = Len(all) + Len(b)
  BY Concat
<1>2. /\ at \in Nat /\ at + fileHeaderLen <= Len(all) /\ all[at + 1].t = "file"
      /\ findBodyOffset(all[at + 1]) \in Nat
      /\ Body(all, at) \in Nat /\ Body(all, at) + Len(d) <= Len(all)
      /\ \A k \in 1 .. Len(d) : all[Body(all, at) + k] = d[k]
      /\ done => Ended(all, Body(all, at) + Len(d), crc)
  BY Zenon DEF EntryOK, Placed
<1>3. PICK m \in Nat, n \in Nat, l \in Nat, p \in Nat :
        m = Len(all) /\ n = Len(b) /\ l = Len(d) /\ p = Body(all, at)
  BY <1>1, <1>2
<1>4. PICK w : w = all \o b
  OBVIOUS
<1>5. \A k \in Nat : k >= 1 /\ k <= m => w[k] = all[k]
  BY <1>3, <1>4, ByteStays, Zenon
<1>6. Len(w) = m + n
  BY <1>1, <1>3, <1>4, Zenon
<1>7. at \in Nat /\ at + fileHeaderLen <= m /\ p + l <= m
  BY <1>2, <1>3, Zenon
<1>8. at + 1 \in Nat /\ at + 1 >= 1 /\ at + 1 <= m /\ at + fileHeaderLen <= m + n /\ p + l <= m + n
  BY <1>7, <1>0, <1>3
<1>9. w[at + 1] = all[at + 1]
  BY <1>5, <1>8, Zenon
<1>10. Body(w, at) = p
  BY <1>9, <1>3, Zenon DEF Body
<1>11. ASSUME NEW k \in 1 .. l PROVE w[p + k] = d[k]
  <2>1. p + k \in Nat /\ p + k >= 1 /\ p + k <= m
    BY <1>7, <1>3
  <2> QED  BY <2>1, <1>5, <1>2, <1>3, Zenon
<1>12. Placed(w, at, d)
  BY <1>2, <1>3, <1>6, <1>8, <1>9, <1>10, <1>11, Zenon DEF Placed
<1>13. ASSUME done PROVE Ended(w, p + l, crc)
  <2>1. p + l + dataDescriptorLen <= m /\ all[p + l + 1].t = "descriptor" /\ all[p + l + 1].crc = crc
    BY <1>13, <1>2, <1>3, Zenon DEF Ended
  <2>2. /\ p + l + 1 \in Nat /\ p + l + 1 >= 1 /\ p + l + 1 <= m
        /\ p + l + dataDescriptorLen <= m + n
    BY <2>1, <1>0, <1>3
  <2>3. w[p + l + 1] = all[p + l + 1]
    BY <2>2, <1>5, Zenon
  <2> QED  BY <2>1, <2>2, <2>3, <1>6, Zenon DEF Ended
<1>14. EntryOK(w, at, d, done, crc)
  BY <1>3, <1>10, <1>12, <1>13, Zenon DEF EntryOK
<1> QED  BY <1>3, <1>4, <1>10, <1>14, Zenon

\* The archive ends with the data d of the entry at offset at.
Full(all, at, d) == Placed(all, at, d) /\ Len(all) = Body(all, at) + Len(d)

\* The data of the entry at the end grows.
LEMMA EntryGrow ==
  ASSUME NEW all, NEW b, IsSeq(all), IsSeq(b), NEW at, NEW d, IsSeq(d), Full(all, at, d)
  PROVE  Full(all \o b, at, d \o b)
<1>0. EntryOK(all, at, d, FALSE, 0) /\ Len(all) = Body(all, at) + Len(d)
  BY Zenon DEF EntryOK, Full
<1>1. /\ Len(all) \in Nat /\ Len(b) \in Nat /\ Len(all \o b) = Len(all) + Len(b)
      /\ \A k \in 1 .. Len(b) : (all \o b)[Len(all) + k] = b[k]
  BY Concat
<1>2. /\ Len(d) \in Nat /\ Len(d \o b) = Len(d) + Len(b)
      /\ \A k \in 1 .. Len(d) : (d \o b)[k] = d[k]
      /\ \A k \in 1 .. Len(b) : (d \o b)[Len(d) + k] = b[k]
  BY Concat
<1>3. EntryOK(all \o b, at, d, FALSE, 0) /\ Body(all \o b, at) = Body(all, at)
  BY <1>0, EntryAppend
<1>4. PICK w, x : w = all \o b /\ x = d \o b
  OBVIOUS
<1>5. /\ at \in Nat /\ at + fileHeaderLen <= Len(w) /\ w[at + 1].t = "file"
      /\ findBodyOffset(w[at + 1]) \in Nat /\ Body(w, at) \in Nat
      /\ \A k \in 1 .. Len(d) : w[Body(w, at) + k] = d[k]
  BY <1>3, <1>4, Zenon DEF EntryOK, Placed
<1>6. PICK m \in Nat, n \in Nat, l \in Nat, p \in Nat :
        m = Len(all) /\ n = Len(b) /\ l = Len(d) /\ p = Body(w, at)
  BY <1>1, <1>2, <1>5
<1>7. m = p + l
  BY <1>0, <1>3, <1>4, <1>6, Zenon
<1>8. Len(w) = m + n /\ Len(x) = l + n
  BY <1>1, <1>2, <1>4, <1>6, Zenon
<1>9. p + (l + n) = m + n /\ p + (l + n) <= m + n
  BY <1>6, <1>7, SMTT(60)
<1>10. ASSUME NEW k \in 1 .. l + n PROVE w[p + k] = x[k]
  <2>1. CASE k \in 1 .. l
    BY <2>1, <1>2, <1>4, <1>5, <1>6, Zenon
  <2>2. CASE k \notin 1 .. l
    <3>1. PICK j \in 1 .. n : k = l + j
      <4>1. k - l \in 1 .. n /\ k = l + (k - l)
        BY <2>2, <1>6
      <4> QED  BY <4>1
    <3>2. p + k = m + j
      BY <3>1, <1>6, <1>7
    <3>3. w[m + j] = b[j] /\ x[l + j] = b[j]
      BY <3>1, <1>1, <1>2, <1>4, <1>6, Zenon
    <3> QED  BY <3>1, <3>2, <3>3, Zenon
  <2> QED  BY <2>1, <2>2
<1>11. Placed(w, at, x)
  BY <1>5, <1>6, <1>8, <1>9, <1>10, Zenon DEF Placed
<1> QED  BY <1>4, <1>6, <1>8, <1>9, <1>11, Zenon DEF Full

\* The entry at the end gets its descriptor.
LEMMA EntryEnd ==
  ASSUME NEW all, IsSeq(all), NEW at, NEW d, IsSeq(d), NEW crc, NEW fh, fh.crc = crc,
         Full(all, at, d)
  PROVE  LET w == all \o DescriptorBytes(fh)
         IN /\ Placed(w, at, d) /\ Ended(w, Body(w, at) + Len(d), crc)
            /\ Len(w) - (Body(w, at) + Len(d)) \in DescriptorLens
<1>0. EntryOK(all, at, d, FALSE, 0) /\ Len(all) = Body(all, at) + Len(d)
  BY Zenon DEF EntryOK, Full
<1> DEFINE n == IF isZip64(fh) THEN dataDescriptor64Len ELSE dataDescriptorLen
           r == [t |-> "descriptor", crc |-> fh.crc]
<1>1. PICK b : b = DescriptorBytes(fh)
  OBVIOUS
<1>2. n \in DescriptorLens /\ n \in Nat /\ n >= dataDescriptorLen /\ n >= 1
  BY FormatAssumption DEF DescriptorLens
<1>3. r.t = "descriptor" /\ r.crc = crc
  OBVIOUS
<1> HIDE DEF n, r
<1>4. b = Record(r, n)
  BY <1>1, Zenon DEF DescriptorBytes, n, r
<1>5. IsSeq(b)
  BY <1>1, DescriptorNoEnd, Zenon DEF NoEnd
<1>6. Len(b) = n /\ b[1] = r
  <2>1. r.t \notin EndKinds
    BY <1>3 DEF EndKinds
  <2>2. Len(b) = n
    BY <2>1, <1>2, <1>4, RecordNoEnd, Zenon
  <2>3. 1 \in 1 .. n
    BY <1>2
  <2> QED  BY <2>2, <2>3, <1>4, Zenon DEF Record
<1>7. /\ Len(all) \in Nat /\ Len(d) \in Nat /\ Len(all \o b) = Len(all) + Len(b)
      /\ \A k \in 1 .. Len(b) : (all \o b)[Len(all) + k] = b[k]
  BY <1>5, Concat
<1>8. EntryOK(all \o b, at, d, FALSE, 0) /\ Body(all \o b, at) = Body(all, at)
  BY <1>0, <1>5, EntryAppend
<1>9. PICK w : w = all \o b
  OBVIOUS
<1>10. Body(w, at) \in Nat /\ Placed(w, at, d)
  BY <1>8, <1>9, Zenon DEF EntryOK, Placed
<1>11. PICK m \in Nat, l \in Nat, p \in Nat : m = Len(all) /\ l = Len(d) /\ p = Body(w, at)
  BY <1>7, <1>10
<1>12. m = p + l /\ Len(w) = m + n
  BY <1>0, <1>6, <1>7, <1>8, <1>9, <1>11, Zenon
<1>13. w[m + 1] = r
  <2>1. 1 \in 1 .. n
    BY <1>2
  <2> QED  BY <2>1, <1>6, <1>7, <1>9, <1>11, Zenon
<1>14. p + l + dataDescriptorLen <= m + n /\ (m + n) - (p + l) = n
  <2>1. PICK c \in Nat : c = dataDescriptorLen /\ c <= n
    BY <1>2, FormatAssumption
  <2>2. m = p + l
    BY <1>12
  <2>3. p + l + c <= m + n /\ (m + n) - (p + l) = n
    BY <2>1, <2>2, <1>2, <1>11
  <2> QED  BY <2>1, <2>3, Zenon
<1>15. Ended(w, p + l, crc)
  BY <1>3, <1>12, <1>13, <1>14, Zenon DEF Ended
<1>16. Placed(w, at, d) /\ Ended(w, Body(w, at) + Len(d), crc)
  BY <1>10, <1>11, <1>15, Zenon
<1>17. Len(w) - (Body(w, at) + Len(d)) \in DescriptorLens
  BY <1>2, <1>11, <1>12, <1>14, Zenon
<1> QED  BY <1>1, <1>9, <1>16, <1>17, Zenon

\* A new entry: its header, no data.
LEMMA EntryNew ==
  ASSUME NEW all, IsSeq(all), NEW fh, fh.extra \in Seq(ExtraField)
  PROVE  Full(all \o HeaderBytes(fh), Len(all), <<>>)
<1> DEFINE name == NameBytes(fh.name)  extra == ExtraBytes(fh.extra)
           r == [t |-> "file", name |-> Len(name), extra |-> Len(extra)]
           f == Record(r, fileHeaderLen)
<1>0. fileHeaderLen \in Nat /\ fileHeaderLen >= 1
  BY FormatAssumption
<1>1. PICK b : b = HeaderBytes(fh)
  OBVIOUS
<1>2. r.t = "file" /\ r.name = Len(name) /\ r.extra = Len(extra)
  OBVIOUS
<1>3. NoEnd(name) /\ NoEnd(extra)
  BY NameNoEnd, ExtraNoEnd, Zenon
<1>4. IsSeq(name) /\ IsSeq(extra) /\ IsSeq(b)
  BY <1>1, <1>3, HeaderNoEnd, Zenon DEF NoEnd
<1>5. b = (f \o name) \o extra
  BY <1>1, Zenon DEF HeaderBytes
<1> HIDE DEF name, extra, r
<1>6. r.t \notin EndKinds
  BY <1>2 DEF EndKinds
<1>7. NoEnd(f) /\ Len(f) = fileHeaderLen
  BY <1>0, <1>6, RecordNoEnd, Zenon
<1>8. f[1] = r
  <2>1. 1 \in 1 .. fileHeaderLen
    BY <1>0
  <2> QED  BY <2>1, Zenon DEF Record
<1> HIDE DEF f
<1>9. IsSeq(f)
  BY <1>7 DEF NoEnd
<1>10. /\ IsSeq(f \o name) /\ Len(name) \in Nat /\ Len(f \o name) = Len(f) + Len(name)
       /\ \A k \in 1 .. Len(f) : (f \o name)[k] = f[k]
  BY <1>4, <1>9, Concat
<1>11. PICK g : g = f \o name
  OBVIOUS
<1>12. IsSeq(g) /\ IsSeq(extra)
  BY <1>4, <1>10, <1>11, Zenon
<1>13. /\ Len(extra) \in Nat /\ Len(g \o extra) = Len(g) + Len(extra)
       /\ \A k \in 1 .. Len(g) : (g \o extra)[k] = g[k]
  BY <1>12, Concat
<1>14. PICK x \in Nat, y \in Nat : x = Len(name) /\ y = Len(extra)
  BY <1>10, <1>13
<1>15. Len(g) = fileHeaderLen + x /\ Len(b) = (fileHeaderLen + x) + y
  BY <1>5, <1>7, <1>10, <1>11, <1>13, <1>14, Zenon
<1>16. b[1] = r
  <2>1. 1 \in 1 .. fileHeaderLen /\ 1 \in 1 .. fileHeaderLen + x
    BY <1>0, <1>14
  <2> QED  BY <2>1, <1>5, <1>7, <1>8, <1>10, <1>11, <1>13, <1>15, Zenon
<1>17. /\ Len(all) \in Nat /\ Len(all \o b) = Len(all) + Len(b)
       /\ \A k \in 1 .. Len(b) : (all \o b)[Len(all) + k] = b[k]
  BY <1>4, Concat
<1>18. PICK w : w = all \o b
  OBVIOUS
<1>19. PICK m \in Nat : m = Len(all)
  BY <1>17
<1>20. Len(w) = m + ((fileHeaderLen + x) + y)
  BY <1>15, <1>17, <1>18, <1>19, Zenon
<1>21. w[m + 1] = r
  <2>1. 1 \in 1 .. (fileHeaderLen + x) + y
    BY <1>0, <1>14
  <2> QED  BY <2>1, <1>15, <1>16, <1>17, <1>18, <1>19, Zenon
<1>22. /\ Body(w, m) = m + (fileHeaderLen + x + y)
       /\ findBodyOffset(w[m + 1]) \in Nat
  <2>1. fileHeaderLen + x + y \in Nat
    BY <1>0, <1>14
  <2> QED  BY <2>1, <1>2, <1>14, <1>21, Zenon DEF Body, findBodyOffset
<1>23. PICK p \in Nat : p = m + (fileHeaderLen + x + y)
  BY <1>0, <1>14, <1>19
<1>24. Len(w) = p /\ m + fileHeaderLen <= p /\ p + 0 = p /\ p <= p
  <2>1. m + ((fileHeaderLen + x) + y) = p /\ m + fileHeaderLen <= p /\ p + 0 = p /\ p <= p
    BY <1>0, <1>14, <1>19, <1>23
  <2> QED  BY <2>1, <1>20, Zenon
<1>25. Len(<<>>) = 0 /\ 1 .. 0 = {}
  OBVIOUS
<1>26. Placed(w, m, <<>>)
  BY <1>2, <1>19, <1>21, <1>22, <1>23, <1>24, <1>25, Zenon DEF Placed
<1>27. Full(w, m, <<>>)
  BY <1>22, <1>23, <1>24, <1>25, <1>26, Zenon DEF Full
<1> QED  BY <1>1, <1>18, <1>19, <1>27, Zenon

-----------------------------------------------------------------------------
(* The entries as the state has them.                                       *)

\* Is the data of entry i complete?
Finished(i) == i # last.i \/ (last.closed /\ pc # "comp")

\* A part of what was written into an entry.
LEMMA ContentsRun ==
  ASSUME NEW i \in Nat, NEW n \in Nat, NEW m \in Nat, m <= n
  PROVE  /\ [k \in 1 .. n |-> <<i, k>>] = Run(i, 0, n)
         /\ SubSeq([k \in 1 .. n |-> <<i, k>>], 1, m) = Run(i, 0, m)
<1>1. PICK c : c = [k \in 1 .. n |-> <<i, k>>]
  OBVIOUS
<1>2. \A k \in 1 .. n : c[k] = <<i, k>>
  BY <1>1, Zenon
<1>3. \A k \in 1 .. n : 0 + k = k
  OBVIOUS
<1>4. c = Run(i, 0, n)
  BY <1>1, <1>3, Zenon DEF Run
<1>5. c \in Seq(Units) /\ Len(c) = n
  <2>1. Run(i, 0, n) \in Seq(Units) /\ Len(Run(i, 0, n)) = n
    BY RunType
  <2> QED  BY <2>1, <1>4, Zenon
<1>6. PICK r : r = Run(i, 0, m)
  OBVIOUS
<1>7. r \in Seq(Units) /\ Len(r) = m
  <2>1. Run(i, 0, m) \in Seq(Units) /\ Len(Run(i, 0, m)) = m
    BY RunType
  <2> QED  BY <2>1, <1>6, Zenon
<1>8. \A k \in 1 .. m : r[k] = <<i, 0 + k>>
  BY <1>6, Zenon DEF Run
<1>9. /\ SubSeq(c, 1, m) \in Seq(Units) /\ Len(SubSeq(c, 1, m)) = m
      /\ \A k \in 1 .. m : SubSeq(c, 1, m)[k] = c[k]
  BY <1>5
<1>10. ASSUME NEW k \in 1 .. m PROVE SubSeq(c, 1, m)[k] = r[k]
  <2>1. k \in 1 .. n /\ 0 + k = k
    OBVIOUS
  <2> QED  BY <2>1, <1>2, <1>8, <1>9, Zenon
<1>11. SubSeq(c, 1, m) = r
  BY <1>7, <1>9, <1>10, SeqEqual, Zenon
<1> QED  BY <1>1, <1>4, <1>6, <1>11, Zenon

\* Where the invariants hold, an entry has the data that its method makes of the
\* units that were delivered.
DataNow(i) ==
  /\ made[i] \in Nat /\ IsSeq(EntryData(i)) /\ Contents(i) = Run(i, 0, made[i])
  /\ i = last.i => Len(last.pending) \in Nat /\ made[i] - Len(last.pending) \in Nat
  /\ Finished(i) => EntryData(i) = Data(i, Method(i), made[i], TRUE)
  /\ ~Finished(i) => EntryData(i) = Data(i, Method(i), made[i] - Len(last.pending), FALSE)
DataIs == berr = "nil" => \A i \in 1 .. Len(dir) : made[i] # -1 => DataNow(i)

\* The data of the entries follows from the invariants.
LEMMA EntryDataIs == TypeInv /\ ControlInv /\ OpenInv => DataIs
<1> SUFFICES ASSUME TypeInv, ControlInv, OpenInv, berr = "nil",
                    NEW i \in 1 .. Len(dir), made[i] # -1
             PROVE  DataNow(i)
  BY DEF DataIs
<1>1. i \in Nat /\ made[i] \in Nat
  <2>1. made \in Seq(Nat \cup {-1}) /\ Len(made) = Len(dir) /\ Len(dir) \in Nat
    BY DEF TypeInv, HistType, FieldType, ControlInv, DirInv
  <2> QED  BY <2>1
<1>2. PICK n \in Nat : n = made[i]
  BY <1>1
<1>3. PICK p \in Seq(Units) : p = last.pending
  BY DEF TypeInv, FieldType, FileWriter
<1>4. PICK l \in Nat : l = Len(p)
  BY <1>3
<1>5. i = last.i => l <= n
  <2>1. i # 0
    OBVIOUS
  <2>2. i = last.i => Taken
    BY <2>1, Zenon DEF OpenInv
  <2> QED  BY <2>2, <1>2, <1>3, <1>4, Zenon DEF Taken
<1>6. Contents(i) = [k \in 1 .. n |-> <<i, k>>]
  BY <1>2, Zenon DEF Contents
<1>7. PICK w \in Nat : w = IF i = last.i THEN l ELSE 0
  BY <1>4
<1>8. w <= n /\ n - w \in Nat
  BY <1>2, <1>5, <1>7
<1>9. SubSeq(Contents(i), 1, n - w) = Run(i, 0, n - w) /\ Contents(i) = Run(i, 0, n)
  <2>1. PICK v \in Nat : v = n - w /\ v <= n
    BY <1>8, <1>2
  <2>2. /\ [k \in 1 .. n |-> <<i, k>>] = Run(i, 0, n)
        /\ SubSeq([k \in 1 .. n |-> <<i, k>>], 1, v) = Run(i, 0, v)
    BY <2>1, <1>1, ContentsRun, ZenonT(60)
  <2> QED  BY <2>1, <2>2, <1>6, Zenon
<1>10. Method(i) # "Deflate" => w = 0
  <2>1. i = last.i /\ Method(i) # "Deflate" => p = <<>>
    BY <1>1, <1>3 DEF OpenInv, ControlInv, LastInv
  <2> QED  BY <2>1, <1>4, <1>7
<1>11. Finished(i) => w = 0
  <2>1. i = last.i /\ Finished(i) => p = <<>>
    BY <1>3 DEF Finished, ControlInv, CallInv
  <2> QED  BY <2>1, <1>4, <1>7 DEF Finished
<1>12. EntryData(i) = IF Method(i) = "Deflate"
                      THEN Deflated(Run(i, 0, n - w)) \o (IF Finished(i) THEN FinalBlock ELSE <<>>)
                      ELSE Raw(i, 0, n)
  BY <1>2, <1>3, <1>4, <1>7, <1>9, Zenon DEF EntryData, Finished, Method
<1>13. n - 0 = n
  OBVIOUS
<1>14. Method(i) # "Deflate" => n - w = n
  BY <1>10, <1>13
<1>15. EntryData(i) = Data(i, Method(i), n - w, Finished(i))
  <2>1. CASE Method(i) = "Deflate"
    BY <2>1, <1>12, Zenon DEF Data
  <2>2. CASE Method(i) # "Deflate"
    BY <2>2, <1>12, <1>14, Zenon DEF Data
  <2> QED  BY <2>1, <2>2
<1>16. IsSeq(EntryData(i))
  <2>1. PICK v \in Nat : v = n - w
    BY <1>8
  <2>2. \A method, ended : IsSeq(Data(i, method, v, ended))
    BY <1>1, DataGrows, Zenon
  <2> QED  BY <2>1, <2>2, <1>15, Zenon
<1>17. ASSUME Finished(i) PROVE EntryData(i) = Data(i, Method(i), n, TRUE)
  <2>1. n - w = n
    BY <1>17, <1>11, <1>13
  <2> QED  BY <2>1, <1>15, <1>17, Zenon DEF Data
<1>18. ASSUME ~Finished(i) PROVE EntryData(i) = Data(i, Method(i), n - l, FALSE)
  <2>1. i = last.i
    BY <1>18 DEF Finished
  <2>2. w = l
    BY <2>1, <1>7
  <2> QED  BY <2>2, <1>15, <1>18, Zenon DEF Data
<1>19. i = last.i => n - l \in Nat
  BY <1>7, <1>8
<1> QED  BY <1>2, <1>3, <1>4, <1>9, <1>16, <1>17, <1>18, <1>19, Zenon DEF DataNow

\* And so after a step.
LEMMA EntryDataPrime == TypeInv' /\ ControlInv' /\ OpenInv' => DataIs'
BY EntryDataIs, PTL

-----------------------------------------------------------------------------
(* What the steps do to the open entry.                                     *)
USE DEF bufio, fields, hist

\* No step changes the method of a header.
LEMMA MethodsKept ==
  ASSUME TypeInv, ControlInv, [Next]_vars
  PROVE  DOMAIN fhs' = DOMAIN fhs /\ \A p \in DOMAIN fhs : fhs'[p].method = fhs[p].method
<1>0. fhs \in [DOMAIN fhs -> FileHeader] /\ FieldType /\ last \in FileWriter
  BY DEF TypeInv, FieldType
<1>1. CASE UNCHANGED fhs
  BY <1>1, Zenon
<1>2. ASSUME NEW p \in DOMAIN fhs, NEW g, fhs' = [fhs EXCEPT ![p] = g], g.method = fhs[p].method
      PROVE  DOMAIN fhs' = DOMAIN fhs /\ \A q \in DOMAIN fhs : fhs'[q].method = fhs[q].method
  <2>1. DOMAIN fhs' = DOMAIN fhs /\ \A q \in DOMAIN fhs : fhs'[q] = IF q = p THEN g ELSE fhs[q]
    BY <1>0, <1>2
  <2> QED  BY <2>1, <1>2, Zenon
<1>3. CASE Descriptor
  <2>1. pc = "descriptor" /\ fhs' = [fhs EXCEPT ![dir[last.i].fh] = Updated(fhs[dir[last.i].fh])]
    BY <1>3, Zenon DEF Descriptor
  <2>2. last.i \in 1 .. Len(dir)
    BY <2>1, <1>0 DEF ControlInv, CallInv, LastInv, TypeInv, FieldType, FileWriter
  <2>3. PICK p \in DOMAIN fhs : p = dir[last.i].fh /\ fhs[p] \in FileHeader
    BY <2>2, <1>0, DirElement, Zenon
  <2>4. Updated(fhs[p]).method = fhs[p].method
    BY <2>3, <1>0, UpdatedType, Zenon
  <2> QED  BY <2>1, <2>3, <2>4, <1>2, Zenon
<1>4. CASE CreateFails \/ Create
  <2>1. pc = "create" /\ fhs' = [fhs EXCEPT ![arg] = Prepared(fhs[arg])]
    BY <1>4, Zenon DEF CreateFails, Create
  <2>2. arg \in DOMAIN fhs /\ fhs[arg] \in FileHeader
    BY <2>1, <1>0 DEF ControlInv, CallInv
  <2>3. Prepared(fhs[arg]).method = fhs[arg].method
    BY <2>2, PreparedType, Zenon
  <2> QED  BY <2>1, <2>2, <2>3, <1>2, Zenon
<1>5. CASE DirectoryHeader
  <2>1. pc = "directory" /\ pos.k <= Len(dir)
        /\ fhs' = [fhs EXCEPT ![dir[pos.k].fh].extra = Listed(dir[pos.k]).extra]
    BY <1>5, Zenon DEF DirectoryHeader
  <2>2. pos.k \in 1 .. Len(dir)
    BY <2>1, <1>0 DEF ControlInv, CallInv, TypeInv, CallType, FieldType
  <2>3. PICK p \in DOMAIN fhs : p = dir[pos.k].fh /\ fhs[p] \in FileHeader
    BY <2>2, <1>0, DirElement, Zenon
  <2>4. PICK x : x = Listed(dir[pos.k]).extra
    OBVIOUS
  <2>5. fhs' = [fhs EXCEPT ![p] = [fhs[p] EXCEPT !.extra = x]]
    BY <2>1, <2>3, <2>4
  <2>6. [fhs[p] EXCEPT !.extra = x].method = fhs[p].method
    BY <2>3 DEF FileHeader
  <2> QED  BY <2>5, <2>6, <1>2, Zenon
<1>6. CASE SetOffset \/ Flush \/ FlushEnd \/ CloseFlush
  BY <1>6, <1>1 DEF SetOffset, Flush, FlushEnd, CloseFlush
<1>7. CASE SetOffsetPanic \/ WriteRefused \/ Duplicate \/ CloseTwice \/ CloseStart
  BY <1>7, <1>1 DEF SetOffsetPanic, WriteRefused, Duplicate, CloseTwice, CloseStart
<1>8. CASE RegisterCompressor("LZMA") \/ \E n \in Comments : SetComment(n)
  BY <1>8, <1>1 DEF RegisterCompressor, SetComment
<1>9. CASE Close \/ \E p \in DOMAIN fhs : CreateHeader(p)
  BY <1>9, <1>1 DEF Close, CreateHeader
<1>10. CASE Deliver \/ CompClose \/ End \/ \E m \in Chunks : Write(m)
  BY <1>10, <1>1 DEF Deliver, CompClose, End, Write
<1>11. CASE UNCHANGED vars
  BY <1>11, <1>1 DEF vars
<1> QED  BY <1>3, <1>4, <1>5, <1>6, <1>7, <1>8, <1>9, <1>10, <1>11, NextKinds DEF Written, Silent

\* Steps that leave the open entry and the directory alone.
Aside ==
  \/ SetOffset \/ SetOffsetPanic \/ \E n \in Comments : SetComment(n)
  \/ RegisterCompressor("LZMA") \/ Flush \/ FlushEnd \/ WriteRefused \/ Descriptor
  \/ Duplicate \/ CreateFails \/ CloseTwice \/ CloseStart \/ DirectoryHeader \/ End
  \/ CloseFlush \/ UNCHANGED vars

\* They leave the open entry, the directory and what was written alone.
LEMMA AsideLeaves ==
  ASSUME Aside PROVE UNCHANGED <<last, dir, made>>
<1>1. CASE SetOffset \/ Flush \/ FlushEnd \/ CloseFlush
  BY <1>1 DEF SetOffset, Flush, FlushEnd, CloseFlush
<1>2. CASE SetOffsetPanic \/ WriteRefused \/ Duplicate \/ CloseTwice \/ CloseStart
  BY <1>2 DEF SetOffsetPanic, WriteRefused, Duplicate, CloseTwice, CloseStart
<1>3. CASE RegisterCompressor("LZMA") \/ \E n \in Comments : SetComment(n)
  BY <1>3 DEF RegisterCompressor, SetComment
<1>4. CASE Descriptor \/ CreateFails \/ DirectoryHeader \/ End
  BY <1>4 DEF Descriptor, CreateFails, DirectoryHeader, End
<1>5. CASE UNCHANGED vars
  BY <1>5 DEF vars
<1> QED  BY <1>1, <1>2, <1>3, <1>4, <1>5 DEF Aside

\* Close and CreateHeader begin with the close of the open entry.
Closing == Close \/ \E p \in DOMAIN fhs : CreateHeader(p)

\* What the beginning of Close and of CreateHeader does to the open entry.
LEMMA ClosingLeaves ==
  ASSUME TypeInv, Closing
  PROVE  /\ UNCHANGED <<dir, made, bufio, count, fhs, closed, hist>> /\ pc = "idle"
         /\ last'.i = last.i /\ last'.kind = last.kind /\ last'.raw = last.raw
         /\ last'.sum = last.sum /\ last'.pending = last.pending /\ last'.closed
         /\ \/ last.closed /\ pc' \in {"create", "close"} /\ UNCHANGED last
            \/ ~last.closed /\ pc' = "comp"
<1>1. last \in FileWriter
  BY DEF TypeInv, FieldType
<1>2. /\ UNCHANGED <<dir, made, bufio, count, fhs, closed, hist>> /\ pc = "idle"
      /\ CloseLast("create") \/ CloseLast("close")
  BY DEF Closing, Close, CreateHeader
<1>3. CASE last.closed
  <2>1. UNCHANGED last /\ pc' \in {"create", "close"}
    BY <1>2, <1>3 DEF CloseLast
  <2> QED  BY <1>2, <1>3, <2>1
<1>4. CASE ~last.closed
  <2>1. last' = [last EXCEPT !.closed = TRUE] /\ pc' = "comp"
    BY <1>2, <1>4 DEF CloseLast
  <2>2. /\ last'.i = last.i /\ last'.kind = last.kind /\ last'.raw = last.raw
        /\ last'.sum = last.sum /\ last'.pending = last.pending /\ last'.closed
    BY <1>1, <2>1 DEF FileWriter
  <2> QED  BY <1>2, <1>4, <2>1, <2>2
<1> QED  BY <1>3, <1>4

\* All steps.
LEMMA NextParts ==
  [Next]_vars => Aside \/ Closing \/ (\E m \in Chunks : Write(m)) \/ Deliver \/ CompClose \/ Create
BY Zenon DEF Next, Aside, Closing

\* What Write does.
LEMMA WriteDoes ==
  ASSUME TypeInv, NEW m \in Chunks, Write(m)
  PROVE  /\ pc = "idle" /\ pc' = "idle" /\ ~last.closed
         /\ UNCHANGED <<dir, fhs, closed, base>>
         /\ last'.i = last.i /\ last'.kind = last.kind /\ last'.closed = last.closed
         /\ made' = made \/ made' = [made EXCEPT ![last.i] = @ + m]
         /\ berr' = "nil" =>
              /\ last'.raw = last.raw + m /\ last'.sum = last.sum \o Run(last.i, last.raw, m)
              /\ made' = [made EXCEPT ![last.i] = @ + m]
              /\ \/ /\ last.kind = "Deflate" /\ UNCHANGED bufio
                    /\ last'.pending = last.pending \o Run(last.i, last.raw, m)
                 \/ /\ last.kind # "Deflate" /\ last'.pending = last.pending
                    /\ Write_(Raw(last.i, last.raw, m), "nil")
<1>0. last \in FileWriter /\ BufType
  BY DEF TypeInv, FieldType
<1>1. PICK u : u = Run(last.i, last.raw, m)
  OBVIOUS
<1> DEFINE hashed == [last EXCEPT !.sum = @ \o u, !.writes = @ + 1]
           accept == [hashed EXCEPT !.raw = @ + m]
<1>2. /\ pc = "idle" /\ ~last.closed /\ UNCHANGED <<dir, fhs, closed, base>>
      /\ \/ /\ last.kind = "Deflate" /\ Returns("Write", "nil")
            /\ last' = [accept EXCEPT !.pending = @ \o u]
            /\ made' = [made EXCEPT ![last.i] = @ + m] /\ UNCHANGED <<bufio, count>>
         \/ /\ last.kind = "Deflate" /\ berr = "io" /\ Returns("Write", "io")
            /\ last' = hashed
            /\ UNCHANGED <<bufio, count, made>>
         \/ /\ last.kind # "Deflate" /\ Write_(Raw(last.i, last.raw, m), "nil")
            /\ Returns("Write", "nil") /\ last' = [accept EXCEPT !.comp = @ + m]
            /\ made' = [made EXCEPT ![last.i] = @ + m]
         \/ /\ last.kind # "Deflate" /\ Write_(Raw(last.i, last.raw, m), "io")
            /\ Returns("Write", "io") /\ last' = hashed
            /\ UNCHANGED made
  BY <1>1, Zenon DEF Write, Run
<1>3. pc' = "idle"
  BY <1>2, Zenon DEF Returns
<1>4. /\ hashed.i = last.i /\ hashed.kind = last.kind /\ hashed.closed = last.closed
      /\ hashed.raw = last.raw /\ hashed.sum = last.sum \o u /\ hashed.pending = last.pending
  BY <1>0 DEF FileWriter
<1>5. /\ accept.i = last.i /\ accept.kind = last.kind /\ accept.closed = last.closed
      /\ accept.raw = last.raw + m /\ accept.sum = last.sum \o u
      /\ accept.pending = last.pending
  BY <1>0 DEF FileWriter
<1>6. LET l == [accept EXCEPT !.pending = @ \o u]
      IN /\ l.i = last.i /\ l.kind = last.kind /\ l.closed = last.closed
         /\ l.raw = last.raw + m /\ l.sum = last.sum \o u /\ l.pending = last.pending \o u
  BY <1>0 DEF FileWriter
<1>7. LET l == [accept EXCEPT !.comp = @ + m]
      IN /\ l.i = last.i /\ l.kind = last.kind /\ l.closed = last.closed
         /\ l.raw = last.raw + m /\ l.sum = last.sum \o u /\ l.pending = last.pending
  BY <1>0 DEF FileWriter
<1> HIDE DEF hashed, accept
<1>8. ASSUME Write_(Raw(last.i, last.raw, m), "io") PROVE berr' # "nil"
  BY <1>8 DEF Write_
<1>9. CASE /\ last.kind = "Deflate" /\ Returns("Write", "nil")
           /\ last' = [accept EXCEPT !.pending = @ \o u]
           /\ made' = [made EXCEPT ![last.i] = @ + m] /\ UNCHANGED <<bufio, count>>
  BY <1>1, <1>2, <1>3, <1>6, <1>9, Zenon
<1>10. CASE /\ last.kind = "Deflate" /\ berr = "io" /\ Returns("Write", "io")
            /\ last' = hashed
            /\ UNCHANGED <<bufio, count, made>>
  <2>1. berr' # "nil"
    BY <1>10
  <2> QED  BY <1>1, <1>2, <1>3, <1>4, <1>10, <2>1, Zenon
<1>11. CASE /\ last.kind # "Deflate" /\ Write_(Raw(last.i, last.raw, m), "nil")
            /\ Returns("Write", "nil") /\ last' = [accept EXCEPT !.comp = @ + m]
            /\ made' = [made EXCEPT ![last.i] = @ + m]
  BY <1>1, <1>2, <1>3, <1>7, <1>11, Zenon
<1>12. CASE /\ last.kind # "Deflate" /\ Write_(Raw(last.i, last.raw, m), "io")
            /\ Returns("Write", "io") /\ last' = hashed
            /\ UNCHANGED made
  BY <1>1, <1>2, <1>3, <1>4, <1>8, <1>12, Zenon
<1> QED  BY <1>2, <1>9, <1>10, <1>11, <1>12, Zenon

\* What the delivery of the compressor's data does.
LEMMA DeliverDoes ==
  ASSUME TypeInv, Deliver
  PROVE  /\ last.pending # <<>> /\ UNCHANGED <<dir, fhs, closed, base, pc, made>>
         /\ last'.i = last.i /\ last'.kind = last.kind /\ last'.closed = last.closed
         /\ last'.raw = last.raw /\ last'.sum = last.sum /\ last'.pending = <<>>
         /\ berr' = "nil" => Write_(Deflated(last.pending), "nil")
<1>0. last \in FileWriter
  BY DEF TypeInv, FieldType
<1>1. PICK e \in Outcomes :
        /\ Write_(Deflated(last.pending), e)
        /\ last' = [last EXCEPT !.comp = IF e = "nil" THEN @ + Len(last.pending) ELSE @,
                                !.pending = <<>>]
  BY DEF Deliver
<1>2. /\ last.pending # <<>> /\ UNCHANGED <<dir, fhs, closed, base, pc, made>>
  BY DEF Deliver
<1>3. /\ last'.i = last.i /\ last'.kind = last.kind /\ last'.closed = last.closed
      /\ last'.raw = last.raw /\ last'.sum = last.sum /\ last'.pending = <<>>
  BY <1>0, <1>1 DEF FileWriter
<1>4. e # "nil" => berr' # "nil"
  BY <1>1 DEF Write_
<1> QED  BY <1>1, <1>2, <1>3, <1>4

\* What the close of the compressor does.
LEMMA CompCloseDoes ==
  ASSUME TypeInv, CompClose
  PROVE  /\ pc = "comp" /\ UNCHANGED <<dir, fhs, closed, base>>
         /\ last'.i = last.i /\ last'.kind = last.kind /\ last'.closed = last.closed
         /\ last'.raw = last.raw /\ last'.sum = last.sum /\ last'.pending = last.pending
         /\ \/ UNCHANGED made /\ pc' = "descriptor"
            \/ made' = [made EXCEPT ![last.i] = -1] /\ pc' = "idle"
         /\ berr' = "nil" =>
              \/ UNCHANGED bufio /\ (last.kind # "Deflate" \/ pc' = "idle")
              \/ /\ last.kind = "Deflate" /\ pc' = "descriptor" /\ last.pending = <<>>
                 /\ Write_(FinalBlock, "nil")
<1>0. last \in FileWriter
  BY DEF TypeInv, FieldType
<1>1. pc = "comp" /\ UNCHANGED <<dir, fhs, closed, base>>
  BY DEF CompClose
<1>2. CASE /\ last.kind # "Deflate" /\ Goes("descriptor")
           /\ UNCHANGED <<bufio, count, last, made>>
  BY <1>1, <1>2 DEF Goes
<1>3. CASE /\ last.kind = "Custom" /\ CustomFails /\ Returns(Op, "compressor")
           /\ made' = [made EXCEPT ![last.i] = -1] /\ UNCHANGED <<bufio, count, last>>
  BY <1>1, <1>3 DEF Returns
<1>4. CASE /\ last.kind = "Deflate" /\ last.pending = <<>>
           /\ \E e \in Outcomes :
                /\ Write_(FinalBlock, e)
                /\ IF e = "nil" THEN /\ last' = [last EXCEPT !.comp = @ + 1]
                                     /\ Goes("descriptor") /\ UNCHANGED made
                                ELSE /\ made' = [made EXCEPT ![last.i] = -1]
                                     /\ Returns(Op, e) /\ UNCHANGED last
  <2>1. PICK e \in Outcomes :
          /\ Write_(FinalBlock, e)
          /\ IF e = "nil" THEN /\ last' = [last EXCEPT !.comp = @ + 1]
                               /\ Goes("descriptor") /\ UNCHANGED made
                          ELSE /\ made' = [made EXCEPT ![last.i] = -1]
                               /\ Returns(Op, e) /\ UNCHANGED last
    BY <1>4
  <2>2. CASE e = "nil"
    <3>1. last' = [last EXCEPT !.comp = @ + 1] /\ pc' = "descriptor" /\ UNCHANGED made
      BY <2>1, <2>2 DEF Goes
    <3>2. /\ last'.i = last.i /\ last'.kind = last.kind /\ last'.closed = last.closed
          /\ last'.raw = last.raw /\ last'.sum = last.sum /\ last'.pending = last.pending
      BY <3>1, <1>0 DEF FileWriter
    <3> QED  BY <3>1, <3>2, <2>1, <2>2, <1>1, <1>4
  <2>3. CASE e # "nil"
    <3>1. made' = [made EXCEPT ![last.i] = -1] /\ pc' = "idle" /\ UNCHANGED last
      BY <2>1, <2>3 DEF Returns
    <3>2. berr' # "nil"
      BY <2>1, <2>3 DEF Write_
    <3> QED  BY <3>1, <3>2, <1>1
  <2> QED  BY <2>2, <2>3
<1> QED  BY <1>2, <1>3, <1>4 DEF CompClose

\* What the second half of CreateHeader does.
LEMMA CreateDoes ==
  ASSUME TypeInv, Create
  PROVE  /\ pc = "create" /\ pc' = "idle" /\ UNCHANGED <<closed, base>>
         /\ dir' = Append(dir, [fh |-> arg, offset |-> count])
         /\ \/ UNCHANGED last /\ made' = Append(made, -1) /\ (berr' = "nil" => UNCHANGED bufio)
            \/ /\ made' = Append(made, 0) /\ Write_(HeaderBytes(Prepared(fhs[arg])), "nil")
               /\ last'.i = Len(dir) + 1 /\ ~last'.closed
               /\ last'.kind = compressor(Prepared(fhs[arg]).method)
               /\ last'.raw = 0 /\ last'.sum = <<>> /\ last'.pending = <<>>
<1>1. /\ pc = "create" /\ UNCHANGED <<closed, base>>
      /\ dir' = Append(dir, [fh |-> arg, offset |-> count])
  BY DEF Create
<1> DEFINE fh == Prepared(fhs[arg])
           long == Len(NameBytes(fh.name)) > uint16max \/ Len(ExtraBytes(fh.extra)) > uint16max
<1>2. \/ /\ Returns("CreateHeader", "too long")
         /\ made' = Append(made, -1) /\ UNCHANGED <<bufio, count, last>>
      \/ /\ Write_(HeaderBytes(fh), "io") /\ Returns("CreateHeader", "io")
         /\ made' = Append(made, -1) /\ UNCHANGED last
      \/ /\ Write_(HeaderBytes(fh), "nil") /\ Returns("CreateHeader", "nil")
         /\ made' = Append(made, 0)
         /\ last' = [NoWriter EXCEPT !.i = Len(dir) + 1, !.kind = compressor(fh.method),
                                     !.closed = FALSE]
  BY Zenon DEF Create
<1> HIDE DEF fh
<1>3. pc' = "idle"
  BY <1>2 DEF Returns
<1>4. Write_(HeaderBytes(fh), "io") => berr' # "nil"
  BY DEF Write_
<1>5. ASSUME NEW n, NEW kind, last' = [NoWriter EXCEPT !.i = n, !.kind = kind, !.closed = FALSE]
      PROVE  /\ last'.i = n /\ ~last'.closed /\ last'.kind = kind
             /\ last'.raw = 0 /\ last'.sum = <<>> /\ last'.pending = <<>>
  BY <1>5 DEF NoWriter
<1>6. CASE /\ Returns("CreateHeader", "too long")
           /\ made' = Append(made, -1) /\ UNCHANGED <<bufio, count, last>>
  BY <1>1, <1>3, <1>6
<1>7. CASE /\ Write_(HeaderBytes(fh), "io") /\ Returns("CreateHeader", "io")
           /\ made' = Append(made, -1) /\ UNCHANGED last
  BY <1>1, <1>3, <1>4, <1>7
<1>8. CASE /\ Write_(HeaderBytes(fh), "nil") /\ Returns("CreateHeader", "nil")
           /\ made' = Append(made, 0)
           /\ last' = [NoWriter EXCEPT !.i = Len(dir) + 1, !.kind = compressor(fh.method),
                                       !.closed = FALSE]
  <2>1. /\ last'.i = Len(dir) + 1 /\ ~last'.closed /\ last'.kind = compressor(fh.method)
        /\ last'.raw = 0 /\ last'.sum = <<>> /\ last'.pending = <<>>
    BY <1>5, <1>8, Zenon
  <2> QED  BY <1>1, <1>3, <1>8, <2>1, Zenon DEF fh
<1> QED  BY <1>2, <1>6, <1>7, <1>8, Zenon

\* What is in the directory stays, with its method.
LEMMA DirStays ==
  ASSUME TypeInv, ControlInv, [Next]_vars, NEW i \in 1 .. Len(dir)
  PROVE  i \in 1 .. Len(dir') /\ dir'[i] = dir[i] /\ Method(i)' = Method(i)
<1>0. dir \in Seq([fh : DOMAIN fhs, offset : Nat]) /\ FieldType
  BY DEF TypeInv, FieldType
<1>1. i \in 1 .. Len(dir') /\ dir'[i] = dir[i]
  <2>1. CASE Aside
    BY <2>1, AsideLeaves, Zenon
  <2>2. CASE Closing
    BY <2>2, ClosingLeaves
  <2>3. CASE (\E m \in Chunks : Write(m)) \/ Deliver \/ CompClose
    BY <2>3, WriteDoes, DeliverDoes, CompCloseDoes
  <2>4. CASE Create
    <3>1. dir' = Append(dir, [fh |-> arg, offset |-> count])
      BY <2>4, CreateDoes
    <3> QED  BY <3>1, <1>0
  <2> QED  BY <2>1, <2>2, <2>3, <2>4, NextParts
<1>2. dir[i].fh \in DOMAIN fhs
  BY <1>0, DirElement
<1>3. fhs'[dir[i].fh].method = fhs[dir[i].fh].method
  BY <1>2, MethodsKept
<1> QED  BY <1>1, <1>3, Zenon DEF Method

\* The calls that end an archive are made with the last entry closed.
LEMMA OpenCalls ==
  ASSUME TypeInv, ControlInv, OpenInv, [Next]_vars
  PROVE  /\ pc' \in {"close", "directory", "finish"} => last'.closed
         /\ pc' = "directory" => closed'
<1>1. pc' = "directory" => closed'
  BY CloseSteps DEF OpenInv, CloseStart
<1>2. CASE Aside
  <2>1. UNCHANGED last
    BY <1>2, AsideLeaves
  <2>2. CASE Descriptor
    BY <1>1, <2>1, <2>2 DEF Descriptor, ControlInv, CallInv
  <2>3. CASE CloseStart \/ DirectoryHeader \/ End
    <3>1. pc \in {"close", "directory"} /\ last.closed
      BY <2>3 DEF CloseStart, DirectoryHeader, End, OpenInv
    <3> QED  BY <1>1, <2>1, <3>1
  <2>4. CASE SetOffset \/ SetOffsetPanic \/ (\E n \in Comments : SetComment(n))
             \/ RegisterCompressor("LZMA") \/ WriteRefused
    BY <2>4 DEF SetOffset, SetOffsetPanic, SetComment, RegisterCompressor, WriteRefused,
                Call, Goes, Returns
  <2>5. CASE Flush \/ FlushEnd \/ CloseFlush
    BY <2>5 DEF Flush, FlushEnd, CloseFlush, Goes, Returns
  <2>6. CASE Duplicate \/ CreateFails \/ CloseTwice
    BY <2>6 DEF Duplicate, CreateFails, CloseTwice, Returns
  <2>7. CASE UNCHANGED vars
    BY <2>1, <2>7 DEF vars, OpenInv
  <2> QED  BY <1>1, <1>2, <2>2, <2>3, <2>4, <2>5, <2>6, <2>7 DEF Aside
<1>3. CASE Closing
  BY <1>1, <1>3, ClosingLeaves
<1>4. CASE (\E m \in Chunks : Write(m)) \/ CompClose \/ Create
  BY <1>1, <1>4, WriteDoes, CompCloseDoes, CreateDoes
<1>5. CASE Deliver
  <2>1. UNCHANGED pc /\ last'.closed = last.closed
    BY <1>5, DeliverDoes
  <2> QED  BY <2>1, <1>1 DEF OpenInv
<1> QED  BY <1>2, <1>3, <1>4, <1>5, NextParts

\* No entry behind the open one has data.
LEMMA OpenBehind ==
  ASSUME TypeInv, ControlInv, OpenInv, [Next]_vars
  PROVE  \A i \in 1 .. Len(dir') : i > last'.i => made'[i] = -1
<1>0. /\ made \in Seq(Nat \cup {-1}) /\ Len(made) = Len(dir) /\ Len(dir) \in Nat
      /\ last.i \in Nat /\ last.i <= Len(dir)
      /\ dir \in Seq([fh : DOMAIN fhs, offset : Nat])
  BY DEF TypeInv, HistType, FieldType, FileWriter, ControlInv, DirInv, LastInv
<1>1. \A i \in 1 .. Len(dir) : i > last.i => made[i] = -1
  BY DEF OpenInv
<1>2. CASE UNCHANGED <<dir, made>> /\ last'.i = last.i
  BY <1>1, <1>2, Zenon
<1>3. ASSUME NEW x, made' = [made EXCEPT ![last.i] = x], UNCHANGED dir, last'.i = last.i
      PROVE  \A i \in 1 .. Len(dir') : i > last'.i => made'[i] = -1
  <2> SUFFICES ASSUME NEW i \in 1 .. Len(dir), i > last.i
               PROVE  made'[i] = -1
    BY <1>3, Zenon
  <2>1. i # last.i /\ made'[i] = made[i]
    BY <1>0, <1>3
  <2> QED  BY <2>1, <1>1
<1>4. CASE Create
  <2>1. dir' = Append(dir, [fh |-> arg, offset |-> count])
    BY <1>4, CreateDoes
  <2>2. Len(dir') = Len(dir) + 1
    BY <2>1, <1>0
  <2>3. CASE UNCHANGED last /\ made' = Append(made, -1)
    <3> SUFFICES ASSUME NEW i \in 1 .. Len(dir) + 1, i > last.i
                 PROVE  made'[i] = -1
      BY <2>2, <2>3, Zenon
    <3>1. made'[i] = IF i = Len(dir) + 1 THEN -1 ELSE made[i]
      BY <1>0, <2>3
    <3> QED  BY <3>1, <1>0, <1>1
  <2>4. CASE last'.i = Len(dir) + 1
    BY <2>2, <2>4, <1>0
  <2> QED  BY <1>4, <2>3, <2>4, CreateDoes
<1>5. CASE Aside
  BY <1>2, <1>5, AsideLeaves
<1>6. CASE Closing \/ Deliver
  BY <1>2, <1>6, ClosingLeaves, DeliverDoes
<1>7. CASE CompClose
  <2>1. /\ UNCHANGED dir /\ last'.i = last.i
        /\ UNCHANGED made \/ made' = [made EXCEPT ![last.i] = -1]
    BY <1>7, CompCloseDoes
  <2> QED  BY <2>1, <1>2, <1>3
<1>8. CASE \E m \in Chunks : Write(m)
  <2>1. PICK m \in Chunks : Write(m)
    BY <1>8
  <2>2. /\ UNCHANGED dir /\ last'.i = last.i
        /\ UNCHANGED made \/ made' = [made EXCEPT ![last.i] = made[last.i] + m]
    BY <2>1, WriteDoes
  <2>3. PICK x : x = made[last.i] + m
    OBVIOUS
  <2>4. UNCHANGED made \/ made' = [made EXCEPT ![last.i] = x]
    BY <2>2, <2>3, Zenon
  <2> QED  BY <2>2, <2>4, <1>2, <1>3
<1> QED  BY <1>4, <1>5, <1>6, <1>7, <1>8, NextParts

\* The compressor is the one of the entry's method.
LEMMA OpenMethod ==
  ASSUME TypeInv, ControlInv, OpenInv, [Next]_vars
  PROVE  last'.i # 0 => (last'.kind = "Deflate" <=> Method(last.i)' = "Deflate")
<1>0. /\ Len(dir) \in Nat /\ last.i \in Nat /\ last.i <= Len(dir)
      /\ dir \in Seq([fh : DOMAIN fhs, offset : Nat])
  BY DEF TypeInv, FieldType, FileWriter, ControlInv, LastInv
<1>1. ASSUME last'.i = last.i, last'.kind = last.kind
      PROVE  last'.i # 0 => (last'.kind = "Deflate" <=> Method(last.i)' = "Deflate")
  <2>1. SUFFICES ASSUME last.i # 0
                 PROVE  last'.kind = "Deflate" <=> Method(last.i)' = "Deflate"
    BY <1>1
  <2>2. PICK i \in 1 .. Len(dir) : i = last.i
    BY <2>1, <1>0
  <2>3. Method(i)' = Method(i)
    BY DirStays
  <2>4. Method(last.i)' = Method(i)'
    BY <1>1, <2>2, Zenon DEF Method
  <2>5. last.kind = "Deflate" <=> Method(i) = "Deflate"
    BY <2>1, <2>2, Zenon DEF OpenInv
  <2> QED  BY <2>3, <2>4, <2>5, <1>1, Zenon
<1>2. CASE Create /\ ~UNCHANGED last
  <2>1. /\ dir' = Append(dir, [fh |-> arg, offset |-> count]) /\ pc = "create"
        /\ last'.i = Len(dir) + 1 /\ last'.kind = compressor(Prepared(fhs[arg]).method)
    BY <1>2, CreateDoes, Zenon
  <2>2. arg \in DOMAIN fhs /\ fhs[arg] \in FileHeader
    BY <2>1 DEF ControlInv, CallInv, TypeInv, FieldType
  <2>3. Prepared(fhs[arg]).method = fhs[arg].method
    BY <2>2, PreparedType, Zenon
  <2>4. dir'[Len(dir) + 1].fh = arg
    BY <2>1, <1>0
  <2>5. fhs'[arg].method = fhs[arg].method
    BY <2>2, MethodsKept
  <2>6. Method(last.i)' = fhs[arg].method
    BY <2>1, <2>4, <2>5, Zenon DEF Method
  <2>7. compressors \subseteq {"LZMA"}
    BY DEF TypeInv, FieldType
  <2>8. \A method : compressor(method) = "Deflate" <=> method = "Deflate"
    BY <2>7 DEF compressor
  <2> QED  BY <2>1, <2>3, <2>6, <2>8, Zenon
<1>3. CASE UNCHANGED last
  BY <1>1, <1>3, Zenon
<1>4. CASE Aside
  BY <1>3, <1>4, AsideLeaves
<1>5. CASE Closing \/ Deliver \/ CompClose \/ \E m \in Chunks : Write(m)
  BY <1>1, <1>5, ClosingLeaves, DeliverDoes, CompCloseDoes, WriteDoes
<1> QED  BY <1>2, <1>3, <1>4, <1>5, NextParts

\* No units.
LEMMA RunEmpty ==
  ASSUME NEW i, NEW a
  PROVE  Run(i, a, 0) = <<>>
BY DEF Run

\* The open entry has what its writer took, and the compressor the end of it.
LEMMA OpenTaken ==
  ASSUME TypeInv, ControlInv, CountInv, OpenInv, [Next]_vars,
         last'.i # 0, berr' = "nil", made'[last'.i] # -1
  PROVE  Taken'
<1>0. /\ made \in Seq(Nat \cup {-1}) /\ Len(made) = Len(dir) /\ Len(dir) \in Nat
      /\ last.i \in Nat /\ last.i <= Len(dir) /\ last.raw \in Nat
      /\ last.pending \in Seq(Units) /\ Len(last.pending) \in Nat
  BY DEF TypeInv, HistType, FieldType, FileWriter, ControlInv, DirInv, LastInv
<1>1. berr = "nil"
  BY ErrorStays
<1>2. last.i # 0 /\ made[last.i] # -1 => Taken
  BY <1>1 DEF OpenInv
<1>3. ASSUME last'.i = last.i, last'.raw = last.raw, last'.sum = last.sum,
             last'.pending = last.pending, made'[last.i] = made[last.i]
      PROVE  Taken'
  BY <1>2, <1>3, Zenon DEF Taken
<1>4. CASE Aside \/ Closing
  BY <1>3, <1>4, AsideLeaves, ClosingLeaves
<1>5. CASE Deliver
  <2>1. /\ UNCHANGED made /\ last'.i = last.i
        /\ last'.raw = last.raw /\ last'.sum = last.sum /\ last'.pending = <<>>
    BY <1>5, DeliverDoes
  <2>2. made[last.i] = last.raw /\ last.sum = Run(last.i, 0, last.raw)
    BY <1>2, <2>1, Zenon DEF Taken
  <2>3. Len(<<>>) = 0 /\ 0 <= last.raw
    BY <1>0
  <2>4. <<>> = Run(last.i, last.raw - 0, 0)
    BY RunEmpty, Zenon
  <2> QED  BY <2>1, <2>2, <2>3, <2>4, Zenon DEF Taken
<1>6. CASE CompClose
  <2>1. /\ last'.i = last.i /\ last'.raw = last.raw /\ last'.sum = last.sum
        /\ last'.pending = last.pending
        /\ UNCHANGED made \/ made' = [made EXCEPT ![last.i] = -1]
    BY <1>6, CompCloseDoes
  <2>2. made' # [made EXCEPT ![last.i] = -1]
    BY <2>1, <1>0
  <2> QED  BY <2>1, <2>2, <1>3, Zenon
<1>7. ASSUME NEW m \in Chunks, Write(m) PROVE Taken'
  <2>0. m \in Nat
    BY ZipWriterAssumption
  <2>1. /\ last'.i = last.i /\ ~last.closed
        /\ last'.raw = last.raw + m /\ last'.sum = last.sum \o Run(last.i, last.raw, m)
        /\ made' = [made EXCEPT ![last.i] = @ + m]
        /\ \/ last'.pending = last.pending \o Run(last.i, last.raw, m)
           \/ last.kind # "Deflate" /\ last'.pending = last.pending
    BY <1>7, WriteDoes
  <2>2. made[last.i] # -1
    BY <2>1 DEF ControlInv, LastInv
  <2>3. /\ made[last.i] = last.raw /\ last.sum = Run(last.i, 0, last.raw)
        /\ Len(last.pending) <= last.raw
        /\ last.pending = Run(last.i, last.raw - Len(last.pending), Len(last.pending))
    BY <1>2, <2>1, <2>2, Zenon DEF Taken
  <2>4. PICK i \in Nat, r \in Nat, l \in Nat :
          i = last.i /\ r = last.raw /\ l = Len(last.pending)
    BY <1>0
  <2>5. PICK a \in Nat : a = r - l /\ a + l = r /\ (r + m) - (l + m) = a /\ l + m <= r + m
    <3>1. l <= r
      BY <2>3, <2>4, Zenon
    <3>2. r - l \in Nat /\ (r - l) + l = r /\ (r + m) - (l + m) = r - l /\ l + m <= r + m
      BY <3>1, <2>0, <2>4
    <3> QED  BY <3>2
  <2>6. made'[i] = r + m
    BY <1>0, <2>0, <2>1, <2>3, <2>4
  <2>7. last'.sum = Run(i, 0, r + m)
    <3>1. 0 + r = r
      OBVIOUS
    <3>2. \A z \in Nat : Run(i, 0, r) \o Run(i, 0 + r, z) = Run(i, 0, r + z)
      <4>1. 0 \in Nat
        OBVIOUS
      <4> QED  BY <4>1, RunConcat, ZenonT(60)
    <3>3. Run(i, 0, r) \o Run(i, r, m) = Run(i, 0, r + m)
      BY <2>0, <3>1, <3>2, Zenon
    <3> QED  BY <3>3, <2>1, <2>3, <2>4, Zenon
  <2>8. CASE last'.pending = last.pending \o Run(last.i, last.raw, m)
    <3>1. Run(i, a, l) \o Run(i, a + l, m) = Run(i, a, l + m)
      <4>1. \A z \in Nat : Run(i, a, l) \o Run(i, a + l, z) = Run(i, a, l + z)
        BY RunConcat, ZenonT(60)
      <4> QED  BY <2>0, <4>1, Zenon
    <3>2. last'.pending = Run(i, a, l + m)
      BY <3>1, <2>8, <2>3, <2>4, <2>5, Zenon
    <3>3. Len(Run(i, a, l + m)) = l + m
      <4>1. l + m \in Nat
        BY <2>0
      <4> QED  BY <4>1, RunType
    <3> QED  BY <3>2, <3>3, <2>1, <2>4, <2>5, <2>6, <2>7, Zenon DEF Taken
  <2>9. CASE last.kind # "Deflate" /\ last'.pending = last.pending
    <3>1. last'.pending = <<>>
      BY <2>9 DEF ControlInv, LastInv
    <3>2. Len(<<>>) = 0 /\ 0 <= r + m
      BY <2>0
    <3>3. <<>> = Run(i, (r + m) - 0, 0)
      BY RunEmpty, Zenon
    <3> QED  BY <3>1, <3>2, <3>3, <2>1, <2>4, <2>6, <2>7, Zenon DEF Taken
  <2> QED  BY <2>1, <2>8, <2>9
<1>8. CASE Create
  <2>1. CASE UNCHANGED last /\ made' = Append(made, -1)
    <3>1. made'[last.i] = made[last.i]
      BY <2>1, <1>0
    <3> QED  BY <3>1, <2>1, <1>3, Zenon
  <2>2. CASE /\ made' = Append(made, 0) /\ last'.i = Len(dir) + 1
             /\ last'.raw = 0 /\ last'.sum = <<>> /\ last'.pending = <<>>
    <3>1. made'[Len(dir) + 1] = 0
      BY <2>2, <1>0
    <3>2. Len(<<>>) = 0 /\ 0 <= 0
      OBVIOUS
    <3>3. <<>> = Run(Len(dir) + 1, 0, 0) /\ <<>> = Run(Len(dir) + 1, 0 - 0, 0)
      BY RunEmpty, Zenon
    <3> QED  BY <3>1, <3>2, <3>3, <2>2, Zenon DEF Taken
  <2> QED  BY <1>8, <2>1, <2>2, CreateDoes, Zenon
<1> QED  BY <1>4, <1>5, <1>6, <1>7, <1>8, NextParts

\* The open entry holds initially.
LEMMA OpenInit ==
  ASSUME Init PROVE OpenInv
<1>1. dir = <<>> /\ last.i = 0 /\ pc = "idle"
  BY DEF Init, NoWriter
<1>2. \A i \in 1 .. Len(dir) : FALSE
  BY <1>1
<1> QED  BY <1>1, <1>2 DEF OpenInv

\* And after every step.
LEMMA OpenStep ==
  ASSUME TypeInv, ControlInv, CountInv, OpenInv, [Next]_vars
  PROVE  OpenInv'
<1>1. /\ pc' \in {"close", "directory", "finish"} => last'.closed
      /\ pc' = "directory" => closed'
  BY OpenCalls
<1>2. \A i \in 1 .. Len(dir') : i > last'.i => made'[i] = -1
  BY OpenBehind
<1>3. last'.i # 0 => (last'.kind = "Deflate" <=> Method(last.i)' = "Deflate")
  BY OpenMethod
<1>4. last'.i # 0 /\ berr' = "nil" /\ made'[last'.i] # -1 => Taken'
  BY OpenTaken
<1> QED  BY <1>1, <1>2, <1>3, <1>4, Zenon DEF OpenInv

-----------------------------------------------------------------------------
(* What the steps do to the entries.                                        *)

\* Every step that leaves no error appends to what was written, and only
\* SetOffset moves the origin of the offsets.
LEMMA StepBytes ==
  ASSUME TypeInv, ControlInv, CountInv, [Next]_vars, berr' = "nil"
  PROVE  /\ berr = "nil" /\ \E b : IsSeq(b) /\ All' = All \o b
         /\ UNCHANGED base \/ SetOffset
         /\ closed => closed'
<1>1. berr = "nil"
  BY ErrorStays
<1>2. closed => closed'
  BY CloseSteps DEF CloseStart
<1>3. IsSeq(All) /\ IsSeq(<<>>)
  BY AllIsSeq, EmptyIsSeq
<1>4. ASSUME All' = All PROVE \E b : IsSeq(b) /\ All' = All \o b
  <2>1. All \o <<>> = All
    BY <1>3, ConcatLaws
  <2> QED  BY <2>1, <1>3, <1>4, Zenon
<1>5. CASE Written
  <2>1. pc # "flush"
    BY <1>5, FlushWaits
  <2>2. /\ pc' # "flush" /\ UNCHANGED base
        /\ \/ UNCHANGED <<bufio, count>>
           \/ \E b, e : IsSeq(b) /\ Write_(b, e)
    BY <1>5, <2>1, WrittenBytes, Zenon
  <2>3. CASE UNCHANGED <<bufio, count>>
    <3>1. All' = All
      BY <2>1, <2>2, <2>3, SameAll
    <3> QED  BY <3>1, <2>2, <1>1, <1>2, <1>4
  <2>4. CASE \E b, e : IsSeq(b) /\ Write_(b, e)
    <3>1. PICK b, e : IsSeq(b) /\ Write_(b, e)
      BY <2>4
    <3>2. All' = All \o b
      BY <2>1, <2>2, <3>1, WriteAll
    <3> QED  BY <3>1, <3>2, <2>2, <1>1, <1>2
  <2> QED  BY <2>2, <2>3, <2>4
<1>6. CASE Silent
  <2>1. pc # "flush" /\ pc' # "flush" /\ UNCHANGED <<out, buf, base>>
    BY <1>6, SilentBytes
  <2>2. All' = All
    BY <2>1, SameAll
  <2> QED  BY <2>1, <2>2, <1>1, <1>2, <1>4
<1>7. CASE SetOffset
  <2>1. pc # "flush" /\ pc' # "flush" /\ UNCHANGED <<out, buf>>
    BY <1>7 DEF SetOffset, Call, Returns
  <2>2. All' = All
    BY <2>1, SameAll
  <2> QED  BY <1>7, <2>2, <1>1, <1>2, <1>4
<1>8. CASE Flush \/ FlushEnd \/ CloseFlush
  <2>1. All' = All
    BY <1>8, FlushAll
  <2>2. UNCHANGED base
    BY <1>8 DEF Flush, FlushEnd, CloseFlush
  <2> QED  BY <2>1, <2>2, <1>1, <1>2, <1>4
<1>9. CASE UNCHANGED vars
  <2>1. UNCHANGED <<out, buf, pc, base>>
    BY <1>9 DEF vars
  <2>2. All' = All
    BY <2>1, SameAll
  <2> QED  BY <2>1, <2>2, <1>1, <1>2, <1>4
<1> QED  BY <1>5, <1>6, <1>7, <1>8, <1>9, NextKinds

\* What was written into an entry that is not the open one stays.
LEMMA MadeStays ==
  ASSUME TypeInv, ControlInv, [Next]_vars,
         NEW i \in 1 .. Len(dir'), i # last.i, i # last'.i, made'[i] # -1
  PROVE  i \in 1 .. Len(dir) /\ made'[i] = made[i]
<1>0. /\ made \in Seq(Nat \cup {-1}) /\ Len(made) = Len(dir) /\ Len(dir) \in Nat
      /\ dir \in Seq([fh : DOMAIN fhs, offset : Nat])
  BY DEF TypeInv, HistType, FieldType, ControlInv, DirInv
<1>1. CASE UNCHANGED <<dir, made>>
  BY <1>1, Zenon
<1>2. ASSUME NEW x, made' = [made EXCEPT ![last.i] = x], UNCHANGED dir
      PROVE  i \in 1 .. Len(dir) /\ made'[i] = made[i]
  BY <1>0, <1>2
<1>3. CASE Create
  <2>1. dir' = Append(dir, [fh |-> arg, offset |-> count])
    BY <1>3, CreateDoes
  <2>2. Len(dir') = Len(dir) + 1
    BY <2>1, <1>0
  <2>3. CASE made' = Append(made, -1)
    <3>1. made'[i] = IF i = Len(dir) + 1 THEN -1 ELSE made[i]
      BY <1>0, <2>2, <2>3
    <3> QED  BY <3>1, <2>2, <1>0
  <2>4. CASE last'.i = Len(dir) + 1 /\ made' = Append(made, 0)
    BY <2>2, <2>4, <1>0
  <2> QED  BY <1>3, <2>3, <2>4, CreateDoes, Zenon
<1>4. CASE Aside
  BY <1>1, <1>4, AsideLeaves
<1>5. CASE Closing \/ Deliver
  BY <1>1, <1>5, ClosingLeaves, DeliverDoes
<1>6. CASE CompClose
  <2>1. UNCHANGED dir /\ (UNCHANGED made \/ made' = [made EXCEPT ![last.i] = -1])
    BY <1>6, CompCloseDoes
  <2> QED  BY <2>1, <1>1, <1>2
<1>7. CASE \E m \in Chunks : Write(m)
  <2>1. PICK m \in Chunks : Write(m)
    BY <1>7
  <2>2. UNCHANGED dir /\ (UNCHANGED made \/ made' = [made EXCEPT ![last.i] = made[last.i] + m])
    BY <2>1, WriteDoes
  <2>3. PICK x : x = made[last.i] + m
    OBVIOUS
  <2>4. UNCHANGED made \/ made' = [made EXCEPT ![last.i] = x]
    BY <2>2, <2>3, Zenon
  <2> QED  BY <2>2, <2>4, <1>1, <1>2
<1> QED  BY <1>3, <1>4, <1>5, <1>6, <1>7, NextParts

\* An entry whose data does not change stays where it is.
LEMMA EntryStays ==
  ASSUME TypeInv, NEW i, NEW b, IsSeq(b), All' = All \o b, UNCHANGED base, dir'[i] = dir[i],
         IsSeq(EntryData(i)), EntryData(i)' = EntryData(i), Done(i)' = Done(i),
         Contents(i)' = Contents(i),
         EntryOK(All, dir[i].offset - base, EntryData(i), Done(i), Contents(i))
  PROVE  /\ EntryOK(All, dir[i].offset - base, EntryData(i), Done(i), Contents(i))'
         /\ Behind(i)' = Behind(i)
<1>1. PICK at, d, done, crc : at = dir[i].offset - base /\ d = EntryData(i) /\ done = Done(i)
                              /\ crc = Contents(i)
  OBVIOUS
<1>2. IsSeq(All) /\ IsSeq(d) /\ EntryOK(All, at, d, done, crc)
  BY <1>1, AllIsSeq, Zenon
<1>3. EntryOK(All \o b, at, d, done, crc) /\ Body(All \o b, at) = Body(All, at)
  BY <1>2, EntryAppend
<1>4. EntryOK(All', at, d, done, crc) /\ Body(All', at) = Body(All, at)
  BY <1>3, Zenon
<1>5. dir'[i].offset - base' = at
  BY <1>1, Zenon
<1>6. EntryOK(All', dir'[i].offset - base', EntryData(i)', Done(i)', Contents(i)')
  BY <1>1, <1>4, <1>5, Zenon
<1>7. Behind(i)' = Behind(i)
  BY <1>1, <1>4, <1>5, Zenon DEF Behind
<1> QED  BY <1>6, <1>7

\* The data of an entry of which nothing more was made.
LEMMA DataStays ==
  ASSUME NEW i, DataNow(i), DataNow(i)', Method(i)' = Method(i), made'[i] = made[i],
         Finished(i), Finished(i)'
  PROVE  EntryData(i)' = EntryData(i) /\ Contents(i)' = Contents(i)
<1>1. EntryData(i) = Data(i, Method(i), made[i], TRUE) /\ Contents(i) = Run(i, 0, made[i])
  BY Zenon DEF DataNow
<1>2. EntryData(i)' = Data(i, Method(i)', made'[i], TRUE) /\ Contents(i)' = Run(i, 0, made'[i])
  BY Zenon DEF DataNow
<1> QED  BY <1>1, <1>2, Zenon

\* The invariants, before and after a step that leaves no error.
Before ==
  /\ TypeInv /\ ControlInv /\ CountInv /\ OpenInv /\ EntriesInv
  /\ [Next]_vars /\ TypeInv' /\ ControlInv' /\ CountInv' /\ OpenInv' /\ berr' = "nil"

\* The entries that are not the open one keep their place, and what follows them.
LEMMA OthersStay ==
  ASSUME Before, ~SetOffset,
         NEW i \in 1 .. Len(dir'), i # last.i, i # last'.i, made'[i] # -1
  PROVE  EntryInv(i)'
<1> USE DEF Before
<1>1. i \in 1 .. Len(dir) /\ made'[i] = made[i]
  BY MadeStays
<1>2. /\ berr = "nil" /\ UNCHANGED base /\ (closed => closed')
  BY StepBytes
<1>3. PICK b : IsSeq(b) /\ All' = All \o b
  BY StepBytes
<1>4. DataNow(i) /\ EntryInv(i)
  BY <1>1, <1>2, EntryDataIs DEF DataIs, EntriesInv
<1>5. DataNow(i)'
  BY <1>1, EntryDataPrime DEF DataIs
<1>6. dir'[i] = dir[i] /\ Method(i)' = Method(i)
  BY <1>1, DirStays
<1>7. Finished(i) /\ Finished(i)' /\ Done(i) /\ Done(i)'
  BY DEF Finished, Done
<1>8. EntryData(i)' = EntryData(i) /\ Contents(i)' = Contents(i)
  BY <1>1, <1>4, <1>5, <1>6, <1>7, DataStays, Zenon
<1>9. Done(i)' = Done(i)
  BY DEF Done
<1>10. /\ EntryOK(All, dir[i].offset - base, EntryData(i), Done(i), Contents(i))'
       /\ Behind(i)' = Behind(i)
  <2>1. IsSeq(EntryData(i))
    BY <1>4 DEF DataNow
  <2>2. EntryOK(All, dir[i].offset - base, EntryData(i), Done(i), Contents(i))
    BY <1>4 DEF EntryInv
  <2> QED  BY <2>1, <2>2, <1>2, <1>3, <1>6, <1>8, <1>9, EntryStays
<1>11. i < Len(dir) /\ i + 1 \in 1 .. Len(dir)
  <2>1. ~(i > last.i)
    BY <1>1 DEF OpenInv
  <2>2. last.i \in Nat /\ last.i <= Len(dir) /\ Len(dir) \in Nat
    BY DEF TypeInv, FieldType, FileWriter, ControlInv, LastInv
  <2> QED  BY <2>1, <2>2, <1>1
<1>12. dir'[i + 1] = dir[i + 1]
  <2>1. PICK j \in 1 .. Len(dir) : j = i + 1
    BY <1>11
  <2> QED  BY <2>1, DirStays
<1>13. ~closed' => dir[i + 1].offset - base - Behind(i) \in DescriptorLens
  BY <1>2, <1>4, <1>7, <1>11, Zenon DEF EntryInv
<1> QED  BY <1>2, <1>10, <1>12, <1>13, Zenon DEF EntryInv

\* The open entry grows by the bytes that are written.
LEMMA LastGrow ==
  ASSUME Before, NEW i, i = last.i, i # 0, i \in 1 .. Len(dir), last'.i = i, made[i] # -1,
         UNCHANGED <<dir, base>>, ~Done(i), ~Done(i)',
         NEW b, IsSeq(b), All' = All \o b, EntryData(i)' = EntryData(i) \o b
  PROVE  EntryInv(i)' /\ LastPlace'
<1> USE DEF Before
<1>1. berr = "nil"
  BY StepBytes
<1>2. DataNow(i) /\ EntryInv(i) /\ LastPlace
  BY <1>1, EntryDataIs DEF DataIs, EntriesInv
<1>3. PICK at, d : at = dir[i].offset - base /\ d = EntryData(i)
  OBVIOUS
<1>4. i = Len(dir) /\ Full(All, at, d)
  BY <1>2, <1>3, Zenon DEF EntryInv, EntryOK, LastPlace, Behind, Full
<1>5. IsSeq(All) /\ IsSeq(d)
  BY <1>2, <1>3, AllIsSeq DEF DataNow
<1>6. Full(All \o b, at, d \o b)
  BY <1>4, <1>5, EntryGrow
<1>7. dir'[i].offset - base' = at
  BY <1>3, Zenon
<1>8. Full(All', dir'[i].offset - base', EntryData(i)')
  BY <1>3, <1>6, <1>7, Zenon
<1>9. EntryInv(i)'
  BY <1>8, Zenon DEF EntryInv, EntryOK, Full
<1>10. Len(All') = Behind(i)'
  BY <1>8, Zenon DEF Behind, Full
<1>11. LastPlace'
  BY <1>4, <1>10, Zenon DEF LastPlace
<1> QED  BY <1>9, <1>11

\* A closed entry at the end, when nothing is written or the archive is closed.
LEMMA LastStays ==
  ASSUME Before, NEW i, i = last.i, i # 0, i \in 1 .. Len(dir), last'.i = i, made[i] # -1,
         made'[i] = made[i], UNCHANGED <<dir, base>>, Done(i), Done(i)', closed' \/ All' = All,
         NEW b, IsSeq(b), All' = All \o b
  PROVE  EntryInv(i)' /\ LastPlace'
<1> USE DEF Before
<1>1. berr = "nil" /\ (closed => closed')
  BY StepBytes
<1>2. DataNow(i) /\ EntryInv(i) /\ LastPlace
  BY <1>1, EntryDataIs DEF DataIs, EntriesInv
<1>3. DataNow(i)'
  BY EntryDataPrime DEF DataIs
<1>4. Method(i)' = Method(i) /\ dir'[i] = dir[i]
  BY DirStays
<1>5. Finished(i) /\ Finished(i)'
  BY DEF Finished, Done
<1>6. EntryData(i)' = EntryData(i) /\ Contents(i)' = Contents(i)
  BY <1>2, <1>3, <1>4, <1>5, DataStays, Zenon
<1>7. Done(i)' = Done(i)
  BY DEF Done
<1>8. /\ EntryOK(All, dir[i].offset - base, EntryData(i), Done(i), Contents(i))'
      /\ Behind(i)' = Behind(i)
  <2>1. IsSeq(EntryData(i))
    BY <1>2 DEF DataNow
  <2>2. EntryOK(All, dir[i].offset - base, EntryData(i), Done(i), Contents(i))
    BY <1>2 DEF EntryInv
  <2> QED  BY <2>1, <2>2, <1>4, <1>6, <1>7, EntryStays
<1>9. EntryInv(i)'
  BY <1>1, <1>2, <1>8, Zenon DEF EntryInv
<1>10. LastPlace'
  BY <1>1, <1>2, <1>8, Zenon DEF LastPlace
<1> QED  BY <1>9, <1>10

\* The open entry when no byte of it is written.
LEMMA LastSame ==
  ASSUME Before, NEW i, i = last.i, i # 0, i \in 1 .. Len(dir), last'.i = i, made[i] # -1,
         UNCHANGED <<dir, base>>, ~Done(i), ~Done(i)', All' = All, EntryData(i)' = EntryData(i)
  PROVE  EntryInv(i)' /\ LastPlace'
<1> USE DEF Before
<1>1. IsSeq(EntryData(i))
  BY StepBytes, EntryDataIs DEF DataIs, DataNow
<1>2. IsSeq(All) /\ IsSeq(<<>>)
  BY AllIsSeq, EmptyIsSeq
<1>3. EntryData(i)' = EntryData(i) \o <<>>
  <2>1. EntryData(i) \o <<>> = EntryData(i)
    BY <1>1, <1>2, ConcatLaws
  <2> QED  BY <2>1, Zenon
<1>4. All' = All \o <<>>
  <2>1. All \o <<>> = All
    BY <1>2, ConcatLaws
  <2> QED  BY <2>1, Zenon
<1> QED  BY <1>2, <1>3, <1>4, LastGrow

\* The data of the open entry before and after a step that leaves it open.
LEMMA LastNow ==
  ASSUME Before, NEW i \in 1 .. Len(dir), i = last.i, last'.i = i, UNCHANGED dir,
         made[i] # -1, made'[i] # -1
  PROVE  /\ DataNow(i) /\ DataNow(i)' /\ Method(i)' = Method(i)
         /\ Taken /\ berr = "nil" /\ made[i] \in Nat /\ i \in Nat /\ i # 0
         /\ last.pending \in Seq(Units) /\ Len(last.pending) \in Nat
         /\ made[i] - Len(last.pending) \in Nat
<1> USE DEF Before
<1>1. berr = "nil"
  BY StepBytes
<1>2. DataNow(i)
  BY <1>1, EntryDataIs DEF DataIs
<1>3. DataNow(i)'
  BY EntryDataPrime DEF DataIs
<1>4. Method(i)' = Method(i)
  BY DirStays
<1>5. i # 0 /\ i \in Nat
  OBVIOUS
<1>6. Taken
  BY <1>1, <1>5 DEF OpenInv
<1>7. last.pending \in Seq(Units)
  BY DEF TypeInv, FieldType, FileWriter
<1>8. made[i] \in Nat /\ Len(last.pending) \in Nat /\ made[i] - Len(last.pending) \in Nat
  BY <1>2, Zenon DEF DataNow
<1> QED  BY <1>1, <1>2, <1>3, <1>4, <1>5, <1>6, <1>7, <1>8

\* Steps of which the open entry knows nothing.
Quiet == (Aside /\ ~SetOffset /\ ~Descriptor) \/ Closing

\* What they leave alone.
LEMMA QuietLeaves ==
  ASSUME Before, Quiet
  PROVE  /\ UNCHANGED <<dir, made, base>> /\ last'.i = last.i /\ last'.pending = last.pending
         /\ (last'.closed /\ pc' # "comp") <=> (last.closed /\ pc # "comp")
         /\ (last'.closed /\ pc' \notin {"comp", "descriptor"})
              <=> (last.closed /\ pc \notin {"comp", "descriptor"})
         /\ All' = All \/ (closed' /\ last.closed /\ pc \notin {"comp", "descriptor"})
<1> USE DEF Before
<1>1. CASE Closing
  <2>1. /\ UNCHANGED <<dir, made, bufio, base>> /\ pc = "idle"
        /\ last'.i = last.i /\ last'.pending = last.pending /\ last'.closed
        /\ \/ last.closed /\ pc' \in {"create", "close"}
           \/ ~last.closed /\ pc' = "comp"
    BY <1>1, ClosingLeaves
  <2>2. All' = All
    BY <2>1, SameAll
  <2> QED  BY <2>1, <2>2
<1>2. CASE Aside /\ ~SetOffset /\ ~Descriptor
  <2>1. UNCHANGED <<last, dir, made>> /\ UNCHANGED base
    BY <1>2, AsideLeaves, StepBytes
  <2>2. CASE DirectoryHeader \/ End
    <3>1. pc = "directory" /\ pc' \in {"directory", "finish", "idle"}
      BY <2>2 DEF DirectoryHeader, End, Goes, Returns
    <3>2. closed /\ last.closed
      BY <3>1 DEF OpenInv
    <3>3. closed'
      BY <3>2, StepBytes
    <3> QED  BY <2>1, <3>1, <3>2, <3>3
  <2>3. CASE UNCHANGED vars
    <3>1. UNCHANGED <<out, buf, pc>>
      BY <2>3 DEF vars
    <3>2. All' = All
      BY <3>1, SameAll
    <3> QED  BY <2>1, <3>1, <3>2
  <2>4. CASE Flush \/ FlushEnd \/ CloseFlush
    <3>1. All' = All
      BY <2>4, FlushAll
    <3>2. pc \in {"idle", "flush", "finish"} /\ pc' \in {"idle", "flush"}
      BY <2>4 DEF Flush, FlushEnd, CloseFlush, Goes, Returns
    <3> QED  BY <2>1, <3>1, <3>2
  <2>5. CASE SetOffsetPanic \/ (\E n \in Comments : SetComment(n)) \/ RegisterCompressor("LZMA")
             \/ WriteRefused \/ Duplicate \/ CreateFails \/ CloseTwice \/ CloseStart
    <3>1. pc # "flush" /\ pc' # "flush" /\ UNCHANGED <<out, buf>>
      BY <2>5, SilentBytes DEF Silent
    <3>2. All' = All
      BY <3>1, SameAll
    <3>3. pc \in {"idle", "create", "close"} /\ pc' \in {"idle", "panic", "directory"}
      BY <2>5 DEF SetOffsetPanic, SetComment, RegisterCompressor, WriteRefused, Duplicate,
                  CreateFails, CloseTwice, CloseStart, Call, Goes, Returns
    <3> QED  BY <2>1, <3>2, <3>3
  <2> QED  BY <1>2, <2>2, <2>3, <2>4, <2>5 DEF Aside
<1> QED  BY <1>1, <1>2 DEF Quiet

\* So the open entry stays where it is.
LEMMA QuietLast ==
  ASSUME Before, Quiet, NEW i \in 1 .. Len(dir), i = last.i, made'[i] # -1
  PROVE  EntryInv(i)' /\ LastPlace'
<1> USE DEF Before
<1>1. /\ UNCHANGED <<dir, made, base>> /\ last'.i = last.i /\ last'.pending = last.pending
      /\ (last'.closed /\ pc' # "comp") <=> (last.closed /\ pc # "comp")
      /\ (last'.closed /\ pc' \notin {"comp", "descriptor"})
           <=> (last.closed /\ pc \notin {"comp", "descriptor"})
      /\ All' = All \/ (closed' /\ last.closed /\ pc \notin {"comp", "descriptor"})
  BY QuietLeaves
<1>2. made[i] # -1 /\ last'.i = i
  BY <1>1
<1>3. DataNow(i) /\ DataNow(i)' /\ Method(i)' = Method(i) /\ i # 0
  BY <1>1, <1>2, LastNow
<1>4. (Finished(i) <=> (last.closed /\ pc # "comp"))
      /\ (Finished(i)' <=> (last'.closed /\ pc' # "comp"))
  BY <1>2 DEF Finished
<1>5. /\ Done(i) <=> (last.closed /\ pc \notin {"comp", "descriptor"})
      /\ Done(i)' <=> (last'.closed /\ pc' \notin {"comp", "descriptor"})
  BY <1>2 DEF Done
<1>6. CASE Done(i)
  <2>1. Done(i)' /\ (closed' \/ All' = All)
    BY <1>1, <1>5, <1>6
  <2>2. PICK b : IsSeq(b) /\ All' = All \o b
    BY StepBytes
  <2> QED  BY <1>1, <1>2, <1>3, <1>6, <2>1, <2>2, LastStays
<1>7. CASE ~Done(i)
  <2>1. ~Done(i)' /\ All' = All
    BY <1>1, <1>5, <1>7
  <2>2. EntryData(i)' = EntryData(i)
    <3>1. CASE Finished(i)
      <4>1. Finished(i)' /\ made'[i] = made[i]
        BY <3>1, <1>1, <1>4
      <4> QED  BY <3>1, <4>1, <1>3, DataStays, Zenon
    <3>2. CASE ~Finished(i)
      <4>1. ~Finished(i)' /\ made'[i] = made[i]
        BY <3>2, <1>1, <1>4
      <4>2. EntryData(i) = Data(i, Method(i), made[i] - Len(last.pending), FALSE)
        BY <3>2, <1>3, Zenon DEF DataNow
      <4>3. EntryData(i)' = Data(i, Method(i)', made'[i] - Len(last'.pending), FALSE)
        BY <4>1, <1>3, Zenon DEF DataNow
      <4> QED  BY <4>1, <4>2, <4>3, <1>1, <1>3, Zenon
    <3> QED  BY <3>1, <3>2
  <2> QED  BY <1>1, <1>2, <1>3, <1>7, <2>1, <2>2, LastSame
<1> QED  BY <1>6, <1>7

\* The open entry while its compressor is closed.
LEMMA CompCloseLast ==
  ASSUME Before, CompClose, NEW i \in 1 .. Len(dir), i = last.i, made'[i] # -1
  PROVE  EntryInv(i)' /\ LastPlace'
<1> USE DEF Before
<1>0. made \in Seq(Nat \cup {-1}) /\ Len(made) = Len(dir) /\ last.closed
  <2>1. pc = "comp"
    BY CompCloseDoes
  <2> QED  BY <2>1 DEF TypeInv, HistType, ControlInv, DirInv, CallInv
<1>1. /\ pc = "comp" /\ UNCHANGED <<dir, base>> /\ last'.i = last.i /\ last'.closed = last.closed
      /\ UNCHANGED made /\ pc' = "descriptor"
      /\ \/ UNCHANGED bufio /\ last.kind # "Deflate"
         \/ last.kind = "Deflate" /\ last.pending = <<>> /\ Write_(FinalBlock, "nil")
  <2>1. made' # [made EXCEPT ![last.i] = -1]
    BY <1>0
  <2> QED  BY <2>1, CompCloseDoes
<1>2. made[i] # -1 /\ last'.i = i
  BY <1>1
<1>3. /\ DataNow(i) /\ DataNow(i)' /\ Method(i)' = Method(i)
      /\ made[i] \in Nat /\ i \in Nat /\ i # 0
  BY <1>1, <1>2, LastNow
<1>4. ~Finished(i) /\ Finished(i)' /\ ~Done(i) /\ ~Done(i)'
  BY <1>0, <1>1 DEF Finished, Done
<1>5. last.pending = <<>>
  BY <1>1 DEF ControlInv, LastInv
<1>6. last.kind = "Deflate" <=> Method(i) = "Deflate"
  BY <1>3 DEF OpenInv
<1>7. PICK n \in Nat : n = made[i] /\ n - Len(<<>>) = n
  BY <1>3
<1>8. EntryData(i) = Data(i, Method(i), n, FALSE)
  BY <1>3, <1>4, <1>5, <1>7, Zenon DEF DataNow
<1>9. EntryData(i)' = Data(i, Method(i), n, TRUE)
  <2>1. EntryData(i)' = Data(i, Method(i)', made'[i], TRUE)
    BY <1>3, <1>4, Zenon DEF DataNow
  <2> QED  BY <2>1, <1>1, <1>3, <1>7, Zenon
<1>10. CASE UNCHANGED bufio /\ last.kind # "Deflate"
  <2>1. All' = All
    BY <1>1, <1>10, SameAll
  <2>2. \A method : method # "Deflate" => Data(i, method, n, TRUE) = Data(i, method, n, FALSE)
    BY <1>3, DataGrows, Zenon
  <2>3. EntryData(i)' = EntryData(i)
    BY <2>2, <1>6, <1>8, <1>9, <1>10, Zenon
  <2> QED  BY <1>1, <1>2, <1>3, <1>4, <2>1, <2>3, LastSame
<1>11. CASE last.kind = "Deflate" /\ Write_(FinalBlock, "nil")
  <2>1. IsSeq(FinalBlock)
    BY DataNoEnd, Zenon DEF NoEnd
  <2>2. pc # "flush" /\ pc' # "flush"
    BY <1>1
  <2>3. All' = All \o FinalBlock
    BY <2>1, <2>2, <1>11, WriteAll
  <2>4. Data(i, "Deflate", n, FALSE) \o FinalBlock = Data(i, "Deflate", n, TRUE)
    BY <1>3, DataGrows, Zenon
  <2>5. EntryData(i)' = EntryData(i) \o FinalBlock
    BY <2>4, <1>6, <1>8, <1>9, <1>11, Zenon
  <2> QED  BY <1>1, <1>2, <1>3, <1>4, <2>1, <2>3, <2>5, LastGrow
<1> QED  BY <1>1, <1>10, <1>11

\* The open entry when its compressor writes what it holds.
LEMMA DeliverLast ==
  ASSUME Before, Deliver, NEW i \in 1 .. Len(dir), i = last.i, made'[i] # -1
  PROVE  EntryInv(i)' /\ LastPlace'
<1> USE DEF Before
<1>1. /\ last.pending # <<>> /\ UNCHANGED <<dir, base, pc, made>> /\ last'.i = last.i
      /\ last'.closed = last.closed /\ last'.pending = <<>>
      /\ Write_(Deflated(last.pending), "nil")
  BY DeliverDoes
<1>2. made[i] # -1 /\ last'.i = i
  BY <1>1
<1>3. /\ DataNow(i) /\ DataNow(i)' /\ Method(i)' = Method(i) /\ Taken
      /\ made[i] \in Nat /\ i \in Nat /\ i # 0 /\ last.pending \in Seq(Units)
      /\ Len(last.pending) \in Nat /\ made[i] - Len(last.pending) \in Nat
  BY <1>1, <1>2, LastNow
<1>4. ~(last.closed /\ pc # "comp") /\ pc # "flush" /\ last.kind = "Deflate"
  BY <1>1 DEF ControlInv, CallInv, LastInv, CountInv
<1>5. ~Finished(i) /\ ~Finished(i)' /\ ~Done(i) /\ ~Done(i)'
  BY <1>1, <1>4 DEF Finished, Done
<1>6. Method(i) = "Deflate"
  BY <1>3, <1>4 DEF OpenInv
<1>7. PICK n \in Nat, l \in Nat, m \in Nat :
        n = made[i] /\ l = Len(last.pending) /\ m = n - l /\ m + l = n /\ n - Len(<<>>) = n
  <2>1. PICK n \in Nat, l \in Nat : n = made[i] /\ l = Len(last.pending) /\ n - l \in Nat
    BY <1>3
  <2>2. (n - l) + l = n /\ n - Len(<<>>) = n
    OBVIOUS
  <2> QED  BY <2>1, <2>2
<1>8. last.pending = Run(i, m, l)
  BY <1>3, <1>7, Zenon DEF Taken
<1>9. EntryData(i) = Data(i, "Deflate", m, FALSE)
  BY <1>3, <1>5, <1>6, <1>7, Zenon DEF DataNow
<1>10. EntryData(i)' = Data(i, "Deflate", n, FALSE)
  <2>1. EntryData(i)' = Data(i, Method(i)', made'[i] - Len(last'.pending), FALSE)
    BY <1>3, <1>5, Zenon DEF DataNow
  <2> QED  BY <2>1, <1>1, <1>3, <1>6, <1>7, Zenon
<1>11. Data(i, "Deflate", m, FALSE) \o Deflated(Run(i, m, l)) = Data(i, "Deflate", m + l, FALSE)
  <2>1. i \in Nat
    OBVIOUS
  <2> QED  BY <2>1, DeflateGrows
<1>12. EntryData(i)' = EntryData(i) \o Deflated(last.pending)
  BY <1>7, <1>8, <1>9, <1>10, <1>11, Zenon
<1>13. IsSeq(Deflated(last.pending))
  BY <1>3, DataNoEnd, Zenon DEF NoEnd
<1>14. All' = All \o Deflated(last.pending)
  BY <1>1, <1>4, <1>13, WriteAll
<1> QED  BY <1>1, <1>2, <1>3, <1>5, <1>12, <1>13, <1>14, LastGrow

\* The open entry when data is written into it.
LEMMA WriteLast ==
  ASSUME Before, NEW c \in Chunks, Write(c), NEW i \in 1 .. Len(dir), i = last.i, made'[i] # -1
  PROVE  EntryInv(i)' /\ LastPlace'
<1> USE DEF Before
<1>0. made \in Seq(Nat \cup {-1}) /\ Len(made) = Len(dir) /\ c \in Nat
  BY ZipWriterAssumption DEF TypeInv, HistType, ControlInv, DirInv
<1>1. /\ pc = "idle" /\ pc' = "idle" /\ ~last.closed /\ UNCHANGED <<dir, base>>
      /\ last'.i = last.i /\ last'.closed = last.closed
      /\ made' = [made EXCEPT ![last.i] = @ + c]
      /\ \/ /\ last.kind = "Deflate" /\ UNCHANGED bufio
            /\ last'.pending = last.pending \o Run(last.i, last.raw, c)
         \/ /\ last.kind # "Deflate" /\ last'.pending = last.pending
            /\ Write_(Raw(last.i, last.raw, c), "nil")
  BY WriteDoes
<1>2. made[i] # -1 /\ last'.i = i
  BY <1>1 DEF ControlInv, LastInv
<1>3. /\ DataNow(i) /\ DataNow(i)' /\ Method(i)' = Method(i) /\ Taken
      /\ made[i] \in Nat /\ i \in Nat /\ i # 0 /\ last.pending \in Seq(Units)
      /\ Len(last.pending) \in Nat /\ made[i] - Len(last.pending) \in Nat
  BY <1>1, <1>2, LastNow
<1>4. ~Finished(i) /\ ~Finished(i)' /\ ~Done(i) /\ ~Done(i)'
  BY <1>1 DEF Finished, Done
<1>5. last.kind = "Deflate" <=> Method(i) = "Deflate"
  BY <1>3 DEF OpenInv
<1>6. PICK n \in Nat, l \in Nat :
        n = made[i] /\ l = Len(last.pending) /\ n - l \in Nat /\ (n + c) - (l + c) = n - l
  <2>1. PICK n \in Nat, l \in Nat : n = made[i] /\ l = Len(last.pending) /\ n - l \in Nat
    BY <1>3
  <2>2. (n + c) - (l + c) = n - l
    BY <1>0
  <2> QED  BY <2>1, <2>2
<1>7. made'[i] = n + c
  BY <1>0, <1>1, <1>6
<1>8. last.raw = n
  BY <1>3, <1>6, Zenon DEF Taken
<1>9. EntryData(i) = Data(i, Method(i), n - l, FALSE)
  BY <1>3, <1>4, <1>6, Zenon DEF DataNow
<1>10. EntryData(i)' = Data(i, Method(i), (n + c) - Len(last'.pending), FALSE)
  <2>1. EntryData(i)' = Data(i, Method(i)', made'[i] - Len(last'.pending), FALSE)
    BY <1>3, <1>4, Zenon DEF DataNow
  <2> QED  BY <2>1, <1>3, <1>7, Zenon
<1>11. CASE /\ last.kind = "Deflate" /\ UNCHANGED bufio
            /\ last'.pending = last.pending \o Run(last.i, last.raw, c)
  <2>1. All' = All
    BY <1>1, <1>11, SameAll
  <2>2. Len(last'.pending) = l + c
    <3>1. PICK p, q : p = last.pending /\ q = Run(i, n, c)
      OBVIOUS
    <3>2. p \in Seq(Units) /\ Len(p) = l
      BY <3>1, <1>3, <1>6, Zenon
    <3>3. q \in Seq(Units) /\ Len(q) = c
      BY <3>1, <1>0, <1>3, RunType, ZenonT(60)
    <3>4. Len(p \o q) = l + c
      BY <3>2, <3>3
    <3> QED  BY <3>1, <3>4, <1>8, <1>11, Zenon
  <2>3. EntryData(i)' = EntryData(i)
    BY <2>2, <1>6, <1>9, <1>10, Zenon
  <2> QED  BY <1>1, <1>2, <1>3, <1>4, <2>1, <2>3, LastSame
<1>12. CASE /\ last.kind # "Deflate" /\ last'.pending = last.pending
            /\ Write_(Raw(last.i, last.raw, c), "nil")
  <2>1. last.pending = <<>> /\ Len(<<>>) = 0
    BY <1>12 DEF ControlInv, LastInv
  <2>2. n - l = n /\ (n + c) - 0 = n + c
    BY <2>1, <1>0, <1>6
  <2>3. EntryData(i) = Data(i, Method(i), n, FALSE)
    BY <2>2, <1>9, Zenon
  <2>4. EntryData(i)' = Data(i, Method(i), n + c, FALSE)
    BY <2>1, <2>2, <1>10, <1>12, Zenon
  <2>5. Method(i) # "Deflate"
    BY <1>5, <1>12
  <2>6. Data(i, Method(i), n, FALSE) \o Raw(i, n, c) = Data(i, Method(i), n + c, FALSE)
    <3>1. PICK method : method = Method(i) /\ method # "Deflate"
      BY <2>5
    <3>2. PICK y \in Nat : y = c
      BY <1>0
    <3>3. Data(i, method, n, FALSE) \o Raw(i, n, y) = Data(i, method, n + y, FALSE)
      <4>1. Data(i, method, n, FALSE) = Raw(i, 0, n) /\ Data(i, method, n + y, FALSE) = Raw(i, 0, n + y)
        BY <3>1, Zenon DEF Data
      <4>2. Raw(i, 0, n) \o Raw(i, n, y) = Raw(i, 0, n + y)
        <5>1. i \in Nat
          OBVIOUS
        <5> QED  BY <5>1, RawConcat
      <4> QED  BY <4>1, <4>2, Zenon
    <3> QED  BY <3>1, <3>2, <3>3, Zenon
  <2>7. EntryData(i)' = EntryData(i) \o Raw(i, n, c)
    BY <2>3, <2>4, <2>6, Zenon
  <2>8. IsSeq(Raw(i, n, c))
    BY <1>0, DataNoEnd, Zenon DEF NoEnd
  <2>9. Write_(Raw(i, n, c), "nil") /\ pc # "flush" /\ pc' # "flush"
    BY <1>1, <1>8, <1>12
  <2>10. All' = All \o Raw(i, n, c)
    BY <2>8, <2>9, WriteAll
  <2> QED  BY <1>1, <1>2, <1>3, <1>4, <2>7, <2>8, <2>10, LastGrow
<1> QED  BY <1>1, <1>11, <1>12

\* The open entry when its descriptor is written.
LEMMA DescriptorLast ==
  ASSUME Before, Descriptor, NEW i \in 1 .. Len(dir), i = last.i, made'[i] # -1
  PROVE  EntryInv(i)' /\ LastPlace'
<1> USE DEF Before
<1>1. UNCHANGED <<last, dir, made>> /\ UNCHANGED <<base, closed>> /\ pc = "descriptor"
  BY AsideLeaves DEF Aside, Descriptor
<1>2. PICK fh : /\ fh = Updated(fhs[dir[i].fh]) /\ Write_(DescriptorBytes(fh), "nil")
                /\ pc' \in {"close", "create"}
  <2>1. PICK e \in Outcomes :
          /\ Write_(DescriptorBytes(Updated(fhs[dir[i].fh])), e)
          /\ IF e # "nil" THEN Returns(Op, e)
             ELSE Goes(IF Op = "Close" THEN "close" ELSE "create")
    BY DEF Descriptor
  <2>2. e = "nil"
    BY <2>1 DEF Write_
  <2>3. pc' \in {"close", "create"}
    BY <2>1, <2>2 DEF Goes
  <2> QED  BY <2>1, <2>2, <2>3
<1>3. made[i] # -1 /\ last'.i = i
  BY <1>1
<1>4. /\ DataNow(i) /\ DataNow(i)' /\ Method(i)' = Method(i) /\ Taken /\ berr = "nil"
      /\ made[i] \in Nat /\ i \in Nat /\ i # 0
  BY <1>1, <1>3, LastNow
<1>5. last.closed
  BY <1>1 DEF ControlInv, CallInv
<1>6. Finished(i) /\ Finished(i)' /\ ~Done(i) /\ Done(i)'
  BY <1>1, <1>2, <1>5 DEF Finished, Done
<1>7. EntryData(i)' = EntryData(i) /\ Contents(i)' = Contents(i)
  <2>1. made'[i] = made[i]
    BY <1>1
  <2> QED  BY <2>1, <1>4, <1>6, DataStays, Zenon
<1>8. fhs[dir[i].fh] \in FileHeader
  BY DirElement DEF TypeInv
<1>9. fh.crc = Contents(i)
  <2>1. last.sum = Run(i, 0, made[i]) /\ Contents(i) = Run(i, 0, made[i])
    BY <1>4, Zenon DEF Taken, DataNow
  <2>2. fh.crc = last.sum
    BY <1>2, <1>8 DEF Updated, FileHeader
  <2> QED  BY <2>1, <2>2, Zenon
<1>10. EntryInv(i) /\ LastPlace
  BY <1>3, <1>4 DEF EntriesInv
<1>11. PICK at, d, crc : at = dir[i].offset - base /\ d = EntryData(i) /\ crc = Contents(i)
  OBVIOUS
<1>12. i = Len(dir) /\ Full(All, at, d)
  BY <1>3, <1>4, <1>6, <1>10, <1>11, Zenon DEF EntryInv, EntryOK, LastPlace, Behind, Full
<1>13. IsSeq(All) /\ IsSeq(d)
  BY <1>4, <1>11, AllIsSeq DEF DataNow
<1>14. PICK w : w = All \o DescriptorBytes(fh)
  OBVIOUS
<1>15. /\ Placed(w, at, d) /\ Ended(w, Body(w, at) + Len(d), crc)
       /\ Len(w) - (Body(w, at) + Len(d)) \in DescriptorLens
  <2>1. fh.crc = crc
    BY <1>9, <1>11
  <2> QED  BY <2>1, <1>12, <1>13, <1>14, EntryEnd, Zenon
<1>16. All' = w
  <2>1. IsSeq(DescriptorBytes(fh))
    BY DescriptorNoEnd, Zenon DEF NoEnd
  <2>2. pc # "flush" /\ pc' # "flush"
    BY <1>1, <1>2
  <2> QED  BY <2>1, <2>2, <1>2, <1>14, WriteAll
<1>17. dir'[i].offset - base' = at
  BY <1>1, <1>11, Zenon
<1>18. Placed(All', at, d) /\ Ended(All', Body(All', at) + Len(d), crc)
  BY <1>15, <1>16, Zenon
<1>19. EntryOK(All, dir[i].offset - base, EntryData(i), Done(i), Contents(i))'
  BY <1>7, <1>11, <1>17, <1>18, Zenon DEF EntryOK
<1>20. Len(All') - Behind(i)' \in DescriptorLens
  BY <1>7, <1>11, <1>15, <1>16, <1>17, Zenon DEF Behind
<1>21. ~(i < Len(dir'))
  BY <1>1, <1>12
<1>22. EntryInv(i)'
  BY <1>19, <1>21, Zenon DEF EntryInv
<1>23. LastPlace'
  BY <1>3, <1>6, <1>20, Zenon DEF LastPlace
<1> QED  BY <1>22, <1>23

\* The entry that was the last one when CreateHeader adds the next.
LEMMA CreateOld ==
  ASSUME Before, Create, NEW i \in 1 .. Len(dir), i = last.i, made'[i] # -1
  PROVE  EntryInv(i)'
<1> USE DEF Before
<1>0. /\ made \in Seq(Nat \cup {-1}) /\ Len(made) = Len(dir) /\ Len(dir) \in Nat
      /\ dir \in Seq([fh : DOMAIN fhs, offset : Nat])
  BY DEF TypeInv, HistType, FieldType, ControlInv, DirInv
<1>1. /\ pc = "create" /\ pc' = "idle" /\ UNCHANGED <<closed, base>>
      /\ dir' = Append(dir, [fh |-> arg, offset |-> count])
      /\ made' = Append(made, -1) \/ made' = Append(made, 0)
      /\ UNCHANGED last \/ last'.i = Len(dir) + 1
  BY CreateDoes
<1>2. made'[i] = made[i]
  BY <1>0, <1>1
<1>3. last.closed
  BY <1>1 DEF ControlInv, CallInv
<1>4. Finished(i) /\ Finished(i)' /\ Done(i) /\ Done(i)'
  <2>1. CASE UNCHANGED last
    BY <2>1, <1>1, <1>3 DEF Finished, Done
  <2>2. CASE last'.i = Len(dir) + 1
    <3>1. i # last'.i
      BY <2>2, <1>0
    <3> QED  BY <3>1, <1>1, <1>3 DEF Finished, Done
  <2> QED  BY <2>1, <2>2, <1>1
<1>5. PICK b : IsSeq(b) /\ All' = All \o b
  BY StepBytes
<1>6. berr = "nil"
  BY StepBytes
<1>7. DataNow(i) /\ EntryInv(i) /\ LastPlace
  BY <1>2, <1>6, EntryDataIs DEF DataIs, EntriesInv
<1>8. i \in 1 .. Len(dir') /\ dir'[i] = dir[i] /\ Method(i)' = Method(i)
  BY DirStays
<1>9. DataNow(i)'
  BY <1>8, EntryDataPrime DEF DataIs
<1>10. EntryData(i)' = EntryData(i) /\ Contents(i)' = Contents(i)
  BY <1>2, <1>4, <1>7, <1>8, <1>9, DataStays, Zenon
<1>11. Done(i)' = Done(i)
  BY <1>4 DEF Done
<1>12. /\ EntryOK(All, dir[i].offset - base, EntryData(i), Done(i), Contents(i))'
       /\ Behind(i)' = Behind(i)
  <2>1. IsSeq(EntryData(i))
    BY <1>7 DEF DataNow
  <2>2. EntryOK(All, dir[i].offset - base, EntryData(i), Done(i), Contents(i))
    BY <1>7 DEF EntryInv
  <2> QED  BY <2>1, <2>2, <1>1, <1>5, <1>8, <1>10, <1>11, EntryStays
<1>13. ~closed' => dir'[i + 1].offset - base - Behind(i) \in DescriptorLens
  <2>1. CASE i < Len(dir)
    <3>1. PICK j \in 1 .. Len(dir) : j = i + 1
      BY <2>1, <1>0
    <3>2. dir'[i + 1] = dir[i + 1]
      BY <3>1, DirStays
    <3>3. ~closed => dir[i + 1].offset - base - Behind(i) \in DescriptorLens
      BY <2>1, <1>4, <1>7, Zenon DEF EntryInv
    <3> QED  BY <3>2, <3>3, <1>1, Zenon
  <2>2. CASE i = Len(dir)
    <3>1. dir'[i + 1].offset = count
      BY <2>2, <1>0, <1>1
    <3>2. Len(All) = count - base
      BY <1>6 DEF CountInv
    <3>3. i # 0 /\ made[i] # -1
      BY <1>2
    <3>4. ~closed => Len(All) - Behind(i) \in DescriptorLens
      BY <2>2, <3>3, <1>4, <1>7, Zenon DEF LastPlace
    <3> QED  BY <3>1, <3>2, <3>4, <1>1, Zenon
  <2> QED  BY <2>1, <2>2, <1>0
<1> QED  BY <1>1, <1>12, <1>13, Zenon DEF EntryInv

\* The entry that CreateHeader adds.
LEMMA CreateNew ==
  ASSUME Before, Create, ~UNCHANGED last, NEW i, i = Len(dir) + 1
  PROVE  EntryInv(i)' /\ LastPlace'
<1> USE DEF Before
<1>0. /\ made \in Seq(Nat \cup {-1}) /\ Len(made) = Len(dir) /\ Len(dir) \in Nat
      /\ dir \in Seq([fh : DOMAIN fhs, offset : Nat])
  BY DEF TypeInv, HistType, FieldType, ControlInv, DirInv
<1>1. PICK fh : fh = Prepared(fhs[arg])
  OBVIOUS
<1>2. /\ pc = "create" /\ pc' = "idle" /\ UNCHANGED base
      /\ dir' = Append(dir, [fh |-> arg, offset |-> count]) /\ made' = Append(made, 0)
      /\ Write_(HeaderBytes(fh), "nil") /\ last'.i = i /\ ~last'.closed /\ last'.pending = <<>>
  BY <1>1, CreateDoes, Zenon
<1>3. Len(dir') = i /\ i \in 1 .. Len(dir') /\ dir'[i].offset = count /\ made'[i] = 0 /\ i \in Nat
  BY <1>0, <1>2
<1>4. fh.extra \in Seq(ExtraField)
  <2>1. arg \in DOMAIN fhs /\ fhs[arg] \in FileHeader
    BY <1>2 DEF ControlInv, CallInv, TypeInv, FieldType
  <2>2. fh \in FileHeader
    BY <2>1, <1>1, PreparedType, Zenon
  <2> QED  BY <2>2 DEF FileHeader
<1>5. IsSeq(HeaderBytes(fh))
  BY <1>4, HeaderNoEnd, Zenon DEF NoEnd
<1>6. berr = "nil" /\ All' = All \o HeaderBytes(fh)
  <2>1. pc # "flush" /\ pc' # "flush"
    BY <1>2
  <2> QED  BY <2>1, <1>2, <1>5, WriteAll
<1>7. Len(All) = count - base
  BY <1>6 DEF CountInv
<1>8. IsSeq(All)
  BY AllIsSeq
<1>9. Full(All \o HeaderBytes(fh), Len(All), <<>>)
  BY <1>4, <1>8, EntryNew
<1>10. ~Finished(i)' /\ ~Done(i)'
  BY <1>2 DEF Finished, Done
<1>11. EntryData(i)' = <<>>
  <2>1. made'[i] # -1
    BY <1>3
  <2>2. DataNow(i)'
    BY <2>1, <1>3, EntryDataPrime DEF DataIs
  <2>3. EntryData(i)' = Data(i, Method(i)', made'[i] - Len(last'.pending), FALSE)
    BY <2>2, <1>10, Zenon DEF DataNow
  <2>4. 0 - Len(<<>>) = 0 /\ 0 \in Nat
    <3>1. Len(<<>>) = 0
      BY EmptyIsSeq
    <3>2. 0 - 0 = 0 /\ 0 \in Nat
      OBVIOUS
    <3> QED  BY <3>1, <3>2, Zenon
  <2>5. \A method : Data(i, method, 0, FALSE) = <<>>
    BY <2>4, <1>3, DataGrows, Zenon
  <2> QED  BY <2>3, <2>4, <2>5, <1>2, <1>3, Zenon
<1>12. Full(All', dir'[i].offset - base', EntryData(i)')
  BY <1>2, <1>3, <1>6, <1>7, <1>9, <1>11, Zenon
<1>13. EntryInv(i)'
  BY <1>10, <1>12, Zenon DEF EntryInv, EntryOK, Full
<1>14. Len(All') = Behind(i)'
  BY <1>12, Zenon DEF Behind, Full
<1>15. LastPlace'
  BY <1>2, <1>3, <1>10, <1>14, Zenon DEF LastPlace
<1> QED  BY <1>13, <1>15

\* SetOffset is called before there is an entry.
LEMMA NoneYet ==
  ASSUME TypeInv, OffsetInv, CountInv, EntriesInv, berr = "nil", SetOffset,
         NEW i \in 1 .. Len(dir)
  PROVE  made[i] = -1
<1>1. SUFFICES ASSUME made[i] # -1 PROVE FALSE
  OBVIOUS
<1>2. count = 0 /\ base <= count /\ base \in Nat /\ Len(All) = count - base
  BY DEF SetOffset, OffsetInv, TypeInv, HistType, CountInv
<1>3. Len(All) = 0
  <2>1. base = 0
    BY <1>2
  <2> QED  BY <2>1, <1>2
<1>4. PICK at : at \in Nat /\ at + fileHeaderLen <= Len(All)
  BY <1>1, Zenon DEF EntriesInv, EntryInv, EntryOK, Placed
<1>5. PICK n \in Nat : n = fileHeaderLen /\ n >= 1
  BY FormatAssumption
<1>6. at + n <= 0
  BY <1>3, <1>4, <1>5, Zenon
<1> QED  BY <1>4, <1>5, <1>6

\* Every step keeps the entries in their places.
LEMMA EntriesStep ==
  ASSUME ~FlushRaces, TypeInv, ControlInv, CountInv, OpenInv, EntriesInv, [Next]_vars
  PROVE  EntriesInv'
<1>1. SUFFICES ASSUME berr' = "nil"
               PROVE  LastPlace' /\ \A i \in 1 .. Len(dir') : made'[i] # -1 => EntryInv(i)'
  BY Zenon DEF EntriesInv
<1>2. TypeInv' /\ ControlInv' /\ CountInv' /\ OpenInv'
  BY NextTypes, CountStep, OpenStep
<1>3. Before
  BY <1>1, <1>2, Zenon DEF Before
<1>4. last.i \in Nat /\ last.i <= Len(dir) /\ Len(dir) \in Nat
  BY DEF TypeInv, FieldType, FileWriter, ControlInv, LastInv
<1>5. CASE SetOffset
  <2>1. UNCHANGED <<last, dir, made>>
    BY <1>5, AsideLeaves DEF Aside
  <2>2. berr = "nil"
    BY <1>1, ErrorStays
  <2>3. \A i \in 1 .. Len(dir) : made[i] = -1
    BY <1>5, <2>2, NoneYet DEF ControlInv
  <2>4. last.i # 0 => last.i \in 1 .. Len(dir)
    BY <1>4
  <2>5. LastPlace'
    BY <2>1, <2>3, <2>4, Zenon DEF LastPlace
  <2> QED  BY <2>1, <2>3, <2>5, Zenon
<1>6. CASE ~SetOffset /\ ~Create
  <2>1. UNCHANGED dir /\ last'.i = last.i
    <3>1. CASE Aside
      BY <3>1, AsideLeaves
    <3>2. CASE Closing \/ Deliver \/ CompClose \/ \E m \in Chunks : Write(m)
      BY <3>2, ClosingLeaves, DeliverDoes, CompCloseDoes, WriteDoes
    <3> QED  BY <1>6, <3>1, <3>2, NextParts
  <2>2. ASSUME NEW i \in 1 .. Len(dir), i = last.i, made'[i] # -1
        PROVE  EntryInv(i)' /\ LastPlace'
    <3>1. CASE Quiet
      BY <3>1, <1>3, <2>2, QuietLast
    <3>2. CASE Descriptor
      BY <3>2, <1>3, <2>2, DescriptorLast
    <3>3. CASE Deliver
      BY <3>3, <1>3, <2>2, DeliverLast
    <3>4. CASE CompClose
      BY <3>4, <1>3, <2>2, CompCloseLast
    <3>5. CASE \E m \in Chunks : Write(m)
      BY <3>5, <1>3, <2>2, WriteLast
    <3> QED  BY <1>6, <3>1, <3>2, <3>3, <3>4, <3>5, NextParts DEF Quiet
  <2>3. LastPlace'
    <3>1. CASE last.i # 0 /\ made'[last.i] # -1
      <4>1. last.i \in 1 .. Len(dir)
        BY <3>1, <1>4
      <4> QED  BY <3>1, <4>1, <2>2
    <3>2. CASE ~(last.i # 0 /\ made'[last.i] # -1)
      BY <3>2, <2>1, Zenon DEF LastPlace
    <3> QED  BY <3>1, <3>2
  <2>4. ASSUME NEW i \in 1 .. Len(dir'), made'[i] # -1 PROVE EntryInv(i)'
    <3>1. CASE i = last.i
      BY <3>1, <2>1, <2>2, <2>4
    <3>2. CASE i # last.i
      BY <3>2, <1>3, <1>6, <2>1, <2>4, OthersStay
    <3> QED  BY <3>1, <3>2
  <2> QED  BY <2>3, <2>4
<1>7. CASE Create
  <2>0. ~SetOffset
    BY <1>7 DEF Create, SetOffset, Call
  <2>1. dir' = Append(dir, [fh |-> arg, offset |-> count]) /\ pc = "create" /\ pc' = "idle"
    BY <1>7, CreateDoes
  <2>2. Len(dir') = Len(dir) + 1
    BY <2>1 DEF TypeInv, FieldType
  <2>3. CASE UNCHANGED last
    <3>1. LastPlace'
      <4>1. last.closed
        BY <2>1 DEF ControlInv, CallInv
      <4>2. Done(last.i)' /\ last'.i # Len(dir')
        BY <4>1, <2>1, <2>2, <2>3, <1>4 DEF Done
      <4> QED  BY <4>2, Zenon DEF LastPlace
    <3>2. ASSUME NEW i \in 1 .. Len(dir'), made'[i] # -1 PROVE EntryInv(i)'
      <4>1. CASE i = last.i
        <5>1. i \in 1 .. Len(dir)
          BY <4>1, <1>4
        <5> QED  BY <4>1, <5>1, <1>3, <1>7, <3>2, CreateOld
      <4>2. CASE i # last.i
        BY <4>2, <1>3, <2>0, <2>3, <3>2, OthersStay
      <4> QED  BY <4>1, <4>2
    <3> QED  BY <3>1, <3>2
  <2>4. CASE ~UNCHANGED last
    <3>1. last'.i = Len(dir) + 1
      BY <1>7, <2>4, CreateDoes, Zenon
    <3>2. LastPlace'
      BY <1>3, <1>7, <2>4, CreateNew
    <3>3. ASSUME NEW i \in 1 .. Len(dir'), made'[i] # -1 PROVE EntryInv(i)'
      <4>1. CASE i = Len(dir) + 1
        BY <4>1, <1>3, <1>7, <2>4, CreateNew
      <4>2. CASE i = last.i
        <5>1. i \in 1 .. Len(dir)
          BY <4>2, <1>4
        <5> QED  BY <4>2, <5>1, <1>3, <1>7, <3>3, CreateOld
      <4>3. CASE i # last.i /\ i # Len(dir) + 1
        BY <4>3, <1>3, <2>0, <3>1, <3>3, OthersStay
      <4> QED  BY <4>1, <4>2, <4>3
    <3> QED  BY <3>2, <3>3
  <2> QED  BY <2>3, <2>4
<1> QED  BY <1>5, <1>6, <1>7

\* There are no entries initially.
LEMMA EntriesInit ==
  ASSUME Init PROVE EntriesInv
<1>1. dir = <<>> /\ last.i = 0
  BY DEF Init, NoWriter
<1>2. \A i \in 1 .. Len(dir) : FALSE
  BY <1>1
<1> QED  BY <1>1, <1>2 DEF EntriesInv, LastPlace

\* Data that is in its place is what a reader of as many bytes there gets.
LEMMA SliceIs ==
  ASSUME NEW all, IsSeq(all), NEW d, IsSeq(d), NEW p \in Nat, p + Len(d) <= Len(all),
         \A k \in 1 .. Len(d) : all[p + k] = d[k]
  PROVE  Slice(all, p, Len(d)) = d
<1>1. Len(all) \in Nat /\ Len(d) \in Nat
  BY Concat
<1>2. PICK n \in Nat : n = Len(d)
  BY <1>1
<1>3. PICK s : s = SubSeq(all, p + 1, p + n)
  OBVIOUS
<1>4. all \in Seq({all[k] : k \in DOMAIN all})
  BY DEF IsSeq
<1>5. PICK m \in Nat : m = Len(all)
  BY <1>1
<1>6. PICK S : S = {all[k] : k \in DOMAIN all}
  OBVIOUS
<1>7. all \in Seq(S) /\ Len(all) = m /\ p + n <= m
  BY <1>2, <1>4, <1>5, <1>6, Zenon
<1>8. s \in Seq(S) /\ Len(s) = n /\ \A k \in 1 .. n : s[k] = all[p + k]
  BY <1>3, <1>7
<1>9. IsSeq(s)
  BY <1>8, SeqIsSeq, Zenon
<1>10. s = d
  <2>1. Len(s) = Len(d) /\ \A k \in 1 .. Len(s) : s[k] = d[k]
    BY <1>2, <1>8, Zenon
  <2> QED  BY <1>9, <2>1, SameSeq, Zenon
<1> QED  BY <1>2, <1>3, <1>10, Zenon DEF Slice

\* While an archive is written, each entry of it is where the directory will say
\* that it is: CreateHeader's local header at the offset, the data in order as far
\* as the compressor has delivered it, the descriptor once the entry is closed,
\* with the checksum of what was written, and then the next entry.  So it is for
\* every sequence of calls and however late pflate delivers, if Flush is called
\* only with no compressor at work, until a write fails.
THEOREM EntriesPlaced ==
  ASSUME ~FlushRaces
  PROVE  Spec => []EntriesInPlace
<1> DEFINE Inv == TypeInv /\ ControlInv /\ CountInv /\ OpenInv /\ EntriesInv
<1>1. Init => Inv
  BY InitTypes, CountInit, OpenInit, EntriesInit
<1>2. Inv /\ [Next]_vars => Inv'
  BY NextTypes, CountStep, OpenStep, EntriesStep
<1>3. Inv => EntriesInPlace
  <2> SUFFICES ASSUME Inv, berr = "nil", pc # "flush", NEW i \in DOMAIN dir, made[i] # -1
               PROVE  InPlace(out \o buf, i, dir[i].offset - base, EntryData(i))
    BY DEF EntriesInPlace
  <2>1. i \in 1 .. Len(dir)
    BY DEF TypeInv, FieldType
  <2>2. EntryInv(i) /\ DataNow(i)
    BY <2>1, EntryDataIs DEF EntriesInv, DataIs
  <2>3. PICK all, at, d : all = All /\ at = dir[i].offset - base /\ d = EntryData(i)
    OBVIOUS
  <2>4. all = out \o buf /\ IsSeq(all) /\ IsSeq(d)
    BY <2>2, <2>3, AllIsSeq, Zenon DEF All, DataNow
  <2>5. PICK p : p = Body(all, at)
    OBVIOUS
  <2>6. /\ at \in Nat /\ at + fileHeaderLen <= Len(all) /\ all[at + 1].t = "file"
        /\ p \in Nat /\ p + Len(d) <= Len(all) /\ \A k \in 1 .. Len(d) : all[p + k] = d[k]
        /\ Done(i) => /\ p + Len(d) + dataDescriptorLen <= Len(all)
                      /\ all[p + Len(d) + 1].t = "descriptor"
                      /\ all[p + Len(d) + 1].crc = Contents(i)
    BY <2>2, <2>3, <2>5, Zenon DEF EntryInv, EntryOK, Placed, Ended
  <2>7. (Done(i) /\ i < Len(dir) /\ ~closed) =>
           dir[i + 1].offset - base - (p + Len(d)) \in {dataDescriptorLen, dataDescriptor64Len}
    BY <2>2, <2>3, <2>5, Zenon DEF EntryInv, Behind, DescriptorLens
  <2>8. Len(d) \in Nat
    BY <2>4, Concat
  <2>9. p + Len(d) >= 0
    <3>1. PICK l \in Nat : l = Len(d)
      BY <2>8
    <3>2. p + l >= 0
      BY <2>6
    <3> QED  BY <3>1, <3>2, Zenon
  <2>10. Found(all, at, fileHeaderLen, "file")
    <3>1. at >= 0
      BY <2>6
    <3> QED  BY <3>1, <2>6, Zenon DEF Found
  <2>11. Slice(all, p, Len(d)) = d
    BY <2>4, <2>6, SliceIs, Zenon
  <2>12. Done(i) => EndsAt(all, i, p + Len(d))
    BY <2>6, <2>7, <2>9, Zenon DEF EndsAt, Found
  <2>13. BodyAt(all, i, p, d)
    BY <2>11, <2>12, Zenon DEF BodyAt
  <2>14. InPlace(all, i, at, d)
    BY <2>5, <2>10, <2>13, Zenon DEF InPlace, Body
  <2> QED  BY <2>3, <2>4, <2>14, Zenon
<1> QED  BY <1>1, <1>2, <1>3, PTL DEF Spec
=============================================================================
