---------------------------- MODULE ZipReadProofs ----------------------------
(***************************************************************************)
(* Further theorems about ZipArchive: what NewReader makes of a finished   *)
(* archive.                                                                *)
(***************************************************************************)
EXTENDS ZipEntryProofs

USE DEF bufio, fields, hist

-----------------------------------------------------------------------------
(* The bytes of an Extra.                                                   *)

\* FlattenSeq of one more sequence.
LEMMA FlattenAppend ==
  ASSUME NEW S, NEW ss \in Seq(Seq(S)), NEW s \in Seq(S)
  PROVE  FlattenSeq(Append(ss, s)) = FlattenSeq(ss) \o s
<1>1. PICK n \in Nat : n = Len(ss)
  OBVIOUS
<1>2. PICK tt : tt = Append(ss, s)
  OBVIOUS
<1>3. Len(tt) = n + 1 /\ tt[n + 1] = s /\ \A k \in 1 .. n : tt[k] = ss[k]
  BY <1>1, <1>2
<1> DEFINE h == CHOOSE h : Flattens(h, tt, n + 1)
<1>4. n + 1 \in Nat /\ n + 1 # 0 /\ n + 1 \in 1 .. n + 1 /\ (n + 1) - 1 = n
  BY <1>1
<1>5. Flattens(h, tt, n + 1)
  BY <1>4, FlattenExists, Zenon
<1>6. FlattenSeq(tt) = h[n + 1]
  <2>1. Len(tt) # 0
    BY <1>3, <1>4, Zenon
  <2> QED  BY <2>1, <1>3, Zenon DEF FlattenSeq, Flattens
<1> HIDE DEF h
<1>7. h[n + 1] = IF n + 1 = 1 THEN tt[n + 1] ELSE h[(n + 1) - 1] \o tt[n + 1]
  BY <1>4, <1>5, Zenon DEF Flattens
<1>8. CASE n = 0
  <2>1. FlattenSeq(ss) = ss
    BY <1>1, <1>8 DEF FlattenSeq
  <2>2. ss = <<>> /\ n + 1 = 1
    <3>1. ASSUME NEW T, NEW t \in Seq(T), Len(t) = 0 PROVE t = <<>>
      BY <3>1
    <3>2. ss = <<>>
      BY <3>1, <1>1, <1>8, Zenon
    <3> QED  BY <3>2, <1>8
  <2>3. FlattenSeq(tt) = s
    BY <1>3, <1>6, <1>7, <2>2, Zenon
  <2>4. <<>> \o s = s
    OBVIOUS
  <2> QED  BY <1>2, <2>1, <2>2, <2>3, <2>4, Zenon
<1>9. CASE n # 0
  <2> DEFINE f == CHOOSE f : Flattens(f, ss, n)
  <2>1. Flattens(f, ss, n)
    BY <1>1, FlattenExists, Zenon
  <2>2. FlattenSeq(ss) = f[n]
    BY <1>1, <1>9 DEF FlattenSeq, Flattens
  <2> HIDE DEF f
  <2> DEFINE T == {k \in 1 .. n : f[k] # h[k]}
  <2>3. ASSUME T # {} PROVE FALSE
    <3>1. T \in SUBSET Nat
      BY <1>1
    <3> HIDE DEF T
    <3>2. PICK k \in T : \A j \in T : k <= j
      BY <3>1, <2>3, LeastElement, Zenon
    <3> USE DEF T
    <3>3. k \in 1 .. n /\ k \in 1 .. n + 1
      BY <3>2, <1>1
    <3>4. f[k] = IF k = 1 THEN ss[k] ELSE f[k - 1] \o ss[k]
      BY <2>1, <3>3, Zenon DEF Flattens
    <3>5. h[k] = IF k = 1 THEN tt[k] ELSE h[k - 1] \o tt[k]
      BY <1>5, <3>3, Zenon DEF Flattens
    <3>6. CASE k = 1
      BY <3>2, <3>3, <3>4, <3>5, <3>6, <1>3, Zenon
    <3>7. CASE k # 1
      <4>1. k - 1 \in 1 .. n /\ ~(k <= k - 1)
        BY <3>3, <3>7, <1>1
      <4>2. f[k - 1] = h[k - 1]
        BY <4>1, <3>2
      <4>3. f[k] = h[k]
        BY <3>3, <3>4, <3>5, <3>7, <4>2, <1>3, Zenon
      <4> QED  BY <4>3, <3>2
    <3> QED  BY <3>6, <3>7
  <2>4. f[n] = h[n]
    BY <2>3, <1>1, <1>9
  <2>5. n + 1 # 1
    BY <1>1, <1>9
  <2>6. FlattenSeq(tt) = h[n] \o s
    BY <1>3, <1>4, <1>6, <1>7, <2>5, Zenon
  <2> QED  BY <1>2, <2>2, <2>4, <2>6, Zenon
<1> QED  BY <1>8, <1>9

\* The fields of an Extra as records of bytes: any set S with the fields of it.
LEMMA FieldBytes ==
  ASSUME NEW extra \in Seq(ExtraField), NEW S,
         \A k \in 1 .. Len(extra) : extra[k] \in S, Filler \in S
  PROVE  [k \in DOMAIN extra |-> Record(extra[k], FieldLen(extra[k]))] \in Seq(Seq(S))
<1> DEFINE ss == [k \in DOMAIN extra |-> Record(extra[k], FieldLen(extra[k]))]
<1>0. Len(extra) \in Nat /\ DOMAIN extra = 1 .. Len(extra)
  OBVIOUS
<1>1. ASSUME NEW k \in DOMAIN extra PROVE ss[k] \in Seq(S)
  <2>1. FieldLen(extra[k]) \in Nat
    BY FormatAssumption DEF FieldLen
  <2>2. extra[k] \in S
    BY <1>0
  <2>3. Record(extra[k], FieldLen(extra[k])) \in [1 .. FieldLen(extra[k]) -> S]
    BY <2>2, Zenon DEF Record
  <2>4. Record(extra[k], FieldLen(extra[k])) \in Seq(S)
    BY <2>1, <2>3, SeqDef
  <2> QED  BY <2>4, Zenon
<1>2. ss \in [1 .. Len(extra) -> Seq(S)]
  BY <1>0, <1>1, Zenon
<1> HIDE DEF ss
<1>3. ss \in Seq(Seq(S))
  BY <1>0, <1>2, SeqDef
<1> QED  BY <1>3 DEF ss

\* The bytes of an Extra are its fields, and filler.
LEMMA ExtraOver ==
  ASSUME NEW extra \in Seq(ExtraField), NEW S,
         \A k \in 1 .. Len(extra) : extra[k] \in S, Filler \in S
  PROVE  ExtraBytes(extra) \in Seq(S)
<1> DEFINE ss == [k \in DOMAIN extra |-> Record(extra[k], FieldLen(extra[k]))]
<1>1. ss \in Seq(Seq(S))
  BY FieldBytes
<1> HIDE DEF ss
<1>2. FlattenSeq(ss) \in Seq(S)
  BY <1>1, FlattenType, Zenon
<1> QED  BY <1>2, Zenon DEF ExtraBytes, ss

\* A field behind the others.
LEMMA ExtraAppend ==
  ASSUME NEW extra \in Seq(ExtraField), NEW f \in ExtraField
  PROVE  ExtraBytes(Append(extra, f)) = ExtraBytes(extra) \o Record(f, FieldLen(f))
<1> DEFINE R(x) == Record(x, FieldLen(x))
           S == ExtraField \cup {Filler}
           ss == [k \in DOMAIN extra |-> R(extra[k])]
<1>0. PICK n \in Nat : n = Len(extra)
  OBVIOUS
<1>1. PICK x : n = Len(extra) /\ x = Append(extra, f)
  BY <1>0
<1>2. /\ x \in Seq(ExtraField) /\ Len(x) = n + 1 /\ x[n + 1] = f
      /\ DOMAIN x = 1 .. n + 1 /\ DOMAIN extra = 1 .. n
      /\ \A k \in 1 .. n : x[k] = extra[k] /\ extra[k] \in S
  BY <1>1
<1>3. ss \in Seq(Seq(S))
  <2>1. \A k \in 1 .. Len(extra) : extra[k] \in S
    BY <1>1, <1>2
  <2>2. Filler \in S
    OBVIOUS
  <2> HIDE DEF S
  <2> QED  BY <2>1, <2>2, FieldBytes
<1>4. R(f) \in Seq(S)
  <2>1. FieldLen(f) \in Nat
    BY FormatAssumption DEF FieldLen
  <2>2. R(f) \in [1 .. FieldLen(f) -> S]
    BY Zenon DEF Record
  <2> HIDE DEF S
  <2>3. R(f) \in Seq(S)
    BY <2>1, <2>2, SeqDef
  <2> QED  BY <2>3
<1> HIDE DEF S
<1>5. DOMAIN ss = 1 .. n /\ \A k \in 1 .. n : ss[k] = R(extra[k])
  BY <1>2, Zenon
<1>6. [k \in DOMAIN x |-> R(x[k])] = Append(ss, R(f))
  <2> DEFINE a == [k \in 1 .. n + 1 |-> R(x[k])]
  <2>1. PICK r, t : r = R(f) /\ t = Append(ss, r)
    OBVIOUS
  <2>2. Len(ss) = n
    <3> HIDE DEF ss, R
    <3> QED  BY <1>3, <1>5
  <2>3. DOMAIN t = 1 .. n + 1 /\ t[n + 1] = r /\ (\A k \in 1 .. n : t[k] = ss[k])
        /\ t = [k \in 1 .. n + 1 |-> t[k]]
    <3> HIDE DEF ss, R
    <3>1. ss \in Seq(Seq(S)) /\ r \in Seq(S)
      BY <1>3, <1>4, <2>1
    <3>2. ASSUME NEW T, NEW u \in Seq(T), NEW v \in T, Len(u) = n
          PROVE  /\ Append(u, v) \in Seq(T) /\ Len(Append(u, v)) = n + 1
                 /\ Append(u, v)[n + 1] = v
                 /\ \A k \in 1 .. n : Append(u, v)[k] = u[k]
      BY <3>2, <1>0
    <3>3. t \in Seq(Seq(S)) /\ Len(t) = n + 1 /\ t[n + 1] = r
          /\ \A k \in 1 .. n : t[k] = ss[k]
      <4>1. PICK T : T = Seq(S)
        OBVIOUS
      <4>2. ss \in Seq(T) /\ r \in T
        BY <3>1, <4>1, Zenon
      <4>3. t \in Seq(T) /\ Len(t) = n + 1 /\ t[n + 1] = r
            /\ \A k \in 1 .. n : t[k] = ss[k]
        <5>1. /\ Append(ss, r) \in Seq(T) /\ Len(Append(ss, r)) = n + 1
              /\ Append(ss, r)[n + 1] = r
              /\ \A k \in 1 .. n : Append(ss, r)[k] = ss[k]
          BY <3>2, <4>2, <2>2
        <5> QED  BY <5>1, <2>1, Zenon
      <4> QED  BY <4>1, <4>3, Zenon
    <3>4. ASSUME NEW T, NEW u \in Seq(T), NEW m \in Nat, Len(u) = m
          PROVE  DOMAIN u = 1 .. m /\ u = [k \in 1 .. m |-> u[k]]
      BY <3>4
    <3>5. n + 1 \in Nat
      BY <1>0
    <3> QED  BY <3>3, <3>4, <3>5, Zenon
  <2>4. ASSUME NEW k \in 1 .. n + 1 PROVE R(x[k]) = t[k]
    <3>1. CASE k = n + 1
      BY <3>1, <2>1, <2>3, <1>2, Zenon
    <3>2. CASE k # n + 1
      <4>1. k \in 1 .. n
        BY <3>2, <1>1
      <4>2. x[k] = extra[k] /\ ss[k] = R(extra[k]) /\ t[k] = ss[k]
        BY <4>1, <2>3, <1>2, <1>5, Zenon
      <4> QED  BY <4>2, Zenon
    <3> QED  BY <3>1, <3>2
  <2> HIDE DEF R, ss
  <2>5. a = [k \in 1 .. n + 1 |-> t[k]]
    BY <2>4, Zenon
  <2> QED  BY <2>1, <2>3, <2>5, <1>2, Zenon
<1> HIDE DEF ss
<1>7. FlattenSeq(Append(ss, R(f))) = FlattenSeq(ss) \o R(f)
  BY <1>3, <1>4, FlattenAppend
<1>8. ExtraBytes(x) = FlattenSeq(Append(ss, R(f)))
  BY <1>6, Zenon DEF ExtraBytes
<1>9. ExtraBytes(extra) = FlattenSeq(ss)
  BY Zenon DEF ExtraBytes, ss
<1> QED  BY <1>1, <1>7, <1>8, <1>9, Zenon

-----------------------------------------------------------------------------
(* The bytes of a directory header.                                         *)

\* The header of an entry at an offset, and all of its bytes.
HeaderOf(g, offset) ==
  [t |-> "directory", utf8 |-> g.utf8, method |-> g.method, crc |-> g.crc,
   csize |-> g.csize, usize |-> g.usize, name |-> uint16(Len(NameBytes(g.name))),
   extra |-> uint16(Len(ExtraBytes(g.extra))),
   comment |-> uint16(Len(NameBytes(g.comment))),
   offset |-> IF offset > uint32max THEN uint32max ELSE offset]
BytesOf(g, offset) ==
  ((Record(HeaderOf(g, offset), directoryHeaderLen) \o NameBytes(g.name))
    \o ExtraBytes(g.extra)) \o NameBytes(g.comment)

\* What the concatenation of four sequences is.
LEMMA ConcatFour ==
  ASSUME NEW a, NEW b, NEW c, NEW d, IsSeq(a), IsSeq(b), IsSeq(c), IsSeq(d)
  PROVE  LET s == ((a \o b) \o c) \o d
             x == Len(a)  y == Len(b)  z == Len(c)  u == Len(d)
         IN /\ x \in Nat /\ y \in Nat /\ z \in Nat /\ u \in Nat
            /\ IsSeq(s) /\ Len(s) = ((x + y) + z) + u
            /\ \A k \in 1 .. x : s[k] = a[k]
            /\ \A k \in 1 .. y : s[x + k] = b[k]
            /\ \A k \in 1 .. z : s[(x + y) + k] = c[k]
            /\ \A k \in 1 .. u : s[((x + y) + z) + k] = d[k]
<1>0. PICK x, y, z, u : x = Len(a) /\ y = Len(b) /\ z = Len(c) /\ u = Len(d)
  OBVIOUS
<1>1. PICK p : p = a \o b
  OBVIOUS
<1>2. /\ IsSeq(p) /\ x \in Nat /\ y \in Nat /\ Len(p) = x + y
      /\ \A k \in 1 .. x : p[k] = a[k]
      /\ \A k \in 1 .. y : p[x + k] = b[k]
  <2>1. /\ IsSeq(a \o b) /\ Len(a) \in Nat /\ Len(b) \in Nat
        /\ Len(a \o b) = Len(a) + Len(b)
        /\ \A k \in 1 .. Len(a) : (a \o b)[k] = a[k]
        /\ \A k \in 1 .. Len(b) : (a \o b)[Len(a) + k] = b[k]
    BY Concat
  <2> QED  BY <2>1, <1>0, <1>1, Zenon
<1>3. PICK q : q = p \o c
  OBVIOUS
<1>4. /\ IsSeq(q) /\ z \in Nat /\ Len(q) = (x + y) + z
      /\ \A k \in 1 .. x + y : q[k] = p[k]
      /\ \A k \in 1 .. z : q[(x + y) + k] = c[k]
  <2>0. IsSeq(p)
    BY <1>2
  <2>1. /\ IsSeq(p \o c) /\ Len(c) \in Nat
        /\ Len(p \o c) = Len(p) + Len(c)
        /\ \A k \in 1 .. Len(p) : (p \o c)[k] = p[k]
        /\ \A k \in 1 .. Len(c) : (p \o c)[Len(p) + k] = c[k]
    BY <2>0, Concat
  <2> QED  BY <2>1, <1>0, <1>2, <1>3, Zenon
<1>5. PICK s : s = q \o d
  OBVIOUS
<1>6. /\ IsSeq(s) /\ u \in Nat /\ Len(s) = ((x + y) + z) + u
      /\ \A k \in 1 .. (x + y) + z : s[k] = q[k]
      /\ \A k \in 1 .. u : s[((x + y) + z) + k] = d[k]
  <2>0. IsSeq(q)
    BY <1>4
  <2>1. /\ IsSeq(q \o d) /\ Len(d) \in Nat
        /\ Len(q \o d) = Len(q) + Len(d)
        /\ \A k \in 1 .. Len(q) : (q \o d)[k] = q[k]
        /\ \A k \in 1 .. Len(d) : (q \o d)[Len(q) + k] = d[k]
    BY <2>0, Concat
  <2> QED  BY <2>1, <1>0, <1>4, <1>5, Zenon
<1>7. x \in Nat /\ y \in Nat /\ z \in Nat
  BY <1>2, <1>4
<1>8. \A k \in 1 .. x : k \in 1 .. x + y /\ k \in 1 .. (x + y) + z
  BY <1>7
<1>9. \A k \in 1 .. y : x + k \in 1 .. x + y /\ x + k \in 1 .. (x + y) + z
  BY <1>7
<1>10. \A k \in 1 .. z : (x + y) + k \in 1 .. (x + y) + z
  BY <1>7
<1>11. \A k \in 1 .. x : s[k] = a[k]
  BY <1>2, <1>4, <1>6, <1>8, Zenon
<1>12. \A k \in 1 .. y : s[x + k] = b[k]
  BY <1>2, <1>4, <1>6, <1>9, Zenon
<1>13. \A k \in 1 .. z : s[(x + y) + k] = c[k]
  BY <1>4, <1>6, <1>10, Zenon
<1>14. s = ((a \o b) \o c) \o d
  BY <1>1, <1>3, <1>5, Zenon
<1> QED  BY <1>0, <1>6, <1>7, <1>11, <1>12, <1>13, <1>14, Zenon

\* The header, the name, the Extra and the comment, each in its place.
LEMMA BytesAre ==
  ASSUME NEW g \in FileHeader, NEW offset
  PROVE  LET s == BytesOf(g, offset)  h == directoryHeaderLen  n == Len(NameBytes(g.name))
             l == Len(ExtraBytes(g.extra))  c == Len(NameBytes(g.comment))
         IN /\ h \in Nat /\ h # 0 /\ n \in Nat /\ l \in Nat /\ c \in Nat
            /\ IsSeq(s) /\ Len(s) = ((h + n) + l) + c
            /\ s[1] = HeaderOf(g, offset)
            /\ \A k \in 1 .. n : s[h + k] = NameBytes(g.name)[k]
            /\ \A k \in 1 .. l : s[(h + n) + k] = ExtraBytes(g.extra)[k]
            /\ \A k \in 1 .. c : s[((h + n) + l) + k] = NameBytes(g.comment)[k]
<1>0. PICK h, n, l, c : /\ h = directoryHeaderLen /\ n = Len(NameBytes(g.name))
                        /\ l = Len(ExtraBytes(g.extra)) /\ c = Len(NameBytes(g.comment))
  OBVIOUS
<1>1. h \in Nat /\ h # 0 /\ 1 \in 1 .. h
  BY <1>0, FormatAssumption
<1>2. g.extra \in Seq(ExtraField)
  BY DEF FileHeader
<1>3. PICK r : r = Record(HeaderOf(g, offset), h)
  OBVIOUS
<1>4. IsSeq(r) /\ Len(r) = h /\ r[1] = HeaderOf(g, offset)
  BY <1>1, <1>3, RecordIs, Zenon
<1>5. IsSeq(NameBytes(g.name)) /\ IsSeq(ExtraBytes(g.extra)) /\ IsSeq(NameBytes(g.comment))
  BY <1>2, NameNoEnd, ExtraNoEnd, Zenon DEF NoEnd
<1>6. PICK a, b, d : /\ a = NameBytes(g.name) /\ b = ExtraBytes(g.extra)
                     /\ d = NameBytes(g.comment)
  OBVIOUS
<1>7. PICK s : s = ((r \o a) \o b) \o d
  OBVIOUS
<1>8. /\ n \in Nat /\ l \in Nat /\ c \in Nat
      /\ IsSeq(s) /\ Len(s) = ((h + n) + l) + c
      /\ \A k \in 1 .. h : s[k] = r[k]
      /\ \A k \in 1 .. n : s[h + k] = a[k]
      /\ \A k \in 1 .. l : s[(h + n) + k] = b[k]
      /\ \A k \in 1 .. c : s[((h + n) + l) + k] = d[k]
  <2>1. /\ IsSeq(r) /\ IsSeq(a) /\ IsSeq(b) /\ IsSeq(d)
        /\ h = Len(r) /\ n = Len(a) /\ l = Len(b) /\ c = Len(d)
    BY <1>0, <1>4, <1>5, <1>6, Zenon
  <2> DEFINE v == ((r \o a) \o b) \o d
  <2>2. /\ n \in Nat /\ l \in Nat /\ c \in Nat
        /\ IsSeq(v) /\ Len(v) = ((h + n) + l) + c
        /\ \A k \in 1 .. h : v[k] = r[k]
        /\ \A k \in 1 .. n : v[h + k] = a[k]
        /\ \A k \in 1 .. l : v[(h + n) + k] = b[k]
        /\ \A k \in 1 .. c : v[((h + n) + l) + k] = d[k]
    <3>1. /\ Len(r) \in Nat /\ Len(a) \in Nat /\ Len(b) \in Nat /\ Len(d) \in Nat
          /\ IsSeq(v) /\ Len(v) = ((Len(r) + Len(a)) + Len(b)) + Len(d)
          /\ \A k \in 1 .. Len(r) : v[k] = r[k]
          /\ \A k \in 1 .. Len(a) : v[Len(r) + k] = a[k]
          /\ \A k \in 1 .. Len(b) : v[(Len(r) + Len(a)) + k] = b[k]
          /\ \A k \in 1 .. Len(d) : v[((Len(r) + Len(a)) + Len(b)) + k] = d[k]
      <4>1. IsSeq(r) /\ IsSeq(a) /\ IsSeq(b) /\ IsSeq(d)
        BY <2>1
      <4> QED  BY <4>1, ConcatFour
    <3> HIDE DEF v
    <3> QED  BY <2>1, <3>1, Zenon
  <2> HIDE DEF v
  <2>3. s = v
    BY <1>7 DEF v
  <2> QED  BY <2>2, <2>3, Zenon
<1>9. BytesOf(g, offset) = s
  BY <1>0, <1>3, <1>6, <1>7, Zenon DEF BytesOf
<1>10. s[1] = HeaderOf(g, offset)
  BY <1>1, <1>4, <1>8, Zenon
<1> QED  BY <1>0, <1>1, <1>6, <1>8, <1>9, <1>10, Zenon

\* Close writes the bytes of the header it lists.
LEMMA DirectoryBytesOf ==
  ASSUME NEW h PROVE DirectoryBytes(h) = BytesOf(Listed(h), h.offset)
BY Zenon DEF DirectoryBytes, BytesOf, HeaderOf

-----------------------------------------------------------------------------
(* Bytes in their place.                                                    *)

\* The bytes s are behind the first a bytes of w.
At(w, a, s) ==
  /\ a \in Nat /\ a + Len(s) <= Len(w)
  /\ \A k \in 1 .. Len(s) : w[a + k] = s[k]

\* They stay there when more is written.
LEMMA AtAppend ==
  ASSUME NEW w, NEW b, NEW a, NEW s, IsSeq(w), IsSeq(b), IsSeq(s), At(w, a, s)
  PROVE  At(w \o b, a, s)
<1>1. Len(w) \in Nat /\ Len(s) \in Nat /\ Len(b) \in Nat /\ Len(w \o b) = Len(w) + Len(b)
  BY Concat
<1>2. PICK m \in Nat, n \in Nat, l \in Nat : m = Len(w) /\ n = Len(b) /\ l = Len(s)
  BY <1>1
<1>3. PICK v : v = w \o b
  OBVIOUS
<1>4. a \in Nat /\ a + l <= m /\ \A k \in 1 .. l : w[a + k] = s[k]
  BY <1>2, Zenon DEF At
<1>5. \A k \in Nat : k >= 1 /\ k <= m => v[k] = w[k]
  BY <1>2, <1>3, ByteStays, Zenon
<1>6. ASSUME NEW k \in 1 .. l PROVE v[a + k] = s[k]
  <2>1. a + k \in Nat /\ a + k >= 1 /\ a + k <= m
    BY <1>4, <1>2
  <2> QED  BY <2>1, <1>4, <1>5, Zenon
<1>7. a + l <= m + n
  BY <1>2, <1>4
<1>8. Len(v) = m + n
  BY <1>1, <1>2, <1>3, Zenon
<1>9. At(v, a, s)
  BY <1>2, <1>4, <1>6, <1>7, <1>8, Zenon DEF At
<1> QED  BY <1>3, <1>9, Zenon

\* What is written is behind what was there.
LEMMA AtEnd ==
  ASSUME NEW w, NEW s, IsSeq(w), IsSeq(s)
  PROVE  At(w \o s, Len(w), s) /\ Len(w) \in Nat /\ Len(s) \in Nat /\ Len(w \o s) = Len(w) + Len(s)
<1>1. /\ Len(w) \in Nat /\ Len(s) \in Nat /\ Len(w \o s) = Len(w) + Len(s)
      /\ \A k \in 1 .. Len(s) : (w \o s)[Len(w) + k] = s[k]
  BY Concat
<1>2. PICK m \in Nat, n \in Nat : m = Len(w) /\ n = Len(s)
  BY <1>1
<1>3. m + n <= m + n
  BY <1>2
<1>4. Len(w) + Len(s) <= Len(w \o s)
  BY <1>1, <1>2, <1>3, Zenon
<1> QED  BY <1>1, <1>4, Zenon DEF At

\* They are in the file, behind the p bytes that were in it before, if that has
\* the first m of the bytes written.
LEMMA AtFile ==
  ASSUME NEW w, NEW b, NEW a, NEW s, IsSeq(s), NEW p \in Nat, NEW m \in Nat,
         At(w, a, s), a + Len(s) <= m, p + m <= Len(b), Len(b) \in Nat,
         \A k \in 1 .. m : b[p + k] = w[k]
  PROVE  At(b, p + a, s)
<1>1. Len(s) \in Nat
  BY Concat
<1>2. PICK l \in Nat, n \in Nat : l = Len(s) /\ n = Len(b)
  BY <1>1
<1>3. a \in Nat /\ a + l <= m /\ p + m <= n /\ \A k \in 1 .. l : w[a + k] = s[k]
  BY <1>2, Zenon DEF At
<1>4. p + a \in Nat /\ (p + a) + l <= n
  BY <1>2, <1>3
<1>5. ASSUME NEW k \in 1 .. l PROVE b[(p + a) + k] = s[k]
  <2>1. a + k \in 1 .. m /\ (p + a) + k = p + (a + k)
    BY <1>2, <1>3
  <2>2. b[p + (a + k)] = w[a + k]
    BY <2>1, Zenon
  <2> QED  BY <2>1, <2>2, <1>3, Zenon
<1> QED  BY <1>2, <1>4, <1>5, Zenon DEF At

-----------------------------------------------------------------------------
(* What readDirectoryHeader makes of the bytes of a directory header.       *)

\* The sizes and the offset of an entry do not fit 32 bits.
Large(g, offset) == isZip64(g) \/ offset >= uint32max

\* The header g, listed for an entry at the offset, has its sizes in the zip64
\* field behind its other fields if they do not fit.
SizesIn(g, offset) ==
  IF Large(g, offset)
  THEN /\ g.csize = uint32max /\ g.usize = uint32max
       /\ \E x \in Seq(ExtraField) :
            g.extra = Append(x, Zip64Extra(g.usize64, g.csize64, offset))
  ELSE g.csize = g.csize64 /\ g.usize = g.usize64

\* The name and comment of the header are UTF-8.
Valid(g) == detectUTF8(NameBytes(g.name)).valid /\ detectUTF8(NameBytes(g.comment)).valid
\* The header says so, where it has to.
Flagged(g) ==
  (/\ ~g.nonUTF8 /\ Valid(g)
   /\ detectUTF8(NameBytes(g.name)).require \/ detectUTF8(NameBytes(g.comment)).require)
     => g.utf8

\* The lengths of the header fit 16 bits.
Fits(g) ==
  /\ Len(NameBytes(g.name)) <= uint16max /\ Len(ExtraBytes(g.extra)) <= uint16max
  /\ Len(NameBytes(g.comment)) <= uint16max

\* A length that fits 16 bits is what is read.
LEMMA Uint16 ==
  ASSUME NEW n \in Nat, n <= uint16max PROVE uint16(n) = n
<1>1. PICK m \in Nat : m = uint16max
  BY FormatAssumption
<1>2. n % (m + 1) = n
  BY <1>1
<1> QED  BY <1>1, <1>2 DEF uint16

\* A zip64 field that fits is found, or one in front of it is.
LEMMA FieldFound ==
  ASSUME NEW b, NEW o, NEW n, NEW k \in 1 .. n, b[o + k].t = "extra", b[o + k].tag = "zip64",
         k + FieldLen(b[o + k]) <= n + 1
  PROVE  Zip64Field(b, o, n) # <<>>
<1> DEFINE starts == {j \in 1 .. n : /\ b[o + j].t = "extra" /\ b[o + j].tag = "zip64"
                                     /\ j + FieldLen(b[o + j]) <= n + 1}
           x == b[o + CHOOSE j \in starts : \A i \in starts : j <= i]
<1>1. k \in starts
  OBVIOUS
<1>2. Zip64Field(b, o, n) = IF starts = {} THEN <<>> ELSE <<x>>
  BY Zenon DEF Zip64Field
<1> HIDE DEF starts, x
<1>3. Zip64Field(b, o, n) = <<x>>
  BY <1>1, <1>2, Zenon
<1> QED  BY <1>3

\* The header is read as it was written.
LEMMA ReadHeader ==
  ASSUME NEW b, IsSeq(b), NEW g \in FileHeader, NEW o \in Nat, NEW a,
         At(b, a, BytesOf(g, o)), Fits(g)
  PROVE  LET n == Len(NameBytes(g.name))  l == Len(ExtraBytes(g.extra))  d == HeaderOf(g, o)
         IN /\ readDirectoryHeader(b, a) =
                 ListedFile(d, Zip64(d, Zip64Field(b, (a + directoryHeaderLen) + n, l)),
                            NameBytes(g.name), NameBytes(g.comment))
            /\ ((directoryHeaderLen + d.name) + d.extra) + d.comment = Len(BytesOf(g, o))
            /\ \A k \in 1 .. l : b[((a + directoryHeaderLen) + n) + k] = ExtraBytes(g.extra)[k]
<1>0. PICK n, l, d : /\ n = Len(NameBytes(g.name)) /\ l = Len(ExtraBytes(g.extra))
                     /\ d = HeaderOf(g, o)
  OBVIOUS
<1>1. PICK c, h, s : /\ c = Len(NameBytes(g.comment)) /\ h = directoryHeaderLen
                     /\ s = BytesOf(g, o)
  OBVIOUS
<1>2. /\ h \in Nat /\ h # 0 /\ n \in Nat /\ l \in Nat /\ c \in Nat
      /\ IsSeq(s) /\ Len(s) = ((h + n) + l) + c
      /\ s[1] = d
      /\ \A k \in 1 .. n : s[h + k] = NameBytes(g.name)[k]
      /\ \A k \in 1 .. l : s[(h + n) + k] = ExtraBytes(g.extra)[k]
      /\ \A k \in 1 .. c : s[((h + n) + l) + k] = NameBytes(g.comment)[k]
  <2> DEFINE v == BytesOf(g, o)  x == directoryHeaderLen  y == Len(NameBytes(g.name))
             z == Len(ExtraBytes(g.extra))  u == Len(NameBytes(g.comment))
  <2>1. /\ x \in Nat /\ x # 0 /\ y \in Nat /\ z \in Nat /\ u \in Nat
        /\ IsSeq(v) /\ Len(v) = ((x + y) + z) + u
        /\ v[1] = HeaderOf(g, o)
        /\ \A k \in 1 .. y : v[x + k] = NameBytes(g.name)[k]
        /\ \A k \in 1 .. z : v[(x + y) + k] = ExtraBytes(g.extra)[k]
        /\ \A k \in 1 .. u : v[((x + y) + z) + k] = NameBytes(g.comment)[k]
    BY BytesAre
  <2>2. h = x /\ n = y /\ l = z /\ c = u /\ s = v /\ d = HeaderOf(g, o)
    BY <1>0, <1>1
  <2> HIDE DEF v, x, y, z, u
  <2> QED  BY <2>1, <2>2, Zenon
<1>3. PICK m \in Nat : m = Len(b)
  BY Concat
<1>4. /\ a \in Nat /\ a + (((h + n) + l) + c) <= m
      /\ \A k \in 1 .. ((h + n) + l) + c : b[a + k] = s[k]
  BY <1>1, <1>2, <1>3, Zenon DEF At
<1>5. n <= uint16max /\ l <= uint16max /\ c <= uint16max
  BY <1>0, <1>1, Zenon DEF Fits
<1>6. uint16(n) = n /\ uint16(l) = l /\ uint16(c) = c
  BY <1>2, <1>5, Uint16, Zenon
<1>7. d.name = n /\ d.extra = l /\ d.comment = c /\ d.t = "directory"
  <2>1. d.name = uint16(n) /\ d.extra = uint16(l) /\ d.comment = uint16(c) /\ d.t = "directory"
    BY <1>0, <1>1, Zenon DEF HeaderOf
  <2> QED  BY <2>1, <1>6, Zenon
<1>8. b[a + 1] = d
  <2>1. 1 \in 1 .. ((h + n) + l) + c
    BY <1>2
  <2> QED  BY <2>1, <1>2, <1>4, Zenon
<1>9. PICK p \in Nat : p = a + h
  BY <1>2, <1>4
<1>10. readDirectoryHeader(b, a) = readVariable(b, p, d)
  <2>1. ~(a >= m) /\ ~(a + h > m) /\ p = a + h
    BY <1>2, <1>4, <1>9, <1>3
  <2>2. ~(a >= Len(b)) /\ ~(a + directoryHeaderLen > Len(b)) /\ p = a + directoryHeaderLen
    BY <2>1, <1>1, <1>3, Zenon
  <2> QED  BY <2>2, <1>7, <1>8, Zenon DEF readDirectoryHeader
<1>11. ((p + n) + l) + c <= m /\ n \in Nat /\ l \in Nat /\ c \in Nat /\ h \in Nat /\ a \in Nat
  BY <1>2, <1>3, <1>4, <1>9
<1>12. Slice(b, p, n) = NameBytes(g.name)
  <2>1. p + n <= m
    BY <1>11
  <2>2. ASSUME NEW k \in 1 .. n PROVE b[p + k] = NameBytes(g.name)[k]
    <3>1. h + k \in 1 .. ((h + n) + l) + c /\ p + k = a + (h + k)
      BY <1>2, <1>4, <1>9
    <3> QED  BY <3>1, <1>2, <1>4, Zenon
  <2>3. IsSeq(NameBytes(g.name))
    BY NameNoEnd, Zenon DEF NoEnd
  <2> QED  BY <2>1, <2>2, <2>3, <1>0, <1>3, <1>9, SliceIs, Zenon
<1>13. \A k \in 1 .. l : b[(p + n) + k] = ExtraBytes(g.extra)[k]
  <2>1. ASSUME NEW k \in 1 .. l PROVE b[(p + n) + k] = ExtraBytes(g.extra)[k]
    <3>1. (h + n) + k \in 1 .. ((h + n) + l) + c /\ (p + n) + k = a + ((h + n) + k)
      BY <1>2, <1>4, <1>9
    <3> QED  BY <3>1, <1>2, <1>4, Zenon
  <2> QED  BY <2>1
<1>14. Slice(b, (p + n) + l, c) = NameBytes(g.comment)
  <2>1. PICK z \in Nat : z = (p + n) + l
    BY <1>2, <1>9
  <2>2. z + c <= m
    BY <1>11, <2>1
  <2>3. ASSUME NEW k \in 1 .. c PROVE b[z + k] = NameBytes(g.comment)[k]
    <3>1. ((h + n) + l) + k \in 1 .. ((h + n) + l) + c /\ z + k = a + (((h + n) + l) + k)
      BY <1>11, <1>9, <2>1
    <3> QED  BY <3>1, <1>2, <1>4, Zenon
  <2>4. IsSeq(NameBytes(g.comment))
    BY NameNoEnd, Zenon DEF NoEnd
  <2> QED  BY <2>1, <2>2, <2>3, <2>4, <1>1, <1>3, SliceIs, Zenon
<1>15. readVariable(b, p, d) =
         ListedFile(d, Zip64(d, Zip64Field(b, p + n, l)), NameBytes(g.name), NameBytes(g.comment))
  <2>1. ~(p = m /\ (n + l) + c > 0) /\ ~(((p + n) + l) + c > m)
    BY <1>2, <1>3, <1>9, <1>11
  <2> QED  BY <2>1, <1>3, <1>7, <1>12, <1>14, Zenon DEF readVariable
<1>16. ((h + n) + l) + c = Len(s)
  BY <1>2, Zenon
<1> QED  BY <1>0, <1>1, <1>7, <1>9, <1>10, <1>13, <1>15, <1>16, Zenon

\* The bytes of an Extra with the fields x and then the zip64 field z.
EndsWith(x, z) ==
  LET m == Len(ExtraBytes(x))  s == ExtraBytes(Append(x, z))
  IN /\ m \in Nat /\ zip64ExtraLen \in Nat /\ zip64ExtraLen # 0
     /\ IsSeq(s) /\ Len(s) = m + zip64ExtraLen
     /\ \A k \in 1 .. m : s[k] = ExtraBytes(x)[k]
     /\ s[m + 1] = z
     /\ \A k \in 1 .. zip64ExtraLen : k # 1 => s[m + k] = Filler
     /\ FieldLen(z) = zip64ExtraLen /\ z.t = "extra" /\ z.tag = "zip64"

\* The zip64 field is the last of the fields of an Extra that ends with it.
LEMMA LastField ==
  ASSUME NEW x \in Seq(ExtraField), NEW u \in Nat, NEW c \in Nat, NEW o \in Nat
  PROVE  EndsWith(x, Zip64Extra(u, c, o))
<1>0. PICK z, m, s : /\ z = Zip64Extra(u, c, o) /\ m = Len(ExtraBytes(x))
                     /\ s = ExtraBytes(Append(x, z))
  OBVIOUS
<1>1. z \in ExtraField
  BY <1>0 DEF ExtraField
<1>2. z.t = "extra" /\ z.tag = "zip64" /\ FieldLen(z) = zip64ExtraLen
  BY <1>0 DEF Zip64Extra, FieldLen
<1>3. PICK f \in Nat : f = zip64ExtraLen /\ f # 0
  BY FormatAssumption
<1> DEFINE r == Record(z, f)
<1>4. 1 \in 1 .. f
  BY <1>3
<1>5. IsSeq(r) /\ Len(r) = f /\ r[1] = z /\ \A k \in 1 .. f : k # 1 => r[k] = Filler
  <2>1. IsSeq(r) /\ Len(r) = f /\ \A k \in 1 .. f : r[k] = IF k = 1 THEN z ELSE Filler
    BY <1>3, RecordIs, ZenonT(60)
  <2> HIDE DEF r
  <2> QED  BY <2>1, <1>4, Zenon
<1>6. PICK e : e = ExtraBytes(x)
  OBVIOUS
<1>7. IsSeq(e) /\ IsSeq(r)
  BY <1>5, <1>6, ExtraNoEnd, Zenon DEF NoEnd
<1>8. s = e \o r
  BY <1>0, <1>1, <1>2, <1>3, <1>6, ExtraAppend, Zenon
<1> HIDE DEF r
<1>9. /\ IsSeq(e \o r) /\ Len(e) \in Nat /\ Len(e \o r) = Len(e) + Len(r)
      /\ \A k \in 1 .. Len(e) : (e \o r)[k] = e[k]
      /\ \A k \in 1 .. Len(r) : (e \o r)[Len(e) + k] = r[k]
  BY <1>7, Concat
<1>10. /\ IsSeq(s) /\ m \in Nat /\ Len(s) = m + f
       /\ \A k \in 1 .. m : s[k] = e[k]
       /\ \A k \in 1 .. f : s[m + k] = r[k]
  BY <1>0, <1>5, <1>6, <1>8, <1>9, Zenon
<1>11. s[m + 1] = z /\ \A k \in 1 .. f : k # 1 => s[m + k] = Filler
  BY <1>4, <1>5, <1>10, Zenon
<1> QED  BY <1>0, <1>2, <1>3, <1>6, <1>10, <1>11, Zenon DEF EndsWith

\* The file f was read from the header g of an entry at an offset.
ReadAs(f, g, offset) ==
  /\ f.err = "nil" /\ f.next = Len(BytesOf(g, offset)) /\ f.name = NameBytes(g.name)
  /\ f.nonUTF8 = NonUTF8(NameBytes(g.name), NameBytes(g.comment), g.utf8)

\* The header is read without an error, up to its end.
LEMMA FileRead ==
  ASSUME NEW b, IsSeq(b), NEW g \in FileHeader, NEW o \in Nat, NEW a,
         At(b, a, BytesOf(g, o)), Fits(g), SizesIn(g, o)
  PROVE  ReadAs(readDirectoryHeader(b, a), g, o)
<1>0. PICK f : f = readDirectoryHeader(b, a)
  OBVIOUS
<1>1. PICK n, l, d : /\ n = Len(NameBytes(g.name)) /\ l = Len(ExtraBytes(g.extra))
                     /\ d = HeaderOf(g, o)
  OBVIOUS
<1>2. PICK p, z : p = (a + directoryHeaderLen) + n /\ z = Zip64Field(b, p, l)
  OBVIOUS
<1>3. /\ f = ListedFile(d, Zip64(d, z), NameBytes(g.name), NameBytes(g.comment))
      /\ ((directoryHeaderLen + d.name) + d.extra) + d.comment = Len(BytesOf(g, o))
      /\ \A k \in 1 .. l : b[p + k] = ExtraBytes(g.extra)[k]
  <2> DEFINE x == Len(NameBytes(g.name))  y == Len(ExtraBytes(g.extra))  u == HeaderOf(g, o)
             q == (a + directoryHeaderLen) + x  v == Zip64Field(b, q, y)
  <2>1. /\ readDirectoryHeader(b, a) =
             ListedFile(u, Zip64(u, v), NameBytes(g.name), NameBytes(g.comment))
        /\ ((directoryHeaderLen + u.name) + u.extra) + u.comment = Len(BytesOf(g, o))
        /\ \A k \in 1 .. y : b[q + k] = ExtraBytes(g.extra)[k]
    BY ReadHeader
  <2>2. n = x /\ l = y /\ d = u /\ p = q /\ z = v
    BY <1>1, <1>2, Zenon
  <2> HIDE DEF x, y, u, q, v
  <2> QED  BY <1>0, <2>1, <2>2, Zenon
<1>4. /\ f.err = Zip64(d, z).err /\ f.name = NameBytes(g.name)
      /\ f.next = ((directoryHeaderLen + d.name) + d.extra) + d.comment
      /\ f.nonUTF8 = NonUTF8(NameBytes(g.name), NameBytes(g.comment), d.utf8)
  BY <1>3 DEF ListedFile
<1>5. d.utf8 = g.utf8 /\ d.csize = g.csize
      /\ d.offset = IF o > uint32max THEN uint32max ELSE o
  BY <1>1 DEF HeaderOf
<1>6. CASE Large(g, o)
  <2>1. PICK x \in Seq(ExtraField) : g.extra = Append(x, Zip64Extra(g.usize64, g.csize64, o))
    BY <1>6 DEF SizesIn
  <2>2. g.usize64 \in Nat /\ g.csize64 \in Nat
    BY DEF FileHeader
  <2>3. PICK e, m, s : /\ e = Zip64Extra(g.usize64, g.csize64, o) /\ m = Len(ExtraBytes(x))
                       /\ s = ExtraBytes(Append(x, e))
    OBVIOUS
  <2>4. /\ m \in Nat /\ zip64ExtraLen \in Nat /\ zip64ExtraLen # 0
        /\ Len(s) = m + zip64ExtraLen /\ s[m + 1] = e
        /\ FieldLen(e) = zip64ExtraLen /\ e.t = "extra" /\ e.tag = "zip64"
    <3>1. EndsWith(x, e)
      BY <2>2, <2>3, LastField, Zenon
    <3> QED  BY <3>1, <2>3, Zenon DEF EndsWith
  <2>5. l = m + zip64ExtraLen
    BY <1>1, <2>1, <2>3, <2>4, Zenon
  <2>6. m + 1 \in 1 .. l /\ 1 \in 1 .. zip64ExtraLen /\ (m + 1) + zip64ExtraLen <= l + 1
    BY <2>4, <2>5
  <2>7. b[p + (m + 1)] = e
    BY <1>3, <2>1, <2>3, <2>4, <2>6, Zenon
  <2>8. z # <<>>
    BY <1>2, <2>4, <2>6, <2>7, FieldFound, Zenon
  <2>9. Zip64(d, z).err = "nil"
    BY <2>8 DEF Zip64
  <2> QED  BY <1>0, <1>3, <1>4, <1>5, <2>9, Zenon DEF ReadAs
<1>7. CASE ~Large(g, o)
  <2>1. g.csize = g.csize64 /\ ~isZip64(g) /\ ~(o >= uint32max)
    BY <1>7 DEF SizesIn, Large
  <2>2. g.csize64 \in Nat /\ uint32max \in Nat
    BY FormatAssumption DEF FileHeader
  <2>3. g.csize # uint32max
    BY <2>1, <2>2 DEF isZip64
  <2>4. d.csize # uint32max /\ d.offset # uint32max
    BY <2>1, <2>2, <2>3, <1>5
  <2>5. Zip64(d, z).err = "nil"
    BY <2>4 DEF Zip64
  <2> QED  BY <1>0, <1>3, <1>4, <1>5, <2>5, Zenon DEF ReadAs
<1> QED  BY <1>6, <1>7

-----------------------------------------------------------------------------
(* What the loop of Reader.init makes of the directory.                     *)

\* The header g is as fh was before, with the same or less Extra.
Older(g, fh) ==
  /\ g.name = fh.name /\ g.comment = fh.comment /\ g.nonUTF8 = fh.nonUTF8
  /\ g.method = fh.method
  /\ Len(ExtraBytes(g.extra)) <= Len(ExtraBytes(fh.extra))

\* The entry h is listed in w from a to e, with the header g that fh was then.
Link(w, a, e, h, g, fh) ==
  /\ g \in FileHeader /\ h.offset \in Nat
  /\ At(w, a, BytesOf(g, h.offset)) /\ e = a + Len(BytesOf(g, h.offset))
  /\ SizesIn(g, h.offset) /\ Flagged(g) /\ Older(g, fh)

\* The first n entries of d, whose headers are in f, are listed one after the
\* other: the directory in w is divided at q, and its headers are g.
Chain(w, q, g, n, d, f) ==
  /\ n \in Nat /\ q[0] \in Nat
  /\ \A j \in 1 .. n : Link(w, q[j - 1], q[j], d[j], g[j], f[d[j].fh])

\* Every header takes some bytes.
LEMMA ChainGrows ==
  ASSUME NEW w, IsSeq(w), NEW q, NEW g, NEW n, NEW d, NEW f, Chain(w, q, g, n, d, f)
  PROVE  \A j \in 0 .. n : q[j] \in Nat /\ j <= q[j] /\ (j # 0 => q[j] <= Len(w))
<1>1. n \in Nat /\ q[0] \in Nat /\ Len(w) \in Nat
  BY Concat DEF Chain
<1> DEFINE T == {j \in 0 .. n : ~(q[j] \in Nat /\ j <= q[j] /\ (j # 0 => q[j] <= Len(w)))}
<1>2. SUFFICES ASSUME T # {} PROVE FALSE
  OBVIOUS
<1>3. T \in SUBSET Nat
  BY <1>1
<1> HIDE DEF T
<1>4. PICK j \in T : \A k \in T : j <= k
  BY <1>2, <1>3, LeastElement, Zenon
<1> USE DEF T
<1>5. j \in 0 .. n /\ j # 0
  BY <1>1, <1>4
<1>6. j - 1 \in 0 .. n /\ ~(j <= j - 1) /\ j \in 1 .. n
  BY <1>1, <1>5
<1>7. q[j - 1] \in Nat /\ j - 1 <= q[j - 1]
  BY <1>4, <1>6
<1>8. Link(w, q[j - 1], q[j], d[j], g[j], f[d[j].fh])
  BY <1>6, Zenon DEF Chain
<1>9. PICK s : s = BytesOf(g[j], d[j].offset)
  OBVIOUS
<1>10. g[j] \in FileHeader /\ At(w, q[j - 1], s) /\ q[j] = q[j - 1] + Len(s)
  BY <1>8, <1>9, Zenon DEF Link
<1>11. Len(s) \in Nat /\ Len(s) # 0
  <2> DEFINE h == directoryHeaderLen  m == Len(NameBytes(g[j].name))
             l == Len(ExtraBytes(g[j].extra))  c == Len(NameBytes(g[j].comment))
  <2>1. PICK x, o : x = g[j] /\ x \in FileHeader /\ o = d[j].offset
    BY <1>10
  <2>2. h \in Nat /\ h # 0 /\ m \in Nat /\ l \in Nat /\ c \in Nat /\ Len(s) = ((h + m) + l) + c
    BY <1>9, <2>1, BytesAre
  <2> HIDE DEF h, m, l, c
  <2>3. ((h + m) + l) + c \in Nat /\ ((h + m) + l) + c # 0
    BY <2>2
  <2> QED  BY <2>2, <2>3, Zenon
<1>12. PICK x \in Nat, y \in Nat, z \in Nat : x = q[j - 1] /\ y = Len(s) /\ z = Len(w)
  BY <1>1, <1>7, <1>11
<1>13. x + y <= z /\ y # 0 /\ j - 1 <= x /\ q[j] = x + y
  BY <1>7, <1>10, <1>11, <1>12, Zenon DEF At
<1>14. x + y \in Nat /\ j <= x + y /\ x + y <= z
  BY <1>5, <1>12, <1>13, <1>1
<1> QED  BY <1>4, <1>12, <1>13, <1>14, Zenon

\* The file that the header at offset a is read as, and the first n of the files.
FileAt(b, a, skip) == [readDirectoryHeader(b, a) EXCEPT !.offset = @ + int64(skip)]
FilesTo(b, q, skip, n) == [j \in 1 .. n |-> FileAt(b, q[j - 1], skip)]
\* The loop when it has read n files.
After(e, b, q, skip, n) == [err |-> e, at |-> q[n], files |-> FilesTo(b, q, skip, n)]

\* One more file.
LEMMA FilesAppend ==
  ASSUME NEW b, NEW q, NEW skip, NEW n \in Nat
  PROVE  /\ Append(FilesTo(b, q, skip, n), FileAt(b, q[n], skip)) = FilesTo(b, q, skip, n + 1)
         /\ IsSeq(FilesTo(b, q, skip, n)) /\ Len(FilesTo(b, q, skip, n)) = n
<1> DEFINE F(j) == FileAt(b, q[j - 1], skip)  S == {F(j) : j \in 1 .. n + 1}
<1>1. PICK s, t : s = FilesTo(b, q, skip, n) /\ t = FilesTo(b, q, skip, n + 1)
  OBVIOUS
<1>2. s = [j \in 1 .. n |-> F(j)] /\ t = [j \in 1 .. n + 1 |-> F(j)]
  BY <1>1, Zenon DEF FilesTo
<1>3. F(n + 1) = FileAt(b, q[n], skip)
  <2>1. (n + 1) - 1 = n
    OBVIOUS
  <2> QED  BY <2>1, Zenon
<1> HIDE DEF F
<1>4. s \in [1 .. n -> S] /\ t \in [1 .. n + 1 -> S] /\ F(n + 1) \in S
  BY <1>2
<1> HIDE DEF S
<1>5. s \in Seq(S) /\ t \in Seq(S) /\ Len(s) = n /\ Len(t) = n + 1
  BY <1>4
<1>6. Append(s, F(n + 1)) = t
  <2>1. PICK v : v = F(n + 1)
    OBVIOUS
  <2>2. v \in S /\ (\A j \in 1 .. n : s[j] = t[j]) /\ t[n + 1] = v
    BY <1>2, <1>4, <2>1
  <2>3. Append(s, v) = t
    BY <1>5, <2>2
  <2> QED  BY <2>1, <2>3, Zenon
<1>7. IsSeq(s)
  BY <1>5, SeqIsSeq, Zenon
<1> QED  BY <1>1, <1>3, <1>5, <1>6, <1>7, Zenon

\* A round of the loop reads the next file of the directory.
LEMMA RoundReads ==
  ASSUME NEW b, IsSeq(b), NEW q, NEW g, NEW n, NEW d, NEW f, Chain(b, q, g, n, d, f), NEW skip,
         NEW j \in 1 .. n, Fits(g[j])
  PROVE  NextFile(b, skip, After("nil", b, q, skip, j - 1)) = After("nil", b, q, skip, j)
<1>0. n \in Nat
  BY DEF Chain
<1>1. PICK m \in Nat : m = j - 1 /\ m + 1 = j
  BY <1>0
<1>2. Link(b, q[m], q[j], d[j], g[j], f[d[j].fh])
  BY <1>1, Zenon DEF Chain
<1>3. PICK x, h, o : x = readDirectoryHeader(b, q[m]) /\ h = g[j] /\ o = d[j].offset
  OBVIOUS
<1>4. /\ h \in FileHeader /\ o \in Nat /\ At(b, q[m], BytesOf(h, o)) /\ SizesIn(h, o) /\ Fits(h)
      /\ q[j] = q[m] + Len(BytesOf(h, o))
  BY <1>2, <1>3, Zenon DEF Link
<1>5. x.err = "nil" /\ x.next = Len(BytesOf(h, o))
  <2>1. PICK a : a = q[m]
    OBVIOUS
  <2>2. At(b, a, BytesOf(h, o)) /\ x = readDirectoryHeader(b, a) /\ Fits(h) /\ SizesIn(h, o)
    BY <2>1, <1>3, <1>4, Zenon
  <2>3. ReadAs(x, h, o)
    BY <2>2, <1>4, FileRead, Zenon
  <2> QED  BY <2>3, Zenon DEF ReadAs
<1>6. Append(FilesTo(b, q, skip, m), FileAt(b, q[m], skip)) = FilesTo(b, q, skip, j)
  <2>1. Append(FilesTo(b, q, skip, m), FileAt(b, q[m], skip)) = FilesTo(b, q, skip, m + 1)
    BY FilesAppend, Zenon
  <2> QED  BY <1>1, <2>1, Zenon
<1>7. PICK l : l = After("nil", b, q, skip, m)
  OBVIOUS
<1>8. l.err = "nil" /\ l.at = q[m] /\ l.files = FilesTo(b, q, skip, m)
  BY <1>7 DEF After
<1>9. NextFile(b, skip, l) =
        [err |-> "nil", at |-> l.at + x.next,
         files |-> Append(l.files, FileAt(b, q[m], skip))]
  <2>1. [x EXCEPT !.offset = @ + int64(skip)] = FileAt(b, q[m], skip)
    BY <1>3, Zenon DEF FileAt
  <2>2. NextFile(b, skip, l) =
        [err |-> "nil", at |-> l.at + x.next,
         files |-> Append(l.files, [x EXCEPT !.offset = @ + int64(skip)])]
    BY <1>3, <1>5, <1>8, Zenon DEF NextFile
  <2> QED  BY <2>1, <2>2, Zenon
<1>10. l.at + x.next = q[j]
  BY <1>4, <1>5, <1>8, Zenon
<1>11. NextFile(b, skip, l) = After("nil", b, q, skip, j)
  BY <1>6, <1>8, <1>9, <1>10, Zenon DEF After
<1> QED  BY <1>1, <1>7, <1>11, Zenon

\* The loop ends behind the directory.
LEMMA RoundEnds ==
  ASSUME NEW b, Len(b) \in Nat, NEW q, NEW n, q[n] \in Nat, q[n] + 1 <= Len(b),
         b[q[n] + 1].t # "directory", NEW skip
  PROVE  \E e \in {"ErrFormat", "ErrUnexpectedEOF"} :
           NextFile(b, skip, After("nil", b, q, skip, n)) = After(e, b, q, skip, n)
<1>1. PICK a \in Nat, m \in Nat : a = q[n] /\ m = Len(b)
  OBVIOUS
<1>2. PICK h \in Nat : h = directoryHeaderLen
  BY FormatAssumption
<1>3. ~(a >= m) /\ a < m
  BY <1>1
<1>4. PICK e \in {"ErrFormat", "ErrUnexpectedEOF"} : readDirectoryHeader(b, a) = Stop(e)
  <2>1. CASE a + h > m
    <3>1. readDirectoryHeader(b, a) = Stop("ErrUnexpectedEOF")
      <4>1. ~(a + h <= m)
        BY <1>1, <1>2, <2>1
      <4> QED  BY <4>1, <2>1, <1>1, <1>2, <1>3, Zenon DEF readDirectoryHeader
    <3> QED  BY <3>1
  <2>2. CASE ~(a + h > m)
    <3>1. a + h <= m
      BY <1>1, <1>2, <2>2
    <3>2. readDirectoryHeader(b, a) = Stop("ErrFormat")
      BY <3>1, <2>2, <1>1, <1>2, <1>3, Zenon DEF readDirectoryHeader
    <3> QED  BY <3>2
  <2> QED  BY <2>1, <2>2
<1>5. PICK x : x = Stop(e)
  OBVIOUS
<1>51. x.err = e /\ x.err # "nil"
  BY <1>5 DEF Stop
<1>6. PICK l, s : s = FilesTo(b, q, skip, n) /\ l = [err |-> "nil", at |-> q[n], files |-> s]
  OBVIOUS
<1>7. l = After("nil", b, q, skip, n) /\ l.err = "nil" /\ l.at = a
  <2>1. l.err = "nil" /\ l.at = a
    BY <1>1, <1>6
  <2> QED  BY <2>1, <1>6, Zenon DEF After
<1>8. NextFile(b, skip, l) = [l EXCEPT !.err = e]
  BY <1>4, <1>5, <1>51, <1>7, Zenon DEF NextFile
<1>9. [l EXCEPT !.err = e] = [err |-> e, at |-> q[n], files |-> s]
  BY <1>6
<1>10. NextFile(b, skip, l) = After(e, b, q, skip, n)
  BY <1>6, <1>8, <1>9, Zenon DEF After
<1> QED  BY <1>7, <1>10, Zenon

\* What the rounds of the loop leave.
Loops(h, b, o, skip, m) ==
  h = [n \in 0 .. m |-> IF n = 0 THEN [err |-> "nil", at |-> o, files |-> <<>>]
                        ELSE NextFile(b, skip, h[n - 1])]

\* The function that readHeaders computes exists.
LEMMA LoopExists ==
  ASSUME NEW b, NEW o, NEW skip, NEW n \in Nat
  PROVE  \E h : Loops(h, b, o, skip, n)
<1> DEFINE T == {m \in Nat : ~\E h : Loops(h, b, o, skip, m)}
           z == [err |-> "nil", at |-> o, files |-> <<>>]
<1>1. SUFFICES ASSUME T # {} PROVE FALSE
  OBVIOUS
<1>2. PICK m \in T : \A k \in T : m <= k
  BY <1>1, LeastElement, Zenon
<1>3. CASE m = 0
  <2> DEFINE h == [i \in 0 .. 0 |-> z]
  <2>1. h = [i \in 0 .. 0 |-> IF i = 0 THEN z ELSE NextFile(b, skip, h[i - 1])]
    <3>1. \A i \in 0 .. 0 : i = 0
      OBVIOUS
    <3>2. \A i \in 0 .. 0 : z = IF i = 0 THEN z ELSE NextFile(b, skip, h[i - 1])
      BY <3>1, Zenon
    <3> HIDE DEF z
    <3> QED  BY <3>2, Zenon
  <2>2. Loops(h, b, o, skip, 0)
    BY <2>1, Zenon DEF Loops
  <2> QED  BY <2>2, <1>3
<1>4. CASE m # 0
  <2>1. m - 1 \in Nat /\ ~(m <= m - 1) /\ m \in Nat
    BY <1>4
  <2>2. m - 1 \notin T
    BY <1>2, <2>1
  <2>3. PICK f : Loops(f, b, o, skip, m - 1)
    BY <2>1, <2>2
  <2> DEFINE E(x, i) == IF i = 0 THEN z ELSE NextFile(b, skip, x[i - 1])
             h == [i \in 0 .. m |-> E(f, i)]
  <2>4. ASSUME NEW i \in 0 .. m - 1 PROVE f[i] = h[i]
    <3>1. f = [k \in 0 .. m - 1 |-> E(f, k)]
      BY <2>3, Zenon DEF Loops
    <3>2. i \in 0 .. m
      BY <2>1
    <3>3. f[i] = E(f, i)
      BY <3>1, Zenon
    <3>4. h[i] = E(f, i)
      BY <3>2, Zenon
    <3> QED  BY <3>3, <3>4, Zenon
  <2>5. ASSUME NEW i \in 0 .. m PROVE E(f, i) = E(h, i)
    <3>1. CASE i = 0
      BY <3>1, Zenon
    <3>2. CASE i # 0
      <4>1. i - 1 \in 0 .. m - 1
        BY <3>2, <2>1
      <4>2. f[i - 1] = h[i - 1]
        BY <2>4, <4>1
      <4> QED  BY <4>2, Zenon
    <3> QED  BY <3>1, <3>2
  <2>6. h = [i \in 0 .. m |-> E(h, i)]
    BY <2>5, Zenon
  <2>7. Loops(h, b, o, skip, m)
    BY <2>6, Zenon DEF Loops
  <2> QED  BY <2>7
<1> QED  BY <1>3, <1>4

\* The loop reads all headers of the directory, and ends at what follows them.
LEMMA HeadersRead ==
  ASSUME NEW b, IsSeq(b), NEW q, NEW g, NEW n, NEW d, NEW f, Chain(b, q, g, n, d, f), NEW skip,
         \A j \in 1 .. n : Fits(g[j]), q[n] + 1 <= Len(b), b[q[n] + 1].t # "directory"
  PROVE  \E e \in {"ErrFormat", "ErrUnexpectedEOF"} :
           readHeaders(b, q[0], skip) = After(e, b, q, skip, n)
<1>1. n \in Nat /\ Len(b) \in Nat
  BY Concat DEF Chain
<1>2. q[n] \in Nat /\ n <= q[n]
  <2>1. \A j \in 0 .. n : q[j] \in Nat /\ j <= q[j] /\ (j # 0 => q[j] <= Len(b))
    BY ChainGrows, Zenon
  <2>2. n \in 0 .. n
    BY <1>1
  <2> QED  BY <2>1, <2>2, Zenon
<1>3. PICK m \in Nat : m = Len(b) + 1 /\ n + 1 <= m
  <2>1. PICK x \in Nat, y \in Nat : x = q[n] /\ y = Len(b)
    BY <1>1, <1>2
  <2>2. n <= x /\ x + 1 <= y
    BY <1>2, <2>1, Zenon
  <2>3. y + 1 \in Nat /\ n + 1 <= y + 1
    BY <2>1, <2>2, <1>1
  <2> QED  BY <2>1, <2>3, Zenon
<1> DEFINE A(j) == After("nil", b, q, skip, j)
           z == [err |-> "nil", at |-> q[0], files |-> <<>>]
           h == CHOOSE h : Loops(h, b, q[0], skip, m)
<1>4. Loops(h, b, q[0], skip, m)
  BY LoopExists, Zenon
<1>5. readHeaders(b, q[0], skip) = h[m]
  BY <1>3, Zenon DEF readHeaders, Loops
<1> HIDE DEF h
<1>6. ASSUME NEW k \in 0 .. m PROVE h[k] = IF k = 0 THEN z ELSE NextFile(b, skip, h[k - 1])
  BY <1>4, Zenon DEF Loops
<1>7. z = A(0)
  <2>0. 0 \in Nat
    OBVIOUS
  <2>1. IsSeq(FilesTo(b, q, skip, 0)) /\ Len(FilesTo(b, q, skip, 0)) = 0
    BY <2>0, FilesAppend, Zenon
  <2>2. \A k \in 1 .. Len(FilesTo(b, q, skip, 0)) : FALSE
    BY <2>1
  <2>3. FilesTo(b, q, skip, 0) = <<>>
    BY <2>1, <2>2, EmptyIsSeq, SameSeq, Zenon
  <2> QED  BY <2>3, Zenon DEF After
<1> HIDE DEF z
<1>8. ASSUME NEW k \in 1 .. n PROVE NextFile(b, skip, A(k - 1)) = A(k)
  BY <1>8, RoundReads, Zenon
<1>9. PICK e \in {"ErrFormat", "ErrUnexpectedEOF"} :
        NextFile(b, skip, A(n)) = After(e, b, q, skip, n)
  BY <1>1, <1>2, RoundEnds, Zenon
<1> HIDE DEF A
<1>10. \A k \in 0 .. n : h[k] = A(k)
  <2> DEFINE T == {k \in 0 .. n : h[k] # A(k)}
  <2>1. SUFFICES ASSUME T # {} PROVE FALSE
    OBVIOUS
  <2>2. T \in SUBSET Nat
    BY <1>1
  <2> HIDE DEF T
  <2>3. PICK k \in T : \A j \in T : k <= j
    BY <2>1, <2>2, LeastElement, Zenon
  <2> USE DEF T
  <2>4. k \in 0 .. n /\ k \in 0 .. m /\ 0 \in 0 .. m
    BY <2>3, <1>1, <1>3
  <2>5. CASE k = 0
    <3>1. h[0] = z
      BY <1>6, <2>4, Zenon
    <3> QED  BY <2>3, <2>5, <3>1, <1>7, Zenon
  <2>6. CASE k # 0
    <3>1. k - 1 \in 0 .. n /\ ~(k <= k - 1) /\ k \in 1 .. n
      BY <2>4, <2>6, <1>1
    <3>2. h[k - 1] = A(k - 1)
      BY <2>3, <3>1
    <3>3. h[k] = NextFile(b, skip, h[k - 1])
      BY <1>6, <2>4, <2>6, Zenon
    <3>4. h[k] = A(k)
      BY <1>8, <3>1, <3>2, <3>3, Zenon
    <3> QED  BY <2>3, <3>4
  <2> QED  BY <2>5, <2>6
<1>11. PICK r : r = After(e, b, q, skip, n)
  OBVIOUS
<1>12. r.err = e /\ e # "nil"
  BY <1>11 DEF After
<1>13. \A k \in n + 1 .. m : h[k] = r
  <2> DEFINE T == {k \in n + 1 .. m : h[k] # r}
  <2>1. SUFFICES ASSUME T # {} PROVE FALSE
    OBVIOUS
  <2>2. T \in SUBSET Nat
    BY <1>1
  <2> HIDE DEF T
  <2>3. PICK k \in T : \A j \in T : k <= j
    BY <2>1, <2>2, LeastElement, Zenon
  <2> USE DEF T
  <2>4. k \in 0 .. m /\ k # 0 /\ k \in n + 1 .. m
    BY <2>3, <1>1
  <2>5. h[k] = NextFile(b, skip, h[k - 1])
    BY <1>6, <2>4, Zenon
  <2>6. CASE k = n + 1
    <3>1. k - 1 = n /\ n \in 0 .. n
      BY <2>6, <1>1
    <3>2. h[k] = r
      BY <2>5, <3>1, <1>9, <1>10, <1>11, Zenon
    <3> QED  BY <2>3, <3>2
  <2>7. CASE k # n + 1
    <3>1. k - 1 \in n + 1 .. m /\ ~(k <= k - 1)
      BY <2>4, <2>7, <1>1, <1>3
    <3>2. h[k - 1] = r
      BY <2>3, <3>1
    <3>3. NextFile(b, skip, r) = r
      BY <1>12, Zenon DEF NextFile
    <3>4. h[k] = r
      BY <2>5, <3>2, <3>3, Zenon
    <3> QED  BY <2>3, <3>4
  <2> QED  BY <2>6, <2>7
<1>14. m \in n + 1 .. m
  BY <1>1, <1>3
<1>15. h[m] = r
  BY <1>13, <1>14, Zenon
<1> QED  BY <1>5, <1>11, <1>15, Zenon

-----------------------------------------------------------------------------
(* What readDirectoryEnd makes of the end of an archive.                    *)

\* Behind e, where the directory of n entries that was from start to at ends,
\* are the records at the end of an archive with a comment of some length, and
\* no other end record.
Ends(w, e, n, start, at, text) ==
  LET zip64 == NeedsZip64(n, start, at)  p == e + EndPlace(zip64)
  IN /\ w[p + 1] = EndRecord(n, start, at, text)
     /\ zip64 => /\ w[e + 1] = End64Record(n, start, at)
                 /\ w[(e + directory64EndLen) + 1] = Locator(at)
     /\ \A k \in 1 .. Len(w) : /\ w[k].t = "end" => k = p + 1
                               /\ w[k].t = "locator" => zip64
                               /\ w[k].t = "end64" => k = e + 1
\* Where the archive ends.
EndOf(e, n, start, at, text) ==
  ((e + EndPlace(NeedsZip64(n, start, at))) + directoryEndLen) + text

\* The only end record of the writer is found if it is not too far from the end
\* and no end record of the client is behind it.
LEMMA OnlySignature ==
  ASSUME NEW b, Len(b) \in Nat, NEW e \in Nat, NEW c \in Nat, b[e + 1].t = "end",
         b[e + 1].comment = c, (e + directoryEndLen) + c <= Len(b), Len(b) - e <= SearchLen,
         \A k \in 1 .. Len(b) : b[k].t = "end" => k = e + 1, ~Misled(b)
  PROVE  findSignatureInBlock(b) = e
<1> DEFINE first == IF Len(b) > SearchLen THEN Len(b) - SearchLen ELSE 0
           ends == {o \in first .. Len(b) - directoryEndLen :
                     /\ BeginsEnd(b[o + 1])
                     /\ o + directoryEndLen + EndAt(b[o + 1]).comment <= Len(b)}
           found == CHOOSE o \in ends : \A q \in ends : q <= o
<1>1. PICK m \in Nat, l \in Nat : m = Len(b) /\ l = directoryEndLen /\ l # 0
  BY FormatAssumption
<1>2. PICK x \in Nat : x = first /\ x <= e
  <2>1. PICK y \in Nat : y = SearchLen
    BY DirectoryAssumption
  <2>2. first = (IF m > y THEN m - y ELSE 0) /\ m - e <= y
    BY <1>1, <2>1, Zenon
  <2> HIDE DEF first
  <2>3. CASE m > y
    <3>1. first = m - y
      BY <2>2, <2>3, Zenon
    <3>2. m - y \in Nat /\ m - y <= e
      BY <2>2, <2>3
    <3> QED  BY <3>1, <3>2, Zenon
  <2>4. CASE ~(m > y)
    <3>1. first = 0
      BY <2>2, <2>4, Zenon
    <3>2. 0 \in Nat /\ 0 <= e
      OBVIOUS
    <3> QED  BY <3>1, <3>2, Zenon
  <2> QED  BY <2>3, <2>4, Zenon
<1>3. (e + l) + c <= m
  BY <1>1, Zenon
<1>4. e \in x .. m - l
  BY <1>1, <1>2, <1>3
<1>5. e \in ends
  <2>1. e \in first .. Len(b) - directoryEndLen
    BY <1>1, <1>2, <1>4, Zenon
  <2>2. BeginsEnd(b[e + 1]) /\ EndAt(b[e + 1]) = b[e + 1]
    BY Zenon DEF BeginsEnd, EndAt
  <2> HIDE DEF first
  <2> QED  BY <2>1, <2>2, Zenon
<1>6. ASSUME NEW o \in ends PROVE o \in Nat /\ o <= m /\ o + 1 \in 1 .. m
  <2>1. o \in x .. m - l
    BY <1>1, <1>2, Zenon
  <2> QED  BY <2>1, <1>1, <1>2
<1>7. findSignatureInBlock(b) = IF ends = {} THEN -1 ELSE found
  BY Zenon DEF findSignatureInBlock
<1> HIDE DEF ends
<1>8. found \in ends
  <2>1. ends # {}
    BY <1>5, Zenon
  <2> QED  BY <2>1, <1>6, LastOffset, Zenon
<1> HIDE DEF found
<1>9. findSignatureInBlock(b) = found /\ found \in Nat
  BY <1>6, <1>7, <1>8, Zenon
<1>10. b[found + 1].t = "end"
  BY <1>9, NotMisled, Zenon
<1>11. found + 1 = e + 1
  BY <1>1, <1>6, <1>8, <1>10, Zenon
<1> QED  BY <1>9, <1>11

\* The n records of a directory at s, which was at start for the writer.
Skipped(s, start) == IF s = start THEN 0 ELSE uint64(s - start)
Directory(n, s, start) ==
  [err |-> "nil", records |-> n, offset |-> s, skip |-> Skipped(s, start)]

\* Behind e, in reach of the search, is the end of an archive whose directory,
\* from start to at for the writer, is from s to e, and behind that no end record
\* of the client.
EndAhead(b, e, n, start, at, text, s) ==
  /\ e \in Nat /\ n \in Nat /\ start \in Nat /\ at \in Nat /\ text \in Nat /\ s \in Nat
  /\ Ends(b, e, n, start, at, text) /\ EndOf(e, n, start, at, text) <= Len(b)
  /\ Len(b) - (e + EndPlace(NeedsZip64(n, start, at))) <= SearchLen
  /\ s + (at - start) = e /\ start <= at /\ start <= s /\ ~Misled(b)

\* The end of the archive says where the directory is, also behind data that the
\* writer did not know of: it began at start, and is now at s.
LEMMA DirectoryFound ==
  ASSUME NEW b, IsSeq(b), NEW e, NEW n, NEW start, NEW at, NEW text, NEW s,
         EndAhead(b, e, n, start, at, text, s)
  PROVE  /\ (NeedsZip64(n, start, at) => at = e) => readDirectoryEnd(b) = Directory(n, s, start)
         /\ (NeedsZip64(n, start, at) /\ at # e) => readDirectoryEnd(b) = Failed("ErrFormat")
<1>0. /\ e \in Nat /\ n \in Nat /\ start \in Nat /\ at \in Nat /\ text \in Nat /\ s \in Nat
      /\ Ends(b, e, n, start, at, text) /\ EndOf(e, n, start, at, text) <= Len(b)
      /\ Len(b) - (e + EndPlace(NeedsZip64(n, start, at))) <= SearchLen
      /\ s + (at - start) = e /\ start <= at /\ start <= s /\ ~Misled(b)
  BY Zenon DEF EndAhead
<1> USE <1>0
<1>1. PICK zip64, p : zip64 = NeedsZip64(n, start, at) /\ p = e + EndPlace(zip64)
  OBVIOUS
<1>2. PICK m \in Nat : m = Len(b)
  BY Concat
<1>3. /\ directory64EndLen \in Nat /\ directory64LocLen \in Nat /\ directoryEndLen \in Nat
      /\ directory64EndLen # 0 /\ directory64LocLen # 0 /\ directoryEndLen # 0
  BY FormatAssumption
<1>4. /\ zip64 => p = (e + directory64EndLen) + directory64LocLen
      /\ ~zip64 => p = e
      /\ p \in Nat /\ e <= p
  <2>1. zip64 => EndPlace(zip64) = directory64EndLen + directory64LocLen
    BY Zenon DEF EndPlace
  <2>2. ~zip64 => EndPlace(zip64) = 0
    BY Zenon DEF EndPlace
  <2>3. PICK x : x = EndPlace(zip64)
    OBVIOUS
  <2>4. p = e + x /\ (zip64 => x = directory64EndLen + directory64LocLen) /\ (~zip64 => x = 0)
    BY <1>1, <2>1, <2>2, <2>3, Zenon
  <2>5. CASE zip64
    BY <2>4, <2>5, <1>3
  <2>6. CASE ~zip64
    BY <2>4, <2>6, <1>3
  <2> QED  BY <2>5, <2>6
<1>5. /\ b[p + 1] = EndRecord(n, start, at, text)
      /\ zip64 => b[e + 1] = End64Record(n, start, at)
      /\ zip64 => b[(e + directory64EndLen) + 1] = Locator(at)
      /\ \A k \in 1 .. m : /\ b[k].t = "end" => k = p + 1
                           /\ b[k].t = "locator" => zip64
                           /\ b[k].t = "end64" => k = e + 1
  BY <1>1, <1>2, Zenon DEF Ends
<1>6. (p + directoryEndLen) + text <= m /\ m - p <= SearchLen
  BY <1>1, <1>2, Zenon DEF EndOf
<1>7. PICK r : r = b[p + 1]
  OBVIOUS
<1>8. r.t = "end" /\ r.comment = text
  BY <1>5, <1>7 DEF EndRecord
<1>9. ~zip64 => r.records = n /\ r.size = at - start /\ r.offset = start
  <2>1. ASSUME ~zip64
        PROVE  EndRecord(n, start, at, text) =
                 [t |-> "end", records |-> n, size |-> at - start, offset |-> start, comment |-> text]
    BY <1>1, <2>1, Zenon DEF EndRecord
  <2> QED  BY <2>1, <1>5, <1>7
<1>10. findSignatureInBlock(b) = p
  BY <1>2, <1>4, <1>5, <1>6, <1>7, <1>8, OnlySignature, Zenon
<1>11. readDirectoryEnd(b) = ReadEnd(b, p, r, findDirectory64End(b, p))
  <2>1. p # -1 /\ ~(p >= 0 /\ (p + directoryEndLen) + text > m)
    BY <1>2, <1>3, <1>4, <1>6
  <2>2. EndAt(r) = r
    BY <1>8, Zenon DEF EndAt
  <2> QED  BY <2>1, <2>2, <1>2, <1>7, <1>8, <1>10, Zenon DEF readDirectoryEnd, ReadEndAt
<1>12. PICK u \in Nat : u = at - start
  OBVIOUS
<1>13. s < m /\ s + u = e
  <2>1. s + u = e
    BY <1>12, Zenon
  <2> QED  BY <2>1, <1>12, <1>2, <1>3, <1>4, <1>6
<1> DEFINE Goal == Directory(n, s, start)
<1>14. ASSUME NEW x, x.records = n, x.size = u, x.offset = start
       PROVE  Located(b, x, e - u) = Goal
  <2>1. e - u = s
    BY <1>13, <1>12
  <2>2. CASE s = start
    <3>1. ~(start >= m)
      BY <2>2, <1>13, <1>2
    <3>2. ~(s > 0 /\ s < m /\ s # start)
      BY <2>2
    <3> QED  BY <3>1, <3>2, <2>1, <2>2, <1>2, <1>14, Zenon DEF Located, Directory, Skipped
  <2>3. CASE s # start
    <3>1. s > 0 /\ s < m /\ s # start
      BY <2>3, <1>13, <1>2
    <3> QED  BY <3>1, <2>1, <1>2, <1>14, Zenon DEF Located, Directory, Skipped
  <2> QED  BY <2>2, <2>3
<1> HIDE DEF Goal
<1>15. CASE zip64
  <2>1. PICK o \in Nat : o = e + directory64EndLen
    BY <1>3
  <2>2. /\ p - directory64LocLen = o /\ o >= 0 /\ o + directory64LocLen <= m
        /\ e >= 0 /\ e + directory64EndLen <= m
    BY <2>1, <1>2, <1>3, <1>4, <1>6, <1>15
  <2>3. Locator(at).t = "locator" /\ Locator(at).offset = at
    BY DEF Locator
  <2>4. findDirectory64End(b, p) = at
    <3>1. Found(b, o, directory64LocLen, "locator") /\ b[o + 1].offset = at
      BY <1>2, <1>5, <1>15, <2>1, <2>2, <2>3, Zenon DEF Found
    <3> QED  BY <3>1, <2>2, Zenon DEF findDirectory64End
  <2>5. PICK x : x = b[e + 1]
    OBVIOUS
  <2>6. x.t = "end64" /\ x.records = n /\ x.size = u /\ x.offset = start
    BY <1>5, <1>12, <1>15, <2>5 DEF End64Record
  <2>7. CASE at = e
    <3>1. Found(b, e, directory64EndLen, "end64")
      BY <1>2, <2>2, <2>5, <2>6, Zenon DEF Found
    <3>2. ReadEnd(b, p, r, e) = Located(b, x, e - u)
      BY <3>1, <2>2, <2>5, <2>6, Zenon DEF ReadEnd, ComputedOffset
    <3> QED  BY <1>11, <1>14, <2>4, <2>6, <2>7, <3>2, Zenon DEF Goal
  <2>8. CASE at # e
    <3>1. ASSUME Found(b, at, directory64EndLen, "end64") PROVE FALSE
      <4>1. at + directory64EndLen <= m /\ b[at + 1].t = "end64"
        BY <3>1, <1>2, Zenon DEF Found
      <4>2. at + 1 \in 1 .. m
        BY <4>1, <1>2, <1>3
      <4>3. at + 1 = e + 1
        BY <4>1, <4>2, <1>5, Zenon
      <4> QED  BY <4>3, <2>8
    <3>2. at >= 0
      OBVIOUS
    <3>3. r.records = uint16max
      <4>1. EndRecord(n, start, at, text) =
              [t |-> "end", records |-> uint16max, size |-> uint32max,
               offset |-> uint32max, comment |-> text]
        BY <1>1, <1>15, Zenon DEF EndRecord
      <4> QED  BY <4>1, <1>5, <1>7
    <3>4. ReadEnd(b, p, r, at) = Failed("ErrFormat")
      BY <3>1, <3>2, <3>3, Zenon DEF ReadEnd, ProbablyZip64
    <3> QED  BY <3>4, <1>1, <1>11, <1>15, <2>4, <2>8, Zenon
  <2> QED  BY <2>7, <2>8, Zenon
<1>16. CASE ~zip64
  <2>1. findDirectory64End(b, p) = -1
    <3>1. PICK o \in Int : o = p - directory64LocLen
      BY <1>3, <1>4
    <3>2. ASSUME Found(b, o, directory64LocLen, "locator") PROVE FALSE
      <4>1. o >= 0 /\ o + directory64LocLen <= m /\ b[o + 1].t = "locator"
        BY <3>2, <1>2, Zenon DEF Found
      <4>2. o + 1 \in 1 .. m
        BY <3>1, <4>1, <1>2, <1>3
      <4> QED  BY <4>1, <4>2, <1>5, <1>16, Zenon
    <3> QED  BY <3>1, <3>2, Zenon DEF findDirectory64End
  <2>2. ~(-1 >= 0)
    OBVIOUS
  <2>3. ReadEnd(b, p, r, -1) = Located(b, r, p - r.size)
    BY <2>2, Zenon DEF ReadEnd, ComputedOffset
  <2>4. ReadEnd(b, p, r, -1) = Located(b, r, e - u)
    BY <2>3, <1>4, <1>9, <1>12, <1>16, Zenon
  <2>5. r.records = n /\ r.size = u /\ r.offset = start
    BY <1>9, <1>12, <1>16, Zenon
  <2> QED  BY <1>1, <1>11, <1>14, <1>16, <2>1, <2>4, <2>5, Zenon DEF Goal
<1> QED  BY <1>15, <1>16

-----------------------------------------------------------------------------
(* An archive in a file, behind other data.                                 *)

\* w is an archive that lists the n first elements of d, whose writer counted
\* from before on, and perhaps something behind it.
Archive(w, q, g, n, before, text, d, f) ==
  /\ Chain(w, q, g, n, d, f) /\ text \in Nat
  /\ Ends(w, q[n], n, q[0] + before, q[n] + before, text)
  /\ EndOf(q[n], n, q[0] + before, q[n] + before, text) <= Len(w)

\* The file b has w behind p other bytes.
Holds(b, p, w) ==
  /\ IsSeq(w) /\ p \in Nat /\ Len(b) \in Nat /\ Len(b) = p + Len(w)
  /\ \A k \in 1 .. p : b[k] = PrefixByte(k)
  /\ \A k \in 1 .. Len(w) : b[p + k] = w[k]

\* The directory is read alike behind p bytes.
LEMMA ChainShift ==
  ASSUME NEW w, NEW b, NEW p, Holds(b, p, w),
         NEW q, NEW g, NEW n, NEW d, NEW f, Chain(w, q, g, n, d, f),
         NEW Q, Q = [j \in 0 .. n |-> p + q[j]]
  PROVE  Chain(b, Q, g, n, d, f)
<1>0. /\ IsSeq(w) /\ p \in Nat /\ Len(b) \in Nat /\ Len(b) = p + Len(w)
      /\ \A k \in 1 .. Len(w) : b[p + k] = w[k]
  BY Zenon DEF Holds
<1>1. n \in Nat /\ q[0] \in Nat
  BY Zenon DEF Chain
<1>2. \A j \in 0 .. n : q[j] \in Nat
  BY <1>0, ChainGrows, Zenon
<1>3. PICK m \in Nat : m = Len(w)
  BY <1>0, Concat
<1>4. 0 \in 0 .. n
  BY <1>1
<1>5. Q[0] \in Nat
  <2>1. Q[0] = p + q[0]
    BY <1>4, Zenon
  <2> QED  BY <1>0, <1>1, <2>1
<1>6. ASSUME NEW j \in 1 .. n
      PROVE  Link(b, Q[j - 1], Q[j], d[j], g[j], f[d[j].fh])
  <2>1. j \in 0 .. n /\ j - 1 \in 0 .. n
    BY <1>1
  <2>2. Q[j] = p + q[j] /\ Q[j - 1] = p + q[j - 1]
    BY <2>1, Zenon
  <2>3. PICK a \in Nat : a = q[j - 1]
    BY <1>2, <2>1
  <2>4. PICK s : s = BytesOf(g[j], d[j].offset)
    OBVIOUS
  <2>5. Link(w, a, q[j], d[j], g[j], f[d[j].fh])
    BY <2>3, Zenon DEF Chain
  <2>6. IsSeq(s) /\ Len(s) \in Nat
    <3>1. g[j] \in FileHeader
      BY <2>5, Zenon DEF Link
    <3>2. IsSeq(BytesOf(g[j], d[j].offset))
      BY <3>1, BytesAre
    <3> QED  BY <3>2, <2>4, Concat, Zenon
  <2>7. At(w, a, s) /\ q[j] = a + Len(s)
    BY <2>4, <2>5, Zenon DEF Link
  <2>8. a + Len(s) <= m
    BY <2>7, <1>3, Zenon DEF At
  <2>9. p + m <= Len(b)
    <3>1. Len(b) = p + m
      BY <1>0, <1>3, Zenon
    <3>2. p + m \in Nat
      BY <1>0, <1>3
    <3> QED  BY <3>1, <3>2
  <2>10. At(b, p + a, s)
    BY <2>6, <2>7, <2>8, <2>9, <1>0, <1>3, AtFile, Zenon
  <2>11. Q[j] = (p + a) + Len(s)
    <3>1. PICK x \in Nat : x = Len(s)
      BY <2>6
    <3>2. Q[j] = p + (a + x)
      BY <3>1, <2>2, <2>7, Zenon
    <3>3. p + (a + x) = (p + a) + x
      BY <1>0, <3>1
    <3> QED  BY <3>1, <3>2, <3>3, Zenon
  <2> QED  BY <2>2, <2>3, <2>4, <2>5, <2>10, <2>11, Zenon DEF Link
<1> QED  BY <1>1, <1>5, <1>6, Zenon DEF Chain

\* And so is its end, if there is no end record in front.
LEMMA EndsShift ==
  ASSUME NEW w, NEW b, NEW p, Holds(b, p, w),
         NEW e \in Nat, NEW n, NEW start, NEW at, NEW text \in Nat,
         Ends(w, e, n, start, at, text), EndOf(e, n, start, at, text) <= Len(w)
  PROVE  /\ Ends(b, p + e, n, start, at, text)
         /\ EndOf(p + e, n, start, at, text) <= Len(b)
         /\ e + EndPlace(NeedsZip64(n, start, at)) \in 0 .. Len(w) - 1
         /\ e \in 0 .. Len(w) - 1
         /\ b[(p + e) + 1].t # "directory"
<1>0. /\ IsSeq(w) /\ p \in Nat /\ Len(b) \in Nat /\ Len(b) = p + Len(w)
      /\ \A k \in 1 .. p : b[k] = PrefixByte(k)
      /\ \A k \in 1 .. Len(w) : b[p + k] = w[k]
  BY Zenon DEF Holds
<1> USE <1>0
<1>1. PICK z : z = NeedsZip64(n, start, at)
  OBVIOUS
<1>2. PICK m \in Nat, c \in Nat, l \in Nat, x \in Nat, y \in Nat :
        /\ m = Len(w) /\ c = directoryEndLen /\ c # 0
        /\ x = directory64EndLen /\ x # 0 /\ y = directory64LocLen /\ y # 0
        /\ l = EndPlace(z) /\ (z => l = x + y) /\ (~z => l = 0)
  <2>1. PICK m \in Nat : m = Len(w)
    BY Concat
  <2>2. PICK c \in Nat, x \in Nat, y \in Nat :
           /\ c = directoryEndLen /\ c # 0
           /\ x = directory64EndLen /\ x # 0 /\ y = directory64LocLen /\ y # 0
    BY FormatAssumption
  <2>3. PICK l : l = EndPlace(z)
    OBVIOUS
  <2>4. (z => l = x + y) /\ (~z => l = 0)
    BY <2>2, <2>3, Zenon DEF EndPlace
  <2>5. l \in Nat
    <3>1. x + y \in Nat /\ 0 \in Nat
      BY <2>2
    <3> QED  BY <3>1, <2>4, ZenonT(60)
  <2> QED  BY <2>1, <2>2, <2>3, <2>4, <2>5, ZenonT(60)
<1>3. /\ w[(e + l) + 1] = EndRecord(n, start, at, text)
      /\ z => w[e + 1] = End64Record(n, start, at)
      /\ z => w[(e + x) + 1] = Locator(at)
      /\ \A k \in 1 .. m : /\ w[k].t = "end" => k = (e + l) + 1
                           /\ w[k].t = "locator" => z
                           /\ w[k].t = "end64" => k = e + 1
  BY <1>1, <1>2, Zenon DEF Ends
<1>4. ((e + l) + c) + text <= m
  BY <1>1, <1>2, Zenon DEF EndOf
<1>5. Len(b) = p + m /\ \A k \in 1 .. m : b[p + k] = w[k]
  BY <1>2, Zenon
<1>6. ASSUME NEW k \in 0 .. m - 1 PROVE b[(p + k) + 1] = w[k + 1]
  <2>1. PICK j \in 1 .. m : j = k + 1 /\ (p + k) + 1 = p + j
    <3>1. k + 1 \in 1 .. m /\ (p + k) + 1 = p + (k + 1)
      OBVIOUS
    <3> QED  BY <3>1
  <2>2. b[p + j] = w[j]
    BY <2>1, <1>5, Zenon
  <2> QED  BY <2>1, <2>2, Zenon
<1>7. /\ e + l \in 0 .. m - 1 /\ e \in 0 .. m - 1
      /\ z => e + x \in 0 .. m - 1
  <2>0. l \in Nat /\ c # 0 /\ y # 0
    BY <1>2, Zenon
  <2>1. e + l \in 0 .. m - 1 /\ e \in 0 .. m - 1
    BY <2>0, <1>4
  <2>2. ASSUME l = x + y PROVE e + x \in 0 .. m - 1
    BY <2>0, <2>1, <2>2
  <2> QED  BY <2>1, <2>2, <1>2, Zenon
<1>8. (p + e) + l = p + (e + l) /\ (p + e) + x = p + (e + x)
  BY <1>2
<1>9. /\ b[((p + e) + l) + 1] = EndRecord(n, start, at, text)
      /\ z => b[(p + e) + 1] = End64Record(n, start, at)
      /\ z => b[((p + e) + x) + 1] = Locator(at)
  BY <1>3, <1>6, <1>7, <1>8, Zenon
<1>10. \A k \in 1 .. p : b[k].t # "end" /\ b[k].t # "locator" /\ b[k].t # "end64"
  BY PrefixKind, Zenon
<1>11. ASSUME NEW k \in 1 .. p + m
       PROVE  /\ b[k].t = "end" => k = ((p + e) + l) + 1
              /\ b[k].t = "locator" => z
              /\ b[k].t = "end64" => k = (p + e) + 1
  <2>1. CASE k \in 1 .. p
    BY <2>1, <1>10, Zenon
  <2>2. CASE k \notin 1 .. p
    <3>1. PICK j \in 1 .. m : k = p + j
      <4>1. k - p \in 1 .. m /\ k = p + (k - p)
        BY <2>2
      <4> QED  BY <4>1
    <3>2. b[k] = w[j]
      BY <3>1, <1>5, Zenon
    <3>3. ASSUME j = (e + l) + 1 PROVE k = ((p + e) + l) + 1
      BY <3>1, <3>3, <1>2
    <3>4. ASSUME j = e + 1 PROVE k = (p + e) + 1
      BY <3>1, <3>4
    <3> QED  BY <3>2, <3>3, <3>4, <1>3, Zenon
  <2> QED  BY <2>1, <2>2
<1>12. Ends(b, p + e, n, start, at, text)
  BY <1>1, <1>2, <1>5, <1>9, <1>11, Zenon DEF Ends
<1>13. EndOf(p + e, n, start, at, text) <= Len(b)
  <2>1. (((p + e) + l) + c) + text <= p + m
    BY <1>2, <1>4
  <2> QED  BY <2>1, <1>1, <1>2, <1>5, Zenon DEF EndOf
<1>14. b[(p + e) + 1].t # "directory"
  <2>1. CASE z
    <3>1. End64Record(n, start, at).t # "directory"
      BY DEF End64Record
    <3> QED  BY <2>1, <3>1, <1>9, Zenon
  <2>2. CASE ~z
    <3>1. EndRecord(n, start, at, text).t # "directory"
      BY DEF EndRecord
    <3>2. (p + e) + l = p + e
      BY <2>2, <1>2
    <3> QED  BY <3>1, <3>2, <1>9, Zenon
  <2> QED  BY <2>1, <2>2, Zenon
<1> QED  BY <1>1, <1>2, <1>7, <1>12, <1>13, <1>14, Zenon

\* Zip64 records behind data that the writer did not know of are not found.
LEMMA UnawareRefused ==
  ASSUME NEW b, IsSeq(b), NEW e, NEW n, NEW start, NEW at, NEW text, NEW s,
         EndAhead(b, e, n, start, at, text, s), NeedsZip64(n, start, at), at # e
  PROVE  NewReader(b).err # "nil"
<1>1. readDirectoryEnd(b) = Failed("ErrFormat")
  BY DirectoryFound, Zenon
<1>2. Failed("ErrFormat").err = "ErrFormat" /\ NoReader("ErrFormat").err = "ErrFormat"
  BY DEF Failed, NoReader
<1>3. NewReader(b) = init(b, Failed("ErrFormat"))
  BY <1>1, Zenon DEF NewReader
<1>4. "ErrFormat" # "nil"
  OBVIOUS
<1>5. NewReader(b) = NoReader("ErrFormat")
  <2>1. PICK r : r = Failed("ErrFormat")
    OBVIOUS
  <2>2. r.err = "ErrFormat" /\ r.err # "nil"
    BY <2>1, <1>2, <1>4, Zenon
  <2>3. init(b, r) = NoReader(r.err)
    BY <2>2 DEF init
  <2> QED  BY <2>1, <2>2, <2>3, <1>3, Zenon
<1> QED  BY <1>2, <1>4, <1>5, Zenon

\* A directory in front of the end of the archive is read to its end.
Files(b, q, start, n) == FilesTo(b, q, Skipped(q[0], start), n)
LEMMA ReaderOpens ==
  ASSUME NEW b, IsSeq(b), NEW q, NEW g, NEW n, NEW d, NEW f, Chain(b, q, g, n, d, f),
         \A j \in 1 .. n : Fits(g[j]), q[n] + 1 <= Len(b), b[q[n] + 1].t # "directory",
         NEW start, NEW at, NEW text, EndAhead(b, q[n], n, start, at, text, q[0]),
         NeedsZip64(n, start, at) => at = q[n], n * fileHeaderLen <= Len(b)
  PROVE  NewReader(b) =
           [err |-> "nil", files |-> normalizeNameEncoding(Files(b, q, start, n))]
<1>1. n \in Nat /\ q[0] \in Nat /\ q[n] \in Nat /\ n \in 0 .. n
  <2>1. n \in Nat /\ q[0] \in Nat
    BY Zenon DEF Chain
  <2>2. n \in 0 .. n
    BY <2>1
  <2> QED  BY <2>1, <2>2, ChainGrows, Zenon
<1>2. PICK skip : skip = Skipped(q[0], start)
  OBVIOUS
<1>3. readDirectoryEnd(b) = [err |-> "nil", records |-> n, offset |-> q[0], skip |-> skip]
  <2>1. readDirectoryEnd(b) = Directory(n, q[0], start)
    BY DirectoryFound, Zenon
  <2> QED  BY <1>2, <2>1, Zenon DEF Directory
<1>4. PICK e \in {"ErrFormat", "ErrUnexpectedEOF"} :
        readHeaders(b, q[0], skip) = After(e, b, q, skip, n)
  BY HeadersRead, Zenon
<1>5. PICK r : r = readDirectoryEnd(b)
  OBVIOUS
<1>6. r.err = "nil" /\ r.records = n /\ r.offset = q[0] /\ r.skip = skip
  BY <1>3, <1>5
<1>7. ~(n > Len(b) \div fileHeaderLen)
  <2>1. PICK m \in Nat : m = Len(b)
    BY Concat
  <2>2. PICK c \in Nat : c = fileHeaderLen /\ c # 0
    BY FormatAssumption
  <2>3. n * c <= m
    BY <2>1, <2>2, Zenon
  <2>4. ~(n > m \div c)
    BY <2>2, <2>3, <1>1
  <2> QED  BY <2>1, <2>2, <2>4, Zenon
<1>8. NewReader(b) = Counted(After(e, b, q, skip, n), n)
  <2>1. NewReader(b) = init(b, r)
    BY <1>5, Zenon DEF NewReader
  <2>2. init(b, r) = Counted(readHeaders(b, r.offset, r.skip), r.records)
    <3>1. ~(r.err # "nil") /\ ~(r.records > Len(b) \div fileHeaderLen)
      BY <1>6, <1>7, Zenon
    <3> QED  BY <3>1, Zenon DEF init
  <2> QED  BY <2>1, <2>2, <1>4, <1>6, Zenon
<1>9. PICK fs : fs = FilesTo(b, q, skip, n)
  OBVIOUS
<1>10. Len(fs) = n
  BY <1>1, <1>9, FilesAppend, Zenon
<1>11. After(e, b, q, skip, n).err = e /\ After(e, b, q, skip, n).files = fs
  BY <1>9 DEF After
<1>12. Counted(After(e, b, q, skip, n), n) =
         [err |-> "nil", files |-> normalizeNameEncoding(fs)]
  BY <1>4, <1>10, <1>11, Zenon DEF Counted
<1> QED  BY <1>2, <1>8, <1>9, <1>12, Zenon DEF Files


-----------------------------------------------------------------------------
(* What the writer does to a FileHeader.                                    *)

\* The sizes of 32 bits are those of 64 bits, unless zip64 is needed.
SizesSame(g) == ~isZip64(g) => g.csize = g.csize64 /\ g.usize = g.usize64

\* fh became g: what the client set is as it was, Extra not shorter.
Becomes(fh, g) ==
  /\ Older(fh, g) /\ (SizesSame(fh) => SizesSame(g)) /\ (Flagged(fh) => Flagged(g))

\* A field that is added makes Extra longer.
LEMMA ExtraLonger ==
  ASSUME NEW extra \in Seq(ExtraField), NEW f \in ExtraField
  PROVE  /\ Append(extra, f) \in Seq(ExtraField)
         /\ Len(ExtraBytes(extra)) <= Len(ExtraBytes(Append(extra, f)))
<1>1. PICK s, t : s = ExtraBytes(extra) /\ t = Record(f, FieldLen(f))
  OBVIOUS
<1>2. FieldLen(f) \in Nat
  <2>1. zip64ExtraLen \in Nat /\ extTimeLen \in Nat
    BY FormatAssumption
  <2> QED  BY <2>1, Zenon DEF FieldLen
<1>3. IsSeq(s) /\ IsSeq(t)
  <2>1. IsSeq(ExtraBytes(extra))
    BY ExtraNoEnd, Zenon DEF NoEnd
  <2>2. IsSeq(Record(f, FieldLen(f)))
    BY <1>2, RecordIs, Zenon
  <2> QED  BY <2>1, <2>2, <1>1, Zenon
<1>4. Len(s \o t) = Len(s) + Len(t) /\ Len(s) \in Nat /\ Len(t) \in Nat
  BY <1>3, Concat, Zenon
<1>5. PICK x \in Nat, y \in Nat : x = Len(s) /\ y = Len(t)
  BY <1>4
<1>6. Len(s \o t) = x + y
  BY <1>4, <1>5, Zenon
<1>7. x <= x + y
  BY <1>5
<1>8. ExtraBytes(Append(extra, f)) = s \o t
  BY <1>1, ExtraAppend, Zenon
<1>9. Len(ExtraBytes(extra)) <= Len(ExtraBytes(Append(extra, f)))
  BY <1>1, <1>5, <1>6, <1>7, <1>8, Zenon
<1> QED  BY <1>9

\* A FileHeader is older than itself.
LEMMA OlderSame ==
  ASSUME NEW g \in FileHeader PROVE Older(g, g)
<1>1. g.extra \in Seq(ExtraField)
  BY DEF FileHeader
<1>2. Len(ExtraBytes(g.extra)) \in Nat
  BY <1>1, ExtraNoEnd, Zenon
<1>3. PICK x \in Nat : x = Len(ExtraBytes(g.extra))
  BY <1>2
<1>4. x <= x
  BY <1>3
<1> QED  BY <1>3, <1>4, Zenon DEF Older

\* And an older one of an older one is older.
LEMMA OlderStill ==
  ASSUME NEW g \in FileHeader, NEW h \in FileHeader, NEW fh \in FileHeader,
         Older(g, h), Older(h, fh)
  PROVE  Older(g, fh)
<1>1. PICK x \in Nat, y \in Nat, z \in Nat :
        /\ x = Len(ExtraBytes(g.extra)) /\ y = Len(ExtraBytes(h.extra))
        /\ z = Len(ExtraBytes(fh.extra))
  <2>1. g.extra \in Seq(ExtraField) /\ h.extra \in Seq(ExtraField) /\ fh.extra \in Seq(ExtraField)
    BY DEF FileHeader
  <2>2. /\ Len(ExtraBytes(g.extra)) \in Nat /\ Len(ExtraBytes(h.extra)) \in Nat
        /\ Len(ExtraBytes(fh.extra)) \in Nat
    BY <2>1, ExtraNoEnd, Zenon
  <2> QED  BY <2>2
<1>2. x <= y /\ y <= z
  BY <1>1, Zenon DEF Older
<1>3. x <= z
  BY <1>1, <1>2
<1> QED  BY <1>1, <1>3, Zenon DEF Older

\* A header whose names and flag are the same is flagged alike.
LEMMA FlaggedSame ==
  ASSUME NEW fh, NEW g, g.name = fh.name, g.comment = fh.comment, g.nonUTF8 = fh.nonUTF8,
         fh.utf8 => g.utf8, Flagged(fh)
  PROVE  Flagged(g)
BY Zenon DEF Flagged, Valid

\* close of an entry.
LEMMA UpdatedBecomes ==
  ASSUME last \in FileWriter, NEW fh \in FileHeader
  PROVE  Updated(fh) \in FileHeader /\ Becomes(fh, Updated(fh))
<1>1. PICK g : g = Updated(fh)
  OBVIOUS
<1>2. g \in FileHeader
  BY <1>1, UpdatedType, Zenon
<1> DEFINE f == [fh EXCEPT !.crc = last.sum, !.csize64 = last.comp, !.usize64 = last.raw]
<1>3. g = [f EXCEPT !.csize = IF isZip64(f) THEN uint32max ELSE f.csize64,
                    !.usize = IF isZip64(f) THEN uint32max ELSE f.usize64]
  BY <1>1 DEF Updated
<1>4. /\ f.name = fh.name /\ f.comment = fh.comment /\ f.nonUTF8 = fh.nonUTF8
      /\ f.method = fh.method /\ f.utf8 = fh.utf8 /\ f.extra = fh.extra
      /\ DOMAIN f = DOMAIN fh /\ f = [x \in DOMAIN f |-> f[x]]
  BY DEF FileHeader
<1>5. {"csize", "usize", "csize64", "usize64", "name", "comment", "nonUTF8", "method", "utf8",
       "extra"} \subseteq DOMAIN f
  BY <1>4 DEF FileHeader
<1> HIDE DEF f
<1>6. /\ g.name = f.name /\ g.comment = f.comment /\ g.nonUTF8 = f.nonUTF8
      /\ g.method = f.method /\ g.utf8 = f.utf8 /\ g.extra = f.extra
      /\ g.csize64 = f.csize64 /\ g.usize64 = f.usize64
      /\ g.csize = IF isZip64(f) THEN uint32max ELSE f.csize64
      /\ g.usize = IF isZip64(f) THEN uint32max ELSE f.usize64
  BY <1>3, <1>4, <1>5
<1>7. /\ g.name = fh.name /\ g.comment = fh.comment /\ g.nonUTF8 = fh.nonUTF8
      /\ g.method = fh.method /\ g.utf8 = fh.utf8 /\ g.extra = fh.extra
  BY <1>4, <1>6, Zenon
<1>8. SizesSame(g)
  BY <1>6, Zenon DEF SizesSame, isZip64
<1>9. Flagged(fh) => Flagged(g)
  BY <1>7, FlaggedSame, Zenon
<1>10. Older(fh, g)
  <2>1. Older(fh, fh)
    BY OlderSame, Zenon
  <2> QED  BY <2>1, <1>7, Zenon DEF Older
<1> QED  BY <1>1, <1>2, <1>8, <1>9, <1>10, Zenon DEF Becomes

\* CreateHeader: the flag is set if the names need it.
LEMMA PreparedBecomes ==
  ASSUME NEW fh \in FileHeader
  PROVE  Prepared(fh) \in FileHeader /\ Becomes(fh, Prepared(fh)) /\ Flagged(Prepared(fh))
<1>1. PICK g : g = Prepared(fh)
  OBVIOUS
<1>2. g \in FileHeader
  BY <1>1, PreparedType, Zenon
<1>3. /\ g.name = fh.name /\ g.comment = fh.comment /\ g.nonUTF8 = fh.nonUTF8
      /\ g.method = fh.method /\ g.utf8 = Encoded(fh)
      /\ g.csize = fh.csize /\ g.usize = fh.usize
      /\ g.csize64 = fh.csize64 /\ g.usize64 = fh.usize64
      /\ g.extra = IF fh.modified THEN Append(fh.extra, ExtTime) ELSE fh.extra
  BY <1>1 DEF Prepared, FileHeader
<1>4. SizesSame(fh) => SizesSame(g)
  BY <1>3, Zenon DEF SizesSame, isZip64
<1>5. Flagged(g)
  <2>1. ASSUME ~g.nonUTF8, Valid(g),
               detectUTF8(NameBytes(g.name)).require \/ detectUTF8(NameBytes(g.comment)).require
        PROVE  g.utf8
    BY <2>1, <1>3, Zenon DEF Encoded, Valid
  <2> QED  BY <2>1, Zenon DEF Flagged
<1>6. Older(fh, g)
  <2>1. fh.extra \in Seq(ExtraField) /\ ExtTime \in ExtraField
    BY DEF FileHeader, ExtraField
  <2>2. Len(ExtraBytes(fh.extra)) <= Len(ExtraBytes(Append(fh.extra, ExtTime)))
    BY <2>1, ExtraLonger, Zenon
  <2>3. Older(fh, fh)
    BY OlderSame, Zenon
  <2>4. Len(ExtraBytes(fh.extra)) <= Len(ExtraBytes(g.extra))
    BY <2>2, <2>3, <1>3, Zenon DEF Older
  <2> QED  BY <2>4, <1>3, Zenon DEF Older
<1> QED  BY <1>1, <1>2, <1>4, <1>5, <1>6, Zenon DEF Becomes

\* Close: the header is listed with the sizes that go into the directory, and
\* keeps the zip64 field.
LEMMA ListedBecomes ==
  ASSUME NEW h, NEW fh \in FileHeader, fhs[h.fh] = fh, h.offset \in Nat,
         NEW g, g = [fh EXCEPT !.extra = Listed(h).extra]
  PROVE  /\ g \in FileHeader /\ Becomes(fh, g)
         /\ Listed(h) \in FileHeader /\ Older(Listed(h), g)
         /\ SizesSame(fh) => SizesIn(Listed(h), h.offset)
         /\ Flagged(fh) => Flagged(Listed(h))
<1>1. PICK o \in Nat : o = h.offset
  OBVIOUS
<1>2. PICK l, z : l = Listed(h) /\ z = Zip64Extra(fh.usize64, fh.csize64, o)
  OBVIOUS
<1>3. PICK x : x = fh.extra /\ x \in Seq(ExtraField)
  BY DEF FileHeader
<1>4. z \in ExtraField
  <2>1. PICK a \in Nat, c \in Nat : a = fh.usize64 /\ c = fh.csize64
    BY DEF FileHeader
  <2>2. z = Zip64Extra(a, c, o)
    BY <2>1, <1>2, Zenon
  <2>3. Zip64Extra(a, c, o) \in ExtraField
    BY DEF ExtraField
  <2> QED  BY <2>2, <2>3, Zenon
<1>5. PICK y : y = Append(x, z) /\ y \in Seq(ExtraField)
  BY <1>3, <1>4, ExtraLonger, Zenon
<1>6. Large(fh, o) <=> isZip64(fh) \/ o >= uint32max
  BY Zenon DEF Large
<1>7. l = IF Large(fh, o)
          THEN [fh EXCEPT !.csize = uint32max, !.usize = uint32max, !.extra = y] ELSE fh
  <2>1. l = IF isZip64(fh) \/ o >= uint32max
            THEN [fh EXCEPT !.csize = uint32max, !.usize = uint32max,
                     !.extra = Append(@, Zip64Extra(fh.usize64, fh.csize64, o))]
            ELSE fh
    BY <1>1, <1>2, Zenon DEF Listed
  <2>2. CASE Large(fh, o)
    <3>1. l = [fh EXCEPT !.csize = uint32max, !.usize = uint32max, !.extra = Append(@, z)]
      BY <2>1, <2>2, <1>2, <1>6, Zenon
    <3>2. l = [fh EXCEPT !.csize = uint32max, !.usize = uint32max, !.extra = y]
      BY <3>1, <1>3, <1>5 DEF FileHeader
    <3> QED  BY <3>2, <2>2, Zenon
  <2>3. CASE ~Large(fh, o)
    BY <2>1, <2>3, <1>6, Zenon
  <2> QED  BY <2>2, <2>3, Zenon
<1>8. uint32max \in Nat
  BY FormatAssumption
<1>9. /\ l \in FileHeader /\ l.name = fh.name /\ l.comment = fh.comment
      /\ l.nonUTF8 = fh.nonUTF8 /\ l.method = fh.method /\ l.utf8 = fh.utf8
      /\ l.csize64 = fh.csize64 /\ l.usize64 = fh.usize64
      /\ Large(fh, o) => l.csize = uint32max /\ l.usize = uint32max /\ l.extra = y
      /\ ~Large(fh, o) => l = fh
  <2>1. CASE Large(fh, o)
    <3>1. l = [fh EXCEPT !.csize = uint32max, !.usize = uint32max, !.extra = y]
      BY <2>1, <1>7, Zenon
    <3>2. /\ l \in FileHeader /\ l.name = fh.name /\ l.comment = fh.comment
          /\ l.nonUTF8 = fh.nonUTF8 /\ l.method = fh.method /\ l.utf8 = fh.utf8
          /\ l.csize64 = fh.csize64 /\ l.usize64 = fh.usize64
          /\ l.csize = uint32max /\ l.usize = uint32max /\ l.extra = y
      BY <3>1, <1>5, <1>8 DEF FileHeader
    <3> QED  BY <2>1, <3>2, Zenon
  <2>2. CASE ~Large(fh, o)
    BY <2>2, <1>7, Zenon
  <2> QED  BY <2>1, <2>2, Zenon
<1>10. PICK u \in Seq(ExtraField) : u = l.extra
  BY <1>9 DEF FileHeader
<1>11. /\ g \in FileHeader /\ g.extra = u
       /\ g.name = fh.name /\ g.comment = fh.comment /\ g.nonUTF8 = fh.nonUTF8
       /\ g.method = fh.method /\ g.utf8 = fh.utf8
       /\ g.csize64 = fh.csize64 /\ g.usize64 = fh.usize64
       /\ g.csize = fh.csize /\ g.usize = fh.usize
  <2>1. g = [fh EXCEPT !.extra = u]
    BY <1>2, <1>10, Zenon
  <2> QED  BY <2>1, <1>10 DEF FileHeader
<1>12. Len(ExtraBytes(fh.extra)) <= Len(ExtraBytes(u))
  <2>1. CASE Large(fh, o)
    BY <2>1, <1>3, <1>4, <1>5, <1>9, <1>10, ExtraLonger, Zenon
  <2>2. CASE ~Large(fh, o)
    <3>1. u = fh.extra
      BY <2>2, <1>9, <1>10, Zenon
    <3>2. Older(fh, fh)
      BY OlderSame, Zenon
    <3> QED  BY <3>1, <3>2, Zenon DEF Older
  <2> QED  BY <2>1, <2>2, Zenon
<1>13. Older(fh, g)
  BY <1>11, <1>12, Zenon DEF Older
<1>14. Older(l, g)
  <2>1. Older(l, l)
    BY <1>9, OlderSame, Zenon
  <2> QED  BY <2>1, <1>9, <1>10, <1>11, Zenon DEF Older
<1>15. SizesSame(fh) => SizesSame(g)
  BY <1>11, Zenon DEF SizesSame, isZip64
<1>16. (Flagged(fh) => Flagged(g)) /\ (Flagged(fh) => Flagged(l))
  <2>1. ASSUME Flagged(fh) PROVE Flagged(g)
    <3>1. /\ g.name = fh.name /\ g.comment = fh.comment /\ g.nonUTF8 = fh.nonUTF8
          /\ fh.utf8 => g.utf8
      BY <1>11, Zenon
    <3> QED  BY <2>1, <3>1, FlaggedSame, Zenon
  <2>2. ASSUME Flagged(fh) PROVE Flagged(l)
    <3>1. fh.utf8 => l.utf8
      BY <1>9, Zenon
    <3> QED  BY <2>2, <3>1, <1>9, FlaggedSame, Zenon
  <2> QED  BY <2>1, <2>2, Zenon
<1>17. ASSUME SizesSame(fh) PROVE SizesIn(l, o)
  <2>1. Large(l, o) <=> Large(fh, o)
    BY <1>9, Zenon DEF Large, isZip64
  <2>2. CASE Large(fh, o)
    <3>1. l.extra = Append(x, Zip64Extra(l.usize64, l.csize64, o))
      BY <2>2, <1>2, <1>5, <1>9, Zenon
    <3> QED  BY <2>1, <2>2, <3>1, <1>3, <1>9, Zenon DEF SizesIn
  <2>3. CASE ~Large(fh, o)
    <3>1. ~isZip64(fh)
      BY <2>3, <1>6, Zenon
    <3> QED  BY <2>1, <2>3, <3>1, <1>9, <1>17, Zenon DEF SizesIn, SizesSame
  <2> QED  BY <2>2, <2>3, Zenon
<1> QED  BY <1>1, <1>2, <1>9, <1>11, <1>13, <1>14, <1>15, <1>16, <1>17, Zenon DEF Becomes

\* Every step changes at most one FileHeader, in one of these three ways.
Changed(p, g) ==
  /\ fhs' = [fhs EXCEPT ![p] = g]
  /\ \/ Descriptor /\ g = Updated(fhs[p])
     \/ (CreateFails \/ Create) /\ p = arg /\ g = Prepared(fhs[p])
     \/ DirectoryHeader /\ p = dir[pos.k].fh /\ g = [fhs[p] EXCEPT !.extra = Listed(dir[pos.k]).extra]
LEMMA HeaderSteps ==
  ASSUME TypeInv, ControlInv, [Next]_vars
  PROVE  \/ UNCHANGED fhs /\ ~Create
         \/ \E p \in DOMAIN fhs : \E g \in FileHeader :
              Changed(p, g) /\ fhs[p] \in FileHeader /\ Becomes(fhs[p], g)
<1>0. fhs \in [DOMAIN fhs -> FileHeader] /\ FieldType /\ last \in FileWriter
  BY DEF TypeInv, FieldType
<1>1. CASE Descriptor
  <2>1. pc = "descriptor" /\ fhs' = [fhs EXCEPT ![dir[last.i].fh] = Updated(fhs[dir[last.i].fh])]
    BY <1>1, Zenon DEF Descriptor
  <2>2. last.i \in 1 .. Len(dir)
    BY <2>1, <1>0 DEF ControlInv, CallInv, LastInv, TypeInv, FieldType, FileWriter
  <2>3. PICK p \in DOMAIN fhs : p = dir[last.i].fh /\ fhs[p] \in FileHeader
    BY <2>2, <1>0, DirElement, Zenon
  <2>4. PICK g : g = Updated(fhs[p])
    OBVIOUS
  <2>5. g \in FileHeader /\ Becomes(fhs[p], g)
    BY <2>3, <2>4, <1>0, UpdatedBecomes, Zenon
  <2>6. Changed(p, g)
    BY <1>1, <2>1, <2>3, <2>4, Zenon DEF Changed
  <2> QED  BY <2>3, <2>5, <2>6, Zenon
<1>2. CASE CreateFails \/ Create
  <2>1. pc = "create" /\ fhs' = [fhs EXCEPT ![arg] = Prepared(fhs[arg])]
    BY <1>2, Zenon DEF CreateFails, Create
  <2>2. arg \in DOMAIN fhs /\ fhs[arg] \in FileHeader
    BY <2>1, <1>0 DEF ControlInv, CallInv
  <2>3. PICK g : g = Prepared(fhs[arg])
    OBVIOUS
  <2>4. g \in FileHeader /\ Becomes(fhs[arg], g)
    BY <2>2, <2>3, PreparedBecomes, Zenon
  <2>5. Changed(arg, g)
    BY <1>2, <2>1, <2>3, Zenon DEF Changed
  <2> QED  BY <2>2, <2>4, <2>5, Zenon
<1>3. CASE DirectoryHeader
  <2>1. pc = "directory" /\ pos.k <= Len(dir)
        /\ fhs' = [fhs EXCEPT ![dir[pos.k].fh].extra = Listed(dir[pos.k]).extra]
    BY <1>3, Zenon DEF DirectoryHeader
  <2>2. pos.k \in 1 .. Len(dir)
    BY <2>1, <1>0 DEF ControlInv, CallInv, TypeInv, CallType, FieldType
  <2>3. PICK p \in DOMAIN fhs : p = dir[pos.k].fh /\ fhs[p] \in FileHeader /\ dir[pos.k].offset \in Nat
    BY <2>2, <1>0, DirElement, Zenon
  <2>4. PICK x : x = Listed(dir[pos.k]).extra
    OBVIOUS
  <2>5. fhs' = [fhs EXCEPT ![p] = [fhs[p] EXCEPT !.extra = x]]
    BY <2>1, <2>3, <2>4
  <2>6. PICK g : g = [fhs[p] EXCEPT !.extra = Listed(dir[pos.k]).extra]
    OBVIOUS
  <2>7. fhs' = [fhs EXCEPT ![p] = g]
    BY <2>4, <2>5, <2>6, Zenon
  <2>8. g \in FileHeader /\ Becomes(fhs[p], g)
    <3>1. PICK fh \in FileHeader : fh = fhs[p]
      BY <2>3
    <3>2. fhs[dir[pos.k].fh] = fh /\ g = [fh EXCEPT !.extra = Listed(dir[pos.k]).extra]
      BY <3>1, <2>3, <2>6, Zenon
    <3>3. g \in FileHeader /\ Becomes(fh, g)
      BY <3>2, <2>3, ListedBecomes, Zenon
    <3> QED  BY <3>1, <3>3, Zenon
  <2>9. Changed(p, g)
    BY <1>3, <2>3, <2>6, <2>7, Zenon DEF Changed
  <2> QED  BY <2>3, <2>8, <2>9, Zenon
<1>4. CASE Create
  BY <1>2, <1>4, Zenon
<1>6. CASE SetOffset \/ Flush \/ FlushEnd \/ CloseFlush
  BY <1>6, <1>4 DEF SetOffset, Flush, FlushEnd, CloseFlush
<1>7. CASE SetOffsetPanic \/ WriteRefused \/ Duplicate \/ CloseTwice \/ CloseStart
  BY <1>7, <1>4 DEF SetOffsetPanic, WriteRefused, Duplicate, CloseTwice, CloseStart
<1>8. CASE RegisterCompressor("LZMA") \/ \E n \in Comments : SetComment(n)
  BY <1>8, <1>4 DEF RegisterCompressor, SetComment
<1>9. CASE Close \/ \E p \in DOMAIN fhs : CreateHeader(p)
  BY <1>9, <1>4 DEF Close, CreateHeader
<1>10. CASE Deliver \/ CompClose \/ End \/ \E m \in Chunks : Write(m)
  BY <1>10, <1>4 DEF Deliver, CompClose, End, Write
<1>11. CASE UNCHANGED vars
  BY <1>11, <1>4 DEF vars
<1> QED  BY <1>1, <1>2, <1>3, <1>6, <1>7, <1>8, <1>9, <1>10, <1>11, NextKinds DEF Written, Silent


-----------------------------------------------------------------------------
(* The calls in an archive's life.                                          *)

\* What a step may do to the marks of Close.
Phase ==
  /\ closed => closed'
  /\ sealed => sealed'
  /\ (sealed' /\ ~sealed) => pc = "finish" /\ CloseFlush
  /\ pc' = "directory" =>
       \/ UNCHANGED vars \/ CloseStart
       \/ DirectoryHeader /\ Write_(DirectoryBytes(dir[pos.k]), "nil")
          /\ pos' = [pos EXCEPT !.k = @ + 1]
  /\ pc' = "finish" => UNCHANGED vars \/ (End /\ Write_(EndBytes, "nil"))
  /\ UNCHANGED prefix /\ (UNCHANGED base \/ SetOffset)
  /\ UNCHANGED listed \/ End

\* A call that returns: only Close, without an error, is remembered.
LEMMA ReturnsIdle ==
  ASSUME NEW op, NEW e, Returns(op, e), NEW p, p \in {"directory", "finish"}
  PROVE  /\ pc' # p /\ (sealed => sealed')
         /\ (sealed' /\ ~sealed) => op = "Close" /\ e = "nil"
<1>1. pc' # p
  BY DEF Returns
<1>2. sealed' = (sealed \/ (op = "Close" /\ e = "nil"))
  BY Zenon DEF Returns
<1> QED  BY <1>1, <1>2, Zenon

\* A step that does not get further with Close.
LEMMA PhaseOther ==
  ASSUME UNCHANGED <<closed, prefix>>, UNCHANGED base \/ SetOffset, UNCHANGED listed,
         \/ \E op, e : Returns(op, e) /\ ~(op = "Close" /\ e = "nil")
         \/ \E p \in {"flush", "comp", "descriptor", "create", "close", "panic"} : Goes(p)
  PROVE  Phase
<1>1. pc' # "directory" /\ pc' # "finish" /\ (sealed => sealed') /\ ~(sealed' /\ ~sealed)
  <2>1. CASE \E op, e : Returns(op, e) /\ ~(op = "Close" /\ e = "nil")
    <3>1. PICK op, e : Returns(op, e) /\ ~(op = "Close" /\ e = "nil")
      BY <2>1
    <3>2. "directory" \in {"directory", "finish"} /\ "finish" \in {"directory", "finish"}
      OBVIOUS
    <3> QED  BY <3>1, <3>2, ReturnsIdle, Zenon
  <2>2. CASE \E p \in {"flush", "comp", "descriptor", "create", "close", "panic"} : Goes(p)
    BY <2>2 DEF Goes
  <2> QED  BY <2>1, <2>2
<1> QED  BY <1>1 DEF Phase

\* In particular a call that fails.
LEMMA PhaseReturns ==
  ASSUME UNCHANGED <<closed, prefix, base, listed>>, NEW op, NEW e, Returns(op, e), e # "nil"
  PROVE  Phase
<1>1. ~(op = "Close" /\ e = "nil")
  OBVIOUS
<1>2. \E o, x : Returns(o, x) /\ ~(o = "Close" /\ x = "nil")
  BY <1>1
<1> QED  BY <1>2, PhaseOther

\* Every step is such a step.
LEMMA Phases ==
  ASSUME TypeInv, ControlInv, OpenInv, [Next]_vars
  PROVE  Phase
<1>0. /\ \A op : op # "Close" => ~(op = "Close" /\ berr = "nil")
      /\ "closed twice" # "nil" /\ "compressor" # "nil" /\ "io" # "nil"
      /\ "SetOffset" # "Close" /\ "Write" # "Close" /\ "CreateHeader" # "Close"
      /\ "Flush" # "Close" /\ "SetComment" # "Close" /\ "RegisterCompressor" # "Close"
  OBVIOUS
<1>1. CASE SetOffset
  <2>1. UNCHANGED <<closed, prefix, listed>> /\ Returns("SetOffset", "nil")
    BY <1>1, Zenon DEF SetOffset, Call
  <2> QED  BY <1>0, <1>1, <2>1, PhaseOther, Zenon
<1>2. CASE SetOffsetPanic
  <2>1. UNCHANGED <<closed, prefix, listed, base>> /\ Goes("panic")
    BY <1>2, Zenon DEF SetOffsetPanic
  <2> QED  BY <2>1, PhaseOther
<1>3. CASE WriteRefused \/ \E m \in Chunks : Write(m)
  <2>1. UNCHANGED <<closed, prefix, listed, base>> /\ \E e : Returns("Write", e)
    BY <1>3, Zenon DEF WriteRefused, Call, Write
  <2> QED  BY <1>0, <2>1, PhaseOther, Zenon
<1>4. CASE Duplicate \/ CreateFails \/ Create
  <2>1. UNCHANGED <<closed, prefix, listed, base>> /\ \E e : Returns("CreateHeader", e)
    BY <1>4, Zenon DEF Duplicate, CreateFails, Create
  <2> QED  BY <1>0, <2>1, PhaseOther, Zenon
<1>5. CASE CloseTwice
  <2>1. UNCHANGED <<closed, prefix, listed, base>> /\ Returns("Close", "closed twice")
    BY <1>5, Zenon DEF CloseTwice
  <2> QED  BY <1>0, <2>1, PhaseOther, Zenon
<1>6. CASE Flush \/ FlushEnd
  <2>1. /\ UNCHANGED <<closed, prefix, listed, base>>
        /\ Goes("flush") \/ \E e : Returns("Flush", e)
    BY <1>6, Zenon DEF Flush, FlushEnd
  <2>2. CASE Goes("flush")
    BY <2>1, <2>2, PhaseOther
  <2>3. CASE \E e : Returns("Flush", e)
    BY <1>0, <2>1, <2>3, PhaseOther, Zenon
  <2> QED  BY <2>1, <2>2, <2>3, Zenon
<1>7. CASE RegisterCompressor("LZMA")
  <2>1. UNCHANGED <<closed, prefix, listed, base>> /\ \E e : Returns("RegisterCompressor", e)
    BY <1>7, Zenon DEF RegisterCompressor, Call
  <2> QED  BY <1>0, <2>1, PhaseOther, Zenon
<1>8. CASE \E n \in Comments : SetComment(n)
  <2>1. UNCHANGED <<closed, prefix, listed, base>> /\ \E e : Returns("SetComment", e)
    BY <1>8, Zenon DEF SetComment, Call
  <2> QED  BY <1>0, <2>1, PhaseOther, Zenon
<1>9. CASE Deliver
  <2>1. last.pending # <<>> /\ UNCHANGED <<closed, pc, sealed, hist>>
    BY <1>9, Zenon DEF Deliver
  <2>2. pc # "directory" /\ pc # "finish"
    BY <2>1 DEF ControlInv, CallInv, OpenInv
  <2> QED  BY <2>1, <2>2 DEF Phase
<1>10. CASE CompClose \/ Descriptor
  <2>1. UNCHANGED <<closed, prefix, base, listed>>
    BY <1>10, Zenon DEF CompClose, Descriptor
  <2>2. \/ Goes("descriptor") \/ Goes("close") \/ Goes("create") \/ Returns(Op, "compressor")
        \/ \E e \in Outcomes : e # "nil" /\ Returns(Op, e)
    BY <1>10, Zenon DEF CompClose, Descriptor
  <2>3. CASE Goes("descriptor") \/ Goes("close") \/ Goes("create")
    BY <2>1, <2>3, PhaseOther
  <2>4. CASE ~(Goes("descriptor") \/ Goes("close") \/ Goes("create"))
    <3>1. PICK op, e : Returns(op, e) /\ e # "nil"
      BY <1>0, <2>2, <2>4, Zenon
    <3> QED  BY <2>1, <3>1, PhaseReturns, Zenon
  <2> QED  BY <2>3, <2>4, Zenon
<1>11. CASE Close \/ \E p \in DOMAIN fhs : CreateHeader(p)
  BY <1>11 DEF Close, CreateHeader, CloseLast, Phase
<1>12. CASE CloseStart
  BY <1>12 DEF CloseStart, Phase
<1>13. CASE DirectoryHeader
  <2>1. UNCHANGED <<closed, prefix, base, listed>>
    BY <1>13, Zenon DEF DirectoryHeader
  <2>2. \/ /\ Write_(DirectoryBytes(dir[pos.k]), "nil")
           /\ pos' = [pos EXCEPT !.k = @ + 1] /\ UNCHANGED <<pc, arg, sealed>>
        \/ \E e \in Outcomes : e # "nil" /\ Returns("Close", e)
    BY <1>13, Zenon DEF DirectoryHeader
  <2>3. CASE \E e \in Outcomes : e # "nil" /\ Returns("Close", e)
    BY <2>1, <2>3, PhaseReturns, Zenon
  <2>4. CASE /\ Write_(DirectoryBytes(dir[pos.k]), "nil")
             /\ pos' = [pos EXCEPT !.k = @ + 1] /\ UNCHANGED <<pc, arg, sealed>>
    <3>1. pc' = "directory" /\ pc' # "finish"
      BY <2>4, <1>13 DEF DirectoryHeader
    <3> QED  BY <1>13, <2>1, <2>4, <3>1, Zenon DEF Phase
  <2> QED  BY <2>2, <2>3, <2>4, Zenon
<1>14. CASE End
  <2>1. UNCHANGED <<closed, prefix, base>>
    BY <1>14, Zenon DEF End
  <2>2. \/ Write_(EndBytes, "nil") /\ Goes("finish")
        \/ \E e \in Outcomes : e # "nil" /\ Returns("Close", e)
    BY <1>14, Zenon DEF End
  <2>3. CASE Write_(EndBytes, "nil") /\ Goes("finish")
    <3>1. pc' = "finish" /\ pc' # "directory" /\ UNCHANGED sealed
      BY <2>3 DEF Goes
    <3> QED  BY <1>14, <2>1, <2>3, <3>1, Zenon DEF Phase
  <2>4. CASE \E e \in Outcomes : e # "nil" /\ Returns("Close", e)
    <3>1. PICK e \in Outcomes : e # "nil" /\ Returns("Close", e)
      BY <2>4
    <3>2. pc' # "directory" /\ pc' # "finish" /\ (sealed => sealed') /\ ~(sealed' /\ ~sealed)
      <4>1. "directory" \in {"directory", "finish"} /\ "finish" \in {"directory", "finish"}
        OBVIOUS
      <4> QED  BY <3>1, <4>1, ReturnsIdle, Zenon
    <3> QED  BY <1>14, <2>1, <3>2, Zenon DEF Phase
  <2> QED  BY <2>2, <2>3, <2>4, Zenon
<1>15. CASE CloseFlush
  <2>1. /\ pc = "finish" /\ UNCHANGED <<closed, prefix, base, listed>>
        /\ \E e : Returns("Close", e)
    BY <1>15, Zenon DEF CloseFlush
  <2>2. pc' # "directory" /\ pc' # "finish" /\ (sealed => sealed')
    <3>1. "directory" \in {"directory", "finish"} /\ "finish" \in {"directory", "finish"}
      OBVIOUS
    <3> QED  BY <2>1, <3>1, ReturnsIdle, Zenon
  <2> QED  BY <1>15, <2>1, <2>2, Zenon DEF Phase
<1>16. CASE UNCHANGED vars
  <2>1. UNCHANGED <<closed, sealed, prefix, base, listed>>
    BY <1>16 DEF vars
  <2> QED  BY <1>16, <2>1, Zenon DEF Phase
<1> QED  BY <1>1, <1>2, <1>3, <1>4, <1>5, <1>6, <1>7, <1>8, <1>9, <1>10, <1>11, <1>12, <1>13,
           <1>14, <1>15, <1>16, NextKinds DEF Written, Silent

\* A step that is no End writes no end record, and flushes only what is buffered.
LEMMA CalmStep ==
  ASSUME TypeInv, ControlInv, CountInv, [Next]_vars, ~End
  PROVE  /\ out' = out \/ (out' = out \o buf /\ (Flush \/ CloseFlush))
         /\ buf' = buf \/ buf' = <<>> \/ \E b : NoEnd(b) /\ buf' = buf \o b
<1>1. CASE Written
  <2>1. pc # "flush"
    BY <1>1, FlushWaits
  <2>2. UNCHANGED <<bufio, count>> \/ \E b, e : IsSeq(b) /\ Write_(b, e) /\ NoEnd(b)
    BY <1>1, <2>1, WrittenBytes, Zenon
  <2>3. CASE UNCHANGED <<bufio, count>>
    BY <2>3
  <2>4. CASE \E b, e : IsSeq(b) /\ Write_(b, e) /\ NoEnd(b)
    <3>1. PICK b, e : IsSeq(b) /\ Write_(b, e) /\ NoEnd(b)
      BY <2>4
    <3>2. out' = out /\ (buf' = buf \/ buf' = buf \o b)
      BY <3>1 DEF Write_
    <3> QED  BY <3>1, <3>2, Zenon
  <2> QED  BY <2>2, <2>3, <2>4, Zenon
<1>2. CASE Silent
  BY <1>2, SilentBytes
<1>3. CASE SetOffset
  BY <1>3 DEF SetOffset
<1>4. CASE FlushError
  <2>1. out' = out /\ (buf' = buf \/ buf' = buf \o <<>>)
    BY <1>4 DEF FlushError, Write_
  <2>2. buf \o <<>> = buf
    BY AllIsSeq, EmptyIsSeq, ConcatLaws
  <2> QED  BY <2>1, <2>2, Zenon
<1>5. CASE Flush
  BY <1>4, <1>5 DEF Flush
<1>6. CASE FlushEnd
  BY <1>6 DEF FlushEnd
<1>7. CASE CloseFlush
  BY <1>4, <1>7 DEF CloseFlush
<1>8. CASE UNCHANGED vars
  BY <1>8 DEF vars
<1> QED  BY <1>1, <1>2, <1>3, <1>5, <1>6, <1>7, <1>8, NextKinds

\* Only SetOffset sets the counter back, and it does so at 0.
LEMMA CountGrows ==
  ASSUME TypeInv, ControlInv, CountInv, [Next]_vars
  PROVE  count' >= count \/ (SetOffset /\ count = 0)
<1>0. count \in Nat
  BY DEF TypeInv, BufType
<1>1. ASSUME NEW b, NEW e, IsSeq(b), Write_(b, e) PROVE count' >= count
  BY <1>1, WriteStep DEF TypeInv
<1>2. CASE Written
  <2>1. pc # "flush"
    BY <1>2, FlushWaits
  <2>2. UNCHANGED <<bufio, count>> \/ \E b, e : IsSeq(b) /\ Write_(b, e)
    BY <1>2, <2>1, WrittenBytes, Zenon
  <2>3. CASE UNCHANGED <<bufio, count>>
    BY <2>3, <1>0
  <2> QED  BY <2>2, <2>3, <1>1, Zenon
<1>3. CASE Silent
  BY <1>0, <1>3, SilentBytes
<1>4. CASE SetOffset
  BY <1>4 DEF SetOffset
<1>5. CASE Flush \/ FlushEnd \/ CloseFlush
  BY <1>0, <1>5 DEF Flush, FlushEnd, CloseFlush
<1>6. CASE UNCHANGED vars
  BY <1>0, <1>6 DEF vars
<1> QED  BY <1>2, <1>3, <1>4, <1>5, <1>6, NextKinds

\* Where Close is, and what the offset may be.
PhaseInv ==
  /\ pc \in {"directory", "finish"} => closed /\ ~sealed
  /\ sealed => closed /\ count > 0
  /\ pc = "finish" => berr = "nil" /\ count > 0
  /\ pc = "directory" => pos.k \in 1 .. Len(dir) + 1
  /\ prefix \in PrefixLens /\ base \in {0, prefix} /\ listed <= Len(dir)

\* They hold before the first call.
LEMMA PhaseInit ==
  ASSUME Init PROVE PhaseInv
BY DEF Init, PhaseInv

\* And after every step.
LEMMA PhaseStep ==
  ASSUME TypeInv, ControlInv, CountInv, OpenInv, PhaseInv, [Next]_vars, TypeInv'
  PROVE  PhaseInv'
<1>0. Phase
  BY Phases
<1>1. Len(dir) \in Nat /\ Len(dir') \in Nat /\ Len(dir) <= Len(dir')
  <2>0. Len(dir) \in Nat /\ Len(dir') \in Nat
    <3>1. dir \in Seq([fh : DOMAIN fhs, offset : Nat])
      BY DEF TypeInv, FieldType
    <3>2. dir' \in Seq([fh : DOMAIN fhs', offset : Nat])
      BY DEF TypeInv, FieldType
    <3> QED  BY <3>1, <3>2
  <2>1. PICK n \in Nat, m \in Nat : n = Len(dir) /\ m = Len(dir')
    BY <2>0
  <2>2. CASE n = 0
    BY <2>1, <2>2
  <2>3. CASE n # 0
    <3>1. n \in 1 .. Len(dir)
      BY <2>1, <2>3
    <3>2. n \in 1 .. m
      BY <3>1, <2>1, DirStays, Zenon
    <3> QED  BY <3>2, <2>1
  <2> QED  BY <2>2, <2>3
<1>2. PICK l \in Nat : l = Len(EndBytes) /\ l > 0
  <2>1. comment \in Nat
    BY FormatAssumption DEF TypeInv, FieldType
  <2> QED  BY <2>1, EndBytesEnd
<1>3. ASSUME pc' = "directory"
      PROVE  closed' /\ ~sealed' /\ pos'.k \in 1 .. Len(dir') + 1
  <2>1. CASE UNCHANGED vars
    BY <2>1, <1>3 DEF vars, PhaseInv
  <2>2. CASE CloseStart
    <3>1. ~closed /\ closed' /\ UNCHANGED <<sealed, dir>> /\ pos' = [k |-> 1, start |-> count]
      BY <2>2 DEF CloseStart
    <3>2. ~sealed
      BY <3>1, Zenon DEF PhaseInv
    <3>3. pos'.k = 1
      BY <3>1
    <3>4. 1 \in 1 .. Len(dir') + 1
      BY <1>1
    <3> QED  BY <3>1, <3>2, <3>3, <3>4, Zenon
  <2>3. CASE DirectoryHeader /\ pos' = [pos EXCEPT !.k = @ + 1]
    <3>1. pc = "directory" /\ pos.k <= Len(dir) /\ UNCHANGED dir
      BY <2>3 DEF DirectoryHeader
    <3>2. closed' /\ ~sealed'
      <4>1. closed /\ ~sealed /\ pc # "finish"
        BY <3>1 DEF PhaseInv
      <4> QED  BY <4>1, <1>0, Zenon DEF Phase
    <3>3. pos'.k = pos.k + 1 /\ pos.k \in Nat /\ pos.k # 0
      BY <2>3, <3>1 DEF TypeInv, CallType, ControlInv, CallInv
    <3>4. PICK k \in Nat, n \in Nat : k = pos.k /\ n = Len(dir) /\ k # 0 /\ k <= n
      BY <3>1, <3>3, <1>1
    <3>5. pos'.k = k + 1 /\ Len(dir') = n
      BY <3>1, <3>3, <3>4, Zenon
    <3>6. k + 1 \in 1 .. n + 1
      BY <3>4
    <3> QED  BY <3>2, <3>5, <3>6, Zenon
  <2> QED  BY <2>1, <2>2, <2>3, <1>0, <1>3, Zenon DEF Phase
<1>4. ASSUME pc' = "finish"
      PROVE  closed' /\ ~sealed' /\ berr' = "nil" /\ count' > 0
  <2>1. CASE UNCHANGED vars
    BY <2>1, <1>4 DEF vars, PhaseInv
  <2>2. CASE End /\ Write_(EndBytes, "nil")
    <3>1. pc = "directory"
      BY <2>2 DEF End
    <3>2. closed /\ ~sealed /\ pc # "finish"
      BY <3>1 DEF PhaseInv
    <3>3. closed' /\ ~sealed'
      BY <3>2, <1>0, Zenon DEF Phase
    <3>4. berr' = "nil" /\ count' = count + Len(EndBytes)
      BY <2>2 DEF Write_
    <3>5. PICK c \in Nat : c = count
      BY DEF TypeInv, BufType
    <3>6. count' = c + l
      BY <3>4, <3>5, <1>2, Zenon
    <3>7. count' > 0
      BY <3>5, <3>6, <1>2
    <3> QED  BY <3>3, <3>4, <3>7
  <2> QED  BY <2>1, <2>2, <1>0, <1>4, Zenon DEF Phase
<1>5. ASSUME sealed'
      PROVE  closed' /\ count' > 0
  <2>0. count \in Nat /\ count' \in Nat
    BY DEF TypeInv, BufType
  <2>1. CASE sealed
    <3>1. closed /\ count > 0
      BY <2>1, Zenon DEF PhaseInv
    <3>2. count' >= count
      BY <3>1, <2>0, CountGrows
    <3>3. closed'
      BY <3>1, <1>0, Zenon DEF Phase
    <3> QED  BY <2>0, <3>1, <3>2, <3>3
  <2>2. CASE ~sealed
    <3>1. pc = "finish" /\ CloseFlush
      BY <2>2, <1>0, <1>5, Zenon DEF Phase
    <3>2. UNCHANGED <<count, closed>>
      BY <3>1 DEF CloseFlush
    <3> QED  BY <3>1, <3>2 DEF PhaseInv
  <2> QED  BY <2>1, <2>2
<1>6. base' \in {0, prefix'}
  <2>1. CASE UNCHANGED base
    BY <2>1, <1>0 DEF Phase, PhaseInv
  <2>2. CASE SetOffset
    BY <2>2 DEF SetOffset
  <2> QED  BY <2>1, <2>2, <1>0, Zenon DEF Phase
<1>7. listed' <= Len(dir')
  <2>1. CASE UNCHANGED listed
    <3>1. listed \in Nat /\ listed <= Len(dir)
      BY DEF TypeInv, HistType, PhaseInv
    <3> QED  BY <2>1, <3>1, <1>1
  <2>2. CASE End
    <3>1. listed' = Len(dir) /\ UNCHANGED dir
      BY <2>2 DEF End
    <3> QED  BY <3>1, <1>1
  <2> QED  BY <2>1, <2>2, <1>0, Zenon DEF Phase
<1>8. prefix' \in PrefixLens
  BY <1>0, Zenon DEF Phase, PhaseInv
<1> QED  BY <1>3, <1>4, <1>5, <1>6, <1>7, <1>8 DEF PhaseInv

\* What an empty buffer has.
LEMMA EmptyNoEnd == NoEnd(<<>>)
<1>1. ASSUME NEW k \in 1 .. 0 PROVE FALSE
  OBVIOUS
<1> QED  BY <1>1, EmptyIsSeq, Zenon DEF NoEnd

\* An archive has an end record only when Close has flushed it, and then one.
EndsInv ==
  /\ ~sealed => NoEnd(out)
  /\ (sealed \/ (pc # "finish" /\ berr = "nil")) => NoEnd(buf)

\* Nothing is written in the beginning.
LEMMA EndsInit ==
  ASSUME Init PROVE EndsInv
<1>1. out = <<>> /\ buf = <<>>
  BY DEF Init
<1> QED  BY <1>1, EmptyNoEnd, Zenon DEF EndsInv

\* Steps keep it.
LEMMA EndsStep ==
  ASSUME TypeInv, ControlInv, CountInv, OpenInv, PhaseInv, EndsInv, [Next]_vars
  PROVE  EndsInv'
<1>0. Phase
  BY Phases
<1>1. CASE End
  <2>1. pc = "directory" /\ pc # "finish"
    BY <1>1 DEF End
  <2>2. ~sealed /\ ~sealed'
    BY <2>1, <1>0 DEF Phase, PhaseInv
  <2>3. out' = out
    BY <1>1 DEF End, Write_
  <2>4. pc' = "finish" \/ berr' # "nil"
    <3>1. PICK e \in Outcomes : Write_(EndBytes, e) /\ (e = "nil" => Goes("finish"))
      BY <1>1, Zenon DEF End
    <3>2. CASE e = "nil"
      BY <3>1, <3>2 DEF Goes
    <3>3. CASE e # "nil"
      BY <3>1, <3>3 DEF Write_, Outcomes
    <3> QED  BY <3>2, <3>3
  <2> QED  BY <2>1, <2>2, <2>3, <2>4, Zenon DEF EndsInv
<1>2. CASE ~End
  <2>1. /\ out' = out \/ (out' = out \o buf /\ (Flush \/ CloseFlush))
        /\ buf' = buf \/ buf' = <<>> \/ \E b : NoEnd(b) /\ buf' = buf \o b
    BY <1>2, CalmStep, Zenon
  <2>2. ASSUME ~sealed' PROVE NoEnd(out')
    <3>1. ~sealed
      BY <2>2, <1>0, Zenon DEF Phase
    <3>2. NoEnd(out)
      BY <3>1, Zenon DEF EndsInv
    <3>3. CASE out' = out
      BY <3>2, <3>3, Zenon
    <3>4. CASE Flush /\ out' # out
      <4>1. berr = "nil" /\ out' = out \o buf /\ pc # "finish"
        BY <3>4 DEF Flush, FlushError, Write_
      <4>2. NoEnd(buf)
        BY <4>1, Zenon DEF EndsInv
      <4> QED  BY <3>2, <4>1, <4>2, ConcatNoEnd, Zenon
    <3>5. CASE CloseFlush /\ out' # out
      <4>1. Returns("Close", "nil")
        BY <3>5 DEF CloseFlush, FlushError, Write_
      <4>2. sealed' = (sealed \/ ("Close" = "Close" /\ "nil" = "nil"))
        BY <4>1, Zenon DEF Returns
      <4> QED  BY <4>2, <2>2, Zenon
    <3> QED  BY <2>1, <3>3, <3>4, <3>5, Zenon
  <2>3. ASSUME NoEnd(buf) PROVE NoEnd(buf')
    BY <2>1, <2>3, ConcatNoEnd, EmptyNoEnd, Zenon
  <2>4. ASSUME sealed' PROVE NoEnd(buf')
    <3>1. CASE sealed
      BY <2>3, <3>1, Zenon DEF EndsInv
    <3>2. CASE ~sealed
      <4>1. pc = "finish" /\ CloseFlush
        BY <2>4, <3>2, <1>0, Zenon DEF Phase
      <4>2. CASE buf' = <<>>
        BY <4>2, EmptyNoEnd, Zenon
      <4>3. CASE FlushError /\ Returns("Close", "io")
        <5>1. sealed' = (sealed \/ ("Close" = "Close" /\ "io" = "nil"))
          BY <4>3, Zenon DEF Returns
        <5>2. "io" # "nil"
          OBVIOUS
        <5> QED  BY <5>1, <5>2, <2>4, <3>2, Zenon
      <4> QED  BY <4>1, <4>2, <4>3, Zenon DEF CloseFlush
    <3> QED  BY <3>1, <3>2, Zenon
  <2>5. ASSUME ~sealed', pc' # "finish", berr' = "nil" PROVE NoEnd(buf')
    <3>1. berr = "nil" /\ ~sealed
      BY <2>5, ErrorStays, <1>0, Zenon DEF Phase
    <3>2. CASE pc # "finish"
      BY <2>3, <3>1, <3>2, Zenon DEF EndsInv
    <3>3. CASE pc = "finish"
      <4>1. CloseFlush \/ UNCHANGED vars \/ Deliver
        BY <3>3 DEF Next, SetOffset, SetOffsetPanic, SetComment, RegisterCompressor, Call, Flush,
                    FlushEnd, WriteRefused, Write, CompClose, Descriptor, CreateHeader, Duplicate,
                    CreateFails, Create, Close, CloseTwice, CloseStart, DirectoryHeader, End
      <4>2. CASE UNCHANGED vars
        BY <4>2, <3>3, <2>5 DEF vars
      <4>3. CASE Deliver
        BY <4>3, <3>3, <2>5 DEF Deliver
      <4>4. CASE CloseFlush
        <5>1. CASE Returns("Close", "nil")
          <6>1. sealed' = (sealed \/ ("Close" = "Close" /\ "nil" = "nil"))
            BY <5>1, Zenon DEF Returns
          <6> QED  BY <6>1, <2>5, Zenon
        <5>2. CASE FlushError
          BY <5>2, <2>5 DEF FlushError, Write_
        <5> QED  BY <4>4, <5>1, <5>2, Zenon DEF CloseFlush
      <4> QED  BY <4>1, <4>2, <4>3, <4>4, Zenon
    <3> QED  BY <3>2, <3>3, Zenon
  <2> QED  BY <2>2, <2>4, <2>5, Zenon DEF EndsInv
<1> QED  BY <1>1, <1>2, Zenon

\* A spoiled entry stays spoiled.
LEMMA SpoiledStays ==
  ASSUME TypeInv, ControlInv, [Next]_vars, NEW i \in 1 .. Len(dir), made'[i] # -1
  PROVE  made[i] # -1
<1>0. /\ made \in Seq(Nat \cup {-1}) /\ Len(made) = Len(dir) /\ i \in DOMAIN made
  BY DEF TypeInv, HistType, ControlInv, DirInv
<1>1. CASE UNCHANGED made
  BY <1>1, Zenon
<1>2. CASE Aside
  BY <1>1, <1>2, AsideLeaves
<1>3. CASE Closing
  BY <1>1, <1>3, ClosingLeaves
<1>4. CASE \E m \in Chunks : Write(m)
  <2>1. PICK m \in Chunks : Write(m)
    BY <1>4
  <2>2. ~last.closed /\ (made' = made \/ made' = [made EXCEPT ![last.i] = @ + m])
    BY <2>1, WriteDoes
  <2>3. made[last.i] # -1
    BY <2>2 DEF ControlInv, LastInv
  <2>4. CASE i = last.i
    BY <2>3, <2>4, Zenon
  <2>5. CASE i # last.i
    BY <1>0, <2>2, <2>5
  <2> QED  BY <2>4, <2>5
<1>5. CASE Deliver
  BY <1>1, <1>5, DeliverDoes
<1>6. CASE CompClose
  <2>1. UNCHANGED made \/ made' = [made EXCEPT ![last.i] = -1]
    BY <1>6, CompCloseDoes, Zenon
  <2>2. CASE made' = [made EXCEPT ![last.i] = -1]
    BY <1>0, <2>2
  <2> QED  BY <1>1, <2>1, <2>2
<1>7. CASE Create
  <2>1. made' = Append(made, -1) \/ made' = Append(made, 0)
    BY <1>7, CreateDoes, Zenon
  <2>2. made'[i] = made[i]
    BY <1>0, <2>1
  <2> QED  BY <2>2
<1> QED  BY <1>2, <1>3, <1>4, <1>5, <1>6, <1>7, NextParts

\* The headers: sizes, flags of those in the directory, names that were written.
HeadersInv ==
  /\ \A p \in DOMAIN fhs : SizesSame(fhs[p])
  /\ \A i \in 1 .. Len(dir) : Flagged(fhs[dir[i].fh])
  /\ \A i \in 1 .. Len(dir) :
       made[i] # -1 => Len(NameBytes(fhs[dir[i].fh].name)) <= uint16max

\* They hold of new headers.
LEMMA HeadersInit ==
  ASSUME Init PROVE HeadersInv
<1>1. Len(dir) = 0
  BY DEF Init
<1>2. ASSUME NEW i \in 1 .. Len(dir) PROVE FALSE
  BY <1>1
<1>3. ASSUME NEW p \in DOMAIN fhs PROVE SizesSame(fhs[p])
  <2>1. PICK hs : fhs = [q \in DOMAIN hs |-> NewFileHeader(hs[q])]
    BY DEF Init
  <2>2. PICK h : fhs[p] = NewFileHeader(h)
    BY <2>1
  <2>3. /\ NewFileHeader(h).csize = NewFileHeader(h).csize64
        /\ NewFileHeader(h).usize = NewFileHeader(h).usize64
    BY DEF NewFileHeader
  <2> QED  BY <2>2, <2>3, Zenon DEF SizesSame
<1> QED  BY <1>2, <1>3, Zenon DEF HeadersInv

\* Every header becomes an older one of what it is after a step.
LEMMA HeadersBecome ==
  ASSUME TypeInv, ControlInv, [Next]_vars
  PROVE  /\ DOMAIN fhs' = DOMAIN fhs
         /\ \A p \in DOMAIN fhs : /\ fhs[p] \in FileHeader /\ fhs'[p] \in FileHeader
                                  /\ Becomes(fhs[p], fhs'[p])
<1>0. fhs \in [DOMAIN fhs -> FileHeader]
  BY DEF TypeInv, FieldType
<1>1. ASSUME NEW p \in DOMAIN fhs PROVE fhs[p] \in FileHeader /\ Becomes(fhs[p], fhs[p])
  <2>1. fhs[p] \in FileHeader
    BY <1>0
  <2> QED  BY <2>1, OlderSame, Zenon DEF Becomes
<1>2. CASE UNCHANGED fhs
  BY <1>1, <1>2, Zenon
<1>3. CASE \E q \in DOMAIN fhs : \E g \in FileHeader :
             Changed(q, g) /\ fhs[q] \in FileHeader /\ Becomes(fhs[q], g)
  <2>1. PICK q \in DOMAIN fhs, g \in FileHeader : Changed(q, g) /\ Becomes(fhs[q], g)
    BY <1>3
  <2>2. fhs' = [fhs EXCEPT ![q] = g]
    BY <2>1, Zenon DEF Changed
  <2>3. /\ DOMAIN fhs' = DOMAIN fhs
        /\ \A p \in DOMAIN fhs : fhs'[p] = IF p = q THEN g ELSE fhs[p]
    BY <1>0, <2>2
  <2>4. ASSUME NEW p \in DOMAIN fhs
        PROVE  fhs[p] \in FileHeader /\ fhs'[p] \in FileHeader /\ Becomes(fhs[p], fhs'[p])
    <3>1. CASE p = q
      BY <1>1, <2>1, <2>3, <3>1, Zenon
    <3>2. CASE p # q
      BY <1>1, <2>3, <3>2, Zenon
    <3> QED  BY <3>1, <3>2
  <2> QED  BY <2>3, <2>4
<1> QED  BY <1>2, <1>3, HeaderSteps, Zenon

\* The entry that Create adds: its flag is set, and its name fits if it is written.
LEMMA CreateFlags ==
  ASSUME TypeInv, ControlInv, Create, NEW i, i = Len(dir) + 1
  PROVE  /\ Len(dir') = i /\ dir'[i].fh = arg /\ Flagged(fhs'[arg])
         /\ made'[i] # -1 => Len(NameBytes(fhs'[arg].name)) <= uint16max
<1>0. /\ fhs \in [DOMAIN fhs -> FileHeader] /\ dir \in Seq([fh : DOMAIN fhs, offset : Nat])
      /\ made \in Seq(Nat \cup {-1}) /\ Len(made) = Len(dir)
  BY DEF TypeInv, FieldType, HistType, ControlInv, DirInv
<1>1. pc = "create" /\ fhs' = [fhs EXCEPT ![arg] = Prepared(fhs[arg])]
      /\ dir' = Append(dir, [fh |-> arg, offset |-> count])
  BY Zenon DEF Create
<1>2. arg \in DOMAIN fhs /\ fhs[arg] \in FileHeader
  BY <1>1, <1>0 DEF ControlInv, CallInv
<1>3. fhs'[arg] = Prepared(fhs[arg])
  BY <1>0, <1>1, <1>2
<1>4. Len(dir') = i /\ dir'[i].fh = arg
  BY <1>0, <1>1
<1>5. Flagged(fhs'[arg])
  BY <1>2, <1>3, PreparedBecomes, Zenon
<1>6. ASSUME made'[i] # -1 PROVE Len(NameBytes(fhs'[arg].name)) <= uint16max
  <2>1. made' # Append(made, -1)
    BY <1>0, <1>6
  <2>2. ~(Len(NameBytes(Prepared(fhs[arg]).name)) > uint16max)
    BY <2>1, Zenon DEF Create
  <2>3. Len(NameBytes(Prepared(fhs[arg]).name)) \in Nat /\ uint16max \in Nat
    BY NameNoEnd, FormatAssumption
  <2>4. PICK x \in Nat : x = Len(NameBytes(Prepared(fhs[arg]).name))
    BY <2>3
  <2>5. x <= uint16max
    <3>1. ~(x > uint16max)
      BY <2>2, <2>4, Zenon
    <3> QED  BY <3>1, <2>3, <2>4
  <2> QED  BY <2>4, <2>5, <1>3, Zenon
<1> QED  BY <1>4, <1>5, <1>6

\* Only Create makes the directory longer.
LEMMA DirectoryGrows ==
  ASSUME TypeInv, ControlInv, [Next]_vars, NEW i \in 1 .. Len(dir'), i \notin 1 .. Len(dir)
  PROVE  Create /\ i = Len(dir) + 1
<1>0. dir \in Seq([fh : DOMAIN fhs, offset : Nat])
  BY DEF TypeInv, FieldType
<1>1. CASE Aside
  BY <1>1, AsideLeaves, Zenon
<1>2. CASE Closing
  BY <1>2, ClosingLeaves, Zenon
<1>3. CASE (\E m \in Chunks : Write(m)) \/ Deliver \/ CompClose
  BY <1>3, WriteDoes, DeliverDoes, CompCloseDoes
<1>4. CASE Create
  <2>1. dir' = Append(dir, [fh |-> arg, offset |-> count])
    BY <1>4, CreateDoes
  <2> QED  BY <1>0, <1>4, <2>1
<1> QED  BY <1>1, <1>2, <1>3, <1>4, NextParts

\* Steps keep them.
LEMMA HeadersStep ==
  ASSUME TypeInv, ControlInv, HeadersInv, [Next]_vars
  PROVE  HeadersInv'
<1>1. ASSUME NEW p \in DOMAIN fhs' PROVE SizesSame(fhs'[p])
  <2>1. p \in DOMAIN fhs /\ Becomes(fhs[p], fhs'[p])
    BY <1>1, HeadersBecome, Zenon
  <2> QED  BY <2>1, Zenon DEF HeadersInv, Becomes
<1>2. ASSUME NEW i \in 1 .. Len(dir')
      PROVE  /\ Flagged(fhs'[dir'[i].fh])
             /\ made'[i] # -1 => Len(NameBytes(fhs'[dir'[i].fh].name)) <= uint16max
  <2>1. CASE i \in 1 .. Len(dir)
    <3>1. dir'[i] = dir[i]
      BY <2>1, DirStays, Zenon
    <3>2. PICK p \in DOMAIN fhs : p = dir[i].fh
      BY <2>1, DirElement DEF TypeInv
    <3>3. Becomes(fhs[p], fhs'[p])
      BY <3>2, HeadersBecome, Zenon
    <3>4. Flagged(fhs'[p])
      BY <2>1, <3>2, <3>3, Zenon DEF HeadersInv, Becomes
    <3>5. ASSUME made'[i] # -1 PROVE Len(NameBytes(fhs'[p].name)) <= uint16max
      <4>1. made[i] # -1
        BY <2>1, <3>5, SpoiledStays, Zenon
      <4>2. fhs'[p].name = fhs[p].name
        BY <3>3, Zenon DEF Becomes, Older
      <4>3. Len(NameBytes(fhs[p].name)) <= uint16max
        BY <2>1, <3>2, <4>1, Zenon DEF HeadersInv
      <4> QED  BY <4>2, <4>3, Zenon
    <3> QED  BY <3>1, <3>2, <3>4, <3>5, Zenon
  <2>2. CASE i \notin 1 .. Len(dir)
    <3>1. Create /\ i = Len(dir) + 1
      BY <1>2, <2>2, DirectoryGrows, Zenon
    <3> QED  BY <3>1, CreateFlags, Zenon
  <2> QED  BY <2>1, <2>2, Zenon
<1> QED  BY <1>1, <1>2, Zenon DEF HeadersInv

\* The archive has room for the headers of the entries that were written.
Unspoiled(n) == \A i \in 1 .. n : made[i] # -1
RoomInv ==
  \A n \in 0 .. Len(dir) : Unspoiled(n) => n * fileHeaderLen <= count - base

\* In the beginning there are none.
LEMMA RoomInit ==
  ASSUME Init PROVE RoomInv
<1>1. Len(dir) = 0 /\ count = 0 /\ base = 0
  BY DEF Init
<1>2. fileHeaderLen \in Nat
  BY FormatAssumption
<1> QED  BY <1>1, <1>2 DEF RoomInv

\* A local header is at least as long as its fixed part.
LEMMA HeaderLength ==
  ASSUME NEW fh, fh.extra \in Seq(ExtraField)
  PROVE  Len(HeaderBytes(fh)) \in Nat /\ fileHeaderLen <= Len(HeaderBytes(fh))
<1> DEFINE r == [t |-> "file", name |-> Len(NameBytes(fh.name)), extra |-> Len(ExtraBytes(fh.extra))]
           a == Record(r, fileHeaderLen)
<1>1. HeaderBytes(fh) = (a \o NameBytes(fh.name)) \o ExtraBytes(fh.extra)
  BY Zenon DEF HeaderBytes
<1>2. PICK l \in Nat : l = fileHeaderLen
  BY FormatAssumption
<1> HIDE DEF r
<1>3. IsSeq(a) /\ Len(a) = l
  BY <1>2, RecordIs, Zenon
<1> HIDE DEF a
<1>4. PICK b, c : b = NameBytes(fh.name) /\ c = ExtraBytes(fh.extra) /\ IsSeq(b) /\ IsSeq(c)
  BY NameNoEnd, ExtraNoEnd, Zenon DEF NoEnd
<1>5. IsSeq(a \o b) /\ Len(a \o b) = Len(a) + Len(b) /\ Len(b) \in Nat
  BY <1>3, <1>4, Concat, Zenon
<1>6. Len((a \o b) \o c) = Len(a \o b) + Len(c) /\ Len(c) \in Nat
  BY <1>4, <1>5, Concat, Zenon
<1>7. PICK x \in Nat, y \in Nat : x = Len(b) /\ y = Len(c)
  BY <1>5, <1>6
<1>8. Len(HeaderBytes(fh)) = (l + x) + y
  BY <1>1, <1>3, <1>4, <1>5, <1>6, <1>7, Zenon
<1>9. (l + x) + y \in Nat /\ l <= (l + x) + y
  BY <1>2, <1>7
<1> QED  BY <1>2, <1>8, <1>9, Zenon

\* Steps keep the room.
LEMMA RoomStep ==
  ASSUME TypeInv, ControlInv, CountInv, OpenInv, RoomInv, [Next]_vars, TypeInv'
  PROVE  RoomInv'
<1>0. PICK f \in Nat, c \in Nat, o \in Nat, d \in Nat, q \in Nat, l \in Nat :
        /\ f = fileHeaderLen /\ c = count /\ o = base /\ d = count' /\ q = base' /\ l = Len(dir)
        /\ o <= c
  <2>1. fileHeaderLen \in Nat
    BY FormatAssumption
  <2>2. count \in Nat /\ base \in Nat /\ base <= count
    BY DEF TypeInv, BufType, HistType, ControlInv, OffsetInv
  <2>3. count' \in Nat /\ base' \in Nat
    BY DEF TypeInv, BufType, HistType
  <2>4. Len(dir) \in Nat
    <3>1. dir \in Seq([fh : DOMAIN fhs, offset : Nat])
      BY DEF TypeInv, FieldType
    <3> QED  BY <3>1
  <2> QED  BY <2>1, <2>2, <2>3, <2>4
<1>a. o <= c
  BY <1>0
<1>1. ASSUME NEW n \in 0 .. l, \A i \in 1 .. n : made'[i] # -1
      PROVE  n * f <= c - o
  <2>1. \A i \in 1 .. n : i \in 1 .. Len(dir)
    BY <1>0
  <2>2. Unspoiled(n)
    BY <1>1, <2>1, SpoiledStays, Zenon DEF Unspoiled
  <2> QED  BY <1>0, <1>1, <2>2, Zenon DEF RoomInv
<1>2. c - o <= d - q
  <2>1. CASE SetOffset
    <3>1. count = 0 /\ count' = base'
      BY <2>1 DEF SetOffset
    <3>2. c = 0 /\ d = q
      BY <3>1, <1>0, Zenon
    <3> QED  BY <3>2, <1>a
  <2>2. CASE ~SetOffset
    <3>1. base' = base
      BY <2>2, Phases, Zenon DEF Phase
    <3>2. count' >= count
      BY <2>2, CountGrows, Zenon
    <3>3. o = q /\ d >= c
      BY <3>1, <3>2, <1>0, Zenon
    <3> QED  BY <3>3, <1>a
  <2> QED  BY <2>1, <2>2
<1>3. ASSUME NEW n \in 0 .. Len(dir'), \A i \in 1 .. n : made'[i] # -1
      PROVE  n * f <= d - q
  <2>0. n \in Nat
    BY <1>3
  <2>1. CASE n \in 0 .. l
    <3>1. n * f <= c - o
      BY <1>1, <1>3, <2>1
    <3>2. PICK x \in Nat : x = n * f
      BY <2>0, <1>0
    <3>3. x <= c - o
      BY <3>1, <3>2, Zenon
    <3>4. x <= d - q
      BY <3>2, <3>3, <1>2
    <3> QED  BY <3>2, <3>4, Zenon
  <2>2. CASE n \notin 0 .. l
    <3>1. n \in 1 .. Len(dir') /\ n \notin 1 .. Len(dir)
      BY <1>3, <2>2, <1>0
    <3>2. Create /\ n = l + 1
      BY <3>1, <1>0, DirectoryGrows, Zenon
    <3>3. n \in 1 .. n /\ l \in 0 .. l /\ \A i \in 1 .. l : i \in 1 .. n
      BY <3>2, <1>0
    <3>4. l * f <= c - o
      BY <1>1, <1>3, <3>3, Zenon
    <3>5. PICK x \in Nat : x = Len(HeaderBytes(Prepared(fhs[arg]))) /\ f <= x /\ d = c + x /\ o = q
      <4>1. pc = "create"
        BY <3>2 DEF Create
      <4>2. arg \in DOMAIN fhs /\ fhs[arg] \in FileHeader
        BY <4>1 DEF TypeInv, FieldType, ControlInv, CallInv
      <4>3. Prepared(fhs[arg]) \in FileHeader
        BY <4>2, PreparedType, Zenon
      <4>4. Prepared(fhs[arg]).extra \in Seq(ExtraField)
        BY <4>3 DEF FileHeader
      <4>5. PICK x \in Nat : x = Len(HeaderBytes(Prepared(fhs[arg]))) /\ fileHeaderLen <= x
        BY <4>4, HeaderLength, Zenon
      <4>6. made' # Append(made, -1)
        <5>1. made \in Seq(Nat \cup {-1}) /\ Len(made) = l
          BY <1>0 DEF TypeInv, HistType, ControlInv, DirInv
        <5>2. made'[n] # -1
          BY <1>3, <3>3, Zenon
        <5> QED  BY <5>1, <5>2, <3>2
      <4>7. Write_(HeaderBytes(Prepared(fhs[arg])), "nil") /\ base' = base
        BY <3>2, <4>6, Zenon DEF Create
      <4>8. count' = count + Len(HeaderBytes(Prepared(fhs[arg])))
        BY <4>7 DEF Write_
      <4>9. d = c + x /\ o = q /\ f <= x
        BY <1>0, <4>5, <4>7, <4>8, Zenon
      <4> QED  BY <4>5, <4>9, Zenon
    <3>6. PICK y \in Nat : y = l * f
      BY <1>0
    <3>7. (l + 1) * f = y + f
      BY <1>0, <3>6
    <3>8. y <= c - o
      BY <3>4, <3>6, Zenon
    <3>9. y + f <= d - q
      BY <3>5, <3>6, <3>8, <1>0
    <3> QED  BY <3>2, <3>7, <3>9, Zenon
  <2> QED  BY <2>1, <2>2
<1> QED  BY <1>0, <1>3, Zenon DEF RoomInv, Unspoiled


-----------------------------------------------------------------------------
(* What the writer records of an entry.                                     *)

\* The bytes that the compressor of the open entry has written.
Compressed ==
  IF last.kind = "Deflate"
  THEN (last.raw - Len(last.pending)) + (IF last.closed /\ pc # "comp" THEN 1 ELSE 0)
  ELSE last.raw
CompInv ==
  (last.i # 0 /\ berr = "nil" /\ made[last.i] # -1) => last.comp = Compressed

\* None of the steps aside begins or ends the close of a compressor, and but for
\* Descriptor none has to do with a descriptor.
LEMMA AsideCalls ==
  ASSUME Aside
  PROVE  /\ pc' = "comp" <=> pc = "comp"
         /\ ~Descriptor => (pc' = "descriptor" <=> pc = "descriptor")
<1> USE DEF Returns, Goes, Call
<1>1. CASE SetOffset \/ Flush \/ FlushEnd \/ CloseFlush
  BY <1>1 DEF SetOffset, Flush, FlushEnd, CloseFlush
<1>2. CASE SetOffsetPanic \/ WriteRefused \/ Duplicate \/ CloseTwice \/ CloseStart
  BY <1>2 DEF SetOffsetPanic, WriteRefused, Duplicate, CloseTwice, CloseStart
<1>3. CASE RegisterCompressor("LZMA") \/ \E n \in Comments : SetComment(n)
  BY <1>3 DEF RegisterCompressor, SetComment
<1>4. CASE Descriptor
  BY <1>4 DEF Descriptor
<1>5. CASE CreateFails \/ DirectoryHeader \/ End
  BY <1>5 DEF CreateFails, DirectoryHeader, End
<1>6. CASE UNCHANGED vars
  BY <1>6 DEF vars
<1> QED  BY <1>1, <1>2, <1>3, <1>4, <1>5, <1>6 DEF Aside

\* The count of compressed bytes follows the steps of the open entry.
LEMMA CompStep ==
  ASSUME TypeInv, ControlInv, CountInv, OpenInv, CompInv, [Next]_vars, TypeInv', ControlInv'
  PROVE  CompInv'
<1>0. last \in FileWriter /\ last' \in FileWriter
  BY DEF TypeInv, FieldType
<1>1. SUFFICES ASSUME last'.i # 0, berr' = "nil", made'[last'.i] # -1
               PROVE  last'.comp = Compressed'
  BY Zenon DEF CompInv
<1>2. berr = "nil"
  BY <1>1, ErrorStays, Zenon
<1>3. ASSUME last'.i = last.i PROVE last.comp = Compressed /\ Taken
  <2>1. last.i \in 1 .. Len(dir)
    <3>1. Len(dir) \in Nat
      <4>1. dir \in Seq([fh : DOMAIN fhs, offset : Nat])
        BY DEF TypeInv, FieldType
      <4> QED  BY <4>1
    <3> QED  BY <3>1, <1>0, <1>1, <1>3 DEF FileWriter, ControlInv, LastInv
  <2>2. made[last.i] # -1
    BY <1>1, <1>3, <2>1, SpoiledStays, Zenon
  <2> QED  BY <1>1, <1>2, <1>3, <2>2, Zenon DEF CompInv, OpenInv
<1>4. /\ last.raw \in Nat /\ last.comp \in Nat /\ last.pending \in Seq(Units)
      /\ Len(last.pending) \in Nat
  BY <1>0 DEF FileWriter
<1>5. CASE Aside
  <2>1. UNCHANGED last /\ (pc' = "comp" <=> pc = "comp")
    BY <1>5, AsideLeaves, AsideCalls
  <2> QED  BY <2>1, <1>3, Zenon DEF Compressed
<1>6. CASE Closing
  <2>1. /\ pc = "idle" /\ last'.i = last.i
        /\ \/ last.closed /\ pc' \in {"create", "close"} /\ UNCHANGED last
           \/ ~last.closed /\ pc' = "comp"
    BY <1>6, ClosingLeaves
  <2>2. CASE last.closed
    <3>1. UNCHANGED last /\ pc # "comp" /\ pc' # "comp"
      BY <2>1, <2>2
    <3> QED  BY <3>1, <2>1, <1>3, Zenon DEF Compressed
  <2>3. CASE ~last.closed
    <3>1. last' = [last EXCEPT !.closed = TRUE] /\ pc' = "comp"
      BY <1>6, <2>3 DEF Closing, Close, CreateHeader, CloseLast
    <3>2. /\ last'.comp = last.comp /\ last'.raw = last.raw /\ last'.pending = last.pending
          /\ last'.kind = last.kind
      BY <3>1, <1>0 DEF FileWriter
    <3> QED  BY <3>1, <3>2, <2>1, <2>3, <1>3, Zenon DEF Compressed
  <2> QED  BY <2>2, <2>3
<1>7. ASSUME NEW m \in Chunks, Write(m) PROVE last'.comp = Compressed'
  <2>1. /\ ~last.closed /\ last'.i = last.i /\ last'.kind = last.kind
        /\ last'.closed = last.closed
        /\ last'.raw = last.raw + m
        /\ \/ /\ last.kind = "Deflate"
              /\ last'.pending = last.pending \o Run(last.i, last.raw, m)
           \/ last.kind # "Deflate" /\ last'.pending = last.pending
    BY <1>1, <1>7, WriteDoes, Zenon
  <2>2. m \in Nat
    BY <1>7, ZipWriterAssumption
  <2>3. last.comp = (IF last.kind = "Deflate" THEN last.raw - Len(last.pending) ELSE last.raw)
    BY <2>1, <1>3, <1>4 DEF Compressed
  <2>4. Compressed' = (IF last.kind = "Deflate" THEN last'.raw - Len(last'.pending)
                       ELSE last'.raw)
    <3>1. last'.raw \in Nat /\ Len(last'.pending) \in Nat
      BY <1>0 DEF FileWriter
    <3> QED  BY <2>1, <3>1 DEF Compressed
  <2>5. CASE last.kind = "Deflate"
    <3>1. last'.comp = last.comp
      BY <1>0, <1>7, <2>5 DEF Write, FileWriter
    <3>2. Len(last'.pending) = Len(last.pending) + m
      <4>1. last.i \in Nat
        BY <1>0 DEF FileWriter
      <4>2. Run(last.i, last.raw, m) \in Seq(Units) /\ Len(Run(last.i, last.raw, m)) = m
        BY <4>1, <1>4, <2>2, RunType
      <4>3. PICK s \in Seq(Units), t \in Seq(Units) :
               s = last.pending /\ t = Run(last.i, last.raw, m) /\ Len(t) = m
        BY <4>2, <1>4
      <4>4. last'.pending = s \o t
        BY <4>3, <2>1, <2>5, Zenon
      <4>5. Len(s \o t) = Len(s) + m
        <5>1. \A u, v \in Seq(Units) : Len(u \o v) = Len(u) + Len(v)
          OBVIOUS
        <5> QED  BY <5>1, <4>3, Zenon
      <4> QED  BY <4>3, <4>4, <4>5, Zenon
    <3>3. PICK r \in Nat, l \in Nat : r = last.raw /\ l = Len(last.pending)
      BY <1>4
    <3>4. (r + m) - (l + m) = r - l
      BY <2>2
    <3> QED  BY <3>1, <3>2, <3>3, <3>4, <2>1, <2>3, <2>4, <2>5, Zenon
  <2>6. CASE last.kind # "Deflate"
    <3>1. last'.comp = last.comp + m
      <4>1. PICK u : u = [k \in 1 .. m |-> <<last.i, last.raw + k>>]
        OBVIOUS
      <4>2. PICK v : v = last.sum \o u
        OBVIOUS
      <4>3. \/ last' = [[[last EXCEPT !.sum = v, !.writes = @ + 1]
                          EXCEPT !.raw = @ + m] EXCEPT !.comp = @ + m]
            \/ Write_(Raw(last.i, last.raw, m), "io")
        BY <4>1, <4>2, <1>7, <2>6 DEF Write
      <4>4. ~Write_(Raw(last.i, last.raw, m), "io")
        BY <1>1 DEF Write_
      <4> QED  BY <4>3, <4>4, <1>0 DEF FileWriter
    <3> QED  BY <3>1, <2>1, <2>3, <2>4, <2>6, Zenon
  <2> QED  BY <2>5, <2>6
<1>8. CASE Deliver
  <2>1. /\ last'.i = last.i /\ last'.kind = last.kind /\ last'.closed = last.closed
        /\ last'.raw = last.raw /\ last'.pending = <<>> /\ UNCHANGED pc
        /\ last.pending # <<>>
    BY <1>8, DeliverDoes
  <2>2. last'.comp = last.comp + Len(last.pending)
    <3>1. PICK e \in Outcomes :
        /\ Write_(Deflated(last.pending), e)
        /\ last' = [last EXCEPT !.comp = IF e = "nil" THEN @ + Len(last.pending) ELSE @,
                                !.pending = <<>>]
      BY <1>8 DEF Deliver
    <3>2. e = "nil"
      BY <3>1, <1>1 DEF Write_, Outcomes
    <3> QED  BY <3>1, <3>2, <1>0 DEF FileWriter
  <2>3. last.kind = "Deflate"
    BY <2>1 DEF ControlInv, LastInv
  <2>4. ~(last.closed /\ pc # "comp")
    BY <2>1 DEF ControlInv, CallInv
  <2>5. PICK r \in Nat, l \in Nat, c \in Nat :
          r = last.raw /\ l = Len(last.pending) /\ c = last.comp
    BY <1>4
  <2>6. c = (r - l) + 0
    BY <2>1, <2>3, <2>4, <2>5, <1>3, Zenon DEF Compressed
  <2>7. Compressed' = (r - 0) + 0
    <3>1. Len(<<>>) = 0
      OBVIOUS
    <3> QED  BY <3>1, <2>1, <2>3, <2>4, <2>5, Zenon DEF Compressed
  <2>8. c + l = (r - 0) + 0
    BY <2>5, <2>6
  <2> QED  BY <2>2, <2>5, <2>7, <2>8, Zenon
<1>9. CASE CompClose
  <2>1. /\ pc = "comp" /\ last'.i = last.i /\ last'.kind = last.kind
        /\ last'.closed = last.closed
        /\ last'.raw = last.raw /\ last'.pending = last.pending
    BY <1>9, CompCloseDoes
  <2>2. last.closed /\ last.i \in DOMAIN made
    <3>1. Len(made) = Len(dir) /\ made \in Seq(Nat \cup {-1}) /\ Len(made) \in Nat
      BY DEF TypeInv, HistType, ControlInv, DirInv
    <3> QED  BY <2>1, <3>1, <1>0 DEF ControlInv, CallInv, LastInv, FileWriter
  <2>3. CASE last.kind # "Deflate"
    <3>1. last'.comp = last.comp
      BY <1>9, <2>3 DEF CompClose
    <3> QED  BY <3>1, <2>1, <2>3, <1>3, Zenon DEF Compressed
  <2>4. CASE last.kind = "Deflate"
    <3>1. /\ last.pending = <<>>
          /\ \E e \in Outcomes :
               /\ Write_(FinalBlock, e)
               /\ IF e = "nil" THEN /\ last' = [last EXCEPT !.comp = @ + 1]
                                    /\ Goes("descriptor") /\ UNCHANGED made
                               ELSE /\ made' = [made EXCEPT ![last.i] = -1]
                                    /\ Returns(Op, e) /\ UNCHANGED last
      BY <1>9, <2>4 DEF CompClose
    <3>2. PICK e \in Outcomes : Write_(FinalBlock, e) /\
            (e = "nil" => last' = [last EXCEPT !.comp = @ + 1] /\ Goes("descriptor"))
      BY <3>1
    <3>3. e = "nil"
      BY <3>2, <1>1 DEF Write_, Outcomes
    <3>4. last'.comp = last.comp + 1 /\ pc' # "comp"
      BY <3>2, <3>3, <1>0 DEF FileWriter, Goes
    <3>5. PICK r \in Nat, l \in Nat, c \in Nat :
          r = last.raw /\ l = Len(last.pending) /\ c = last.comp
      BY <1>4
    <3>6. c = (r - l) + 0
      BY <3>5, <2>1, <2>4, <1>3, Zenon DEF Compressed
    <3>7. Compressed' = (r - l) + 1
      BY <3>4, <3>5, <2>1, <2>2, <2>4, Zenon DEF Compressed
    <3>8. c + 1 = (r - l) + 1
      BY <3>5, <3>6
    <3> QED  BY <3>4, <3>5, <3>7, <3>8, Zenon
  <2> QED  BY <2>3, <2>4
<1>10. CASE Create
  <2>1. pc # "comp" /\ pc' # "comp"
    BY <1>10, CreateDoes
  <2>2. CASE UNCHANGED last
    BY <2>1, <2>2, <1>3, Zenon DEF Compressed
  <2>3. CASE last' = [NoWriter EXCEPT !.i = Len(dir) + 1,
                       !.kind = compressor(Prepared(fhs[arg]).method), !.closed = FALSE]
    <3>1. last'.comp = 0 /\ last'.raw = 0 /\ last'.pending = <<>> /\ ~last'.closed
      BY <2>3 DEF NoWriter
    <3>2. Len(<<>>) = 0 /\ (0 - 0) + 0 = 0
      OBVIOUS
    <3> QED  BY <3>1, <3>2, Zenon DEF Compressed
  <2> QED  BY <2>2, <2>3, <1>10, Zenon DEF Create
<1> QED  BY <1>5, <1>6, <1>7, <1>8, <1>9, <1>10, NextParts

\* No other element of the first n of d has the FileHeader of element i.
Alone(i, n, d) == \A j \in 1 .. n : j # i => d[j].fh # d[i].fh

\* The header has the checksum and the sizes of the entry i of n units.
Summed(fh, i, n) ==
  /\ fh.crc = Run(i, 0, n) /\ fh.usize64 = n
  /\ fh.csize64 = Len(Data(i, fh.method, n, TRUE))
SumInv ==
  berr = "nil" => \A i \in 1 .. Len(dir) :
    (made[i] # -1 /\ Done(i) /\ Alone(i, Len(dir), dir)) => Summed(fhs[dir[i].fh], i, made[i])

\* The length of the data of an entry.
LEMMA DataLength ==
  ASSUME NEW i \in Nat, NEW n \in Nat, NEW method
  PROVE  Len(Data(i, method, n, TRUE)) = IF method = "Deflate" THEN n + 1 ELSE n
<1>1. CASE method = "Deflate"
  <2>1. IsSeq(Deflated(Run(i, 0, n))) /\ Len(Deflated(Run(i, 0, n))) = n
    BY DeflatedRun
  <2>2. IsSeq(FinalBlock) /\ Len(FinalBlock) = 1
    <3>1. FinalBlock \in Seq({[t |-> "final"]}) /\ Len(FinalBlock) = 1
      BY DEF FinalBlock
    <3> QED  BY <3>1, SeqIsSeq
  <2>3. Len(Deflated(Run(i, 0, n)) \o FinalBlock) = n + 1
    <3>1. PICK a, b : a = Deflated(Run(i, 0, n)) /\ b = FinalBlock
      OBVIOUS
    <3>2. IsSeq(a) /\ IsSeq(b) /\ Len(a) = n /\ Len(b) = 1
      BY <2>1, <2>2, <3>1, Zenon
    <3>3. Len(a \o b) = Len(a) + Len(b)
      BY <3>2, Concat
    <3> QED  BY <3>1, <3>2, <3>3, Zenon
  <2> QED  BY <1>1, <2>3, Zenon DEF Data
<1>2. CASE method # "Deflate"
  <2>1. Len(Raw(i, 0, n)) = n
    BY DEF Raw
  <2> QED  BY <1>2, <2>1, Zenon DEF Data
<1> QED  BY <1>1, <1>2

\* What was written into an entry that is closed stays, or is spoiled.
LEMMA ClosedMade ==
  ASSUME TypeInv, ControlInv, [Next]_vars, NEW i \in 1 .. Len(dir),
         i # last.i \/ last.closed, made'[i] # -1
  PROVE  made'[i] = made[i]
<1>0. made \in Seq(Nat \cup {-1}) /\ Len(made) = Len(dir) /\ i \in DOMAIN made
  BY DEF TypeInv, HistType, ControlInv, DirInv
<1>1. CASE UNCHANGED made
  BY <1>1, Zenon
<1>2. CASE Aside
  BY <1>1, <1>2, AsideLeaves
<1>3. CASE Closing
  BY <1>1, <1>3, ClosingLeaves
<1>4. CASE \E m \in Chunks : Write(m)
  <2>1. PICK m \in Chunks : Write(m)
    BY <1>4
  <2>2. ~last.closed /\ (made' = made \/ made' = [made EXCEPT ![last.i] = @ + m])
    BY <2>1, WriteDoes
  <2> QED  BY <2>2, <1>0, <1>1
<1>5. CASE Deliver
  BY <1>1, <1>5, DeliverDoes
<1>6. CASE CompClose
  <2>1. UNCHANGED made \/ made' = [made EXCEPT ![last.i] = -1]
    BY <1>6 DEF CompClose
  <2> QED  BY <2>1, <1>0
<1>7. CASE Create
  <2>1. PICK x : made' = Append(made, x)
    BY <1>7, CreateDoes
  <2> QED  BY <2>1, <1>0
<1> QED  BY <1>2, <1>3, <1>4, <1>5, <1>6, <1>7, NextParts

\* An entry is done when its descriptor is written, not before.
LEMMA DoneBefore ==
  ASSUME TypeInv, ControlInv, [Next]_vars, ~Descriptor, NEW i \in 1 .. Len(dir), made'[i] # -1,
         Done(i)'
  PROVE  Done(i)
<1>1. SUFFICES ASSUME i = last.i PROVE last.closed /\ pc \notin {"comp", "descriptor"}
  BY DEF Done
<1>2. CASE Aside
  BY <1>1, <1>2, AsideLeaves, AsideCalls DEF Done
<1>3. CASE Closing
  BY <1>1, <1>3, ClosingLeaves DEF Done
<1>4. CASE \E m \in Chunks : Write(m)
  BY <1>1, <1>4, WriteDoes DEF Done
<1>5. CASE Deliver
  BY <1>1, <1>5, DeliverDoes DEF Done
<1>6. CASE CompClose
  <2>1. made \in Seq(Nat \cup {-1}) /\ Len(made) = Len(dir) /\ i \in DOMAIN made
    BY DEF TypeInv, HistType, ControlInv, DirInv
  <2>2. pc' = "descriptor" /\ last'.i = last.i
    <3>1. last'.i = last.i
      BY <1>6, CompCloseDoes
    <3>2. pc' = "descriptor" \/ made' = [made EXCEPT ![last.i] = -1]
      BY <1>6 DEF CompClose, Goes
    <3> QED  BY <3>1, <3>2, <2>1, <1>1
  <2> QED  BY <2>2, <1>1 DEF Done
<1>7. CASE Create
  <2>1. pc = "create"
    BY <1>7, CreateDoes
  <2> QED  BY <2>1 DEF ControlInv, CallInv
<1> QED  BY <1>2, <1>3, <1>4, <1>5, <1>6, <1>7, NextParts

\* Only Descriptor changes what a header says of the data.
LEMMA SumsKept ==
  ASSUME TypeInv, ControlInv, [Next]_vars, ~Descriptor, NEW p \in DOMAIN fhs
  PROVE  /\ fhs'[p].crc = fhs[p].crc /\ fhs'[p].csize64 = fhs[p].csize64
         /\ fhs'[p].usize64 = fhs[p].usize64 /\ fhs'[p].method = fhs[p].method
<1>0. fhs \in [DOMAIN fhs -> FileHeader]
  BY DEF TypeInv, FieldType
<1>1. CASE UNCHANGED fhs
  BY <1>1, Zenon
<1>2. CASE \E r \in DOMAIN fhs : \E g \in FileHeader :
             Changed(r, g) /\ fhs[r] \in FileHeader /\ Becomes(fhs[r], g)
  <2>1. PICK r \in DOMAIN fhs, g \in FileHeader : Changed(r, g) /\ fhs[r] \in FileHeader
    BY <1>2
  <2>2. \/ g = Prepared(fhs[r])
        \/ g = [fhs[r] EXCEPT !.extra = Listed(dir[pos.k]).extra]
    BY <2>1, Zenon DEF Changed
  <2>3. /\ g.crc = fhs[r].crc /\ g.csize64 = fhs[r].csize64
        /\ g.usize64 = fhs[r].usize64 /\ g.method = fhs[r].method
    <3>1. CASE g = Prepared(fhs[r])
      BY <2>1, <3>1 DEF Prepared, FileHeader
    <3>2. CASE g = [fhs[r] EXCEPT !.extra = Listed(dir[pos.k]).extra]
      <4>1. PICK x : g = [fhs[r] EXCEPT !.extra = x]
        BY <3>2
      <4> QED  BY <2>1, <4>1 DEF FileHeader
    <3> QED  BY <2>2, <3>1, <3>2
  <2>4. fhs' = [fhs EXCEPT ![r] = g]
    BY <2>1, Zenon DEF Changed
  <2> QED  BY <2>3, <2>4, <1>0
<1> QED  BY <1>1, <1>2, HeaderSteps, Zenon

\* What the descriptor says is what was written.
LEMMA SumsWritten ==
  ASSUME TypeInv, ControlInv, OpenInv, CompInv, Descriptor, berr = "nil", made[last.i] # -1
  PROVE  LET p == dir[last.i].fh IN Summed(fhs'[p], last.i, made[last.i])
<1>0. last \in FileWriter /\ FieldType
  BY DEF TypeInv, FieldType
<1>1. pc = "descriptor" /\ last.i \in 1 .. Len(dir) /\ last.closed /\ last.i # 0
  <2>1. pc = "descriptor"
    BY DEF Descriptor
  <2> QED  BY <2>1, <1>0 DEF ControlInv, CallInv, LastInv, TypeInv, FieldType, FileWriter
<1>2. PICK p \in DOMAIN fhs : p = dir[last.i].fh /\ fhs[p] \in FileHeader
  BY <1>0, <1>1, DirElement, Zenon
<1>3. fhs'[p] = Updated(fhs[p])
  <2>1. fhs' = [fhs EXCEPT ![p] = Updated(fhs[p])]
    BY <1>2, Zenon DEF Descriptor
  <2> QED  BY <2>1, <1>2, Zenon
<1>4. /\ fhs'[p].crc = last.sum /\ fhs'[p].usize64 = last.raw /\ fhs'[p].csize64 = last.comp
      /\ fhs'[p].method = fhs[p].method
  <2>1. PICK f : f = [fhs[p] EXCEPT !.crc = last.sum, !.csize64 = last.comp, !.usize64 = last.raw]
    OBVIOUS
  <2>2. PICK c, u : Updated(fhs[p]) = [f EXCEPT !.csize = c, !.usize = u]
    BY <2>1 DEF Updated
  <2>3. PICK y, z : /\ y = fhs[p] /\ y \in FileHeader
                    /\ z = fhs'[p] /\ z = [f EXCEPT !.csize = c, !.usize = u]
    BY <2>2, <1>2, <1>3, Zenon
  <2>4. f = [y EXCEPT !.crc = last.sum, !.csize64 = last.comp, !.usize64 = last.raw]
    BY <2>1, <2>3
  <2>5. z.crc = last.sum /\ z.usize64 = last.raw /\ z.csize64 = last.comp /\ z.method = y.method
    BY <2>3, <2>4 DEF FileHeader
  <2> QED  BY <2>3, <2>5, Zenon
<1>5. PICK i \in Nat, n \in Nat : i = last.i /\ n = last.raw
  BY <1>0 DEF FileWriter
<1>6. last.sum = Run(i, 0, n) /\ made[last.i] = n
  BY <1>1, <1>5, Zenon DEF OpenInv, Taken
<1>7. last.kind = "Deflate" <=> fhs[p].method = "Deflate"
  BY <1>1, <1>2 DEF OpenInv, Method
<1>8. last.comp = IF fhs[p].method = "Deflate" THEN n + 1 ELSE n
  <2>1. last.pending = <<>> /\ Len(<<>>) = 0
    BY <1>1 DEF ControlInv, CallInv
  <2>2. last.comp = Compressed
    BY <1>1, Zenon DEF CompInv
  <2>3. pc # "comp"
    BY <1>1
  <2>4. last.comp = IF last.kind = "Deflate" THEN (n - 0) + 1 ELSE n
    BY <2>1, <2>2, <2>3, <1>1, <1>5, Zenon DEF Compressed
  <2>5. (n - 0) + 1 = n + 1
    OBVIOUS
  <2> QED  BY <2>4, <2>5, <1>7, Zenon
<1>9. last.comp = Len(Data(i, fhs[p].method, n, TRUE))
  <2>1. Len(Data(i, fhs[p].method, n, TRUE)) = IF fhs[p].method = "Deflate" THEN n + 1 ELSE n
    BY DataLength
  <2> QED  BY <2>1, <1>8, Zenon
<1>10. Summed(fhs'[p], i, n)
  BY <1>4, <1>5, <1>6, <1>9, Zenon DEF Summed
<1> QED  BY <1>2, <1>5, <1>6, <1>10, Zenon

\* The headers keep the sums.
LEMMA SumStep ==
  ASSUME TypeInv, ControlInv, CountInv, OpenInv, CompInv, SumInv, [Next]_vars
  PROVE  SumInv'
<1>1. SUFFICES ASSUME berr' = "nil", NEW i \in 1 .. Len(dir'), made'[i] # -1, Done(i)',
                      Alone(i, Len(dir'), dir')
               PROVE  Summed(fhs'[dir'[i].fh], i, made'[i])
  BY Zenon DEF SumInv
<1>2. berr = "nil"
  BY <1>1, ErrorStays
<1>3. i \in 1 .. Len(dir)
  <2>1. SUFFICES ASSUME i \notin 1 .. Len(dir) PROVE FALSE
    OBVIOUS
  <2>2. Create /\ i = Len(dir) + 1
    BY <1>1, <2>1, DirectoryGrows, Zenon
  <2>3. Len(made) = Len(dir) /\ made \in Seq(Nat \cup {-1})
    BY DEF TypeInv, HistType, ControlInv, DirInv
  <2>4. CASE made' = Append(made, -1)
    BY <2>2, <2>3, <2>4, <1>1
  <2>5. CASE last'.i = Len(dir) + 1 /\ ~last'.closed
    BY <2>2, <2>5, <1>1, Zenon DEF Done
  <2> QED  BY <2>2, <2>4, <2>5, CreateDoes, Zenon
<1>4. dir'[i] = dir[i]
  BY <1>3, DirStays, Zenon
<1>5. Alone(i, Len(dir), dir)
  <2>1. ASSUME NEW j \in 1 .. Len(dir), j # i PROVE dir[j].fh # dir[i].fh
    <3>1. j \in 1 .. Len(dir') /\ dir'[j] = dir[j]
      BY <2>1, DirStays, Zenon
    <3> QED  BY <3>1, <2>1, <1>1, <1>4, Zenon DEF Alone
  <2> QED  BY <2>1, Zenon DEF Alone
<1>6. made[i] # -1
  BY <1>1, <1>3, SpoiledStays, Zenon
<1>7. PICK p \in DOMAIN fhs : p = dir[i].fh
  BY <1>3, DirElement DEF TypeInv
<1>8. CASE Descriptor /\ i = last.i
  <2>1. made' = made
    BY <1>8, AsideLeaves DEF Aside
  <2>2. Summed(fhs'[dir[i].fh], i, made[i])
    BY <1>2, <1>6, <1>8, SumsWritten, Zenon
  <2> QED  BY <2>1, <2>2, <1>4, Zenon
<1>9. ASSUME Done(i), made'[i] = made[i], fhs'[p].crc = fhs[p].crc,
             fhs'[p].csize64 = fhs[p].csize64, fhs'[p].usize64 = fhs[p].usize64,
             fhs'[p].method = fhs[p].method
      PROVE  Summed(fhs'[dir'[i].fh], i, made'[i])
  <2>1. Summed(fhs[p], i, made[i])
    BY <1>2, <1>3, <1>5, <1>6, <1>7, <1>9, Zenon DEF SumInv
  <2> QED  BY <2>1, <1>4, <1>7, <1>9, Zenon DEF Summed
<1>10. CASE Descriptor /\ i # last.i
  <2>1. made' = made
    BY <1>10, AsideLeaves DEF Aside
  <2>2. pc = "descriptor" /\ fhs' = [fhs EXCEPT ![dir[last.i].fh] = Updated(@)]
    BY <1>10, Zenon DEF Descriptor
  <2>3. last.i \in 1 .. Len(dir)
    BY <2>2 DEF ControlInv, CallInv, LastInv, TypeInv, FieldType, FileWriter
  <2>4. dir[last.i].fh # p
    BY <2>3, <1>5, <1>7, <1>10, Zenon DEF Alone
  <2>5. fhs'[p] = fhs[p]
    BY <2>2, <2>4, <1>7, Zenon
  <2>6. Done(i)
    BY <1>10 DEF Done
  <2> QED  BY <2>1, <2>5, <2>6, <1>9, Zenon
<1>11. CASE ~Descriptor
  <2>1. Done(i)
    BY <1>1, <1>3, <1>11, DoneBefore, Zenon
  <2>2. made'[i] = made[i]
    <3>1. i # last.i \/ last.closed
      BY <2>1, Zenon DEF Done
    <3> QED  BY <3>1, <1>1, <1>3, ClosedMade, Zenon
  <2> QED  BY <2>1, <2>2, <1>7, <1>9, <1>11, SumsKept, Zenon
<1> QED  BY <1>8, <1>10, <1>11, Zenon

\* Until the directory is written no Extra has a zip64 field, and then only those
\* of the headers listed so far, or of headers used twice.
Plain(fh) == fh.extra \in Seq({ExtTime})
PlainInv ==
  /\ ~closed => \A p \in DOMAIN fhs : Plain(fhs[p])
  /\ pc = "directory" => \A i \in 1 .. Len(dir) :
       (pos.k <= i /\ Alone(i, Len(dir), dir)) => Plain(fhs[dir[i].fh])

\* New headers have no Extra.
LEMMA PlainInit ==
  ASSUME Init PROVE PlainInv
<1>1. PICK hs \in HeaderSets : fhs = [p \in DOMAIN hs |-> NewFileHeader(hs[p])]
  BY DEF Init
<1>2. ASSUME NEW p \in DOMAIN fhs PROVE Plain(fhs[p])
  <2>1. fhs[p].extra = <<>>
    BY <1>1, <1>2 DEF NewFileHeader
  <2> QED  BY <2>1 DEF Plain
<1>3. pc # "directory"
  BY DEF Init
<1> QED  BY <1>2, <1>3 DEF PlainInv

\* Fields are added as described.
LEMMA PlainStep ==
  ASSUME TypeInv, ControlInv, CountInv, OpenInv, PhaseInv, PlainInv, [Next]_vars
  PROVE  PlainInv'
<1>0. Phase /\ fhs \in [DOMAIN fhs -> FileHeader]
  BY Phases DEF TypeInv, FieldType
<1>1. ASSUME ~closed', NEW p \in DOMAIN fhs' PROVE Plain(fhs'[p])
  <2>1. ~closed
    BY <1>0, <1>1, Zenon DEF Phase
  <2>2. CASE UNCHANGED fhs
    BY <2>1, <2>2, <1>1, Zenon DEF PlainInv
  <2>3. CASE \E r \in DOMAIN fhs : \E g \in FileHeader :
               Changed(r, g) /\ fhs[r] \in FileHeader /\ Becomes(fhs[r], g)
    <3>1. PICK r \in DOMAIN fhs, g \in FileHeader : Changed(r, g) /\ fhs[r] \in FileHeader
      BY <2>3
    <3>2. fhs' = [fhs EXCEPT ![r] = g]
      BY <3>1, Zenon DEF Changed
    <3>3. p \in DOMAIN fhs
      BY <3>2, <1>1
    <3>4. Plain(fhs[r]) /\ Plain(fhs[p])
      BY <3>1, <3>3, <2>1, Zenon DEF PlainInv
    <3>5. Plain(g)
      <4>1. ~DirectoryHeader
        BY <2>1 DEF PhaseInv, DirectoryHeader
      <4>2. CASE g = Prepared(fhs[r])
        <5>1. g.extra = fhs[r].extra \/ g.extra = Append(fhs[r].extra, ExtTime)
          BY <4>2, <3>1 DEF Prepared, FileHeader
        <5>2. \A x \in Seq({ExtTime}) : Append(x, ExtTime) \in Seq({ExtTime})
          OBVIOUS
        <5> QED  BY <5>1, <5>2, <3>4, Zenon DEF Plain
      <4>3. CASE g = Updated(fhs[r])
        <5>1. PICK f : f = [fhs[r] EXCEPT !.crc = last.sum, !.csize64 = last.comp,
                                          !.usize64 = last.raw]
          OBVIOUS
        <5>2. PICK c, u : g = [f EXCEPT !.csize = c, !.usize = u]
          BY <4>3, <5>1 DEF Updated
        <5>3. PICK y : y = fhs[r] /\ y \in FileHeader
          BY <3>1
        <5>4. g.extra = y.extra
          BY <5>1, <5>2, <5>3 DEF FileHeader
        <5> QED  BY <5>3, <5>4, <3>4, Zenon DEF Plain
      <4> QED  BY <3>1, <4>1, <4>2, <4>3, Zenon DEF Changed
    <3> QED  BY <3>2, <3>3, <3>4, <3>5, Zenon
  <2> QED  BY <2>2, <2>3, HeaderSteps, Zenon
<1>2. ASSUME pc' = "directory", NEW i \in 1 .. Len(dir'), pos'.k <= i,
             Alone(i, Len(dir'), dir')
      PROVE  Plain(fhs'[dir'[i].fh])
  <2>1. CASE UNCHANGED vars
    <3>1. UNCHANGED <<pc, pos, dir, fhs>>
      BY <2>1 DEF vars
    <3> QED  BY <3>1, <1>2, Zenon DEF PlainInv
  <2>2. CASE CloseStart
    <3>1. ~closed /\ UNCHANGED <<dir, fhs>>
      BY <2>2 DEF CloseStart
    <3>2. dir[i].fh \in DOMAIN fhs
      BY <3>1, <1>2, DirElement DEF TypeInv
    <3> QED  BY <3>1, <3>2, Zenon DEF PlainInv
  <2>3. CASE DirectoryHeader /\ pos' = [pos EXCEPT !.k = @ + 1]
    <3>1. /\ pc = "directory" /\ UNCHANGED dir /\ pos.k <= Len(dir)
          /\ fhs' = [fhs EXCEPT ![dir[pos.k].fh].extra = Listed(dir[pos.k]).extra]
      BY <2>3, Zenon DEF DirectoryHeader
    <3>2. PICK k \in Nat : k = pos.k /\ k \in 1 .. Len(dir)
      BY <3>1 DEF TypeInv, CallType, FieldType, ControlInv, CallInv
    <3>3. pos'.k = k + 1
      <4>1. pos \in [k : Nat, start : Nat]
        BY DEF TypeInv, CallType
      <4> QED  BY <4>1, <3>2, <2>3
    <3>4. i \in 1 .. Len(dir) /\ k <= i /\ i # k
      <4>1. i \in 1 .. Len(dir)
        BY <3>1, <1>2
      <4>2. k + 1 <= i /\ i \in Nat
        BY <3>3, <1>2, <4>1
      <4> QED  BY <4>1, <4>2, <3>2
    <3>5. Alone(i, Len(dir), dir)
      BY <3>1, <1>2
    <3>6. dir[k].fh # dir[i].fh
      BY <3>2, <3>4, <3>5, Zenon DEF Alone
    <3>7. fhs'[dir[i].fh] = fhs[dir[i].fh]
      <4>1. dir[i].fh \in DOMAIN fhs
        BY <3>4, DirElement DEF TypeInv
      <4> QED  BY <4>1, <3>1, <3>2, <3>6, Zenon
    <3>8. Plain(fhs[dir[i].fh])
      BY <3>1, <3>2, <3>4, <3>5, Zenon DEF PlainInv
    <3> QED  BY <3>1, <3>7, <3>8, Zenon
  <2> QED  BY <1>0, <1>2, <2>1, <2>2, <2>3, Zenon DEF Phase
<1> QED  BY <1>1, <1>2, Zenon DEF PlainInv

\* After Close no entry that was listed is open, and each is complete in the file.
Whole(i) == EntryOK(out, dir[i].offset - base, Data(i, Method(i), made[i], TRUE), TRUE,
                    Run(i, 0, made[i]))
WholeInv ==
  sealed => /\ last.i > listed \/ last.closed
            /\ \A i \in 1 .. listed : made[i] # -1 => Whole(i)

\* When Close flushes they are.
LEMMA WholeStarts ==
  ASSUME TypeInv, ControlInv, OpenInv, EntriesInv, PhaseInv, [Next]_vars, CloseFlush,
         sealed', ~sealed, NEW i \in 1 .. listed', made'[i] # -1
  PROVE  Whole(i)'
<1>1. pc = "finish" /\ UNCHANGED <<listed, base, dir, fhs, made, last>>
  BY DEF CloseFlush
<1>2. out' = out \o buf
  <2>1. CASE FlushError /\ Returns("Close", "io")
    <3>1. sealed' = (sealed \/ ("Close" = "Close" /\ "io" = "nil"))
      BY <2>1, Zenon DEF Returns
    <3>2. "io" # "nil"
      OBVIOUS
    <3> QED  BY <3>1, <3>2, Zenon
  <2> QED  BY <2>1, Zenon DEF CloseFlush
<1>3. berr = "nil" /\ All = out' /\ last.closed /\ pc # "comp" /\ pc # "descriptor"
  BY <1>1, <1>2 DEF PhaseInv, OpenInv, All
<1>4. i \in 1 .. Len(dir) /\ made[i] # -1
  <2>1. Len(dir) \in Nat
    <3>1. dir \in Seq([fh : DOMAIN fhs, offset : Nat])
      BY DEF TypeInv, FieldType
    <3> QED  BY <3>1
  <2>2. listed \in Nat /\ listed <= Len(dir) /\ i \in 1 .. listed
    BY <1>1 DEF TypeInv, HistType, PhaseInv
  <2> QED  BY <2>1, <2>2, <1>1
<1>5. Done(i) /\ Finished(i)
  BY <1>3 DEF Done, Finished
<1>6. EntryOK(All, dir[i].offset - base, EntryData(i), Done(i), Contents(i))
  BY <1>3, <1>4, Zenon DEF EntriesInv, EntryInv
<1>7. DataNow(i)
  BY <1>3, <1>4, EntryDataIs, Zenon DEF DataIs
<1>8. EntryOK(out', dir[i].offset - base, Data(i, Method(i), made[i], TRUE), TRUE,
              Run(i, 0, made[i]))
  <2>1. EntryOK(out', dir[i].offset - base, Data(i, Method(i), made[i], TRUE), Done(i),
                Run(i, 0, made[i]))
    BY <1>3, <1>5, <1>6, <1>7, Zenon DEF DataNow
  <2> QED  BY <2>1, <1>5, Zenon DEF EntryOK
<1> QED  BY <1>1, <1>8, Zenon DEF Whole, Method

\* They stay.
LEMMA WholeStays ==
  ASSUME TypeInv, ControlInv, CountInv, OpenInv, PhaseInv, WholeInv, [Next]_vars, sealed,
         NEW i \in 1 .. listed', made'[i] # -1
  PROVE  Whole(i)'
<1>0. Phase
  BY Phases
<1>1. ~End
  BY DEF PhaseInv, End
<1>2. UNCHANGED listed
  BY <1>0, <1>1, Zenon DEF Phase
<1>3. UNCHANGED base
  <2>1. count \in Nat /\ count > 0
    BY DEF TypeInv, BufType, PhaseInv
  <2>2. ~SetOffset
    BY <2>1 DEF SetOffset
  <2> QED  BY <1>0, <2>2, Zenon DEF Phase
<1>4. i \in 1 .. Len(dir) /\ (i # last.i \/ last.closed)
  <2>1. Len(dir) \in Nat
    <3>1. dir \in Seq([fh : DOMAIN fhs, offset : Nat])
      BY DEF TypeInv, FieldType
    <3> QED  BY <3>1
  <2>2. listed \in Nat /\ listed <= Len(dir) /\ i \in 1 .. listed
    BY <1>2 DEF TypeInv, HistType, PhaseInv
  <2>3. last.i > listed => i # last.i
    BY <2>2
  <2> QED  BY <2>1, <2>2, <2>3 DEF WholeInv
<1>5. made'[i] = made[i] /\ made[i] # -1
  BY <1>4, ClosedMade, Zenon
<1>6. dir'[i] = dir[i] /\ Method(i)' = Method(i)
  BY <1>4, DirStays, Zenon
<1>7. PICK at, d, crc : /\ at = dir[i].offset - base /\ d = Data(i, Method(i), made[i], TRUE)
                        /\ crc = Run(i, 0, made[i])
  OBVIOUS
<1>8. EntryOK(out, at, d, TRUE, crc)
  BY <1>2, <1>5, <1>7, Zenon DEF WholeInv, Whole
<1>9. IsSeq(d)
  <2>1. i \in Nat /\ made[i] \in Nat
    <3>1. made \in Seq(Nat \cup {-1}) /\ Len(made) = Len(dir)
      BY DEF TypeInv, HistType, ControlInv, DirInv
    <3> QED  BY <3>1, <1>4, <1>5
  <2>2. \A method, ended : IsSeq(Data(i, method, made[i], ended))
    BY <2>1, DataGrows
  <2> QED  BY <2>2, <1>7, Zenon
<1>10. IsSeq(out) /\ IsSeq(buf)
  BY AllIsSeq
<1>11. EntryOK(out', at, d, TRUE, crc)
  <2>1. CASE out' = out
    BY <2>1, <1>8, Zenon
  <2>2. CASE out' = out \o buf
    <3>1. EntryOK(out \o buf, at, d, TRUE, crc)
      BY <1>8, <1>9, <1>10, EntryAppend
    <3> QED  BY <2>2, <3>1, Zenon
  <2> QED  BY <1>1, <2>1, <2>2, CalmStep, Zenon
<1> QED  BY <1>3, <1>5, <1>6, <1>7, <1>11, Zenon DEF Whole

\* So it is always.
LEMMA WholeStep ==
  ASSUME TypeInv, ControlInv, CountInv, OpenInv, EntriesInv, PhaseInv, WholeInv, [Next]_vars
  PROVE  WholeInv'
<1>0. Phase
  BY Phases
<1>1. SUFFICES ASSUME sealed'
               PROVE  /\ last'.i > listed' \/ last'.closed
                      /\ \A i \in 1 .. listed' : made'[i] # -1 => Whole(i)'
  BY Zenon DEF WholeInv
<1>2. ~sealed => CloseFlush
  BY <1>0, <1>1, Zenon DEF Phase
<1>3. ASSUME NEW i \in 1 .. listed', made'[i] # -1 PROVE Whole(i)'
  BY <1>1, <1>2, <1>3, WholeStarts, WholeStays, Zenon
<1>4. last'.i > listed' \/ last'.closed
  <2>1. CASE ~sealed
    <3>1. pc = "finish" /\ UNCHANGED last
      BY <2>1, <1>2 DEF CloseFlush
    <3>2. last'.closed
      BY <3>1 DEF OpenInv
    <3> QED  BY <3>2
  <2>2. CASE sealed
    <3>1. UNCHANGED listed
      <4>1. ~End
        BY <2>2 DEF PhaseInv, End
      <4> QED  BY <4>1, <1>0, Zenon DEF Phase
    <3>2. last.i > listed \/ last.closed
      BY <2>2, Zenon DEF WholeInv
    <3>3. ASSUME last'.i = last.i, last.closed => last'.closed
          PROVE  last'.i > listed' \/ last'.closed
      BY <3>1, <3>2, <3>3, Zenon
    <3>4. CASE Aside
      BY <3>3, <3>4, AsideLeaves, Zenon
    <3>5. CASE Closing
      BY <3>3, <3>5, ClosingLeaves, Zenon
    <3>6. CASE (\E m \in Chunks : Write(m)) \/ Deliver \/ CompClose
      BY <3>3, <3>6, WriteDoes, DeliverDoes, CompCloseDoes, Zenon
    <3>7. CASE Create
      <4>1. CASE UNCHANGED last
        BY <4>1, <3>3, Zenon
      <4>2. CASE last'.i = Len(dir) + 1
        <5>1. Len(dir) \in Nat
          <6>1. dir \in Seq([fh : DOMAIN fhs, offset : Nat])
            BY DEF TypeInv, FieldType
          <6> QED  BY <6>1
        <5>2. listed \in Nat /\ listed <= Len(dir)
          BY DEF TypeInv, HistType, PhaseInv
        <5>3. Len(dir) + 1 > listed
          BY <5>1, <5>2
        <5> QED  BY <5>3, <4>2, <3>1, Zenon
      <4> QED  BY <3>7, <4>1, <4>2, CreateDoes, Zenon
    <3> QED  BY <3>4, <3>5, <3>6, <3>7, NextParts
  <2> QED  BY <2>1, <2>2
<1> QED  BY <1>3, <1>4

\* Nothing is written in the beginning.
LEMMA TellInit ==
  ASSUME Init PROVE CompInv /\ SumInv /\ WholeInv
<1>1. last.i = 0 /\ dir = <<>> /\ ~sealed
  BY DEF Init, NoWriter
<1>2. ASSUME NEW i \in 1 .. Len(dir) PROVE FALSE
  BY <1>1
<1> QED  BY <1>1, <1>2, Zenon DEF CompInv, SumInv, WholeInv

-----------------------------------------------------------------------------
(* The directory grows, and stays readable.                                 *)

\* d and f become d2 and f2 in a step: the n first elements stay, headers age.
Aged(n, d, f, d2, f2) ==
  \A j \in 1 .. n :
    /\ d2[j] = d[j]
    /\ f[d[j].fh] \in FileHeader /\ f2[d[j].fh] \in FileHeader
    /\ Older(f[d[j].fh], f2[d[j].fh])

\* What is written behind the directory leaves it alone.
LEMMA ChainKept ==
  ASSUME NEW w, NEW b, IsSeq(w), IsSeq(b), NEW q, NEW g, NEW n, NEW d, NEW f, NEW d2, NEW f2,
         Chain(w, q, g, n, d, f), Aged(n, d, f, d2, f2)
  PROVE  Chain(w \o b, q, g, n, d2, f2)
<1>1. n \in Nat /\ q[0] \in Nat
  BY Zenon DEF Chain
<1>2. ASSUME NEW j \in 1 .. n
      PROVE  Link(w \o b, q[j - 1], q[j], d2[j], g[j], f2[d2[j].fh])
  <2>1. PICK h, fh, fh2 : h = d[j] /\ fh = f[d[j].fh] /\ fh2 = f2[d[j].fh]
    OBVIOUS
  <2>2. d2[j] = h /\ fh \in FileHeader /\ fh2 \in FileHeader /\ Older(fh, fh2)
    BY <2>1, Zenon DEF Aged
  <2>3. Link(w, q[j - 1], q[j], h, g[j], fh)
    BY <2>1, Zenon DEF Chain
  <2>4. PICK a, e, x : a = q[j - 1] /\ e = q[j] /\ x = g[j]
    OBVIOUS
  <2>5. Link(w, a, e, h, x, fh)
    BY <2>3, <2>4, Zenon
  <2>6. /\ x \in FileHeader /\ h.offset \in Nat /\ At(w, a, BytesOf(x, h.offset))
        /\ e = a + Len(BytesOf(x, h.offset))
        /\ SizesIn(x, h.offset) /\ Flagged(x) /\ Older(x, fh)
    BY <2>5, Zenon DEF Link
  <2>7. Older(x, fh2)
    BY <2>2, <2>6, OlderStill, Zenon
  <2>8. IsSeq(BytesOf(x, h.offset))
    BY <2>6, BytesAre
  <2>9. At(w \o b, a, BytesOf(x, h.offset))
    BY <2>6, <2>8, AtAppend, Zenon
  <2>10. Link(w \o b, a, e, h, x, fh2)
    BY <2>6, <2>7, <2>9, Zenon DEF Link
  <2>11. f2[d2[j].fh] = fh2
    BY <2>1, <2>2, Zenon
  <2> QED  BY <2>2, <2>4, <2>10, <2>11, Zenon
<1> QED  BY <1>1, <1>2, Zenon DEF Chain

\* The header that is written next is the next link.
LEMMA ChainNext ==
  ASSUME NEW w, IsSeq(w), NEW q, NEW g, NEW n, NEW d, NEW f, Chain(w, q, g, n, d, f),
         q[n] = Len(w), NEW m, m = n + 1, NEW x \in FileHeader, NEW o \in Nat, o = d[m].offset,
         SizesIn(x, o), Flagged(x), Older(x, f[d[m].fh])
  PROVE  \E q2, g2 : /\ Chain(w \o BytesOf(x, o), q2, g2, m, d, f)
                     /\ q2[0] = q[0] /\ q2[m] = Len(w \o BytesOf(x, o))
                     /\ g2[m] = x /\ \A j \in 1 .. n : g2[j] = g[j]
<1>1. n \in Nat /\ q[0] \in Nat /\ m \in Nat
  <2>1. n \in Nat /\ q[0] \in Nat
    BY Zenon DEF Chain
  <2> QED  BY <2>1
<1>2. PICK b : b = BytesOf(x, o)
  OBVIOUS
<1>3. IsSeq(b)
  BY <1>2, BytesAre
<1>4. PICK v : v = w \o b
  OBVIOUS
<1>5. At(v, Len(w), b) /\ Len(w) \in Nat /\ Len(b) \in Nat /\ Len(v) = Len(w) + Len(b)
  BY <1>3, <1>4, AtEnd, Zenon
<1> DEFINE q2 == [j \in 0 .. m |-> IF j = m THEN Len(v) ELSE q[j]]
           g2 == [j \in 1 .. m |-> IF j = m THEN x ELSE g[j]]
<1>6. 0 \in 0 .. m /\ m \in 0 .. m /\ m \in 1 .. m /\ 0 # m /\ n \in 0 .. m /\ n # m /\ m - 1 = n
  BY <1>1
<1>7. q2[0] = q[0] /\ q2[m] = Len(v) /\ q2[n] = q[n] /\ g2[m] = x
  BY <1>6, Zenon
<1>8. ASSUME NEW j \in 1 .. n
      PROVE  q2[j] = q[j] /\ q2[j - 1] = q[j - 1] /\ g2[j] = g[j]
  <2>1. j \in 0 .. m /\ j - 1 \in 0 .. m /\ j \in 1 .. m /\ j # m /\ j - 1 # m
    BY <1>1, <1>8
  <2> QED  BY <2>1, Zenon
<1> HIDE DEF q2, g2
<1>9. ASSUME NEW j \in 1 .. n
      PROVE  Link(w, q[j - 1], q[j], d[j], g[j], f[d[j].fh])
  BY Zenon DEF Chain
<1>10. ASSUME NEW j \in 1 .. m
       PROVE  Link(v, q2[j - 1], q2[j], d[j], g2[j], f[d[j].fh])
  <2>1. CASE j = m
    <3>1. Link(v, Len(w), Len(v), d[m], x, f[d[m].fh])
      BY <1>2, <1>5, Zenon DEF Link
    <3>2. q2[j - 1] = Len(w)
      BY <2>1, <1>6, <1>7, Zenon
    <3> QED  BY <2>1, <3>1, <3>2, <1>7, Zenon
  <2>2. CASE j # m
    <3>1. j \in 1 .. n
      BY <2>2, <1>1
    <3>2. Link(w, q[j - 1], q[j], d[j], g[j], f[d[j].fh])
      BY <3>1, <1>9
    <3>3. PICK a, e, y, h : a = q[j - 1] /\ e = q[j] /\ y = g[j] /\ h = d[j]
      OBVIOUS
    <3>4. Link(w, a, e, h, y, f[h.fh])
      BY <3>2, <3>3, Zenon
    <3>5. y \in FileHeader /\ h.offset \in Nat /\ At(w, a, BytesOf(y, h.offset))
      BY <3>4, Zenon DEF Link
    <3>6. IsSeq(BytesOf(y, h.offset))
      BY <3>5, BytesAre
    <3>7. At(v, a, BytesOf(y, h.offset))
      BY <3>5, <3>6, <1>3, <1>4, AtAppend, Zenon
    <3>8. Link(v, a, e, h, y, f[h.fh])
      BY <3>4, <3>7, Zenon DEF Link
    <3>9. q2[j] = e /\ q2[j - 1] = a /\ g2[j] = y
      BY <1>8, <3>1, <3>3, Zenon
    <3> QED  BY <3>3, <3>8, <3>9, Zenon
  <2> QED  BY <2>1, <2>2
<1>11. q2[0] \in Nat
  BY <1>1, <1>7, Zenon
<1>12. Chain(v, q2, g2, m, d, f)
  BY <1>1, <1>10, <1>11, Zenon DEF Chain
<1> QED  BY <1>2, <1>4, <1>7, <1>8, <1>12, Zenon

\* The end records behind the directory make an archive of it.
LEMMA ArchiveEnds ==
  ASSUME TypeInv, NEW w, NoEnd(w), NEW q, NEW g, NEW n, Chain(w, q, g, n, dir, fhs),
         n = Len(dir), q[n] = Len(w), q[0] + base = pos.start, Len(w) + base = count
  PROVE  Archive(w \o EndBytes, q, g, n, base, comment, dir, fhs)
<1>1. PICK c \in Nat : c = comment
  BY FormatAssumption DEF TypeInv, FieldType
<1>2. PICK z : z = NeedsZip64(Len(dir), pos.start, count)
  OBVIOUS
<1>3. PICK m : m = EndPlace(z)
  OBVIOUS
<1>4. PICK s : s = EndBytes
  OBVIOUS
<1>5. /\ m \in Nat /\ IsSeq(s)
      /\ Len(s) = (m + directoryEndLen) + c
      /\ z => /\ s[1] = End64Record(n, pos.start, count)
              /\ s[directory64EndLen + 1] = Locator(count)
      /\ s[m + 1] = EndRecord(n, pos.start, count, c)
      /\ \A k \in 1 .. Len(s) : /\ s[k].t = "end" => k = m + 1
                                /\ s[k].t = "locator" => z
                                /\ s[k].t = "end64" => k = 1
  <2>1. comment \in Nat
    BY <1>1
  <2>2. /\ m \in Nat /\ IsSeq(EndBytes)
        /\ Len(EndBytes) = (m + directoryEndLen) + comment
        /\ z => /\ EndBytes[1] = End64Record(Len(dir), pos.start, count)
                /\ EndBytes[directory64EndLen + 1] = Locator(count)
        /\ EndBytes[m + 1] = EndRecord(Len(dir), pos.start, count, comment)
        /\ \A k \in 1 .. Len(EndBytes) :
             /\ EndBytes[k].t = "end" => k = m + 1
             /\ EndBytes[k].t = "locator" => z
             /\ EndBytes[k].t = "end64" => k = 1
    BY <1>2, <1>3, <2>1, EndBytesIs
  <2> QED  BY <2>2, <1>1, <1>4, Zenon
<1>6. PICK e \in Nat, l \in Nat : e = Len(w) /\ l = Len(s) /\ IsSeq(w)
  <2>1. IsSeq(w) /\ Len(w) \in Nat /\ Len(s) \in Nat
    BY <1>5, Concat, Zenon DEF NoEnd
  <2> QED  BY <2>1
<1> DEFINE v == w \o s
<1>7. /\ IsSeq(v) /\ Len(v) = e + l
      /\ \A k \in 1 .. e : v[k] = w[k]
      /\ \A k \in 1 .. l : v[e + k] = s[k]
  <2>1. IsSeq(w) /\ IsSeq(s)
    BY <1>5, <1>6
  <2>2. /\ IsSeq(w \o s) /\ Len(w \o s) = Len(w) + Len(s)
        /\ \A k \in 1 .. Len(w) : (w \o s)[k] = w[k]
        /\ \A k \in 1 .. Len(s) : (w \o s)[Len(w) + k] = s[k]
    BY <2>1, Concat
  <2> QED  BY <2>2, <1>6, Zenon
<1> HIDE DEF v
<1>8. PICK x \in Nat, y \in Nat, u \in Nat :
        /\ x = directory64EndLen /\ y = directory64LocLen /\ u = directoryEndLen
        /\ x # 0 /\ y # 0 /\ u # 0
  BY FormatAssumption
<1>9. l = (m + u) + c /\ (z => m = x + y) /\ (~z => m = 0)
  BY <1>3, <1>5, <1>6, <1>8, <1>1, Zenon DEF EndPlace
<1>10. v[(e + m) + 1] = EndRecord(n, pos.start, count, c)
  <2>0. m \in Nat
    BY <1>5
  <2>1. m + 1 \in 1 .. l /\ e + (m + 1) = (e + m) + 1
    BY <2>0, <1>8, <1>9, <1>1
  <2> QED  BY <2>1, <1>5, <1>7, Zenon
<1>11. ASSUME z PROVE v[e + 1] = End64Record(n, pos.start, count)
  <2>1. 1 \in 1 .. l
    BY <1>5, <1>6, <1>8, <1>9, <1>1
  <2> QED  BY <2>1, <1>5, <1>7, <1>11, Zenon
<1>12. ASSUME z PROVE v[(e + x) + 1] = Locator(count)
  <2>0. m = x + y
    BY <1>9, <1>12, Zenon
  <2>1. x + 1 \in 1 .. l /\ e + (x + 1) = (e + x) + 1
    BY <2>0, <1>6, <1>8, <1>9, <1>1
  <2>2. s[x + 1] = Locator(count)
    BY <1>5, <1>8, <1>12, Zenon
  <2> QED  BY <2>1, <2>2, <1>7, Zenon
<1>13. ASSUME NEW k \in 1 .. Len(v)
       PROVE  /\ v[k].t = "end" => k = (e + m) + 1
              /\ v[k].t = "locator" => z
              /\ v[k].t = "end64" => k = e + 1
  <2>1. k \in 1 .. e + l
    BY <1>7, <1>13, Zenon
  <2>2. CASE k \in 1 .. e
    <3>1. v[k].t \notin EndKinds
      BY <2>2, <1>6, <1>7, Zenon DEF NoEnd
    <3> QED  BY <3>1 DEF EndKinds
  <2>3. CASE k \notin 1 .. e
    <3>1. PICK j \in 1 .. l : k = e + j
      <4>1. k - e \in 1 .. l /\ k = e + (k - e)
        BY <2>1, <2>3, <1>6
      <4> QED  BY <4>1
    <3>2. v[k] = s[j]
      BY <3>1, <1>7, Zenon
    <3>3. ASSUME j = m + 1 PROVE k = (e + m) + 1
      BY <3>1, <3>3, <1>5, <1>6
    <3> QED  BY <3>1, <3>2, <3>3, <1>5, <1>6, Zenon
  <2> QED  BY <2>2, <2>3
<1>14. Ends(v, e, n, pos.start, count, c)
  BY <1>2, <1>3, <1>8, <1>10, <1>11, <1>12, <1>13, Zenon DEF Ends
<1>15. EndOf(e, n, pos.start, count, c) <= Len(v)
  <2>1. ((e + m) + u) + c <= e + l
    BY <1>1, <1>5, <1>6, <1>8, <1>9
  <2> QED  BY <2>1, <1>2, <1>3, <1>7, <1>8, Zenon DEF EndOf
<1>16. q[n] + base = count /\ q[n] = e
  BY <1>6, Zenon
<1>17. Chain(v, q, g, n, dir, fhs)
  <2>1. Aged(n, dir, fhs, dir, fhs)
    <3>1. ASSUME NEW j \in 1 .. n PROVE fhs[dir[j].fh] \in FileHeader
      BY <3>1, DirElement DEF TypeInv
    <3>2. ASSUME NEW j \in 1 .. n PROVE Older(fhs[dir[j].fh], fhs[dir[j].fh])
      BY <3>1, <3>2, OlderSame, Zenon
    <3> QED  BY <3>1, <3>2, Zenon DEF Aged
  <2> QED  BY <2>1, <1>5, <1>6, ChainKept, Zenon DEF v
<1> QED  BY <1>1, <1>4, <1>6, <1>14, <1>15, <1>16, <1>17, Zenon DEF Archive, v

\* What comes behind an archive leaves it alone, if it has no end record.
LEMMA ArchiveKept ==
  ASSUME NEW w, NEW b, IsSeq(w), NoEnd(b), NEW q, NEW g, NEW n, NEW before \in Nat, NEW text,
         NEW d, NEW f, NEW d2, NEW f2, Archive(w, q, g, n, before, text, d, f),
         Aged(n, d, f, d2, f2)
  PROVE  Archive(w \o b, q, g, n, before, text, d2, f2)
<1>1. PICK e, start, at : e = q[n] /\ start = q[0] + before /\ at = q[n] + before
  OBVIOUS
<1>2. /\ Chain(w, q, g, n, d, f) /\ text \in Nat /\ Ends(w, e, n, start, at, text)
      /\ EndOf(e, n, start, at, text) <= Len(w)
  BY <1>1, Zenon DEF Archive
<1>3. IsSeq(b)
  BY DEF NoEnd
<1>4. Chain(w \o b, q, g, n, d2, f2)
  BY <1>2, <1>3, ChainKept, Zenon
<1>5. e \in Nat
  <2>1. n \in Nat
    BY <1>2, Zenon DEF Chain
  <2>2. n \in 0 .. n
    BY <2>1
  <2> QED  BY <2>2, <1>1, <1>2, ChainGrows, Zenon
<1>6. PICK m \in Nat, l \in Nat : m = Len(w) /\ l = Len(b)
  BY <1>3, Concat
<1> DEFINE v == w \o b
<1>7. /\ Len(v) = m + l /\ \A k \in 1 .. m : v[k] = w[k]
      /\ \A k \in 1 .. l : v[m + k] = b[k]
  <2>1. /\ Len(w \o b) = Len(w) + Len(b)
        /\ \A k \in 1 .. Len(w) : (w \o b)[k] = w[k]
        /\ \A k \in 1 .. Len(b) : (w \o b)[Len(w) + k] = b[k]
    BY <1>3, Concat
  <2> QED  BY <2>1, <1>6, Zenon
<1> HIDE DEF v
<1>8. PICK z, y : z = NeedsZip64(n, start, at) /\ y = EndPlace(z)
  OBVIOUS
<1>9. PICK c \in Nat, x \in Nat, x2 \in Nat :
         c = directoryEndLen /\ x = directory64EndLen /\ x2 = directory64LocLen
         /\ c # 0 /\ x # 0 /\ x2 # 0
  BY FormatAssumption
<1>10. (z => y = x + x2) /\ (~z => y = 0)
  BY <1>8, <1>9, Zenon DEF EndPlace
<1>11. y \in Nat
  <2>1. x + x2 \in Nat /\ 0 \in Nat
    BY <1>9
  <2> QED  BY <2>1, <1>10, Zenon
<1>12. ((e + y) + c) + text <= m
  BY <1>2, <1>6, <1>8, <1>9, Zenon DEF EndOf
<1>13. /\ w[(e + y) + 1] = EndRecord(n, start, at, text)
       /\ z => w[e + 1] = End64Record(n, start, at)
       /\ z => w[(e + x) + 1] = Locator(at)
       /\ \A k \in 1 .. m : /\ w[k].t = "end" => k = (e + y) + 1
                            /\ w[k].t = "locator" => z
                            /\ w[k].t = "end64" => k = e + 1
  BY <1>2, <1>6, <1>8, <1>9, Zenon DEF Ends
<1>14. text \in Nat
  BY <1>2
<1>15. (e + y) + 1 \in 1 .. m /\ e + 1 \in 1 .. m
  BY <1>5, <1>6, <1>9, <1>11, <1>12, <1>14
<1>16. ASSUME z PROVE (e + x) + 1 \in 1 .. m
  <2>1. y = x + x2
    BY <1>10, <1>16, Zenon
  <2> QED  BY <2>1, <1>5, <1>6, <1>9, <1>12, <1>14
<1>17. ASSUME NEW k \in 1 .. Len(v)
       PROVE  /\ v[k].t = "end" => k = (e + y) + 1
              /\ v[k].t = "locator" => z
              /\ v[k].t = "end64" => k = e + 1
  <2>1. k \in 1 .. m + l
    BY <1>7, <1>17, Zenon
  <2>2. CASE k \in 1 .. m
    BY <2>2, <1>7, <1>13, Zenon
  <2>3. CASE k \notin 1 .. m
    <3>1. PICK j \in 1 .. l : k = m + j
      <4>1. k - m \in 1 .. l /\ k = m + (k - m)
        BY <2>1, <2>3, <1>6
      <4> QED  BY <4>1
    <3>2. v[k].t \notin EndKinds
      BY <3>1, <1>6, <1>7, Zenon DEF NoEnd
    <3> QED  BY <3>2 DEF EndKinds
  <2> QED  BY <2>2, <2>3
<1>18. Ends(v, e, n, start, at, text)
  BY <1>7, <1>8, <1>9, <1>13, <1>15, <1>16, <1>17, Zenon DEF Ends
<1>19. EndOf(e, n, start, at, text) <= Len(v)
  <2>1. ((e + y) + c) + text <= m + l
    BY <1>5, <1>6, <1>9, <1>11, <1>12, <1>14
  <2> QED  BY <2>1, <1>7, <1>8, <1>9, Zenon DEF EndOf
<1> QED  BY <1>1, <1>2, <1>4, <1>6, <1>18, <1>19, Zenon DEF Archive, v


\* A step leaves the entries of the directory and lets their headers age.
LEMMA AgedStep ==
  ASSUME TypeInv, ControlInv, [Next]_vars, NEW n, n \in Nat, n <= Len(dir)
  PROVE  Aged(n, dir, fhs, dir', fhs')
<1>0. Len(dir) \in Nat
  <2>1. dir \in Seq([fh : DOMAIN fhs, offset : Nat])
    BY DEF TypeInv, FieldType
  <2> QED  BY <2>1
<1>1. ASSUME NEW j \in 1 .. n
      PROVE  /\ dir'[j] = dir[j]
             /\ fhs[dir[j].fh] \in FileHeader /\ fhs'[dir[j].fh] \in FileHeader
             /\ Older(fhs[dir[j].fh], fhs'[dir[j].fh])
  <2>1. j \in 1 .. Len(dir)
    BY <1>0
  <2>2. dir'[j] = dir[j]
    BY <2>1, DirStays, Zenon
  <2>3. PICK p \in DOMAIN fhs : p = dir[j].fh
    BY <2>1, DirElement DEF TypeInv
  <2>4. fhs[p] \in FileHeader /\ fhs'[p] \in FileHeader /\ Becomes(fhs[p], fhs'[p])
    BY <2>3, HeadersBecome, Zenon
  <2> QED  BY <2>2, <2>3, <2>4, Zenon DEF Becomes
<1> QED  BY <1>1, Zenon DEF Aged

\* The header g, listed for entry i of n units, has its sums, and no field of
\* zip64 but the one that the offset or the sizes ask for.
Tells(g, i, n, offset) ==
  /\ Summed(g, i, n)
  /\ Large(g, offset) => \E x \in Seq({ExtTime}) :
                            g.extra = Append(x, Zip64Extra(g.usize64, g.csize64, offset))
\* The headers g of the first n elements of d tell what was written, unless an
\* entry is spoiled or has not its own header among the first l.
Told(g, n, l, d, m) ==
  \A j \in 1 .. n : (m[j] # -1 /\ Alone(j, l, d)) => Tells(g[j], j, m[j], d[j].offset)

\* The directory up to its n-th entry is all that w ends with; w has an archive.
Listing(w, n, start, before, d, f, m) ==
  \E q, g : /\ Chain(w, q, g, n, d, f) /\ q[0] + before = start /\ q[n] = Len(w)
            /\ Told(g, n, Len(d), d, m)
Complete(w, n, before, d, f, m) ==
  \E q, g, text : Archive(w, q, g, n, before, text, d, f) /\ Told(g, n, n, d, m)

\* How far Close has got: it lists entry after entry, then there is the archive,
\* and in the file it is when Close has returned.
ListInv ==
  /\ (pc = "directory" /\ berr = "nil") =>
       Listing(out \o buf, pos.k - 1, pos.start, base, dir, fhs, made)
  /\ pc = "finish" => Complete(out \o buf, listed, base, dir, fhs, made)
  /\ sealed => Complete(out, listed, base, dir, fhs, made)
  /\ (sealed /\ Unspoiled(listed)) => listed * fileHeaderLen <= Len(out)

\* In the beginning no Close is under way.
LEMMA ListInit ==
  ASSUME Init PROVE ListInv
<1>1. pc = "idle" /\ sealed = FALSE
  BY DEF Init
<1>2. pc # "directory" /\ pc # "finish" /\ ~sealed
  BY <1>1
<1> QED  BY <1>2, Zenon DEF ListInv

\* What is written, with its length, when no write has failed.
LEMMA WrittenLength ==
  ASSUME TypeInv, ControlInv, CountInv, berr = "nil", pc # "flush"
  PROVE  /\ IsSeq(out \o buf) /\ Len(out \o buf) \in Nat /\ base \in Nat /\ count \in Nat
         /\ Len(out \o buf) + base = count
<1>1. IsSeq(out \o buf) /\ Len(All) \in Nat /\ All = out \o buf
  BY AllIsSeq, Zenon DEF All
<1>2. PICK l \in Nat : l = Len(out \o buf)
  BY <1>1
<1>3. PICK c \in Nat, o \in Nat : c = count /\ o = base /\ o <= c
  BY DEF TypeInv, BufType, HistType, ControlInv, OffsetInv
<1>4. l = c - o
  BY <1>1, <1>2, <1>3, Zenon DEF CountInv
<1>5. l + o = c
  BY <1>2, <1>3, <1>4
<1> QED  BY <1>1, <1>2, <1>3, <1>5, Zenon

\* Close begins with an empty directory.
LEMMA ListingStarts ==
  ASSUME TypeInv, ControlInv, CountInv, CloseStart
  PROVE  berr' = "nil" => Listing(out' \o buf', pos'.k - 1, pos'.start, base', dir', fhs', made')
<1>1. /\ pc = "close" /\ pos' = [k |-> 1, start |-> count]
      /\ UNCHANGED <<out, buf, berr, base, dir, fhs, made>>
  BY DEF CloseStart
<1>2. pos'.k = 1 /\ pos'.start = count /\ pc # "flush"
  BY <1>1
<1>3. pos'.k - 1 = 0 /\ 0 \in Nat /\ 0 \in 0 .. 0
  BY <1>2
<1>4. SUFFICES ASSUME berr = "nil" PROVE Listing(out \o buf, 0, count, base, dir, fhs, made)
  BY <1>1, <1>2, <1>3, Zenon
<1>5. PICK l \in Nat, w \in {out \o buf} : l = Len(w) /\ l + base = count
  BY <1>2, <1>4, WrittenLength, Zenon
<1> DEFINE q == [j \in 0 .. 0 |-> l]
<1>6. q[0] = l
  BY <1>3, Zenon
<1> HIDE DEF q
<1>7. ASSUME NEW j \in 1 .. 0 PROVE FALSE
  OBVIOUS
<1>8. Chain(w, q, q, 0, dir, fhs)
  BY <1>3, <1>5, <1>6, <1>7, Zenon DEF Chain
<1>9. w = out \o buf
  BY <1>5
<1>10. Told(q, 0, Len(dir), dir, made)
  BY <1>7, Zenon DEF Told
<1> QED  BY <1>5, <1>6, <1>8, <1>9, <1>10, Zenon DEF Listing

\* A listed header says of the data what the FileHeader says.
LEMMA ListedSums ==
  ASSUME NEW h, NEW fh \in FileHeader, fhs[h.fh] = fh, NEW g, g = Listed(h)
  PROVE  /\ g.crc = fh.crc /\ g.usize64 = fh.usize64 /\ g.csize64 = fh.csize64
         /\ g.method = fh.method
         /\ Large(fh, h.offset) =>
              g.extra = Append(fh.extra, Zip64Extra(fh.usize64, fh.csize64, h.offset))
<1>1. PICK y : y = Append(fh.extra, Zip64Extra(fh.usize64, fh.csize64, h.offset))
  OBVIOUS
<1>2. CASE Large(fh, h.offset)
  <2>1. g = [fh EXCEPT !.csize = uint32max, !.usize = uint32max,
                       !.extra = Append(@, Zip64Extra(fh.usize64, fh.csize64, h.offset))]
    BY <1>2, Zenon DEF Listed, Large
  <2>2. g = [fh EXCEPT !.csize = uint32max, !.usize = uint32max, !.extra = y]
    BY <2>1, <1>1 DEF FileHeader
  <2>3. /\ g.crc = fh.crc /\ g.usize64 = fh.usize64 /\ g.csize64 = fh.csize64
        /\ g.method = fh.method /\ g.extra = y
    BY <2>2 DEF FileHeader
  <2> QED  BY <2>3, <1>1, Zenon
<1>3. CASE ~Large(fh, h.offset)
  <2>1. g = fh
    BY <1>3, Zenon DEF Listed, Large
  <2> QED  BY <2>1, <1>3, Zenon
<1> QED  BY <1>2, <1>3

\* So the header that is listed next tells what was written.
LEMMA ListedTells ==
  ASSUME TypeInv, ControlInv, OpenInv, SumInv, PlainInv, pc = "directory", berr = "nil",
         NEW k \in 1 .. Len(dir), pos.k = k, made[k] # -1, Alone(k, Len(dir), dir)
  PROVE  Tells(Listed(dir[k]), k, made[k], dir[k].offset)
<1>1. PICK h, fh, g : h = dir[k] /\ fh = fhs[h.fh] /\ g = Listed(h)
  OBVIOUS
<1>2. fh \in FileHeader
  BY <1>1, DirElement DEF TypeInv
<1>3. Done(k)
  BY DEF Done, OpenInv
<1>4. Summed(fh, k, made[k])
  BY <1>1, <1>3, Zenon DEF SumInv
<1>5. Plain(fh)
  <2>1. pos.k <= k
    OBVIOUS
  <2> QED  BY <1>1, <2>1, Zenon DEF PlainInv
<1>6. /\ g.crc = fh.crc /\ g.usize64 = fh.usize64 /\ g.csize64 = fh.csize64
      /\ g.method = fh.method
      /\ Large(fh, h.offset) =>
           g.extra = Append(fh.extra, Zip64Extra(fh.usize64, fh.csize64, h.offset))
  <2>1. fhs[h.fh] = fh /\ g = Listed(h)
    BY <1>1
  <2> QED  BY <2>1, <1>2, ListedSums
<1>7. Summed(g, k, made[k])
  BY <1>4, <1>6, Zenon DEF Summed
<1>8. Large(g, h.offset) => Large(fh, h.offset)
  BY <1>6, Zenon DEF Large, isZip64
<1>9. Tells(g, k, made[k], h.offset)
  BY <1>5, <1>6, <1>7, <1>8, Zenon DEF Tells, Plain
<1> QED  BY <1>1, <1>9, Zenon

\* A directory header is written behind the others.
LEMMA ListingGrows ==
  ASSUME TypeInv, ControlInv, CountInv, OpenInv, PhaseInv, HeadersInv, SumInv, PlainInv,
         ListInv, DirectoryHeader, [Next]_vars,
         Write_(DirectoryBytes(dir[pos.k]), "nil"), pos' = [pos EXCEPT !.k = @ + 1]
  PROVE  Listing(out' \o buf', pos'.k - 1, pos'.start, base', dir', fhs', made')
<1>1. PICK k \in Nat : k = pos.k /\ k # 0
  BY DEF TypeInv, CallType, ControlInv, CallInv, DirectoryHeader
<1>2. pc = "directory" /\ k <= Len(dir) /\ UNCHANGED <<dir, base, made>>
  BY <1>1 DEF DirectoryHeader
<1>3. Len(dir) \in Nat
  <2>1. dir \in Seq([fh : DOMAIN fhs, offset : Nat])
    BY DEF TypeInv, FieldType
  <2> QED  BY <2>1
<1>4. pos'.k - 1 = k /\ pos'.start = pos.start
  <2>1. pos \in [k : Nat, start : Nat]
    BY DEF TypeInv, CallType
  <2> QED  BY <2>1, <1>1
<1>5. PICK n \in Nat : n = k - 1 /\ k = n + 1 /\ n <= Len(dir) /\ k \in 1 .. Len(dir)
  <2>1. PICK l \in Nat : l = Len(dir) /\ k <= l
    BY <1>2, <1>3
  <2>2. k - 1 \in Nat /\ k = (k - 1) + 1 /\ k - 1 <= l /\ k \in 1 .. l
    BY <1>1, <2>1
  <2> QED  BY <2>1, <2>2, Zenon
<1>6. PICK w, b, h : w = out \o buf /\ h = dir[k] /\ b = BytesOf(Listed(h), h.offset)
  OBVIOUS
<1>7. b = DirectoryBytes(dir[pos.k])
  BY <1>1, <1>6, DirectoryBytesOf, Zenon
<1>8. berr = "nil" /\ out' = out /\ buf' = buf \o b
  BY <1>7 DEF Write_
<1>9. h.fh \in DOMAIN fhs /\ h.offset \in Nat /\ fhs[h.fh] \in FileHeader
  BY <1>5, <1>6, DirElement DEF TypeInv
<1>10. PICK g : g = [fhs[h.fh] EXCEPT !.extra = Listed(h).extra]
  OBVIOUS
<1>11. fhs'[h.fh] = g
  <2>1. fhs' = [fhs EXCEPT ![h.fh] = g]
    BY <1>1, <1>6, <1>10 DEF DirectoryHeader
  <2>2. fhs \in [DOMAIN fhs -> FileHeader]
    BY DEF TypeInv, FieldType
  <2> QED  BY <2>1, <2>2, <1>9
<1>12. SizesSame(fhs[h.fh]) /\ Flagged(fhs[h.fh])
  BY <1>5, <1>6, <1>9, Zenon DEF HeadersInv
<1>13. /\ Listed(h) \in FileHeader /\ Older(Listed(h), g)
       /\ SizesIn(Listed(h), h.offset) /\ Flagged(Listed(h))
  BY <1>9, <1>10, <1>12, ListedBecomes, Zenon
<1>14. IsSeq(out) /\ IsSeq(buf) /\ IsSeq(w) /\ IsSeq(b)
  <2>1. IsSeq(b)
    BY <1>6, <1>13, BytesAre
  <2> QED  BY <2>1, <1>6, AllIsSeq, Zenon
<1>15. PICK q, gs : /\ Chain(w, q, gs, n, dir, fhs) /\ q[0] + base = pos.start
                    /\ q[n] = Len(w) /\ Told(gs, n, Len(dir), dir, made)
  <2>1. Listing(w, n, pos.start, base, dir, fhs, made)
    BY <1>1, <1>2, <1>5, <1>6, <1>8, Zenon DEF ListInv
  <2> QED  BY <2>1, Zenon DEF Listing
<1>16. Aged(n, dir, fhs, dir, fhs')
  <2>1. Aged(n, dir, fhs, dir', fhs')
    BY <1>5, AgedStep, Zenon
  <2> QED  BY <2>1, <1>2, Zenon
<1>17. Chain(w, q, gs, n, dir, fhs')
  <2>1. Chain(w \o <<>>, q, gs, n, dir, fhs')
    BY <1>14, <1>15, <1>16, EmptyIsSeq, ChainKept, Zenon
  <2>2. w \o <<>> = w
    BY <1>14, ConcatLaws
  <2> QED  BY <2>1, <2>2, Zenon
<1>18. PICK q2, g2 : /\ Chain(w \o b, q2, g2, k, dir, fhs')
                     /\ q2[0] = q[0] /\ q2[k] = Len(w \o b)
                     /\ g2[k] = Listed(h) /\ \A j \in 1 .. n : g2[j] = gs[j]
  <2>0. PICK f : f = fhs'
    OBVIOUS
  <2>1. PICK x \in FileHeader, o \in Nat : x = Listed(h) /\ o = h.offset
    BY <1>9, <1>13
  <2>2. /\ SizesIn(x, o) /\ Flagged(x) /\ Older(x, f[dir[k].fh]) /\ o = dir[k].offset
        /\ Chain(w, q, gs, n, dir, f)
    BY <2>0, <2>1, <1>6, <1>11, <1>13, <1>17, Zenon
  <2>3. IsSeq(w) /\ q[n] = Len(w) /\ k = n + 1
    BY <1>5, <1>14, <1>15
  <2>4. \E q2, g2 : /\ Chain(w \o BytesOf(x, o), q2, g2, k, dir, f)
                    /\ q2[0] = q[0] /\ q2[k] = Len(w \o BytesOf(x, o))
                    /\ g2[k] = x /\ \A j \in 1 .. n : g2[j] = gs[j]
    BY <2>2, <2>3, ChainNext, SMTT(60)
  <2> QED  BY <2>0, <2>1, <2>4, <1>6, Zenon
<1>19. out' \o buf' = w \o b
  <2>0. IsSeq(out) /\ IsSeq(buf) /\ IsSeq(b)
    BY <1>14
  <2>1. (out \o buf) \o b = out \o (buf \o b)
    BY <2>0, ConcatLaws
  <2> QED  BY <2>1, <1>6, <1>8, Zenon
<1>20. Told(g2, k, Len(dir), dir, made)
  <2>1. ASSUME NEW j \in 1 .. k, made[j] # -1, Alone(j, Len(dir), dir)
        PROVE  Tells(g2[j], j, made[j], dir[j].offset)
    <3>1. CASE j = k
      <4>1. Tells(Listed(dir[k]), k, made[k], dir[k].offset)
        BY <1>1, <1>2, <1>5, <1>8, <2>1, <3>1, ListedTells, Zenon
      <4> QED  BY <3>1, <4>1, <1>6, <1>18, Zenon
    <3>2. CASE j # k
      <4>1. j \in 1 .. n
        BY <1>5, <3>2
      <4> QED  BY <4>1, <1>15, <1>18, <2>1, Zenon DEF Told
    <3> QED  BY <3>1, <3>2
  <2> QED  BY <2>1, Zenon DEF Told
<1>21. Listing(w \o b, k, pos.start, base, dir, fhs', made)
  BY <1>15, <1>18, <1>20, Zenon DEF Listing
<1> QED  BY <1>2, <1>4, <1>19, <1>21, Zenon

\* The end records complete the archive.
LEMMA ListingEnds ==
  ASSUME TypeInv, ControlInv, CountInv, PhaseInv, EndsInv, ListInv, End,
         Write_(EndBytes, "nil")
  PROVE  Complete(out' \o buf', listed', base', dir', fhs', made')
<1>1. PICK k \in Nat, n \in Nat : k = pos.k /\ n = Len(dir) /\ k = n + 1
  <2>1. pos.k \in Nat /\ pos.k > Len(dir) /\ pos.k \in 1 .. Len(dir) + 1
    BY DEF TypeInv, CallType, PhaseInv, End
  <2>2. Len(dir) \in Nat
    <3>1. dir \in Seq([fh : DOMAIN fhs, offset : Nat])
      BY DEF TypeInv, FieldType
    <3> QED  BY <3>1
  <2>3. PICK k \in Nat, n \in Nat : k = pos.k /\ n = Len(dir)
    BY <2>1, <2>2
  <2>4. k > n /\ k \in 1 .. n + 1
    BY <2>1, <2>3, Zenon
  <2>5. k = n + 1
    BY <2>3, <2>4
  <2> QED  BY <2>3, <2>5
<1>2. pc = "directory" /\ listed' = n /\ UNCHANGED <<dir, fhs, base, made>>
  BY <1>1 DEF End
<1>3. berr = "nil" /\ out' = out /\ buf' = buf \o EndBytes
  BY DEF Write_
<1>4. pos.k - 1 = n
  BY <1>1
<1>5. PICK w : w = out \o buf
  OBVIOUS
<1>6. PICK q, g : /\ Chain(w, q, g, n, dir, fhs) /\ q[0] + base = pos.start
                  /\ q[n] = Len(w) /\ Told(g, n, n, dir, made)
  <2>1. Listing(w, n, pos.start, base, dir, fhs, made)
    BY <1>2, <1>3, <1>4, <1>5, Zenon DEF ListInv
  <2> QED  BY <2>1, <1>1, Zenon DEF Listing
<1>7. pc # "finish" /\ pc # "flush" /\ ~sealed
  BY <1>2 DEF PhaseInv
<1>8. NoEnd(w)
  BY <1>3, <1>5, <1>7, ConcatNoEnd, Zenon DEF EndsInv
<1>9. Len(w) + base = count
  BY <1>3, <1>5, <1>7, WrittenLength, Zenon
<1>10. Archive(w \o EndBytes, q, g, n, base, comment, dir, fhs)
  BY <1>1, <1>6, <1>8, <1>9, ArchiveEnds, Zenon
<1>11. IsSeq(EndBytes)
  <2>1. comment \in Nat
    BY FormatAssumption DEF TypeInv, FieldType
  <2> QED  BY <2>1, EndBytesIs
<1>12. out' \o buf' = w \o EndBytes
  <2>1. IsSeq(out) /\ IsSeq(buf)
    BY AllIsSeq
  <2>2. (out \o buf) \o EndBytes = out \o (buf \o EndBytes)
    BY <2>1, <1>11, ConcatLaws
  <2> QED  BY <2>2, <1>3, <1>5, Zenon
<1> QED  BY <1>2, <1>6, <1>10, <1>12, Zenon DEF Complete

\* A complete archive stays one when something without end records comes behind.
LEMMA CompleteStays ==
  ASSUME TypeInv, ControlInv, PhaseInv, WholeInv, sealed, [Next]_vars,
         UNCHANGED <<base, listed>>, NEW w, NEW b, IsSeq(w), NoEnd(b),
         Complete(w, listed, base, dir, fhs, made)
  PROVE  Complete(w \o b, listed', base', dir', fhs', made')
<1>1. PICK q, g, text : /\ Archive(w, q, g, listed, base, text, dir, fhs)
                        /\ Told(g, listed, listed, dir, made)
  BY Zenon DEF Complete
<1>2. listed \in Nat /\ listed <= Len(dir) /\ base \in Nat
  BY DEF TypeInv, HistType, PhaseInv
<1>a. PICK d, f : d = dir' /\ f = fhs'
  OBVIOUS
<1>3. PICK n \in Nat, o \in Nat : n = listed /\ o = base
  BY <1>2
<1>4. Aged(n, dir, fhs, d, f)
  BY <1>2, <1>a, <1>3, AgedStep, Zenon
<1>5. Archive(w \o b, q, g, n, o, text, d, f)
  BY <1>1, <1>3, <1>4, ArchiveKept, Zenon
<1>6. listed' = n /\ base' = o
  BY <1>3
<1>7. Told(g, n, n, d, made')
  <2>1. ASSUME NEW j \in 1 .. n, made'[j] # -1, Alone(j, n, d)
        PROVE  Tells(g[j], j, made'[j], d[j].offset)
    <3>1. \A i \in 1 .. n : d[i] = dir[i]
      BY <1>4, Zenon DEF Aged
    <3>2. Alone(j, n, dir)
      BY <2>1, <3>1, Zenon DEF Alone
    <3>3. j \in 1 .. Len(dir) /\ (j # last.i \/ last.closed)
      <4>1. Len(dir) \in Nat /\ last.i \in Nat
        <5>1. dir \in Seq([fh : DOMAIN fhs, offset : Nat])
          BY DEF TypeInv, FieldType
        <5>2. last \in FileWriter
          BY DEF TypeInv, FieldType
        <5> QED  BY <5>1, <5>2 DEF FileWriter
      <4>2. n <= Len(dir)
        BY <1>2, <1>3, Zenon
      <4>3. last.i > n \/ last.closed
        BY <1>3, Zenon DEF WholeInv
      <4>4. last.i > n => j # last.i
        BY <1>3, <4>1
      <4>5. j \in 1 .. Len(dir)
        BY <1>3, <4>1, <4>2
      <4> QED  BY <4>3, <4>4, <4>5
    <3>4. made'[j] = made[j] /\ made[j] # -1
      BY <2>1, <3>3, ClosedMade, Zenon
    <3>5. Tells(g[j], j, made[j], dir[j].offset)
      BY <2>1, <3>2, <3>4, <1>1, <1>3, Zenon DEF Told
    <3> QED  BY <2>1, <3>1, <3>4, <3>5, Zenon
  <2> QED  BY <2>1, Zenon DEF Told
<1> QED  BY <1>a, <1>5, <1>6, <1>7, Zenon DEF Complete

\* The room that the archive in the file has.
LEMMA RoomKept ==
  ASSUME TypeInv, ControlInv, PhaseInv, [Next]_vars, UNCHANGED listed, NEW w, NEW b,
         IsSeq(w), IsSeq(b), out' = w \o b,
         Unspoiled(listed) => listed * fileHeaderLen <= Len(w)
  PROVE  Unspoiled(listed)' => listed' * fileHeaderLen <= Len(out')
<1>1. PICK n \in Nat, m \in Nat : n = listed /\ m = Len(dir) /\ n <= m
  <2>1. Len(dir) \in Nat
    <3>1. dir \in Seq([fh : DOMAIN fhs, offset : Nat])
      BY DEF TypeInv, FieldType
    <3> QED  BY <3>1
  <2>2. listed \in Nat /\ listed <= Len(dir)
    BY DEF TypeInv, HistType, PhaseInv
  <2> QED  BY <2>1, <2>2
<1>2. SUFFICES ASSUME \A i \in 1 .. n : made'[i] # -1
               PROVE  n * fileHeaderLen <= Len(w \o b)
  <2>1. listed' = n
    BY <1>1
  <2> QED  BY <1>2, <2>1, Zenon DEF Unspoiled
<1>3. \A i \in 1 .. n : i \in 1 .. Len(dir)
  BY <1>1
<1>4. Unspoiled(n)
  BY <1>2, <1>3, SpoiledStays, Zenon DEF Unspoiled
<1>5. n * fileHeaderLen <= Len(w)
  BY <1>1, <1>4, Zenon
<1>6. PICK x \in Nat, y \in Nat : x = Len(w) /\ y = Len(b) /\ Len(w \o b) = x + y
  BY Concat
<1>7. PICK z \in Nat : z = n * fileHeaderLen
  BY <1>1, FormatAssumption
<1>8. z <= x
  BY <1>5, <1>6, <1>7, Zenon
<1>9. z <= x + y
  BY <1>6, <1>7, <1>8
<1> QED  BY <1>6, <1>7, <1>9, Zenon

\* Close flushes the archive.
LEMMA SealedArchive ==
  ASSUME TypeInv, ControlInv, CountInv, PhaseInv, RoomInv, ListInv, [Next]_vars,
         CloseFlush, sealed', ~sealed
  PROVE  /\ Complete(out', listed', base', dir', fhs', made')
         /\ Unspoiled(listed)' => listed' * fileHeaderLen <= Len(out')
<1>1. pc = "finish" /\ UNCHANGED <<listed, base, dir, fhs, made>>
  BY DEF CloseFlush
<1>2. out' = out \o buf
  <2>1. CASE FlushError /\ Returns("Close", "io")
    <3>1. sealed' = (sealed \/ ("Close" = "Close" /\ "io" = "nil"))
      BY <2>1, Zenon DEF Returns
    <3>2. "io" # "nil"
      OBVIOUS
    <3> QED  BY <3>1, <3>2, Zenon
  <2> QED  BY <2>1, Zenon DEF CloseFlush
<1>3. PICK w : w = out \o buf /\ IsSeq(w)
  BY AllIsSeq
<1>4. w \o <<>> = w /\ IsSeq(<<>>)
  <2>1. IsSeq(<<>>)
    BY EmptyIsSeq
  <2>2. w \o <<>> = w
    BY <2>1, <1>3, ConcatLaws, Zenon
  <2> QED  BY <2>1, <2>2
<1>5. Complete(w, listed, base, dir, fhs, made)
  BY <1>1, <1>3, Zenon DEF ListInv
<1>6. Complete(out', listed', base', dir', fhs', made')
  BY <1>1, <1>2, <1>3, <1>5, Zenon
<1>7. Unspoiled(listed) => listed * fileHeaderLen <= Len(w)
  <2>1. berr = "nil" /\ pc # "flush"
    BY <1>1 DEF PhaseInv
  <2>2. PICK l \in Nat, o \in Nat : l = Len(w) /\ o = base /\ l + o = count
    BY <2>1, <1>3, WrittenLength, Zenon
  <2>3. listed \in 0 .. Len(dir)
    <3>1. Len(dir) \in Nat
      <4>1. dir \in Seq([fh : DOMAIN fhs, offset : Nat])
        BY DEF TypeInv, FieldType
      <4> QED  BY <4>1
    <3>2. listed \in Nat /\ listed <= Len(dir)
      BY DEF TypeInv, HistType, PhaseInv
    <3> QED  BY <3>1, <3>2
  <2>4. Unspoiled(listed) => listed * fileHeaderLen <= count - base
    BY <2>3, Zenon DEF RoomInv
  <2>5. PICK c \in Nat : c = count
    BY DEF TypeInv, BufType
  <2>6. c - o = l
    <3>1. l + o = c
      BY <2>2, <2>5, Zenon
    <3> QED  BY <3>1, <2>2, <2>5
  <2>7. count - base = l
    BY <2>2, <2>5, <2>6, Zenon
  <2> QED  BY <2>2, <2>4, <2>7, Zenon
<1>8. Unspoiled(listed)' => listed' * fileHeaderLen <= Len(out')
  <2>1. UNCHANGED listed /\ out' = w \o <<>>
    BY <1>1, <1>2, <1>3, <1>4, Zenon
  <2> QED  BY <2>1, <1>3, <1>4, <1>7, RoomKept, Zenon
<1> QED  BY <1>6, <1>8

\* The archive in the file stays in it.
LEMMA SealedStays ==
  ASSUME TypeInv, ControlInv, CountInv, OpenInv, PhaseInv, EndsInv, WholeInv, ListInv,
         [Next]_vars, sealed
  PROVE  /\ Complete(out', listed', base', dir', fhs', made')
         /\ Unspoiled(listed)' => listed' * fileHeaderLen <= Len(out')
<1>0. Phase
  BY Phases
<1>1. ~End
  BY DEF PhaseInv, End
<1>2. UNCHANGED listed
  BY <1>0, <1>1, Zenon DEF Phase
<1>3. UNCHANGED base
  <2>1. count \in Nat /\ count > 0
    BY DEF TypeInv, BufType, PhaseInv
  <2>2. ~SetOffset
    BY <2>1 DEF SetOffset
  <2> QED  BY <1>0, <2>2, Zenon DEF Phase
<1>4. IsSeq(out) /\ NoEnd(buf)
  BY AllIsSeq, Zenon DEF EndsInv
<1>5. PICK b \in {buf, <<>>} : out' = out \o b
  <2>1. CASE out' = out
    <3>1. out \o <<>> = out
      BY <1>4, EmptyIsSeq, ConcatLaws, Zenon
    <3> QED  BY <2>1, <3>1
  <2>2. CASE out' = out \o buf
    BY <2>2
  <2> QED  BY <1>1, <2>1, <2>2, CalmStep, Zenon
<1>6. NoEnd(b) /\ IsSeq(b)
  BY <1>4, <1>5, EmptyNoEnd DEF NoEnd
<1>7. /\ Complete(out, listed, base, dir, fhs, made)
      /\ Unspoiled(listed) => listed * fileHeaderLen <= Len(out)
  BY Zenon DEF ListInv
<1>8. Complete(out \o b, listed', base', dir', fhs', made')
  BY <1>2, <1>3, <1>4, <1>6, <1>7, CompleteStays, Zenon
<1>9. Unspoiled(listed)' => listed' * fileHeaderLen <= Len(out')
  BY <1>2, <1>4, <1>5, <1>6, <1>7, RoomKept, Zenon
<1> QED  BY <1>5, <1>8, <1>9, Zenon

\* So every step keeps what is listed.
LEMMA ListStep ==
  ASSUME TypeInv, ControlInv, CountInv, OpenInv, PhaseInv, EndsInv, HeadersInv, RoomInv,
         SumInv, PlainInv, WholeInv, ListInv, [Next]_vars
  PROVE  ListInv'
<1>0. Phase
  BY Phases
<1>1. ASSUME UNCHANGED vars PROVE ListInv'
  <2>1. /\ UNCHANGED <<pc, berr, out, buf, pos, base, dir, fhs, listed>>
        /\ UNCHANGED <<sealed, made>>
    BY <1>1 DEF vars
  <2> QED  BY <2>1, Zenon DEF ListInv, Unspoiled
<1>2. ASSUME ~UNCHANGED vars PROVE ListInv'
  <2>1. ASSUME pc' = "directory", berr' = "nil"
        PROVE  Listing(out' \o buf', pos'.k - 1, pos'.start, base', dir', fhs', made')
    <3>1. CASE CloseStart
      BY <2>1, <3>1, ListingStarts, Zenon
    <3>2. CASE /\ DirectoryHeader /\ Write_(DirectoryBytes(dir[pos.k]), "nil")
               /\ pos' = [pos EXCEPT !.k = @ + 1]
      BY <3>2, ListingGrows, Zenon
    <3> QED  BY <1>0, <1>2, <2>1, <3>1, <3>2, Zenon DEF Phase
  <2>2. ASSUME pc' = "finish" PROVE Complete(out' \o buf', listed', base', dir', fhs', made')
    <3>1. End /\ Write_(EndBytes, "nil")
      BY <1>0, <1>2, <2>2, Zenon DEF Phase
    <3> QED  BY <3>1, ListingEnds, Zenon
  <2>3. ASSUME sealed'
        PROVE  /\ Complete(out', listed', base', dir', fhs', made')
               /\ Unspoiled(listed)' => listed' * fileHeaderLen <= Len(out')
    <3>1. CASE sealed
      BY <3>1, SealedStays, Zenon
    <3>2. CASE ~sealed
      <4>1. CloseFlush
        BY <1>0, <2>3, <3>2, Zenon DEF Phase
      <4> QED  BY <2>3, <3>2, <4>1, SealedArchive, Zenon
    <3> QED  BY <3>1, <3>2, Zenon
  <2> QED  BY <2>1, <2>2, <2>3, Zenon DEF ListInv
<1> QED  BY <1>1, <1>2

-----------------------------------------------------------------------------
(* The file, when Close has returned.                                       *)

\* A directory is from its start to its end.
LEMMA ChainAscends ==
  ASSUME NEW w, IsSeq(w), NEW q, NEW g, NEW n, NEW d, NEW f, Chain(w, q, g, n, d, f)
  PROVE  \A j \in 0 .. n : q[0] <= q[j]
<1>1. n \in Nat /\ q[0] \in Nat
  BY Zenon DEF Chain
<1>2. \A j \in 0 .. n : q[j] \in Nat
  BY ChainGrows, Zenon
<1> DEFINE T == {j \in 0 .. n : ~(q[0] <= q[j])}
<1>3. SUFFICES ASSUME T # {} PROVE FALSE
  OBVIOUS
<1>4. T \in SUBSET Nat
  BY <1>1
<1> HIDE DEF T
<1>5. PICK j \in T : \A k \in T : j <= k
  BY <1>3, <1>4, LeastElement, Zenon
<1> USE DEF T
<1>6. j \in 0 .. n /\ j # 0
  BY <1>1, <1>5
<1>7. j - 1 \in 0 .. n /\ ~(j <= j - 1) /\ j \in 1 .. n
  BY <1>1, <1>6
<1>8. q[0] <= q[j - 1]
  BY <1>5, <1>7
<1>9. Link(w, q[j - 1], q[j], d[j], g[j], f[d[j].fh])
  BY <1>7, Zenon DEF Chain
<1>10. PICK s : s = BytesOf(g[j], d[j].offset)
  OBVIOUS
<1>11. g[j] \in FileHeader /\ q[j] = q[j - 1] + Len(s)
  BY <1>9, <1>10, Zenon DEF Link
<1>12. Len(s) \in Nat
  <2>1. IsSeq(BytesOf(g[j], d[j].offset))
    BY <1>11, BytesAre
  <2> QED  BY <2>1, <1>10, Concat, Zenon
<1>13. PICK a \in Nat, x \in Nat, y \in Nat : a = q[0] /\ x = q[j - 1] /\ y = Len(s)
  BY <1>1, <1>2, <1>7, <1>12
<1>14. a <= x /\ q[j] = x + y
  BY <1>8, <1>11, <1>13, Zenon
<1>15. a <= x + y
  BY <1>13, <1>14
<1>16. q[0] <= q[j]
  BY <1>13, <1>14, <1>15, Zenon
<1> QED  BY <1>5, <1>16

\* The file has what is flushed behind what was in it.
LEMMA FileIs ==
  ASSUME TypeInv, NEW b, b = File(Len(out))
  PROVE  /\ IsSeq(b) /\ prefix \in Nat /\ Len(out) \in Nat /\ Len(b) = prefix + Len(out)
         /\ \A k \in 1 .. prefix : b[k] = PrefixByte(k)
         /\ \A k \in 1 .. Len(out) : b[prefix + k] = out[k]
<1>1. IsSeq(out) /\ IsSeq(buf)
  BY AllIsSeq
<1>2. PICK m \in Nat, l \in Nat : m = Len(out) /\ l = Len(buf) /\ Len(out \o buf) = m + l
  BY <1>1, Concat
<1>3. \A k \in 1 .. m : (out \o buf)[k] = out[k]
  BY <1>1, <1>2, Concat, Zenon
<1>4. m \in 0 .. Len(out \o buf)
  <2>1. m \in 0 .. m + l
    BY <1>2
  <2> QED  BY <2>1, <1>2, Zenon
<1>5. /\ Len(b) = prefix + m
      /\ \A k \in 1 .. prefix : b[k] = PrefixByte(k)
      /\ \A k \in 1 .. m : b[prefix + k] = (out \o buf)[k]
  BY <1>2, <1>4, FileBytes, Zenon
<1>6. prefix \in Nat
  BY DEF TypeInv, HistType
<1>7. IsSeq(b)
  <2> DEFINE s == [k \in 1 .. prefix |-> PrefixByte(k)]  w == out \o buf  t == SubSeq(w, 1, m)
             S == {w[k] : k \in DOMAIN w}
  <2>1. IsSeq(s)
    <3>1. DOMAIN s = 1 .. prefix /\ s = [k \in 1 .. prefix |-> s[k]]
      OBVIOUS
    <3> HIDE DEF s
    <3> QED  BY <3>1, <1>6, FunctionIsSeq, Zenon
  <2>2. IsSeq(t)
    <3>1. IsSeq(w)
      BY <1>1, Concat
    <3>2. w \in Seq(S) /\ m \in 0 .. Len(w)
      BY <3>1, <1>4 DEF IsSeq
    <3> HIDE DEF w, S
    <3>3. t \in Seq(S)
      BY <3>2
    <3> QED  BY <3>3, SeqIsSeq, Zenon
  <2>3. b = s \o t
    BY <1>2, Zenon DEF File
  <2> HIDE DEF s, t
  <2> QED  BY <2>1, <2>2, <2>3, Concat
<1> QED  BY <1>2, <1>3, <1>5, <1>6, <1>7, Zenon

\* In the file b are the directory of an archive and, in reach, its end.
InFile(b, q, g, n, start, at, text, d, f) ==
  /\ Chain(b, q, g, n, d, f) /\ q[n] + 1 <= Len(b) /\ b[q[n] + 1].t # "directory"
  /\ EndAhead(b, q[n], n, start, at, text, q[0])

\* The archive that Close has flushed is in the file, behind the prefix.
LEMMA ArchiveInFile ==
  ASSUME TypeInv, PhaseInv, ListInv, sealed, ~Buried, NEW b, b = File(Len(out)),
         ~Misled(b)
  PROVE  \E q, g, start, at, text :
           /\ InFile(b, q, g, listed, start, at, text, dir, fhs)
           /\ at = q[listed] <=> base = prefix
           /\ NeedsZip64(listed, start, at) => \E k \in DOMAIN out : out[k].t = "end64"
           /\ Told(g, listed, listed, dir, made) /\ q[0] + base = start + prefix
<1>1. PICK q, g, text : /\ Archive(out, q, g, listed, base, text, dir, fhs)
                        /\ Told(g, listed, listed, dir, made)
  BY Zenon DEF ListInv, Complete
<1>2. PICK p \in Nat, o \in Nat, m \in Nat, n \in Nat :
         p = prefix /\ o = base /\ m = Len(out) /\ n = listed /\ o <= p
  <2>1. prefix \in Nat /\ base \in Nat /\ listed \in Nat /\ base \in {0, prefix}
    BY DEF TypeInv, HistType, PhaseInv
  <2>2. Len(out) \in Nat
    <3>1. IsSeq(out)
      BY AllIsSeq
    <3> QED  BY <3>1, Concat
  <2>3. base <= prefix
    BY <2>1
  <2> QED  BY <2>1, <2>2, <2>3, Zenon
<1>3. /\ IsSeq(b) /\ Len(b) = p + m /\ \A k \in 1 .. p : b[k] = PrefixByte(k)
      /\ \A k \in 1 .. m : b[p + k] = out[k]
  BY <1>2, FileIs, Zenon
<1>4. PICK e, start, at : e = q[n] /\ start = q[0] + o /\ at = q[n] + o
  OBVIOUS
<1>5. /\ Chain(out, q, g, n, dir, fhs) /\ text \in Nat /\ Ends(out, e, n, start, at, text)
      /\ EndOf(e, n, start, at, text) <= m
  BY <1>1, <1>2, <1>4, Zenon DEF Archive
<1>6. n \in 0 .. n /\ 0 \in 0 .. n
  BY <1>2
<1>7. IsSeq(out)
  BY AllIsSeq
<1>8. q[0] \in Nat /\ e \in Nat /\ q[0] <= e
  BY <1>4, <1>5, <1>6, <1>7, ChainGrows, ChainAscends, Zenon
<1>9. Holds(b, p, out)
  <2>1. Len(b) \in Nat
    BY <1>2, <1>3
  <2> QED  BY <1>2, <1>3, <1>7, <2>1, Zenon DEF Holds
<1>a. PICK Q : Q = [j \in 0 .. n |-> p + q[j]]
  OBVIOUS
<1>10. Chain(b, Q, g, n, dir, fhs)
  BY <1>5, <1>9, <1>a, ChainShift
<1>11. Q[n] = p + e /\ Q[0] = p + q[0]
  BY <1>4, <1>6, <1>a, Zenon
<1>12. PICK y : y = EndPlace(NeedsZip64(n, start, at))
  OBVIOUS
<1>13. /\ Ends(b, p + e, n, start, at, text) /\ EndOf(p + e, n, start, at, text) <= Len(b)
       /\ e + y \in 0 .. m - 1 /\ e \in 0 .. m - 1
       /\ b[(p + e) + 1].t # "directory"
  <2>2. EndOf(e, n, start, at, text) <= Len(out)
    BY <1>2, <1>5, Zenon
  <2>3. /\ Ends(b, p + e, n, start, at, text)
        /\ EndOf(p + e, n, start, at, text) <= Len(b)
        /\ e + EndPlace(NeedsZip64(n, start, at)) \in 0 .. Len(out) - 1
        /\ e \in 0 .. Len(out) - 1
        /\ b[(p + e) + 1].t # "directory"
    <3>1. Ends(out, e, n, start, at, text) /\ text \in Nat /\ e \in Nat
      BY <1>5, <1>8
    <3> QED  BY <3>1, <2>2, <1>9, EndsShift, Zenon
  <2> QED  BY <2>3, <1>2, <1>12, Zenon
<1>14. out[(e + y) + 1].t = "end"
  <2>1. out[(e + y) + 1] = EndRecord(n, start, at, text)
    BY <1>5, <1>12, Zenon DEF Ends
  <2>2. EndRecord(n, start, at, text).t = "end"
    BY DEF EndRecord
  <2> QED  BY <2>1, <2>2, Zenon
<1>15. DOMAIN out = 1 .. m
  BY <1>2, <1>7 DEF IsSeq
<1>16. PICK i \in Nat : i = e + y /\ i \in 0 .. m - 1
  BY <1>2, <1>13
<1>17. y \in Nat
  BY <1>12, FormatAssumption DEF EndPlace
<1>18. (p + m) - ((p + e) + y) <= SearchLen
  <2>1. i + 1 \in 1 .. m
    BY <1>2, <1>16
  <2>2. ~(Len(out) - (i + 1) + 1 > SearchLen)
    <3>1. i + 1 \in DOMAIN out /\ out[i + 1].t = "end"
      BY <1>14, <1>15, <1>16, <2>1, Zenon
    <3> QED  BY <3>1, Zenon DEF Buried
  <2>3. PICK s \in Nat : s = SearchLen
    BY DirectoryAssumption
  <2>4. ~(m - (i + 1) + 1 > s)
    BY <1>2, <2>2, <2>3, Zenon
  <2>5. (p + e) + y = p + i
    BY <1>2, <1>8, <1>16, <1>17
  <2>6. (p + m) - (p + i) <= s
    BY <1>2, <1>16, <2>3, <2>4
  <2> QED  BY <2>3, <2>5, <2>6, Zenon
<1>19. /\ start \in Nat /\ at \in Nat /\ p + e \in Nat /\ p + q[0] \in Nat
       /\ (p + q[0]) + (at - start) = p + e /\ start <= at /\ start <= p + q[0]
  <2>1. PICK a \in Nat : a = q[0]
    BY <1>8
  <2>2. start = a + o /\ at = e + o /\ a <= e /\ o <= p
    BY <1>2, <1>4, <1>8, <2>1, Zenon
  <2>3. \A c, x \in Nat :
          (c <= x /\ o <= p) =>
             /\ c + o \in Nat /\ x + o \in Nat /\ p + x \in Nat /\ p + c \in Nat
             /\ (p + c) + ((x + o) - (c + o)) = p + x /\ c + o <= x + o /\ c + o <= p + c
    BY <1>2
  <2>4. /\ start \in Nat /\ at \in Nat /\ p + e \in Nat /\ p + a \in Nat
        /\ (p + a) + (at - start) = p + e /\ start <= at /\ start <= p + a
    BY <1>8, <2>1, <2>2, <2>3, Zenon
  <2> QED  BY <2>1, <2>4, Zenon
<1>20. EndAhead(b, p + e, n, start, at, text, p + q[0])
  <2>1. Len(b) - ((p + e) + EndPlace(NeedsZip64(n, start, at))) <= SearchLen
    BY <1>3, <1>12, <1>18, Zenon
  <2> QED  BY <2>1, <1>2, <1>5, <1>13, <1>19, ZenonT(60) DEF EndAhead
<1>21. (p + e) + 1 <= Len(b)
  <2>1. (p + e) + 1 <= p + m
    BY <1>2, <1>13
  <2> QED  BY <2>1, <1>3, Zenon
<1>22. InFile(b, Q, g, n, start, at, text, dir, fhs)
  BY <1>10, <1>11, <1>13, <1>20, <1>21, Zenon DEF InFile
<1>23. at = Q[n] <=> base = prefix
  <2>1. at = e + o /\ Q[n] = p + e
    BY <1>4, <1>11, Zenon
  <2>2. e + o = p + e <=> o = p
    BY <1>2, <1>8
  <2> QED  BY <2>1, <2>2, <1>2, Zenon
<1>24. ASSUME NeedsZip64(n, start, at) PROVE \E k \in DOMAIN out : out[k].t = "end64"
  <2>1. out[e + 1] = End64Record(n, start, at)
    BY <1>5, <1>24, Zenon DEF Ends
  <2>2. End64Record(n, start, at).t = "end64"
    BY DEF End64Record
  <2>3. e + 1 \in 1 .. m
    BY <1>2, <1>13
  <2> QED  BY <2>1, <2>2, <2>3, <1>15, Zenon
<1>25. Q[0] + base = start + prefix
  <2>1. PICK a \in Nat : a = q[0]
    BY <1>8
  <2>2. (p + a) + o = (a + o) + p
    BY <1>2, <2>1
  <2> QED  BY <1>2, <1>4, <1>11, <2>1, <2>2, Zenon
<1> QED  BY <1>1, <1>2, <1>22, <1>23, <1>24, <1>25, Zenon

\* The headers of an archive that is not spoiled or overlong fit.
LEMMA ChainFits ==
  ASSUME TypeInv, PhaseInv, HeadersInv, ~Spoiled, ~Overlong,
         NEW w, NEW q, NEW g, Chain(w, q, g, listed, dir, fhs)
  PROVE  \A j \in 1 .. listed : Fits(g[j])
<1>1. SUFFICES ASSUME NEW j \in 1 .. listed PROVE Fits(g[j])
  OBVIOUS
<1>2. j \in 1 .. Len(dir)
  <2>1. Len(dir) \in Nat
    <3>1. dir \in Seq([fh : DOMAIN fhs, offset : Nat])
      BY DEF TypeInv, FieldType
    <3> QED  BY <3>1
  <2>2. listed \in Nat /\ listed <= Len(dir)
    BY DEF TypeInv, HistType, PhaseInv
  <2> QED  BY <2>1, <2>2
<1>3. PICK fh, x : fh = fhs[dir[j].fh] /\ x = g[j]
  OBVIOUS
<1>4. x \in FileHeader /\ Older(x, fh)
  BY <1>3, Zenon DEF Chain, Link
<1>5. fh \in FileHeader
  BY <1>2, <1>3, DirElement DEF TypeInv
<1>6. made[j] # -1
  BY Zenon DEF Spoiled
<1>7. Len(NameBytes(fh.name)) <= uint16max
  BY <1>2, <1>3, <1>6, Zenon DEF HeadersInv
<1>8. /\ ~(Len(ExtraBytes(fh.extra)) > uint16max)
      /\ ~(Len(NameBytes(fh.comment)) > uint16max)
  BY <1>3, Zenon DEF Overlong
<1>9. PICK u \in Nat, a \in Nat, c \in Nat, e \in Nat :
        /\ u = uint16max /\ a = Len(ExtraBytes(x.extra)) /\ e = Len(ExtraBytes(fh.extra))
        /\ c = Len(NameBytes(fh.comment))
  <2>1. x.extra \in Seq(ExtraField) /\ fh.extra \in Seq(ExtraField)
    BY <1>4, <1>5 DEF FileHeader
  <2>2. Len(ExtraBytes(x.extra)) \in Nat /\ Len(ExtraBytes(fh.extra)) \in Nat
    BY <2>1, ExtraNoEnd, Zenon
  <2>3. Len(NameBytes(fh.comment)) \in Nat
    BY NameNoEnd
  <2>4. uint16max \in Nat
    BY FormatAssumption
  <2> QED  BY <2>2, <2>3, <2>4
<1>10. a <= e /\ ~(e > u) /\ ~(c > u)
  BY <1>4, <1>8, <1>9, Zenon DEF Older
<1>11. a <= u /\ c <= u
  BY <1>9, <1>10
<1>12. /\ Len(NameBytes(x.name)) <= uint16max /\ Len(ExtraBytes(x.extra)) <= uint16max
       /\ Len(NameBytes(x.comment)) <= uint16max
  BY <1>4, <1>7, <1>9, <1>11, Zenon DEF Older
<1> QED  BY <1>3, <1>12, Zenon DEF Fits

\* NewReader opens the archive in the file, if it is not one of zip64 behind
\* data that the writer did not know of.
LEMMA SealedOpens ==
  ASSUME TypeInv, PhaseInv, HeadersInv, ListInv, sealed, ~Spoiled, ~Overlong,
         NEW b, b = File(Len(out)), NEW q, NEW g, NEW start, NEW at, NEW text,
         InFile(b, q, g, listed, start, at, text, dir, fhs),
         NeedsZip64(listed, start, at) => at = q[listed]
  PROVE  NewReader(b) =
           [err |-> "nil", files |-> normalizeNameEncoding(Files(b, q, start, listed))]
<1>1. IsSeq(b)
  BY FileIs, Zenon
<1>2. PICK n : n = listed
  OBVIOUS
<1>3. /\ Chain(b, q, g, n, dir, fhs) /\ q[n] + 1 <= Len(b) /\ b[q[n] + 1].t # "directory"
      /\ EndAhead(b, q[n], n, start, at, text, q[0])
  BY <1>2, Zenon DEF InFile
<1>4. \A j \in 1 .. n : Fits(g[j])
  BY <1>2, <1>3, ChainFits, Zenon
<1>5. n * fileHeaderLen <= Len(b)
  <2>1. Unspoiled(listed)
    BY Zenon DEF Spoiled, Unspoiled
  <2>2. n * fileHeaderLen <= Len(out)
    BY <1>2, <2>1, Zenon DEF ListInv
  <2>3. PICK p \in Nat, m \in Nat : p = prefix /\ m = Len(out) /\ Len(b) = p + m
    BY FileIs, Zenon
  <2>4. PICK z \in Nat : z = n * fileHeaderLen
    BY <1>2, FormatAssumption DEF TypeInv, HistType
  <2>5. z <= m
    BY <2>2, <2>3, <2>4, Zenon
  <2>6. z <= p + m
    BY <2>3, <2>4, <2>5
  <2> QED  BY <2>3, <2>4, <2>6, Zenon
<1>6. NewReader(b) =
        [err |-> "nil", files |-> normalizeNameEncoding(Files(b, q, start, n))]
  BY <1>1, <1>2, <1>3, <1>4, <1>5, ReaderOpens, Zenon
<1> QED  BY <1>2, <1>6, Zenon

\* All of the invariant.
ReadInv ==
  /\ TypeInv /\ ControlInv /\ CountInv /\ OpenInv /\ EntriesInv
  /\ PhaseInv /\ EndsInv /\ HeadersInv /\ RoomInv
  /\ CompInv /\ SumInv /\ PlainInv /\ WholeInv /\ ListInv

\* The archive that NewReader finds after Close.
LEMMA SealedRead ==
  ASSUME ReadInv, sealed, ~Spoiled, ~Overlong, ~Buried, NEW b, b = File(Len(out)),
         ~Misled(b)
  PROVE  \E q, g, start, at, text :
           /\ InFile(b, q, g, listed, start, at, text, dir, fhs)
           /\ Told(g, listed, listed, dir, made) /\ q[0] + base = start + prefix
           /\ ~Zip64Unaware \/ NewReader(b).err = "nil" =>
                NewReader(b) =
                  [err |-> "nil", files |-> normalizeNameEncoding(Files(b, q, start, listed))]
<1>0. TypeInv /\ PhaseInv /\ HeadersInv /\ ListInv
  BY Zenon DEF ReadInv
<1>1. PICK q, g, start, at, text :
           /\ InFile(b, q, g, listed, start, at, text, dir, fhs)
           /\ at = q[listed] <=> base = prefix
           /\ NeedsZip64(listed, start, at) => \E k \in DOMAIN out : out[k].t = "end64"
           /\ Told(g, listed, listed, dir, made) /\ q[0] + base = start + prefix
  BY <1>0, ArchiveInFile, Zenon
<1>2. ASSUME ~Zip64Unaware PROVE NeedsZip64(listed, start, at) => at = q[listed]
  BY <1>1, <1>2, Zenon DEF Zip64Unaware
<1>3. ASSUME NewReader(b).err = "nil" PROVE NeedsZip64(listed, start, at) => at = q[listed]
  <2>1. EndAhead(b, q[listed], listed, start, at, text, q[0])
    BY <1>1, Zenon DEF InFile
  <2>2. IsSeq(b)
    BY <1>0, FileIs, Zenon
  <2> QED  BY <2>1, <2>2, <1>3, UnawareRefused, Zenon
<1>4. ASSUME ~Zip64Unaware \/ NewReader(b).err = "nil"
      PROVE  NewReader(b) =
               [err |-> "nil", files |-> normalizeNameEncoding(Files(b, q, start, listed))]
  <2>1. NeedsZip64(listed, start, at) => at = q[listed]
    BY <1>2, <1>3, <1>4, Zenon
  <2> QED  BY <2>1, <1>0, <1>1, SealedOpens, Zenon
<1> QED  BY <1>1, <1>4, Zenon

\* The invariant holds.
LEMMA ReadInvHolds ==
  ASSUME ~FlushRaces
  PROVE  Spec => []ReadInv
<1>1. Init => ReadInv
  BY InitTypes, CountInit, OpenInit, EntriesInit, PhaseInit, EndsInit, HeadersInit, RoomInit,
     TellInit, PlainInit, ListInit DEF ReadInv
<1>2. ReadInv /\ [Next]_vars => ReadInv'
  <2> SUFFICES ASSUME ReadInv, [Next]_vars PROVE ReadInv'
    OBVIOUS
  <2>1. TypeInv' /\ ControlInv'
    BY NextTypes DEF ReadInv
  <2>2. CountInv' /\ OpenInv'
    BY CountStep, OpenStep DEF ReadInv
  <2>3. PhaseInv' /\ EndsInv' /\ HeadersInv'
    BY <2>1, PhaseStep, EndsStep, HeadersStep DEF ReadInv
  <2>4. RoomInv' /\ ListInv'
    BY <2>1, RoomStep, ListStep DEF ReadInv
  <2>5. EntriesInv'
    BY <2>1, <2>2, EntriesStep DEF ReadInv
  <2>6. CompInv' /\ SumInv' /\ PlainInv' /\ WholeInv'
    BY <2>1, CompStep, SumStep, PlainStep, WholeStep DEF ReadInv
  <2> QED  BY <2>1, <2>2, <2>3, <2>4, <2>5, <2>6 DEF ReadInv
<1> QED  BY <1>1, <1>2, PTL DEF Spec

\* After Close has returned nil NewReader opens the file: it finds the end record
\* that Close wrote, the directory in front of it and all of its headers, behind
\* any data in front of the archive and with entries behind it that CreateHeader
\* added after Close, on both sides of the zip64 limits.  The exceptions are Sound's
\* and Zip64Unaware: a client's end record that comes last is among them.
THEOREM ArchivesOpen ==
  ASSUME ~FlushRaces
  PROVE  Spec => []CloseReadable
<1>1. ReadInv => CloseReadable
  <2> SUFFICES ASSUME ReadInv, sealed, Sound, ~Zip64Unaware PROVE Opened.err = "nil"
    BY DEF CloseReadable
  <2>1. PICK b : b = File(Len(out))
    OBVIOUS
  <2>2. PICK q, start : NewReader(b) =
          [err |-> "nil", files |-> normalizeNameEncoding(Files(b, q, start, listed))]
    BY <2>1, SealedRead, Zenon DEF Sound
  <2> QED  BY <2>1, <2>2 DEF Opened
<1> QED  BY <1>1, ReadInvHolds, PTL

-----------------------------------------------------------------------------
(* What the files are that NewReader has found.                             *)

\* A file has the name of the header it was read from.
LEMMA FileNamed ==
  ASSUME NEW b, IsSeq(b), NEW g \in FileHeader, NEW o \in Nat, NEW a, NEW skip,
         At(b, a, BytesOf(g, o)), Fits(g)
  PROVE  /\ FileAt(b, a, skip).name = NameBytes(g.name)
         /\ FileAt(b, a, skip).nonUTF8 = NonUTF8(NameBytes(g.name), NameBytes(g.comment), g.utf8)
<1>1. PICK d, z : readDirectoryHeader(b, a) =
                    ListedFile(d, z, NameBytes(g.name), NameBytes(g.comment))
                  /\ d = HeaderOf(g, o)
  <2> DEFINE n == Len(NameBytes(g.name))  l == Len(ExtraBytes(g.extra))  u == HeaderOf(g, o)
             v == Zip64(u, Zip64Field(b, (a + directoryHeaderLen) + n, l))
  <2>1. readDirectoryHeader(b, a) = ListedFile(u, v, NameBytes(g.name), NameBytes(g.comment))
    BY ReadHeader
  <2> QED  BY <2>1, Zenon
<1>2. d.utf8 = g.utf8
  BY <1>1 DEF HeaderOf
<1>3. PICK nm, tx, non : /\ nm = NameBytes(g.name) /\ tx = NameBytes(g.comment)
                         /\ non = NonUTF8(nm, tx, d.utf8)
  OBVIOUS
<1>4. readDirectoryHeader(b, a) =
        [err |-> z.err, name |-> nm, method |-> d.method, crc |-> d.crc, usize |-> z.usize,
         csize |-> z.csize, offset |-> z.offset, nonUTF8 |-> non,
         next |-> directoryHeaderLen + d.name + d.extra + d.comment]
  BY <1>1, <1>3, Zenon DEF ListedFile
<1>5. FileAt(b, a, skip).name = nm /\ FileAt(b, a, skip).nonUTF8 = non
  BY <1>4 DEF FileAt
<1> QED  BY <1>2, <1>3, <1>5, Zenon

\* A name that is UTF-8 and flagged where it has to be is not converted.
LEMMA NameStays ==
  ASSUME NEW files, NEW i \in DOMAIN files, ~files[i].nonUTF8
  PROVE  normalizeNameEncoding(files)[i].name = files[i].name
<1> DEFINE new == [k \in DOMAIN files |->
             IF files[k].nonUTF8 THEN [files[k] EXCEPT !.name = <<[t |-> "decoded", of |-> @]>>]
             ELSE files[k]]
<1>1. new[i] = files[i]
  OBVIOUS
<1>2. normalizeNameEncoding(files) = new \/ normalizeNameEncoding(files) = files
  BY Zenon DEF normalizeNameEncoding
<1> HIDE DEF new
<1> QED  BY <1>1, <1>2, Zenon

\* Nothing is read from a file whose archive Close has not flushed, unless an end
\* record of the client misleads the search.
LEMMA UnsealedRefused ==
  ASSUME TypeInv, EndsInv, ~sealed, NEW b, b = File(Len(out)), ~Misled(b)
  PROVE  NewReader(b).err # "nil"
<1>1. SUFFICES ASSUME NewReader(b).err = "nil" PROVE FALSE
  OBVIOUS
<1>2. PICK p \in Nat, m \in Nat : /\ p = prefix /\ m = Len(out) /\ Len(b) = p + m
                                  /\ \A k \in 1 .. p : b[k] = PrefixByte(k)
                                  /\ \A k \in 1 .. m : b[p + k] = out[k]
  BY FileIs, Zenon
<1>3. PICK l \in Nat : l = Len(b) /\ l = p + m
  BY <1>2
<1>4. PICK o : o = findSignatureInBlock(b)
  OBVIOUS
<1>5. o \in Nat /\ o + directoryEndLen <= l /\ b[o + 1].t = "end"
  <2>1. o # -1
    BY <1>1, <1>3, <1>4, NoSignature
  <2>2. o \in Nat /\ o + directoryEndLen <= l
    BY <2>1, <1>3, <1>4, SignatureFound
  <2> QED  BY <2>2, <1>4, NotMisled, Zenon
<1>6. o + 1 \in 1 .. p + m
  <2>1. PICK c \in Nat : c = directoryEndLen /\ c # 0
    BY FormatAssumption
  <2>2. o + c <= p + m
    BY <1>3, <1>5, <2>1, Zenon
  <2> QED  BY <1>2, <1>5, <2>1, <2>2
<1>7. CASE o + 1 \in 1 .. p
  BY <1>2, <1>5, <1>7, PrefixKind, Zenon
<1>8. CASE o + 1 \notin 1 .. p
  <2>1. PICK j \in 1 .. m : o + 1 = p + j
    <3>1. (o + 1) - p \in 1 .. m /\ o + 1 = p + ((o + 1) - p)
      BY <1>2, <1>5, <1>6, <1>8
    <3> QED  BY <3>1
  <2>2. out[j].t = "end"
    BY <2>1, <1>2, <1>5, Zenon
  <2>3. out[j].t \notin EndKinds
    BY <1>2, <2>1, Zenon DEF EndsInv, NoEnd
  <2> QED  BY <2>2, <2>3 DEF EndKinds
<1> QED  BY <1>7, <1>8

\* A name that is UTF-8, of an entry with such a comment that does not ask for
\* another encoding, is read from the file as it was given to CreateHeader, and
\* not converted because of the name of another entry.
THEOREM NamesRead ==
  ASSUME ~FlushRaces
  PROVE  Spec => []NamesKept
<1>1. ReadInv => NamesKept
  <2> SUFFICES ASSUME ReadInv, Opened.err = "nil", Sound, NEW i \in 1 .. listed,
                      ~fhs[dir[i].fh].nonUTF8, Valid(fhs[dir[i].fh])
               PROVE  Opened.files[i].name = NameBytes(fhs[dir[i].fh].name)
    BY Zenon DEF NamesKept, Valid
  <2>1. PICK b : b = File(Len(out)) /\ Opened = NewReader(b)
    BY DEF Opened
  <2>2. sealed
    BY <2>1, UnsealedRefused, Zenon DEF ReadInv, Sound
  <2>3. PICK q, g, start, at, text :
           /\ InFile(b, q, g, listed, start, at, text, dir, fhs)
           /\ NewReader(b) =
                [err |-> "nil", files |-> normalizeNameEncoding(Files(b, q, start, listed))]
    <3>1. NewReader(b).err = "nil"
      BY <2>1, Zenon
    <3> QED  BY <2>1, <2>2, <3>1, SealedRead, Zenon DEF Sound
  <2>4. PICK n \in Nat : n = listed
    BY DEF ReadInv, TypeInv, HistType
  <2>5. Chain(b, q, g, n, dir, fhs)
    BY <2>3, <2>4, Zenon DEF InFile
  <2>6. PICK x, fh, a, o : x = g[i] /\ fh = fhs[dir[i].fh] /\ a = q[i - 1] /\ o = dir[i].offset
    OBVIOUS
  <2>7. /\ x \in FileHeader /\ o \in Nat /\ At(b, a, BytesOf(x, o)) /\ Flagged(x)
        /\ Older(x, fh)
    BY <2>4, <2>5, <2>6, Zenon DEF Chain, Link
  <2>8. Fits(x)
    BY <2>4, <2>5, <2>6, ChainFits, Zenon DEF ReadInv, Sound
  <2>9. IsSeq(b)
    BY <2>1, FileIs, Zenon DEF ReadInv
  <2>10. PICK skip, files : /\ skip = Skipped(q[0], start) /\ files = Files(b, q, start, n)
    OBVIOUS
  <2>11. DOMAIN files = 1 .. n /\ files[i] = FileAt(b, a, skip)
    <3>1. files = [j \in 1 .. n |-> FileAt(b, q[j - 1], skip)]
      BY <2>10, Zenon DEF Files, FilesTo
    <3> QED  BY <3>1, <2>4, <2>6, Zenon
  <2>12. /\ files[i].name = NameBytes(x.name)
         /\ files[i].nonUTF8 = NonUTF8(NameBytes(x.name), NameBytes(x.comment), x.utf8)
    <3>1. /\ FileAt(b, a, skip).name = NameBytes(x.name)
          /\ FileAt(b, a, skip).nonUTF8 =
               NonUTF8(NameBytes(x.name), NameBytes(x.comment), x.utf8)
      BY <2>7, <2>8, <2>9, FileNamed
    <3> QED  BY <3>1, <2>11, Zenon
  <2>13. ~files[i].nonUTF8
    <3>1. ~x.nonUTF8 /\ Valid(x)
      BY <2>6, <2>7, Zenon DEF Older, Valid
    <3>2. ~NonUTF8(NameBytes(x.name), NameBytes(x.comment), x.utf8)
      BY <2>7, <3>1, Zenon DEF NonUTF8, Flagged, Valid
    <3> QED  BY <2>12, <3>2, Zenon
  <2>14. normalizeNameEncoding(files)[i].name = NameBytes(x.name)
    BY <2>4, <2>11, <2>12, <2>13, NameStays, Zenon
  <2>15. Opened.files = normalizeNameEncoding(files)
    BY <2>1, <2>3, <2>4, <2>10
  <2>16. x.name = fh.name
    BY <2>7, Zenon DEF Older
  <2> QED  BY <2>6, <2>14, <2>15, <2>16, Zenon
<1> QED  BY <1>1, ReadInvHolds, PTL

-----------------------------------------------------------------------------
(* What Open and Read give of the files that NewReader has found.          *)

\* There are p bytes in front of the archive, and the writer was told of o of them.
InFront(p, o) == o \in {0, p} /\ p <= uint64max \div 2

\* The difference between where the directory is and where the writer had it is
\* the length of the data in front that the writer did not know of.
LEMMA SkipIs ==
  ASSUME NEW p \in Nat, NEW o \in Nat, InFront(p, o),
         NEW s \in Nat, NEW start \in Nat, s + o = start + p
  PROVE  int64(Skipped(s, start)) = p - o
<1>0. o \in {0, p} /\ p <= uint64max \div 2
  BY Zenon DEF InFront
<1>1. PICK m \in Nat, h \in Nat : m = uint64max /\ h = uint64max \div 2
  <2>1. uint64max \in Nat
    BY DirectoryAssumption
  <2>2. uint64max \div 2 \in Nat
    BY <2>1
  <2> QED  BY <2>1, <2>2
<1>2. h <= m /\ p <= h
  <2>1. h = m \div 2
    BY <1>1
  <2>2. h <= m
    BY <1>1, <2>1
  <2>3. p <= h
    BY <1>0, <1>1, Zenon
  <2> QED  BY <2>2, <2>3
<1>3. CASE s = start
  <2>1. p - o = 0
    BY <1>0, <1>3
  <2>2. Skipped(s, start) = 0
    BY <1>3, Zenon DEF Skipped
  <2>3. ~(0 > h)
    BY <1>1
  <2>4. int64(0) = 0
    BY <1>1, <2>3, Zenon DEF int64
  <2> QED  BY <2>1, <2>2, <2>4, Zenon
<1>4. CASE s # start
  <2>1. o = 0 /\ s - start = p /\ p - o = p
    BY <1>0, <1>4
  <2>2. p % (m + 1) = p
    BY <1>1, <1>2
  <2>3. Skipped(s, start) = p
    BY <1>1, <1>4, <2>1, <2>2, Zenon DEF Skipped, uint64
  <2>4. ~(p > h)
    BY <1>1, <1>2
  <2>5. int64(p) = p
    BY <1>1, <2>4, Zenon DEF int64
  <2> QED  BY <2>1, <2>3, <2>5, Zenon
<1> QED  BY <1>3, <1>4

\* The l bytes behind p are those of an Extra.
ExtraAt(b, p, l, extra) ==
  l = Len(ExtraBytes(extra)) /\ \A k \in 1 .. l : b[p + k] = ExtraBytes(extra)[k]

\* The zip64 field found there is z.
FoundField(b, p, l, z) == Zip64Field(b, p, l) = <<z>>

\* The zip64 field behind other fields that are not of zip64 is the one found.
LEMMA FieldOnly ==
  ASSUME NEW x \in Seq({ExtTime}), NEW u \in Nat, NEW c \in Nat, NEW o \in Nat,
         NEW b, NEW p, NEW l, ExtraAt(b, p, l, Append(x, Zip64Extra(u, c, o)))
  PROVE  FoundField(b, p, l, Zip64Extra(u, c, o))
<1>0. PICK z : z = Zip64Extra(u, c, o)
  OBVIOUS
<1>1. PICK m, s, f : /\ m = Len(ExtraBytes(x)) /\ s = ExtraBytes(Append(x, z))
                     /\ f = zip64ExtraLen
  OBVIOUS
<1>2. x \in Seq(ExtraField)
  BY DEF ExtraField
<1>3. /\ m \in Nat /\ f \in Nat /\ f # 0 /\ Len(s) = m + f
      /\ \A k \in 1 .. m : s[k] = ExtraBytes(x)[k]
      /\ s[m + 1] = z
      /\ \A k \in 1 .. f : k # 1 => s[m + k] = Filler
      /\ FieldLen(z) = f /\ z.t = "extra" /\ z.tag = "zip64"
  <2>1. EndsWith(x, z)
    BY <1>0, <1>2, LastField, Zenon
  <2> QED  BY <2>1, <1>1, Zenon DEF EndsWith
<1>4. l = m + f /\ \A k \in 1 .. l : b[p + k] = s[k]
  BY <1>0, <1>1, <1>3, Zenon DEF ExtraAt
<1>5. \A k \in 1 .. m : s[k] \in {ExtTime, Filler}
  <2>1. ExtraBytes(x) \in Seq({ExtTime, Filler})
    <3>1. \A k \in 1 .. Len(x) : x[k] \in {ExtTime, Filler}
      OBVIOUS
    <3>2. Filler \in {ExtTime, Filler}
      OBVIOUS
    <3> QED  BY <3>1, <3>2, <1>2, ExtraOver, Zenon
  <2>2. PICK e : e = ExtraBytes(x)
    OBVIOUS
  <2>3. e \in Seq({ExtTime, Filler}) /\ m = Len(e) /\ \A k \in 1 .. m : s[k] = e[k]
    BY <1>1, <1>3, <2>1, <2>2, Zenon
  <2>4. \A k \in 1 .. m : e[k] \in {ExtTime, Filler}
    BY <2>3
  <2> QED  BY <2>3, <2>4, Zenon
<1>6. ASSUME NEW k \in 1 .. l, k # m + 1 PROVE b[p + k].t # "extra" \/ b[p + k].tag # "zip64"
  <2>1. s[k] \in {ExtTime, Filler}
    <3>1. CASE k \in 1 .. m
      BY <3>1, <1>5, Zenon
    <3>2. CASE k \notin 1 .. m
      <4>1. PICK j \in 1 .. f : k = m + j /\ j # 1
        <5>1. k - m \in 1 .. f /\ k = m + (k - m) /\ k - m # 1
          BY <1>3, <1>4, <1>6, <3>2
        <5> QED  BY <5>1
      <4> QED  BY <4>1, <1>3, Zenon
    <3> QED  BY <3>1, <3>2
  <2>2. b[p + k] \in {ExtTime, Filler}
    BY <2>1, <1>4, Zenon
  <2>3. ExtTime.tag # "zip64" /\ Filler.t # "extra"
    BY DEF ExtTime, Filler
  <2> QED  BY <2>2, <2>3, Zenon
<1>7. m + 1 \in 1 .. l /\ (m + 1) + f <= l + 1
  BY <1>3, <1>4
<1>8. b[p + (m + 1)] = z
  BY <1>3, <1>4, <1>7, Zenon
<1> DEFINE starts == {k \in 1 .. l : /\ b[p + k].t = "extra" /\ b[p + k].tag = "zip64"
                                     /\ k + FieldLen(b[p + k]) <= l + 1}
<1>9. starts = {m + 1}
  <2>1. m + 1 \in starts
    BY <1>3, <1>7, <1>8, Zenon
  <2>2. \A k \in starts : k = m + 1
    BY <1>6, Zenon
  <2> HIDE DEF starts
  <2> QED  BY <2>1, <2>2, Zenon
<1>10. (CHOOSE k \in starts : \A j \in starts : k <= j) = m + 1
  <2>1. m + 1 <= m + 1
    BY <1>3
  <2> HIDE DEF starts
  <2>2. \E k \in starts : \A j \in starts : k <= j
    BY <2>1, <1>9, Zenon
  <2> QED  BY <2>2, <1>9, Zenon
<1>11. Zip64Field(b, p, l) =
         IF starts = {} THEN <<>> ELSE <<b[p + CHOOSE k \in starts : \A j \in starts : k <= j]>>
  BY Zenon DEF Zip64Field
<1> HIDE DEF starts
<1> QED  BY <1>0, <1>8, <1>9, <1>10, <1>11, Zenon DEF FoundField

\* The file f has the checksum, sizes and method of the header g.
Describes(f, g, at) ==
  /\ {"method", "crc", "usize", "csize", "offset"} \subseteq DOMAIN f
  /\ f.method = g.method /\ f.crc = g.crc /\ f.usize = g.usize64 /\ f.csize = g.csize64
  /\ f.offset = at

\* The values of a header that tells what was written are the ones of the file.
LEMMA FileValues ==
  ASSUME NEW b, IsSeq(b), NEW g \in FileHeader, NEW o \in Nat, NEW a, NEW skip, NEW i, NEW n,
         At(b, a, BytesOf(g, o)), Fits(g), SizesIn(g, o), Tells(g, i, n, o)
  PROVE  Describes(FileAt(b, a, skip), g, o + int64(skip))
<1>1. PICK l, d : l = Len(ExtraBytes(g.extra)) /\ d = HeaderOf(g, o)
  OBVIOUS
<1>2. PICK p, z : /\ z = Zip64Field(b, p, l)
                  /\ readDirectoryHeader(b, a) =
                       ListedFile(d, Zip64(d, z), NameBytes(g.name), NameBytes(g.comment))
                  /\ \A k \in 1 .. l : b[p + k] = ExtraBytes(g.extra)[k]
  <2> DEFINE x == Len(NameBytes(g.name))  y == Len(ExtraBytes(g.extra))  u == HeaderOf(g, o)
             q == (a + directoryHeaderLen) + x  v == Zip64Field(b, q, y)
  <2>1. /\ readDirectoryHeader(b, a) =
             ListedFile(u, Zip64(u, v), NameBytes(g.name), NameBytes(g.comment))
        /\ \A k \in 1 .. y : b[q + k] = ExtraBytes(g.extra)[k]
    BY ReadHeader
  <2>2. l = y /\ d = u
    BY <1>1, Zenon
  <2> HIDE DEF x, y, u, q
  <2> QED  BY <2>1, <2>2, Zenon
<1>3. /\ d.method = g.method /\ d.crc = g.crc /\ d.csize = g.csize /\ d.usize = g.usize
      /\ d.offset = IF o > uint32max THEN uint32max ELSE o
  BY <1>1 DEF HeaderOf
<1>4. /\ Zip64(d, z).usize = g.usize64 /\ Zip64(d, z).csize = g.csize64
      /\ Zip64(d, z).offset = o
  <2>0. g.usize64 \in Nat /\ g.csize64 \in Nat /\ uint32max \in Nat
    BY FormatAssumption DEF FileHeader
  <2>1. CASE Large(g, o)
    <3>1. PICK x \in Seq({ExtTime}) : g.extra = Append(x, Zip64Extra(g.usize64, g.csize64, o))
      BY <2>1, Zenon DEF Tells
    <3>2. PICK e, c, u : e = Zip64Extra(u, c, o) /\ u = g.usize64 /\ c = g.csize64
      OBVIOUS
    <3>3. ExtraAt(b, p, l, Append(x, e))
      BY <1>1, <1>2, <3>1, <3>2, Zenon DEF ExtraAt
    <3>4. z = <<e>>
      <4>1. u \in Nat /\ c \in Nat /\ e = Zip64Extra(u, c, o)
        BY <2>0, <3>2, Zenon
      <4>2. FoundField(b, p, l, Zip64Extra(u, c, o))
        <5>1. ExtraAt(b, p, l, Append(x, Zip64Extra(u, c, o)))
          BY <3>3, <4>1, Zenon
        <5>2. u \in Nat /\ c \in Nat
          BY <4>1
        <5> QED  BY <5>1, <5>2, FieldOnly, Zenon
      <4> QED  BY <1>2, <4>1, <4>2, Zenon DEF FoundField
    <3>5. z # <<>> /\ z[1] = e
      BY <3>4
    <3>6. e.usize = u /\ e.csize = c /\ e.offset = o
      BY <3>2 DEF Zip64Extra
    <3>7. d.csize = uint32max /\ d.usize = uint32max
      BY <1>3, <2>1, Zenon DEF SizesIn
    <3>8. Zip64(d, z).usize = u /\ Zip64(d, z).csize = c
      BY <3>5, <3>6, <3>7 DEF Zip64
    <3>9. Zip64(d, z).offset = o
      <4>1. Zip64(d, z).offset = IF d.offset = uint32max THEN o ELSE d.offset
        BY <3>5, <3>6 DEF Zip64
      <4>2. d.offset # uint32max => d.offset = o
        BY <1>3, <2>0
      <4> QED  BY <4>1, <4>2, Zenon
    <3> QED  BY <3>2, <3>8, <3>9, Zenon
  <2>2. CASE ~Large(g, o)
    <3>1. /\ g.csize = g.csize64 /\ g.usize = g.usize64 /\ ~(g.csize64 >= uint32max)
          /\ ~(g.usize64 >= uint32max) /\ ~(o >= uint32max)
      BY <2>2, Zenon DEF SizesIn, Large, isZip64
    <3>2. g.csize64 # uint32max /\ g.usize64 # uint32max /\ o # uint32max /\ ~(o > uint32max)
      BY <2>0, <3>1
    <3>3. /\ d.csize = g.csize64 /\ d.usize = g.usize64 /\ d.offset = o
          /\ d.csize # uint32max /\ d.usize # uint32max /\ d.offset # uint32max
      BY <1>3, <3>1, <3>2, Zenon
    <3> QED  BY <3>3 DEF Zip64
  <2> QED  BY <2>1, <2>2
<1>5. PICK v, nm, non, nx : /\ v = Zip64(d, z) /\ nm = NameBytes(g.name)
                            /\ non = NonUTF8(nm, NameBytes(g.comment), d.utf8)
                            /\ nx = directoryHeaderLen + d.name + d.extra + d.comment
  OBVIOUS
<1>6. readDirectoryHeader(b, a) =
        [err |-> v.err, name |-> nm, method |-> d.method, crc |-> d.crc, usize |-> v.usize,
         csize |-> v.csize, offset |-> v.offset, nonUTF8 |-> non, next |-> nx]
  BY <1>2, <1>5, Zenon DEF ListedFile
<1>7. PICK f : f = FileAt(b, a, skip)
  OBVIOUS
<1>8. /\ {"method", "crc", "usize", "csize", "offset"} \subseteq DOMAIN f
      /\ f.method = d.method /\ f.crc = d.crc /\ f.usize = v.usize /\ f.csize = v.csize
      /\ f.offset = v.offset + int64(skip)
  BY <1>6, <1>7 DEF FileAt
<1> QED  BY <1>3, <1>4, <1>5, <1>7, <1>8, Zenon DEF Describes

\* The conversion of names changes no other value.
LEMMA ValuesStay ==
  ASSUME NEW n \in Nat, NEW files, DOMAIN files = 1 .. n, files = [j \in 1 .. n |-> files[j]]
  PROVE  /\ Len(normalizeNameEncoding(files)) = n
         /\ \A i \in 1 .. n : \A g, at :
              Describes(files[i], g, at) => Describes(normalizeNameEncoding(files)[i], g, at)
<1> DEFINE new == [k \in DOMAIN files |->
             IF files[k].nonUTF8 THEN [files[k] EXCEPT !.name = <<[t |-> "decoded", of |-> @]>>]
             ELSE files[k]]
<1>1. Len(files) = n
  BY FunctionIsSeq, Zenon
<1>2. Len(new) = n
  <2>1. DOMAIN new = 1 .. n
    OBVIOUS
  <2>2. new = [j \in 1 .. n |-> new[j]]
    OBVIOUS
  <2> HIDE DEF new
  <2> QED  BY <2>1, <2>2, FunctionIsSeq, Zenon
<1>3. ASSUME NEW i \in 1 .. n, NEW g, NEW at, Describes(files[i], g, at)
      PROVE  Describes(new[i], g, at)
  <2>1. CASE files[i].nonUTF8
    <3>1. PICK f, v : f = files[i] /\ v = <<[t |-> "decoded", of |-> f.name]>>
      OBVIOUS
    <3>2. new[i] = [f EXCEPT !.name = v]
      BY <2>1, <3>1, Zenon
    <3> HIDE DEF new
    <3>3. PICK h : h = [f EXCEPT !.name = v] /\ h = new[i]
      BY <3>2
    <3>4. DOMAIN h = DOMAIN f /\ \A x \in DOMAIN f : x # "name" => h[x] = f[x]
      BY <3>3
    <3>5. /\ {"method", "crc", "usize", "csize", "offset"} \subseteq DOMAIN f
          /\ f.method = g.method /\ f.crc = g.crc /\ f.usize = g.usize64 /\ f.csize = g.csize64
          /\ f.offset = at
      BY <1>3, <3>1, Zenon DEF Describes
    <3>6. /\ {"method", "crc", "usize", "csize", "offset"} \subseteq DOMAIN h
          /\ h.method = f.method /\ h.crc = f.crc /\ h.usize = f.usize /\ h.csize = f.csize
          /\ h.offset = f.offset
      BY <3>4, <3>5
    <3> QED  BY <3>3, <3>5, <3>6, Zenon DEF Describes
  <2>2. CASE ~files[i].nonUTF8
    <3>1. new[i] = files[i]
      BY <2>2, Zenon
    <3> QED  BY <3>1, <1>3, Zenon
  <2> QED  BY <2>1, <2>2
<1>4. normalizeNameEncoding(files) = new \/ normalizeNameEncoding(files) = files
  BY Zenon DEF normalizeNameEncoding
<1> HIDE DEF new
<1> QED  BY <1>1, <1>2, <1>3, <1>4, Zenon

\* An entry is complete in the file, behind the data in front, as it is in the
\* archive.
LEMMA EntryShift ==
  ASSUME NEW w, NEW b, NEW p, Holds(b, p, w), NEW at, NEW d, IsSeq(d), NEW crc,
         EntryOK(w, at, d, TRUE, crc)
  PROVE  EntryOK(b, p + at, d, TRUE, crc)
<1>1. /\ at \in Nat /\ at + fileHeaderLen <= Len(w) /\ w[at + 1].t = "file"
      /\ findBodyOffset(w[at + 1]) \in Nat
      /\ Body(w, at) \in Nat /\ Body(w, at) + Len(d) <= Len(w)
      /\ \A k \in 1 .. Len(d) : w[Body(w, at) + k] = d[k]
      /\ (Body(w, at) + Len(d)) + dataDescriptorLen <= Len(w)
      /\ w[(Body(w, at) + Len(d)) + 1].t = "descriptor"
      /\ w[(Body(w, at) + Len(d)) + 1].crc = crc
  BY Zenon DEF EntryOK, Placed, Ended
<1>2. PICK n \in Nat, h \in Nat, l \in Nat, c \in Nat, e \in Nat :
         /\ n = Len(w) /\ h = fileHeaderLen /\ l = Len(d) /\ c = findBodyOffset(w[at + 1])
         /\ e = dataDescriptorLen /\ h # 0 /\ e # 0
  <2>1. Len(w) \in Nat /\ Len(d) \in Nat
    BY Concat DEF Holds
  <2>2. fileHeaderLen \in Nat \ {0} /\ dataDescriptorLen \in Nat \ {0}
    BY FormatAssumption
  <2>3. PICK n \in Nat, l \in Nat, c \in Nat :
           n = Len(w) /\ l = Len(d) /\ c = findBodyOffset(w[at + 1])
    BY <1>1, <2>1, Zenon
  <2>4. PICK h \in Nat, e \in Nat :
           h = fileHeaderLen /\ e = dataDescriptorLen /\ h # 0 /\ e # 0
    BY <2>2
  <2> QED  BY <2>3, <2>4, Zenon
<1>3. Body(w, at) = at + c
  BY <1>2, Zenon DEF Body
<1>4. p \in Nat /\ Len(b) = p + n /\ \A k \in 1 .. n : b[p + k] = w[k]
  BY <1>2, Zenon DEF Holds
<1>5. /\ at + h <= n /\ (at + c) + l <= n /\ ((at + c) + l) + e <= n
      /\ at \in Nat /\ p \in Nat /\ h # 0 /\ e # 0
  BY <1>1, <1>2, <1>3, <1>4, Zenon
<1>6. b[(p + at) + 1] = w[at + 1]
  <2>1. PICK j \in 1 .. n : j = at + 1 /\ (p + at) + 1 = p + j
    BY <1>5
  <2>2. b[p + j] = w[j]
    BY <1>4, Zenon
  <2> QED  BY <2>1, <2>2, Zenon
<1>7. Body(b, p + at) = (p + at) + c
  BY <1>2, <1>6, Zenon DEF Body
<1>8. ASSUME NEW k \in 1 .. l PROVE b[((p + at) + c) + k] = d[k]
  <2>1. PICK j \in 1 .. n : j = (at + c) + k /\ ((p + at) + c) + k = p + j
    BY <1>5
  <2> QED  BY <2>1, <1>1, <1>2, <1>3, <1>4, Zenon
<1>9. b[(((p + at) + c) + l) + 1] = w[((at + c) + l) + 1]
  <2>1. PICK j \in 1 .. n : j = ((at + c) + l) + 1 /\ (((p + at) + c) + l) + 1 = p + j
    BY <1>5
  <2>2. b[p + j] = w[j]
    BY <1>4, Zenon
  <2> QED  BY <2>1, <2>2, Zenon
<1>10. /\ p + at \in Nat /\ (p + at) + h <= p + n /\ (p + at) + c \in Nat
       /\ ((p + at) + c) + l <= p + n /\ (((p + at) + c) + l) + e <= p + n
  BY <1>5
<1>11. Placed(b, p + at, d)
  BY <1>1, <1>2, <1>4, <1>6, <1>7, <1>8, <1>10, Zenon DEF Placed
<1>12. Ended(b, ((p + at) + c) + l, crc)
  BY <1>1, <1>2, <1>3, <1>4, <1>9, <1>10, Zenon DEF Ended
<1> QED  BY <1>2, <1>7, <1>11, <1>12, Zenon DEF EntryOK

\* The data of an entry is decompressed to what was written.
LEMMA DataDecompressed ==
  ASSUME NEW i \in Nat, NEW n \in Nat, NEW method
  PROVE  Decompress(method, Data(i, method, n, TRUE)) = [units |-> Run(i, 0, n), ok |-> TRUE]
<1>0. PICK s : s = Data(i, method, n, TRUE)
  OBVIOUS
<1>1. CASE method = "Deflate"
  <2>1. PICK a, e : a = Deflated(Run(i, 0, n)) /\ e = FinalBlock
    OBVIOUS
  <2>2. /\ IsSeq(a) /\ Len(a) = n
        /\ \A k \in 1 .. n : a[k] = [t |-> "deflated", unit |-> <<i, 0 + k>>]
    BY <2>1, DeflatedRun
  <2>3. IsSeq(e) /\ Len(e) = 1 /\ e[1].t = "final"
    <3>1. FinalBlock \in Seq({[t |-> "final"]}) /\ Len(FinalBlock) = 1 /\ FinalBlock[1].t = "final"
      BY DEF FinalBlock
    <3>2. IsSeq(FinalBlock)
      BY <3>1, SeqIsSeq
    <3> QED  BY <2>1, <3>1, <3>2, Zenon
  <2>4. s = a \o e
    BY <1>0, <1>1, <2>1, Zenon DEF Data
  <2>5. /\ Len(a \o e) = Len(a) + Len(e)
        /\ \A k \in 1 .. Len(a) : (a \o e)[k] = a[k]
        /\ \A k \in 1 .. Len(e) : (a \o e)[Len(a) + k] = e[k]
    <3>1. IsSeq(a) /\ IsSeq(e)
      BY <2>2, <2>3
    <3> QED  BY <3>1, Concat
  <2>6. /\ Len(s) = n + 1 /\ s[n + 1].t = "final"
        /\ \A k \in 1 .. n : s[k] = [t |-> "deflated", unit |-> <<i, 0 + k>>]
    <3>1. 1 \in 1 .. 1
      OBVIOUS
    <3> QED  BY <3>1, <2>2, <2>3, <2>4, <2>5, Zenon
  <2>7. Len(s) - 1 = n /\ s # <<>>
    <3>1. (n + 1) - 1 = n /\ n + 1 # 0 /\ Len(<<>>) = 0
      OBVIOUS
    <3> QED  BY <3>1, <2>6, Zenon
  <2>8. Decompress(method, s) =
          [units |-> [k \in 1 .. Len(s) - 1 |-> s[k].unit],
           ok |-> /\ s # <<>> /\ s[Len(s)].t = "final"
                  /\ \A k \in 1 .. Len(s) - 1 : s[k].t = "deflated"]
    BY <1>1, Zenon DEF Decompress
  <2>9. \A k \in 1 .. n : s[k].unit = <<i, 0 + k>> /\ s[k].t = "deflated"
    <3> SUFFICES ASSUME NEW k \in 1 .. n
                 PROVE  s[k].unit = <<i, 0 + k>> /\ s[k].t = "deflated"
      OBVIOUS
    <3>1. PICK u, x : u = <<i, 0 + k>> /\ x = [t |-> "deflated", unit |-> u]
      OBVIOUS
    <3>2. x.unit = u /\ x.t = "deflated"
      BY <3>1
    <3>3. s[k] = x
      BY <2>6, <3>1, Zenon
    <3> QED  BY <3>1, <3>2, <3>3, Zenon
  <2>10. [k \in 1 .. n |-> s[k].unit] = Run(i, 0, n)
    BY <2>9, Zenon DEF Run
  <2>11. (/\ s # <<>> /\ s[Len(s)].t = "final"
          /\ \A k \in 1 .. Len(s) - 1 : s[k].t = "deflated") = TRUE
    BY <2>6, <2>7, <2>9, Zenon
  <2> QED  BY <1>0, <2>7, <2>8, <2>10, <2>11, Zenon
<1>2. CASE method # "Deflate"
  <2>1. s = [k \in 1 .. n |-> [t |-> "raw", unit |-> <<i, 0 + k>>]]
    BY <1>0, <1>2, Zenon DEF Data, Raw
  <2>2. DOMAIN s = 1 .. n /\ \A k \in 1 .. n : s[k].unit = <<i, 0 + k>> /\ s[k].t = "raw"
    BY <2>1
  <2>3. Decompress(method, s) =
          [units |-> [k \in DOMAIN s |-> s[k].unit], ok |-> \A k \in DOMAIN s : s[k].t = "raw"]
    BY <1>2, Zenon DEF Decompress
  <2>4. [k \in DOMAIN s |-> s[k].unit] = Run(i, 0, n)
    BY <2>2, Zenon DEF Run
  <2>5. (\A k \in DOMAIN s : s[k].t = "raw") = TRUE
    BY <2>2, Zenon
  <2> QED  BY <1>0, <2>3, <2>4, <2>5, Zenon
<1> QED  BY <1>1, <1>2

\* The file f is read to its end, and is s.
Reads(b, f, s) == ReadAll(b, f) = [err |-> "EOF", data |-> s]

\* A file whose values are those of an entry that is complete is read as it was
\* written.
LEMMA EntryReads ==
  ASSUME NEW b, IsSeq(b), NEW i \in Nat, NEW n \in Nat, NEW g, Summed(g, i, n), NEW at,
         EntryOK(b, at, Data(i, g.method, n, TRUE), TRUE, Run(i, 0, n)),
         NEW f, Describes(f, g, at)
  PROVE  Reads(b, f, Run(i, 0, n))
<1>1. PICK d, r : d = Data(i, g.method, n, TRUE) /\ r = Run(i, 0, n)
  OBVIOUS
<1>2. PICK p : p = Body(b, at)
  OBVIOUS
<1>3. /\ at \in Nat /\ at + fileHeaderLen <= Len(b) /\ b[at + 1].t = "file"
      /\ p \in Nat /\ p + Len(d) <= Len(b) /\ \A k \in 1 .. Len(d) : b[p + k] = d[k]
      /\ (p + Len(d)) + dataDescriptorLen <= Len(b)
      /\ b[(p + Len(d)) + 1].t = "descriptor" /\ b[(p + Len(d)) + 1].crc = r
  BY <1>1, <1>2, Zenon DEF EntryOK, Placed, Ended
<1>4. IsSeq(d)
  BY <1>1, DataGrows, Zenon
<1>5. /\ f.method = g.method /\ f.crc = r /\ f.usize = n /\ f.csize = Len(d)
      /\ f.offset = at
  BY <1>1, Zenon DEF Describes, Summed
<1>6. Found(b, f.offset, fileHeaderLen, "file")
  <2>1. at >= 0
    BY <1>3
  <2> QED  BY <2>1, <1>3, <1>5, Zenon DEF Found
<1>7. ReadAll(b, f) = ReadBody(b, f, p)
  BY <1>2, <1>5, <1>6, Zenon DEF ReadAll, Body
<1>8. Slice(b, p, f.csize) = d
  BY <1>3, <1>4, <1>5, SliceIs, Zenon
<1>9. PICK data : data = Decompress(f.method, Slice(b, p, f.csize))
  OBVIOUS
<1>10. data = [units |-> r, ok |-> TRUE]
  <2>1. PICK m : m = f.method /\ m = g.method
    BY <1>5, Zenon
  <2>2. Decompress(m, Data(i, m, n, TRUE)) = [units |-> Run(i, 0, n), ok |-> TRUE]
    BY DataDecompressed
  <2> QED  BY <1>1, <1>8, <1>9, <2>1, <2>2, Zenon
<1>11. data.units = r /\ data.ok
  BY <1>10
<1>12. Len(data.units) = f.usize
  <2>1. Len(r) = n
    BY <1>1, RunType
  <2> QED  BY <2>1, <1>5, <1>11, Zenon
<1>13. ~((p + f.csize) + dataDescriptorLen > Len(b))
  <2>1. PICK l \in Nat, m \in Nat, e \in Nat : l = Len(d) /\ m = Len(b) /\ e = dataDescriptorLen
    <3>1. Len(d) \in Nat /\ Len(b) \in Nat
      BY <1>4, Concat
    <3> QED  BY <3>1, FormatAssumption
  <2>2. (p + l) + e <= m
    BY <1>3, <2>1, Zenon
  <2>3. ~((p + l) + e > m)
    BY <1>3, <2>1, <2>2
  <2> QED  BY <1>5, <2>1, <2>3, Zenon
<1>14. CheckEnd(b, f, data, p + f.csize) = "EOF"
  BY <1>3, <1>5, <1>11, <1>12, <1>13, Zenon DEF CheckEnd
<1>15. ReadBody(b, f, p) = [err |-> "EOF", data |-> r]
  BY <1>9, <1>11, <1>14, Zenon DEF ReadBody
<1> QED  BY <1>1, <1>7, <1>15, Zenon DEF Reads

\* An entry that Close has listed is read from the file as it was written.
LEMMA ListedReads ==
  ASSUME ReadInv, sealed, Sound, NEW b, b = File(Len(out)), NEW q, NEW g, NEW start,
         Chain(b, q, g, listed, dir, fhs), Told(g, listed, listed, dir, made),
         q[0] + base = start + prefix, start \in Nat, NEW i \in 1 .. listed,
         NEW f, Describes(FileAt(b, q[i - 1], Skipped(q[0], start)), g[i],
                          dir[i].offset + int64(Skipped(q[0], start)))
                  => Describes(f, g[i], dir[i].offset + int64(Skipped(q[0], start)))
  PROVE  Reads(b, f, Contents(i))
<1>0. TypeInv /\ DirInv /\ PhaseInv /\ HeadersInv /\ WholeInv /\ ~Spoiled /\ ~Overlong /\ ~Reused
  BY Zenon DEF ReadInv, ControlInv, Sound
<1>1. i \in 1 .. Len(dir) /\ listed \in Nat
  <2>1. Len(dir) \in Nat
    <3>1. dir \in Seq([fh : DOMAIN fhs, offset : Nat])
      BY <1>0 DEF TypeInv, FieldType
    <3> QED  BY <3>1
  <2>2. listed \in Nat /\ listed <= Len(dir)
    BY <1>0 DEF TypeInv, HistType, PhaseInv
  <2> QED  BY <2>1, <2>2
<1>2. PICK x, o, skip, a : /\ x = g[i] /\ o = dir[i].offset /\ skip = Skipped(q[0], start)
                           /\ a = q[i - 1]
  OBVIOUS
<1>3. /\ x \in FileHeader /\ o \in Nat /\ At(b, a, BytesOf(x, o)) /\ SizesIn(x, o)
      /\ Older(x, fhs[dir[i].fh]) /\ q[0] \in Nat
  BY <1>2, Zenon DEF Chain, Link
<1>4. Fits(x)
  BY <1>0, <1>2, ChainFits, Zenon
<1>5. made[i] # -1 /\ made[i] \in Nat
  <2>1. made[i] # -1
    BY <1>0, Zenon DEF Spoiled
  <2>2. made[i] \in Nat \cup {-1}
    <3>1. made \in Seq(Nat \cup {-1}) /\ Len(made) = Len(dir)
      BY <1>0 DEF TypeInv, HistType, DirInv
    <3> QED  BY <3>1, <1>1
  <2> QED  BY <2>1, <2>2, Zenon
<1>6. Alone(i, listed, dir)
  BY <1>0, Zenon DEF Reused, Alone
<1>7. Tells(x, i, made[i], o)
  BY <1>2, <1>5, <1>6, Zenon DEF Told
<1>8. IsSeq(b)
  BY <1>0, FileIs, Zenon
<1>9. Describes(FileAt(b, a, skip), x, o + int64(skip))
  BY <1>3, <1>4, <1>7, <1>8, FileValues, Zenon
<1>10. Describes(f, x, o + int64(skip))
  BY <1>2, <1>9, Zenon
<1>11. PICK p \in Nat, c \in Nat : p = prefix /\ c = base /\ InFront(p, c)
  <2>1. prefix \in Nat /\ base \in Nat
    BY <1>0 DEF TypeInv, HistType
  <2>2. base \in {0, prefix} /\ prefix \in PrefixLens
    BY <1>0, Zenon DEF PhaseInv
  <2> QED  BY <2>1, <2>2, FileAssumption, Zenon DEF InFront
<1>12. int64(skip) = p - c
  <2>1. q[0] + c = start + p
    BY <1>11, Zenon
  <2>2. PICK s \in Nat : s = q[0]
    BY <1>3
  <2>3. s + c = start + p /\ start \in Nat /\ InFront(p, c)
    BY <2>1, <2>2, <1>11, Zenon
  <2>4. int64(Skipped(s, start)) = p - c
    BY <2>3, SkipIs, ZenonT(60)
  <2> QED  BY <1>2, <2>2, <2>4, Zenon
<1>13. PICK at, d : at = o - base /\ d = Data(i, Method(i), made[i], TRUE)
  OBVIOUS
<1>14. EntryOK(out, at, d, TRUE, Run(i, 0, made[i]))
  BY <1>0, <1>2, <1>5, <1>13, Zenon DEF WholeInv, Whole
<1>15. i \in Nat /\ IsSeq(d)
  <2>1. i \in Nat
    BY <1>1
  <2> QED  BY <2>1, <1>5, <1>13, DataGrows, Zenon
<1>16. EntryOK(b, p + at, d, TRUE, Run(i, 0, made[i]))
  <2>1. Holds(b, p, out)
    <3>1. /\ IsSeq(out) /\ Len(b) = prefix + Len(out) /\ \A k \in 1 .. prefix : b[k] = PrefixByte(k)
          /\ \A k \in 1 .. Len(out) : b[prefix + k] = out[k]
      BY <1>0, FileIs, AllIsSeq, Zenon
    <3>2. Len(b) \in Nat
      BY <1>8, Concat
    <3> QED  BY <3>1, <3>2, <1>11, Zenon DEF Holds
  <2> QED  BY <2>1, <1>14, <1>15, EntryShift, Zenon
<1>17. p + at = o + int64(skip)
  <2>1. p + (o - c) = o + (p - c)
    BY <1>3, <1>11
  <2> QED  BY <2>1, <1>11, <1>12, <1>13, Zenon
<1>18. Summed(x, i, made[i])
  BY <1>7, Zenon DEF Tells
<1>19. x.method = Method(i)
  BY <1>3, Zenon DEF Older, Method
<1>20. Reads(b, f, Run(i, 0, made[i]))
  <2>1. EntryOK(b, p + at, Data(i, x.method, made[i], TRUE), TRUE, Run(i, 0, made[i]))
    BY <1>13, <1>16, <1>19, Zenon
  <2>2. Describes(f, x, p + at)
    BY <1>10, <1>17, Zenon
  <2> QED  BY <2>1, <2>2, <1>5, <1>8, <1>15, <1>18, EntryReads, Zenon
<1>21. Contents(i) = Run(i, 0, made[i])
  <2>1. made[i] <= made[i]
    BY <1>5
  <2> QED  BY <2>1, <1>5, <1>15, ContentsRun, Zenon DEF Contents
<1> QED  BY <1>20, <1>21, Zenon

\* What was written into each entry is what Open and Read give of it, to io.EOF and
\* with the checksum it was written with: wherever its offset, its sizes and its
\* FileHeader's are listed, in the header or in the zip64 field, behind data in
\* front of the archive that the writer knew of or did not, stored or deflated.
THEOREM ContentRead ==
  ASSUME ~FlushRaces
  PROVE  Spec => []ContentKept
<1>1. ReadInv => ContentKept
  <2> SUFFICES ASSUME ReadInv, Opened.err = "nil", Sound
               PROVE  /\ Len(Opened.files) = listed
                      /\ \A i \in 1 .. listed : ReadAll(File(Len(out)), Opened.files[i])
                                               = [err |-> "EOF", data |-> Contents(i)]
    BY Zenon DEF ContentKept
  <2>1. PICK b : b = File(Len(out)) /\ Opened = NewReader(b)
    BY DEF Opened
  <2>2. sealed
    BY <2>1, UnsealedRefused, Zenon DEF ReadInv, Sound
  <2>3. PICK q, g, start, at, text :
           /\ InFile(b, q, g, listed, start, at, text, dir, fhs)
           /\ Told(g, listed, listed, dir, made) /\ q[0] + base = start + prefix
           /\ NewReader(b) =
                [err |-> "nil", files |-> normalizeNameEncoding(Files(b, q, start, listed))]
    <3>1. NewReader(b).err = "nil"
      BY <2>1, Zenon
    <3> QED  BY <2>1, <2>2, <3>1, SealedRead, Zenon DEF Sound
  <2>4. PICK n \in Nat : n = listed
    BY DEF ReadInv, TypeInv, HistType
  <2>5. Chain(b, q, g, listed, dir, fhs) /\ start \in Nat
    BY <2>3, Zenon DEF InFile, EndAhead
  <2>6. PICK skip, files : /\ skip = Skipped(q[0], start) /\ files = Files(b, q, start, n)
    OBVIOUS
  <2>7. files = [j \in 1 .. n |-> FileAt(b, q[j - 1], skip)]
    BY <2>6, Zenon DEF Files, FilesTo
  <2>8. /\ DOMAIN files = 1 .. n /\ files = [j \in 1 .. n |-> files[j]]
        /\ \A j \in 1 .. n : files[j] = FileAt(b, q[j - 1], skip)
    BY <2>7, Zenon
  <2>9. PICK fs : fs = normalizeNameEncoding(files)
    OBVIOUS
  <2>10. /\ Len(fs) = n
         /\ \A i \in 1 .. n : \A x, o : Describes(files[i], x, o) => Describes(fs[i], x, o)
    BY <2>8, <2>9, ValuesStay, Zenon
  <2>11. Opened.files = fs
    BY <2>1, <2>3, <2>4, <2>6, <2>9
  <2>12. ASSUME NEW i \in 1 .. listed
         PROVE  ReadAll(b, fs[i]) = [err |-> "EOF", data |-> Contents(i)]
    <3>1. PICK f : f = fs[i]
      OBVIOUS
    <3>2. \A x, o : Describes(FileAt(b, q[i - 1], Skipped(q[0], start)), x, o)
                      => Describes(f, x, o)
      BY <2>4, <2>6, <2>8, <2>10, <3>1, Zenon
    <3>3. Describes(FileAt(b, q[i - 1], Skipped(q[0], start)), g[i],
                    dir[i].offset + int64(Skipped(q[0], start)))
            => Describes(f, g[i], dir[i].offset + int64(Skipped(q[0], start)))
      BY <3>2, Zenon
    <3>4. Reads(b, f, Contents(i))
      BY <2>1, <2>2, <2>3, <2>5, <3>3, ListedReads, Zenon
    <3> QED  BY <3>1, <3>4, Zenon DEF Reads
  <2> QED  BY <2>1, <2>4, <2>10, <2>11, <2>12, Zenon
<1> QED  BY <1>1, ReadInvHolds, PTL
=============================================================================
