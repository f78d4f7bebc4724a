--------------------------- MODULE TarWriterProofs ---------------------------
(***************************************************************************)
(* Proofs about the tar writer, for every block size, every set of headers *)
(* and every place where the sink may fail.                                *)
(*                                                                         *)
(* The promises about the output are not inductive: what a step adds to    *)
(* the output is right only because nb and pad say exactly which bytes of  *)
(* the entry are missing (BytesInv), and because a failure leaves a writer *)
(* whose next Close adds nothing.                                          *)
(***************************************************************************)
EXTENDS TarWriter, TLAPS, SequenceTheorems

\* The bytes of the archive: where they come from.
Byte == {"zero", "head", "data"} \X Int \X Int

Entry == [off : Nat, type : {"reg", "dir", "x"}, size : Int, gnu : BOOLEAN]

\* The size of the last entry begun.
LastSize == IF heads = <<>> THEN 0 ELSE heads[Len(heads)].size

\* What is still to be written of the last entry begun.
Pending == DataBytes(Len(heads), LastSize - nb, nb) \o Zeros(IF nb >= 0 THEN pad ELSE 0)

Whole == want \o Zeros(2 * blockSize)

Begins(s, w) == \E t \in Seq(Byte) : w = s \o t

TypeInv ==
  /\ TypeOK
  /\ out \in Seq(Byte) /\ want \in Seq(Byte)
  /\ heads \in Seq(Entry)

ControlInv ==
  /\ pc \in {"format", "paxhead", "paxdata", "head"} => ~closed /\ hdr \in Headers
  /\ pc = "flush" => after # "none"
  /\ pc = "flush" /\ after # "return" => ~closed
  /\ pc = "flush" /\ after \in {"format", "head"} => hdr \in Headers
  /\ pc \in {"trailer1", "trailer2"} => closed
  /\ pc = "paxdata" => heads # <<>> /\ LastSize = PaxSize /\ nb = PaxSize
  /\ pc = "panic" => ~closed

SizeInv ==
  /\ heads = <<>> => pad = 0
  /\ nb < 0 => nb + pad <= 0

Trailing == CASE pc = "trailer1" -> 0 [] pc = "trailer2" -> blockSize [] OTHER -> 2 * blockSize

BytesInv ==
  ~careless =>
    /\ failed => /\ pc = "idle"
                 /\ err = "nil" => closed /\ out = Whole
                 /\ Begins(out, Whole)
    /\ ~failed =>
         /\ err = "nil"
         /\ closed \/ pc \in {"format", "paxhead", "head"} => nb = 0 /\ pad = 0
         /\ ~closed => want = out \o Pending
         /\ closed => out = want \o Zeros(Trailing)

ReturnInv == pc = "idle" /\ ret = [op |-> "Close", err |-> "nil"] => err = "nil"

IInv == TypeInv /\ ControlInv /\ SizeInv /\ BytesInv /\ ReturnInv

-----------------------------------------------------------------------------
(***************************************************************************)
(* The bytes                                                               *)
(***************************************************************************)

\* n zeros are a sequence of length n, empty when n is not positive.
LEMMA ZerosType ==
  ASSUME NEW n \in Int
  PROVE  /\ Zeros(n) \in Seq(Byte)
         /\ n >= 0 => Len(Zeros(n)) = n
         /\ n <= 0 => Zeros(n) = <<>>
<1>1. CASE n <= 0
  BY <1>1 DEF Zeros
<1>2. CASE n > 0
  <2>1. \A k \in 1 .. n : <<"zero", 0, 0>> \in Byte
    BY DEF Byte
  <2> QED BY <1>2, <2>1 DEF Zeros
<1> QED BY <1>1, <1>2

\* The data of an entry, likewise.
LEMMA DataType ==
  ASSUME NEW i \in Int, NEW f \in Int, NEW n \in Int
  PROVE  /\ DataBytes(i, f, n) \in Seq(Byte)
         /\ n >= 0 => Len(DataBytes(i, f, n)) = n
         /\ n <= 0 => DataBytes(i, f, n) = <<>>
<1>1. CASE n <= 0
  BY <1>1 DEF DataBytes
<1>2. CASE n > 0
  <2>1. \A k \in 1 .. n : <<"data", i, f + k>> \in Byte
    BY DEF Byte
  <2> QED BY <1>2, <2>1 DEF DataBytes
<1> QED BY <1>1, <1>2

\* A header block has blockSize bytes.
LEMMA HeadType ==
  ASSUME NEW i \in Int
  PROVE  HeadBytes(i) \in Seq(Byte) /\ Len(HeadBytes(i)) = blockSize
<1>1. \A k \in 1 .. blockSize : <<"head", i, k>> \in Byte
  BY WriterAssumption DEF Byte
<1> QED BY <1>1, WriterAssumption DEF HeadBytes

\* Zeros written in two pieces.
LEMMA ZerosAdd ==
  ASSUME NEW m \in Nat, NEW n \in Nat
  PROVE  Zeros(m) \o Zeros(n) = Zeros(m + n)
<1>1. /\ Zeros(m) \in Seq(Byte) /\ Len(Zeros(m)) = m
      /\ Zeros(n) \in Seq(Byte) /\ Len(Zeros(n)) = n
      /\ Zeros(m + n) \in Seq(Byte) /\ Len(Zeros(m + n)) = m + n
  BY ZerosType
<1>2. /\ Zeros(m) \o Zeros(n) \in Seq(Byte)
      /\ Len(Zeros(m) \o Zeros(n)) = m + n
      /\ \A k \in 1 .. m + n : (Zeros(m) \o Zeros(n))[k] =
           IF k <= m THEN Zeros(m)[k] ELSE Zeros(n)[k - m]
  <2>1. /\ Zeros(m) \o Zeros(n) \in Seq(Byte)
        /\ Len(Zeros(m) \o Zeros(n)) = Len(Zeros(m)) + Len(Zeros(n))
        /\ \A k \in 1 .. Len(Zeros(m)) + Len(Zeros(n)) : (Zeros(m) \o Zeros(n))[k] =
           IF k <= Len(Zeros(m)) THEN Zeros(m)[k] ELSE Zeros(n)[k - Len(Zeros(m))]
    BY <1>1, ConcatProperties, Zenon
  <2> QED BY <2>1, <1>1, Zenon
<1>3. ASSUME NEW k \in 1 .. m + n PROVE (Zeros(m) \o Zeros(n))[k] = Zeros(m + n)[k]
  <2>1. Zeros(m + n)[k] = <<"zero", 0, 0>>
    BY DEF Zeros
  <2>2. CASE k <= m
    <3>1. k \in 1 .. m
      BY <2>2
    <3>2. Zeros(m)[k] = <<"zero", 0, 0>>
      BY <3>1 DEF Zeros
    <3> QED BY <1>2, <2>1, <2>2, <3>2, Zenon
  <2>3. CASE ~(k <= m)
    <3>1. k - m \in 1 .. n
      BY <2>3
    <3>2. Zeros(n)[k - m] = <<"zero", 0, 0>>
      BY <3>1 DEF Zeros
    <3> QED BY <1>2, <2>1, <2>3, <3>2, Zenon
  <2> QED BY <2>2, <2>3
<1>4. Len(Zeros(m) \o Zeros(n)) = Len(Zeros(m + n))
  BY <1>1, <1>2, Zenon
<1>5. \A k \in 1 .. Len(Zeros(m) \o Zeros(n)) :
        (Zeros(m) \o Zeros(n))[k] = Zeros(m + n)[k]
  BY <1>2, <1>3, Zenon
<1> QED BY <1>1, <1>2, <1>4, <1>5, SeqEqual, Zenon

\* The data of an entry written in two pieces.
LEMMA DataSplit ==
  ASSUME NEW i \in Int, NEW f \in Int, NEW n \in Nat, NEW m \in 0 .. n
  PROVE  DataBytes(i, f, m) \o DataBytes(i, f + m, n - m) = DataBytes(i, f, n)
<1> DEFINE a == DataBytes(i, f, m)
           b == DataBytes(i, f + m, n - m)
           c == DataBytes(i, f, n)
<1>1. /\ a \in Seq(Byte) /\ Len(a) = m /\ b \in Seq(Byte) /\ Len(b) = n - m
      /\ c \in Seq(Byte) /\ Len(c) = n
  <2>1. m \in Int /\ m >= 0 /\ n \in Int /\ n >= 0 /\ f + m \in Int /\ n - m \in Int /\ n - m >= 0
    OBVIOUS
  <2> QED BY <2>1, DataType, Zenon
<1>2. /\ \A k \in 1 .. m : a[k] = <<"data", i, f + k>>
      /\ \A k \in 1 .. n - m : b[k] = <<"data", i, f + m + k>>
      /\ \A k \in 1 .. n : c[k] = <<"data", i, f + k>>
  BY DEF DataBytes
<1> HIDE DEF a, b, c
<1>3. /\ a \o b \in Seq(Byte)
      /\ Len(a \o b) = Len(a) + Len(b)
      /\ \A k \in 1 .. Len(a) + Len(b) :
           (a \o b)[k] = IF k <= Len(a) THEN a[k] ELSE b[k - Len(a)]
  BY <1>1, ConcatProperties, Zenon
<1>4. m + (n - m) = n
  OBVIOUS
<1>5. /\ Len(a \o b) = n
      /\ \A k \in 1 .. n : (a \o b)[k] = IF k <= m THEN a[k] ELSE b[k - m]
  BY <1>1, <1>3, <1>4, Zenon
<1>6. ASSUME NEW k \in 1 .. n PROVE (a \o b)[k] = c[k]
  <2>1. CASE k <= m
    <3>1. k \in 1 .. m
      BY <2>1
    <3> QED BY <1>2, <1>5, <2>1, <3>1, Zenon
  <2>2. CASE ~(k <= m)
    <3>1. k - m \in 1 .. n - m /\ f + m + (k - m) = f + k
      BY <2>2
    <3> QED BY <1>2, <1>5, <2>2, <3>1, Zenon
  <2> QED BY <2>1, <2>2
<1>7. a \o b = c
  BY <1>1, <1>3, <1>5, <1>6, SeqEqual, Zenon
<1> QED BY <1>7 DEF a, b, c

\* Concatenation is associative.
LEMMA Assoc == \A s, t, u \in Seq(Byte) : (s \o t) \o u = s \o (t \o u)
BY ConcatAssociative, SMT

\* What the sink has taken when it was given b: all of it, or a part; in both
\* cases the start of anything that goes on with b.
LEMMA SinkLemma ==
  ASSUME out \in Seq(Byte), NEW b \in Seq(Byte), NEW e \in Outcomes, Sink(b, e)
  PROVE  /\ out' \in Seq(Byte)
         /\ Len(out') - Len(out) \in 0 .. Len(b)
         /\ e = "nil" => out' = out \o b /\ Len(out') - Len(out) = Len(b)
         /\ \A r \in Seq(Byte) : Begins(out', out \o (b \o r))
<1>0. Len(out) \in Nat /\ Len(b) \in Nat
  BY LenProperties, Zenon
<1>1. ASSUME NEW n \in 0 .. Len(b), out' = out \o SubSeq(b, 1, n)
      PROVE  /\ out' \in Seq(Byte) /\ Len(out') - Len(out) = n
             /\ \A r \in Seq(Byte) : Begins(out', out \o (b \o r))
  <2> DEFINE s == SubSeq(b, 1, n)
             t == SubSeq(b, n + 1, Len(b))
  <2>1. s \in Seq(Byte) /\ Len(s) = n /\ t \in Seq(Byte) /\ s \o t = b
    <3>1. 1 \in 1 .. Len(b) + 1 /\ n \in 1 - 1 .. Len(b) /\ Len(b) \in n .. Len(b)
      BY <1>0
    <3>2. s \o t = SubSeq(b, 1, Len(b))
      BY <3>1, ConcatAdjacentSubSeq, Zenon
    <3>3. SubSeq(b, 1, Len(b)) = b
      BY SubSeqFull, Zenon
    <3>4. s \in Seq(Byte) /\ Len(s) = n /\ t \in Seq(Byte)
      BY <1>0
    <3> QED BY <3>2, <3>3, <3>4, Zenon
  <2> HIDE DEF s, t
  <2>2. out' = out \o s
    BY <1>1 DEF s
  <2>3. out' \in Seq(Byte) /\ Len(out') = Len(out) + Len(s)
    BY <2>1, <2>2, ConcatProperties, Zenon
  <2>4. ASSUME NEW r \in Seq(Byte) PROVE Begins(out', out \o (b \o r))
    <3>1. t \o r \in Seq(Byte) /\ (s \o t) \o r = s \o (t \o r)
      <4>1. t \o r \in Seq(Byte)
        BY <2>1, ConcatProperties, Zenon
      <4>2. (s \o t) \o r = s \o (t \o r)
        BY <2>1, Assoc, ZenonT(60)
      <4> QED BY <4>1, <4>2
    <3>2. (out \o s) \o (t \o r) = out \o (s \o (t \o r))
      BY <2>1, <3>1, Assoc, ZenonT(60)
    <3>3. out \o (b \o r) = out' \o (t \o r)
      BY <2>1, <2>2, <3>1, <3>2, Zenon
    <3> QED BY <3>1, <3>3, Zenon DEF Begins
  <2>5. Len(out') - Len(out) = n
    BY <1>0, <2>1, <2>3
  <2> QED BY <2>3, <2>4, <2>5
<1>2. CASE e = "nil" /\ out' = out \o b
  <2>1. SubSeq(b, 1, Len(b)) = b
    BY SubSeqFull, Zenon
  <2>2. Len(b) \in 0 .. Len(b)
    BY <1>0
  <2> QED BY <1>1, <1>2, <2>1, <2>2, Zenon
<1>3. CASE e = "io" /\ \E n \in 0 .. Len(b) : out' = out \o SubSeq(b, 1, n)
  <2>1. PICK n \in 0 .. Len(b) : out' = out \o SubSeq(b, 1, n)
    BY <1>3
  <2>2. e # "nil"
    BY <1>3
  <2> QED BY <1>1, <2>1, <2>2, Zenon
<1> QED BY <1>2, <1>3 DEF Sink

\* The start of a sequence is one of its prefixes.
LEMMA BeginsPrefix ==
  ASSUME NEW s \in Seq(Byte), NEW w \in Seq(Byte), Begins(s, w)
  PROVE  Len(s) <= Len(w) /\ s = SubSeq(w, 1, Len(s))
<1>1. PICK t \in Seq(Byte) : w = s \o t
  BY DEF Begins
<1>2. Len(s) \in Nat /\ Len(t) \in Nat
  BY LenProperties, Zenon
<1>3. Len(w) = Len(s) + Len(t)
  BY <1>1, ConcatProperties, Zenon
<1>4. s = SubSeq(w, 1, Len(s))
  <2>1. CASE Len(s) = 0
    <3>1. s = <<>>
      BY <2>1, EmptySeq
    <3>2. SubSeq(w, 1, 0) = <<>>
      BY SubSeqEmpty
    <3> QED BY <2>1, <3>1, <3>2, Zenon
  <2>2. CASE Len(s) # 0
    <3>1. 1 \in 1 .. Len(s) /\ Len(s) \in 1 .. Len(s)
      BY <1>2, <2>2
    <3>2. SubSeq(s \o t, 1, Len(s)) = SubSeq(s, 1, Len(s))
      BY <3>1, SubSeqOfConcat1, Zenon
    <3>3. SubSeq(s, 1, Len(s)) = s
      BY SubSeqFull, Zenon
    <3> QED BY <1>1, <3>2, <3>3, Zenon
  <2> QED BY <2>1, <2>2
<1> QED BY <1>2, <1>3, <1>4

\* The padding of a size: less than a block, and no more than what a negative
\* size lacks.
LEMMA PadType ==
  ASSUME NEW n \in Int
  PROVE  /\ PadOf(n) \in 0 .. blockSize - 1
         /\ n < 0 => n + PadOf(n) <= 0
         /\ n = 0 => PadOf(n) = 0
<1>1. blockSize \in Nat /\ blockSize > 0
  BY WriterAssumption
<1> DEFINE q == (-n) \div blockSize
           r == (-n) % blockSize
<1>2. q \in Int /\ r \in 0 .. blockSize - 1 /\ -n = blockSize * q + r
  BY <1>1
<1>3. n < 0 => n + r <= 0
  <2>1. SUFFICES ASSUME n < 0, n + r > 0 PROVE FALSE
    BY <1>2
  <2>2. q >= 0
    BY <1>1, <1>2, <2>1, Z3
  <2>3. blockSize * q >= 0
    BY <1>1, <1>2, <2>2, Z3
  <2> QED BY <1>1, <1>2, <2>1, <2>3
<1>4. n = 0 => r = 0
  BY <1>1
<1> QED BY <1>1, <1>2, <1>3, <1>4 DEF PadOf

\* An entry is begun: the bytes it will have, and which of them are missing once
\* its header is written.
LEMMA BeginLemma ==
  ASSUME TypeInv, NEW type \in {"reg", "dir", "x"}, NEW size \in Int,
         NEW e \in Outcomes, Begin(type, size, e)
  PROVE  /\ heads' \in Seq(Entry) /\ Len(heads') = Len(heads) + 1 /\ heads' # <<>>
         /\ heads'[Len(heads')].size = size /\ LastSize' = size
         /\ nb' = size /\ pad' = PadOf(size) /\ err' = e
         /\ out' \in Seq(Byte) /\ want' \in Seq(Byte)
         /\ want = out => /\ e = "nil" => want' = out' \o Pending'
                          /\ Begins(out', Whole')
<1> DEFINE i == Len(heads) + 1
           h == HeadBytes(i)
           d == DataBytes(i, 0, size)
           z == Zeros(IF size > 0 THEN PadOf(size) ELSE 0)
           x == [off |-> Len(out), type |-> type, size |-> size, gnu |-> usedBinary]
<1>1. heads \in Seq(Entry) /\ Len(heads) \in Nat /\ Len(out) \in Nat
      /\ usedBinary \in BOOLEAN
  <2>1. heads \in Seq(Entry) /\ out \in Seq(Byte) /\ usedBinary \in BOOLEAN
    BY DEF TypeInv, TypeOK
  <2> QED BY <2>1, LenProperties, Zenon
<1>2. heads' = Append(heads, x) /\ nb' = size /\ pad' = PadOf(size) /\ err' = e
      /\ want' = want \o EntryBytes(i, size) /\ Sink(h, e)
  BY DEF Begin
<1>3. /\ heads' \in Seq(Entry) /\ Len(heads') = Len(heads) + 1 /\ heads' # <<>>
      /\ heads'[Len(heads')].size = size /\ LastSize' = size
  <2>1. x \in Entry /\ x.size = size
    BY <1>1 DEF Entry
  <2> HIDE DEF x
  <2>2. heads' \in Seq(Entry) /\ Len(heads') = Len(heads) + 1 /\ heads' # <<>>
        /\ heads'[Len(heads')] = x
    BY <1>1, <1>2, <2>1
  <2> QED BY <2>1, <2>2 DEF LastSize
<1>4. PadOf(size) \in Int /\ (size = 0 => PadOf(size) = 0)
  BY PadType, WriterAssumption
<1>5. h \in Seq(Byte) /\ d \in Seq(Byte) /\ z \in Seq(Byte)
  <2>1. i \in Int /\ 0 \in Int /\ (IF size > 0 THEN PadOf(size) ELSE 0) \in Int
    BY <1>1, <1>4
  <2> QED BY <2>1, HeadType, DataType, ZerosType, Zenon
<1>6. EntryBytes(i, size) = (h \o d) \o z
  BY DEF EntryBytes
<1>7. z = Zeros(IF size >= 0 THEN PadOf(size) ELSE 0)
  BY <1>4
<1> HIDE DEF i, h, d, z
<1>8. (h \o d) \o z = h \o (d \o z) /\ d \o z \in Seq(Byte) /\ h \o (d \o z) \in Seq(Byte)
  <2>1. (h \o d) \o z = h \o (d \o z)
    BY <1>5, Assoc, Zenon
  <2>2. d \o z \in Seq(Byte)
    BY <1>5, ConcatProperties, Zenon
  <2>3. h \o (d \o z) \in Seq(Byte)
    BY <1>5, <2>2, ConcatProperties, Zenon
  <2> QED BY <2>1, <2>2, <2>3
<1>9. out \in Seq(Byte) /\ want \in Seq(Byte)
  BY DEF TypeInv
<1>10. want' = want \o (h \o (d \o z)) /\ want' \in Seq(Byte)
  <2>1. want' = want \o (h \o (d \o z))
    BY <1>2, <1>6, <1>8, Zenon
  <2> QED BY <2>1, <1>8, <1>9, ConcatProperties, Zenon
<1>11. /\ out' \in Seq(Byte)
       /\ e = "nil" => out' = out \o h
       /\ \A r \in Seq(Byte) : Begins(out', out \o (h \o r))
  BY <1>2, <1>5, <1>9, SinkLemma, Zenon
<1>12. ASSUME want = out, e = "nil" PROVE want' = out' \o Pending'
  <2>1. Len(heads') = i /\ LastSize' - nb' = 0
    BY <1>2, <1>3 DEF i
  <2>2. Pending' = DataBytes(i, 0, size) \o Zeros(IF size >= 0 THEN PadOf(size) ELSE 0)
    BY <1>2, <2>1 DEF Pending
  <2>3. Pending' = d \o z
    BY <1>7, <2>2, Zenon DEF d
  <2>4. (out \o h) \o (d \o z) = out \o (h \o (d \o z))
    <3>1. d \o z \in Seq(Byte)
      BY <1>8
    <3> QED BY <1>5, <1>9, <3>1, Assoc, ZenonT(60)
  <2>5. out' = out \o h
    BY <1>11, <1>12
  <2>6. want' = out \o (h \o (d \o z))
    BY <1>10, <1>12, Zenon
  <2> QED BY <2>3, <2>4, <2>5, <2>6, Zenon
<1>13. ASSUME want = out PROVE Begins(out', Whole')
  <2> DEFINE y == Zeros(2 * blockSize)
  <2>1. y \in Seq(Byte)
    BY WriterAssumption, ZerosType
  <2>2. Whole' = want' \o y
    BY WriterAssumption DEF Whole, Zeros
  <2> HIDE DEF y
  <2>3. (out \o (h \o (d \o z))) \o y = out \o ((h \o (d \o z)) \o y)
    BY <1>8, <1>9, <2>1, Assoc, ZenonT(60)
  <2>4. (h \o (d \o z)) \o y = h \o ((d \o z) \o y)
    BY <1>5, <1>8, <2>1, Assoc, ZenonT(60)
  <2>5. (d \o z) \o y \in Seq(Byte)
    BY <1>8, <2>1, ConcatProperties, Zenon
  <2>6. Whole' = out \o (h \o ((d \o z) \o y))
    BY <1>10, <1>13, <2>2, <2>3, <2>4, Zenon
  <2> QED BY <1>11, <2>5, <2>6, Zenon
<1>14. nb' = size /\ pad' = PadOf(size) /\ err' = e
  BY <1>2
<1>15. out' \in Seq(Byte) /\ want' \in Seq(Byte)
  BY <1>10, <1>11
<1>16. want = out => (e = "nil" => want' = out' \o Pending') /\ Begins(out', Whole')
  BY <1>12, <1>13, Zenon
<1> QED BY <1>3, <1>14, <1>15, <1>16, Zenon

\* The sink is given b where w goes on with b and then r.
LEMMA SinkNext ==
  ASSUME out \in Seq(Byte), NEW b \in Seq(Byte), NEW r \in Seq(Byte), NEW y \in Seq(Byte),
         NEW w, w = out \o (b \o r), NEW e \in Outcomes, Sink(b, e)
  PROVE  /\ e = "nil" => w = out' \o r
         /\ Begins(out', w \o y)
<1>1. /\ e = "nil" => out' = out \o b
      /\ \A t \in Seq(Byte) : Begins(out', out \o (b \o t))
  BY SinkLemma, Zenon
<1>2. (out \o b) \o r = out \o (b \o r)
  BY Assoc, Zenon
<1>3. b \o r \in Seq(Byte) /\ r \o y \in Seq(Byte)
  BY ConcatProperties, Zenon
<1>4. (out \o (b \o r)) \o y = out \o ((b \o r) \o y)
  BY <1>3, Assoc, ZenonT(60)
<1>5. (b \o r) \o y = b \o (r \o y)
  BY Assoc, Zenon
<1>6. w \o y = out \o (b \o (r \o y))
  BY <1>4, <1>5, Zenon
<1>7. Begins(out', w \o y)
  BY <1>1, <1>3, <1>6, Zenon
<1> QED BY <1>1, <1>2, <1>7, Zenon

\* Whole is want and the trailer.
LEMMA WholeType ==
  ASSUME TypeInv
  PROVE  /\ Zeros(2 * blockSize) \in Seq(Byte)
         /\ Zeros(blockSize) \in Seq(Byte)
         /\ Whole = want \o Zeros(2 * blockSize)
         /\ Whole \in Seq(Byte)
<1>1. 2 * blockSize \in Int /\ blockSize \in Int
  BY WriterAssumption
<1>2. Zeros(2 * blockSize) \in Seq(Byte) /\ Zeros(blockSize) \in Seq(Byte)
  BY <1>1, ZerosType, Zenon
<1>3. want \in Seq(Byte)
  BY DEF TypeInv
<1>4. Whole = want \o Zeros(2 * blockSize)
  BY Zenon DEF Whole
<1> QED BY <1>2, <1>3, <1>4, ConcatProperties, Zenon

\* The type of what is still to be written.
LEMMA PendingType ==
  ASSUME TypeInv
  PROVE  /\ Len(heads) \in Nat /\ LastSize \in Int /\ nb \in Int /\ pad \in Nat
         /\ Pending \in Seq(Byte)
         /\ (nb <= 0 /\ (nb < 0 \/ pad = 0)) => Pending = <<>>
         /\ nb = 0 => Pending = Zeros(pad)
<1>1. heads \in Seq(Entry)
  BY DEF TypeInv
<1>2. Len(heads) \in Nat
  BY <1>1, LenProperties, Zenon
<1>3. LastSize \in Int
  <2>1. CASE heads # <<>>
    <3>1. heads[Len(heads)] \in Entry
      BY <1>1, <2>1
    <3> QED BY <2>1, <3>1 DEF LastSize, Entry
  <2> QED BY <2>1 DEF LastSize
<1>4. nb \in Int /\ pad \in Nat
  BY WriterAssumption DEF TypeInv, TypeOK
<1> DEFINE d == DataBytes(Len(heads), LastSize - nb, nb)
           z == Zeros(IF nb >= 0 THEN pad ELSE 0)
<1>5. LastSize - nb \in Int /\ (IF nb >= 0 THEN pad ELSE 0) \in Int /\ Len(heads) \in Int
  BY <1>2, <1>3, <1>4
<1>6. d \in Seq(Byte) /\ z \in Seq(Byte) /\ (nb <= 0 => d = <<>>)
  BY <1>4, <1>5, DataType, ZerosType, Zenon
<1>7. nb < 0 \/ pad = 0 => z = <<>>
  BY <1>4, ZerosType
<1>8. nb = 0 => z = Zeros(pad)
  BY <1>4
<1>9. Pending = d \o z
  BY Zenon DEF Pending
<1> HIDE DEF d, z
<1>10. Pending \in Seq(Byte)
  BY <1>6, <1>9, ConcatProperties, Zenon
<1>11. nb <= 0 => Pending = z
  BY <1>6, <1>9, ConcatEmptySeq, Zenon
<1>12. nb = 0 => nb <= 0
  BY <1>4
<1> QED BY <1>2, <1>3, <1>4, <1>7, <1>8, <1>10, <1>11, <1>12, Zenon

\* Nothing is missing when nb and pad are 0.
LEMMA PendingNone == TypeInv /\ nb = 0 /\ pad = 0 => Pending = <<>>
BY PendingType

\* The same of the next state.
LEMMA PendingNoneNext == (TypeInv /\ nb = 0 /\ pad = 0 => Pending = <<>>)'
BY PendingNone, PTL

\* What has been written is the start of the archive while an entry is in progress.
LEMMA PendingBegins ==
  ASSUME TypeInv, want = out \o Pending
  PROVE  Begins(out, Whole)
<1>1. Pending \in Seq(Byte) /\ out \in Seq(Byte) /\ Zeros(2 * blockSize) \in Seq(Byte)
  BY PendingType, WholeType DEF TypeInv
<1>2. Whole = (out \o Pending) \o Zeros(2 * blockSize)
  BY Zenon DEF Whole
<1>3. (out \o Pending) \o Zeros(2 * blockSize) = out \o (Pending \o Zeros(2 * blockSize))
  BY <1>1, Assoc, Zenon
<1>4. Pending \o Zeros(2 * blockSize) \in Seq(Byte)
  BY <1>1, ConcatProperties, Zenon
<1>5. Whole = out \o (Pending \o Zeros(2 * blockSize))
  BY <1>2, <1>3, Zenon
<1> QED BY <1>4, <1>5, Zenon DEF Begins

\* Write gives the sink the next k bytes of the data.
LEMMA WriteLemma ==
  ASSUME TypeInv, nb >= 0, NEW k \in 0 .. nb, NEW e \in Outcomes,
         Sink(DataBytes(Len(heads), LastSize - nb, k), e),
         nb' = nb - (Len(out') - Len(out)), UNCHANGED <<heads, pad, want>>
  PROVE  /\ out' \in Seq(Byte) /\ nb' \in 0 .. nb
         /\ want = out \o Pending => /\ e = "nil" => want' = out' \o Pending'
                                     /\ Begins(out', Whole')
<1> DEFINE l == Len(heads)
           b == DataBytes(l, LastSize - nb, k)
           d == DataBytes(l, LastSize - nb + k, nb - k)
           z == Zeros(IF nb >= 0 THEN pad ELSE 0)
<1>1. l \in Int /\ LastSize \in Int /\ nb \in Nat /\ pad \in Nat /\ k \in Nat
  BY PendingType
<1>2. /\ l \in Int /\ LastSize - nb \in Int /\ LastSize - nb + k \in Int
      /\ nb - k \in Int /\ k \in Int /\ k >= 0
      /\ (IF nb >= 0 THEN pad ELSE 0) \in Int
  BY <1>1
<1>3. b \in Seq(Byte) /\ d \in Seq(Byte) /\ z \in Seq(Byte) /\ Len(b) = k
  BY <1>2, DataType, ZerosType, Zenon
<1>4. b \o d = DataBytes(l, LastSize - nb, nb)
  BY <1>1, <1>2, DataSplit, Zenon
<1>5. Pending = (b \o d) \o z
  BY <1>4, Zenon DEF Pending
<1>6. out \in Seq(Byte) /\ want \in Seq(Byte)
  BY DEF TypeInv
<1>7. e = "nil" => Len(out') - Len(out) = Len(b)
  BY <1>3, <1>6, SinkLemma, Zenon
<1>8. out' \in Seq(Byte) /\ Len(out') - Len(out) \in 0 .. Len(b)
  BY <1>3, <1>6, SinkLemma, Zenon
<1>9. nb' \in 0 .. nb
  BY <1>1, <1>3, <1>8
<1>10. e = "nil" => Pending' = d \o z
  <2>1. SUFFICES ASSUME e = "nil" PROVE Pending' = d \o z
    OBVIOUS
  <2>2. nb' = nb - k /\ LastSize' = LastSize /\ LastSize' - nb' = LastSize - nb + k
    <3>1. LastSize' = LastSize
      BY DEF LastSize
    <3>2. nb' = nb - k
      BY <1>3, <1>7, <2>1, Zenon
    <3>3. LastSize - (nb - k) = LastSize - nb + k
      BY <1>1
    <3> QED BY <3>1, <3>2, <3>3, Zenon
  <2>3. (IF nb' >= 0 THEN pad' ELSE 0) = (IF nb >= 0 THEN pad ELSE 0)
    BY <1>1, <2>2
  <2>4. Len(heads)' = l
    OBVIOUS
  <2>5. Pending' = DataBytes(Len(heads)', LastSize' - nb', nb') \o
                   Zeros(IF nb' >= 0 THEN pad' ELSE 0)
    BY DEF Pending
  <2> QED BY <2>2, <2>3, <2>4, <2>5, Zenon
<1>11. Sink(b, e)
  OBVIOUS
<1> HIDE DEF l, b, d, z
<1>12. ASSUME want = out \o Pending
       PROVE  (e = "nil" => want = out' \o (d \o z)) /\ Begins(out', Whole)
  <2>1. (b \o d) \o z = b \o (d \o z)
    BY <1>3, Assoc, Zenon
  <2>2. d \o z \in Seq(Byte)
    BY <1>3, ConcatProperties, Zenon
  <2>3. want = out \o (b \o (d \o z))
    BY <1>5, <1>12, <2>1, Zenon
  <2>4. Zeros(2 * blockSize) \in Seq(Byte) /\ Whole = want \o Zeros(2 * blockSize)
    BY WholeType, Zenon
  <2>5. /\ e = "nil" => want = out' \o (d \o z)
        /\ Begins(out', want \o Zeros(2 * blockSize))
    <3> DEFINE y == Zeros(2 * blockSize)
               r == d \o z
    <3>1. y \in Seq(Byte) /\ r \in Seq(Byte) /\ want = out \o (b \o r)
      BY <2>2, <2>3, <2>4, Zenon
    <3> HIDE DEF y, r
    <3>2. (e = "nil" => want = out' \o r) /\ Begins(out', want \o y)
      BY <1>3, <1>6, <1>11, <3>1, SinkNext
    <3> QED BY <3>2, Zenon DEF y, r
  <2> QED BY <2>4, <2>5, Zenon
<1>13. Whole' = Whole
  BY DEF Whole, Zeros
<1>14. want' = want
  OBVIOUS
<1>15. want = out \o Pending =>
         (e = "nil" => want' = out' \o Pending') /\ Begins(out', Whole')
  BY <1>10, <1>12, <1>13, <1>14, Zenon
<1> QED BY <1>8, <1>9, <1>15, Zenon

\* Flush gives it the padding: then the entry is complete.
LEMMA PadLemma ==
  ASSUME TypeInv, SizeInv, nb <= 0, want = out \o Pending
  PROVE  /\ ~(nb + pad > 0) => want = out
         /\ \A e \in Outcomes : nb + pad > 0 /\ Sink(Zeros(nb + pad), e) =>
              (e = "nil" => out' = want) /\ Begins(out', Whole)
<1>1. nb \in Int /\ pad \in Nat /\ Pending \in Seq(Byte)
      /\ ((nb <= 0 /\ (nb < 0 \/ pad = 0)) => Pending = <<>>)
      /\ (nb = 0 => Pending = Zeros(pad))
  BY PendingType, Zenon
<1>2. out \in Seq(Byte) /\ want \in Seq(Byte)
  BY DEF TypeInv
<1>3. ASSUME ~(nb + pad > 0) PROVE want = out
  <2>1. nb < 0 \/ pad = 0
    BY <1>1, <1>3
  <2>2. Pending = <<>>
    BY <1>1, <2>1, Zenon
  <2> QED BY <1>2, <2>2, ConcatEmptySeq, Zenon
<1>4. ASSUME NEW e \in Outcomes, nb + pad > 0, Sink(Zeros(nb + pad), e)
      PROVE  (e = "nil" => out' = want) /\ Begins(out', Whole)
  <2>1. nb = 0 /\ nb + pad = pad
    BY <1>1, <1>4 DEF SizeInv
  <2>2. Zeros(nb + pad) = Pending
    BY <1>1, <2>1, Zenon
  <2>3. Sink(Pending, e)
    BY <1>4, <2>2, Zenon
  <2>4. Pending \o <<>> = Pending /\ <<>> \in Seq(Byte)
    BY <1>1, ConcatEmptySeq, EmptySeq, Zenon
  <2>5. want = out \o (Pending \o <<>>)
    BY <2>4, Zenon
  <2>6. Zeros(2 * blockSize) \in Seq(Byte) /\ Whole = want \o Zeros(2 * blockSize)
    BY WholeType, Zenon
  <2>7. Begins(out', want \o Zeros(2 * blockSize))
    BY <1>1, <1>2, <2>3, <2>4, <2>5, <2>6, SinkNext, ZenonT(60)
  <2>8. e = "nil" => out' = out \o Pending
    BY <1>1, <1>2, <2>3, SinkLemma, Zenon
  <2> QED BY <2>6, <2>7, <2>8, Zenon
<1> QED BY <1>3, <1>4, Zenon

\* Close gives it a block of zeros, twice.
LEMMA TrailerLemma ==
  ASSUME TypeInv, NEW e \in Outcomes, Sink(Zeros(blockSize), e)
  PROVE  /\ out = want \o Zeros(0) => /\ e = "nil" => out' = want \o Zeros(blockSize)
                                      /\ Begins(out', Whole)
         /\ out = want \o Zeros(blockSize) => /\ e = "nil" => out' = Whole
                                              /\ Begins(out', Whole)
<1> DEFINE z == Zeros(blockSize)
           y == Zeros(2 * blockSize)
<1>1. out \in Seq(Byte) /\ want \in Seq(Byte)
  BY DEF TypeInv
<1>2. z \in Seq(Byte) /\ y \in Seq(Byte) /\ Whole = want \o y
  BY WholeType, Zenon
<1>3. z \o z = y
  <2>1. blockSize \in Nat /\ blockSize + blockSize = 2 * blockSize
    BY WriterAssumption
  <2> QED BY <2>1, ZerosAdd, Zenon
<1>4. Zeros(0) = <<>>
  BY ZerosType
<1> HIDE DEF z, y
<1>5. (e = "nil" => out' = out \o z) /\ \A t \in Seq(Byte) : Begins(out', out \o (z \o t))
  BY <1>1, <1>2, SinkLemma, Zenon DEF z
<1>6. ASSUME out = want \o Zeros(0)
      PROVE  (e = "nil" => out' = want \o z) /\ Begins(out', Whole)
  <2>1. out = want
    BY <1>1, <1>4, <1>6, ConcatEmptySeq, Zenon
  <2>2. Begins(out', want \o y)
    BY <1>2, <1>3, <1>5, <2>1, Zenon
  <2> QED BY <1>2, <1>5, <2>1, <2>2, Zenon
<1>7. ASSUME out = want \o z
      PROVE  (e = "nil" => out' = Whole) /\ Begins(out', Whole)
  <2>1. (want \o z) \o z = want \o (z \o z)
    BY <1>1, <1>2, Assoc, Zenon
  <2>2. out \o z = Whole
    BY <1>2, <1>3, <1>7, <2>1, Zenon
  <2>3. <<>> \in Seq(Byte) /\ z \o <<>> = z
    BY <1>2, EmptySeq, ConcatEmptySeq, Zenon
  <2>4. Begins(out', Whole)
    BY <1>5, <2>2, <2>3, Zenon
  <2> QED BY <1>5, <2>2, <2>4, Zenon
<1> QED BY <1>6, <1>7, Zenon DEF z

-----------------------------------------------------------------------------
(***************************************************************************)
(* The inductive invariant                                                 *)
(***************************************************************************)

\* The writer starts in it.
LEMMA InitIInv == Init => IInv
<1> SUFFICES ASSUME Init PROVE IInv
  OBVIOUS
<1>1. <<>> \in Seq(Byte) /\ <<>> \in Seq(Entry)
  BY EmptySeq, Zenon
<1>2. TypeInv
  <2>1. TypeOK
    <3>1. nb \in Int /\ pad \in 0 .. blockSize - 1 /\ attempts \in 0 .. MaxHeaders
      BY WriterAssumption DEF Init
    <3>2. closed \in BOOLEAN /\ usedBinary \in BOOLEAN /\ failed \in BOOLEAN
          /\ careless \in BOOLEAN /\ ended \in BOOLEAN
      BY Zenon DEF Init
    <3>3. /\ err \in Outcomes \cup {"missed", "ErrFieldTooLong"} /\ pc \in Steps
          /\ after \in {"none", "return", "format", "head", "trailer"}
          /\ hdr \in Headers \cup {NoHeader}
      BY DEF Init, Outcomes, Steps
    <3>4. heads = <<>> /\ nb = 0
      BY DEF Init
    <3> QED BY <3>1, <3>2, <3>3, <3>4 DEF TypeOK
  <2> QED BY <1>1, <2>1 DEF Init, TypeInv
<1>3. ControlInv /\ SizeInv /\ ReturnInv
  BY DEF Init, ControlInv, SizeInv, ReturnInv
<1>4. BytesInv
  <2>1. Pending = <<>> /\ want = <<>> /\ out = <<>>
    BY <1>2, PendingType DEF Init
  <2>2. want = out \o Pending
    BY <1>1, <2>1, ConcatEmptySeq, Zenon
  <2> QED BY <2>2 DEF Init, BytesInv
<1> QED BY <1>2, <1>3, <1>4 DEF IInv

CallType ==
  /\ failed \in BOOLEAN /\ ended \in BOOLEAN /\ pc \in Steps
  /\ after \in {"none", "return", "format", "head", "trailer"}
  /\ hdr \in Headers \cup {NoHeader}

\* A call that returns, and one that goes on, leave a call of the right type.
LEMMA CallTypes ==
  ASSUME TypeInv
  PROVE  /\ CallType
         /\ \A op, e : Returns(op, e) => CallType'
         /\ \A p \in Steps : Goes(p) => CallType'
<1>1. CallType
  BY DEF TypeInv, TypeOK, CallType
<1>2. ASSUME NEW op, NEW e, Returns(op, e) PROVE CallType'
  <2>1. failed' \in BOOLEAN /\ ended' \in BOOLEAN
    BY <1>2, Zenon DEF Returns
  <2> QED BY <1>2, <2>1 DEF Returns, CallType, Steps
<1>3. ASSUME NEW p \in Steps, Goes(p) PROVE CallType'
  BY <1>1, <1>3 DEF Goes, CallType
<1> QED BY <1>1, <1>2, <1>3, Zenon

\* Every step keeps the types, and what nb, pad and the last size have in common.
LEMMA TypeNext ==
  ASSUME TypeInv, ControlInv, SizeInv, [Next]_vars
  PROVE  TypeInv' /\ SizeInv'
<1>t. TypeOK /\ heads \in Seq(Entry) /\ out \in Seq(Byte) /\ want \in Seq(Byte)
      /\ nb \in Int /\ pad \in Nat
  BY WriterAssumption DEF TypeInv, Entry, TypeOK
<1> USE WriterAssumption
<1>1. CASE UNCHANGED vars
  BY <1>1 DEF vars, fields, hist, TypeInv, TypeOK, SizeInv
<1>2. CASE Flush
  BY <1>2 DEF Flush, Call, fields, hist, TypeInv, TypeOK, SizeInv, Steps
<1>3. CASE FlushMissed
  BY <1>3 DEF FlushMissed, AfterFlush, Returns, Goes, hist, TypeInv, TypeOK, SizeInv, Steps, Outcomes
<1>4. CASE FlushPad
  <2>1. out' \in Seq(Byte)
    <3>1. CASE nb + pad > 0 /\ err = "nil"
      <4>1. PICK e \in Outcomes : Sink(Zeros(nb + pad), e)
        BY <1>4, <3>1 DEF FlushPad
      <4>2. Zeros(nb + pad) \in Seq(Byte)
        BY <1>t, ZerosType
      <4> QED BY <1>t, <4>1, <4>2, SinkLemma, Zenon
    <3>2. CASE ~(nb + pad > 0 /\ err = "nil")
      BY <1>4, <1>t, <3>2 DEF FlushPad
    <3> QED BY <3>1, <3>2
  <2>2. PICK e \in Outcomes \cup {"missed", "ErrFieldTooLong"} : AfterFlush(e) /\ err' = e
    BY <1>4, <1>t DEF FlushPad, TypeOK
  <2>3. nb' = 0 /\ pad' = 0 /\ UNCHANGED <<usedBinary, hist, careless>>
    BY <1>4 DEF FlushPad
  <2>4. /\ closed' \in BOOLEAN /\ CallType'
    <3>1. CallType'
      BY <1>4, <2>2, CallTypes DEF AfterFlush, FlushPad, ControlInv, TypeInv, TypeOK, Steps
    <3> QED BY <2>2, <3>1, Zenon DEF AfterFlush
  <2> QED BY <1>t, <2>1, <2>2, <2>3, <2>4 DEF hist, TypeInv, TypeOK, CallType, SizeInv
<1>5. CASE WriteHeaderRefused
  BY <1>5 DEF WriteHeaderRefused, Call, Returns, fields, hist, TypeInv, TypeOK, SizeInv, Steps, Outcomes
<1>6. ASSUME NEW h \in Headers, WriteHeader(h) PROVE TypeInv' /\ SizeInv'
  BY <1>6 DEF WriteHeader, Call, fields, hist, TypeInv, TypeOK, SizeInv, Steps, Outcomes
<1>7. CASE Format
  <2>1. UNCHANGED <<nb, pad, closed, out, attempts, heads, want, careless>>
    BY <1>7 DEF Format, hist
  <2>2. usedBinary' \in BOOLEAN
    BY <1>7, <1>t DEF Format, TypeInv, TypeOK
  <2>3. CASE "bad" \in hdr.traits
    <3>1. /\ pc' = "idle" /\ after' = "none" /\ hdr' = NoHeader /\ err' = "ErrFieldTooLong"
          /\ failed' \in BOOLEAN /\ ended' \in BOOLEAN
      BY <1>7, <1>t, <2>3, Zenon DEF Format, Returns, TypeInv, TypeOK
    <3> QED BY <1>t, <2>1, <2>2, <3>1 DEF TypeInv, TypeOK, SizeInv, Steps
  <2>4. CASE "bad" \notin hdr.traits
    <3>1. pc' \in {"paxhead", "head"} /\ UNCHANGED <<hdr, after, failed, ended, err>>
      BY <1>7, <2>4 DEF Format, Goes
    <3> QED BY <1>t, <2>1, <2>2, <3>1 DEF TypeInv, TypeOK, SizeInv, Steps
  <2> QED BY <2>3, <2>4
<1>8. ASSUME NEW type \in {"reg", "dir", "x"}, NEW size \in Int, NEW e \in Outcomes,
             Begin(type, size, e), pc' \in Steps, UNCHANGED <<closed, usedBinary, attempts, careless>>,
             \/ Returns("WriteHeader", e)
             \/ UNCHANGED <<hdr, after, ret, failed, ended>>
      PROVE  TypeInv' /\ SizeInv'
  <2>1. /\ heads' \in Seq(Entry) /\ heads' # <<>> /\ heads'[Len(heads')].size = size
        /\ nb' = size /\ pad' = PadOf(size) /\ err' = e
        /\ out' \in Seq(Byte) /\ want' \in Seq(Byte)
    BY <1>8, BeginLemma, Zenon
  <2>2. PadOf(size) \in 0 .. blockSize - 1 /\ (size < 0 => size + PadOf(size) <= 0)
    BY PadType
  <2>3. SizeInv'
    BY <2>1, <2>2 DEF SizeInv
  <2>4. /\ CallType' /\ closed' \in BOOLEAN /\ usedBinary' \in BOOLEAN
        /\ careless' \in BOOLEAN /\ attempts' \in 0 .. MaxHeaders
    <3>1. CallType'
      <4>1. CASE Returns("WriteHeader", e)
        BY <4>1, CallTypes, Zenon
      <4>2. CASE UNCHANGED <<hdr, after, ret, failed, ended>>
        BY <1>8, <4>2, CallTypes DEF CallType
      <4> QED BY <1>8, <4>1, <4>2
    <3> QED BY <1>t, <1>8, <3>1 DEF TypeOK
  <2> QED BY <1>8, <2>1, <2>2, <2>3, <2>4 DEF TypeInv, TypeOK, CallType
<1>9. CASE PaxHead
  <2>1. PICK e \in Outcomes : /\ Begin("x", PaxSize, e)
                              /\ IF e = "nil" THEN Goes("paxdata") ELSE Returns("WriteHeader", e)
    BY <1>9 DEF PaxHead
  <2> QED BY <1>8, <1>9, <2>1 DEF PaxHead, Goes, Returns, Steps
<1>10. CASE FileHead
  <2>1. PICK e \in Outcomes : Begin(hdr.type, hdr.size, e) /\ Returns("WriteHeader", e)
    BY <1>10 DEF FileHead
  <2>2. hdr.type \in {"reg", "dir", "x"} /\ hdr.size \in Int
    BY <1>10 DEF ControlInv, FileHead
  <2> QED BY <1>8, <1>10, <2>1, <2>2 DEF FileHead, Returns, Steps
<1>11. ASSUME nb >= 0, NEW k \in 0 .. nb, NEW e \in Outcomes,
              Sink(DataBytes(Len(heads), LastSize - nb, k), e),
              nb' = nb - (Len(out') - Len(out)), UNCHANGED <<heads, pad, want>>
       PROVE  /\ out' \in Seq(Byte) /\ nb' \in Int /\ SizeInv'
              /\ heads = <<>> => nb' = 0
              /\ heads # <<>> => LET size == heads[Len(heads)].size
                                 IN nb' \in 0 .. size \/ nb' = size \/ nb' = 0
  <2>1. out' \in Seq(Byte) /\ nb' \in 0 .. nb
    BY <1>11, WriteLemma, Zenon
  <2>2. SizeInv'
    BY <1>t, <1>11, <2>1 DEF SizeInv
  <2>3. CASE heads = <<>>
    BY <1>t, <2>1, <2>2, <2>3 DEF TypeOK
  <2>4. CASE heads # <<>>
    <3>1. LastSize = heads[Len(heads)].size /\ LastSize \in Int
      BY <2>4, PendingType DEF LastSize
    <3>2. nb \in 0 .. LastSize \/ nb = LastSize \/ nb = 0
      BY <1>t, <2>4, <3>1 DEF TypeOK
    <3>3. nb' \in 0 .. LastSize \/ nb' = LastSize \/ nb' = 0
      BY <1>t, <1>11, <2>1, <3>1, <3>2
    <3> QED BY <2>1, <2>2, <2>4, <3>1, <3>3
  <2> QED BY <2>3, <2>4
<1>12. CASE PaxData
  <2>1. PICK e \in Outcomes :
          /\ Sink(DataBytes(Len(heads), 0, PaxSize), e) /\ err' = e
          /\ nb' = PaxSize - (Len(out') - Len(out))
          /\ IF e = "nil"
             THEN pc' = "flush" /\ after' = "head" /\ UNCHANGED <<hdr, ret, failed, ended>>
             ELSE Returns("WriteHeader", e)
    BY <1>12 DEF PaxData
  <2>2. nb = PaxSize /\ LastSize = PaxSize /\ LastSize - nb = 0 /\ PaxSize \in 0 .. nb /\ nb >= 0
    BY <1>12, <1>t DEF ControlInv, PaxData
  <2>3. UNCHANGED <<pad, closed, usedBinary, hist, careless>>
    BY <1>12 DEF PaxData
  <2>4. Sink(DataBytes(Len(heads), LastSize - nb, PaxSize), e)
    BY <2>1, <2>2, Zenon
  <2>5. nb' = nb - (Len(out') - Len(out)) /\ UNCHANGED <<heads, pad, want>>
    BY <2>1, <2>2, <2>3, Zenon DEF hist
  <2>6. /\ out' \in Seq(Byte) /\ nb' \in Int /\ SizeInv'
        /\ heads = <<>> => nb' = 0
        /\ heads # <<>> => LET size == heads[Len(heads)].size
                           IN nb' \in 0 .. size \/ nb' = size \/ nb' = 0
    BY <1>11, <2>2, <2>4, <2>5, Zenon
  <2>7. CallType'
    BY <2>1, CallTypes DEF CallType, Steps
  <2> QED BY <1>t, <2>1, <2>3, <2>6, <2>7 DEF hist, TypeInv, TypeOK, CallType
<1>13. CASE WriteRefused
  BY <1>13 DEF WriteRefused, Call, Returns, fields, hist, TypeInv, TypeOK, SizeInv, Steps, Outcomes
<1>14. ASSUME NEW m \in 0 .. MaxWrite, Write(m) PROVE TypeInv' /\ SizeInv'
  <2> DEFINE k == IF m > nb THEN nb ELSE m
  <2>1. PICK e \in Outcomes :
          /\ Sink(DataBytes(Len(heads), IF Len(heads) = 0 THEN 0 ELSE heads[Len(heads)].size - nb, k), e)
          /\ nb' = nb - (Len(out') - Len(out))
          /\ IF e = "nil" /\ m > nb
             THEN Returns("Write", "ErrWriteTooLong") /\ UNCHANGED err
             ELSE Returns("Write", e) /\ err' = e
    BY <1>14 DEF Write
  <2>2. nb >= 0 /\ k \in 0 .. nb /\ UNCHANGED <<pad, closed, usedBinary, hist>>
    BY <1>14, <1>t DEF Write
  <2>3. (IF Len(heads) = 0 THEN 0 ELSE heads[Len(heads)].size - nb) = LastSize - nb
    BY <1>t DEF LastSize, TypeOK
  <2>4. Sink(DataBytes(Len(heads), LastSize - nb, k), e)
    BY <2>1, <2>3, Zenon
  <2>5. UNCHANGED <<heads, pad, want>>
    BY <2>2 DEF hist
  <2>6. /\ out' \in Seq(Byte) /\ nb' \in Int /\ SizeInv'
        /\ heads = <<>> => nb' = 0
        /\ heads # <<>> => LET size == heads[Len(heads)].size
                           IN nb' \in 0 .. size \/ nb' = size \/ nb' = 0
    BY <1>11, <2>1, <2>2, <2>4, <2>5, Zenon
  <2> HIDE DEF k
  <2>7. /\ CallType' /\ careless' \in BOOLEAN
        /\ err' \in Outcomes \cup {"missed", "ErrFieldTooLong"}
    <3>1. CallType'
      BY <2>1, CallTypes
    <3>2. careless' \in BOOLEAN
      BY <1>14, Zenon DEF Write, Call
    <3>3. err' \in Outcomes \cup {"missed", "ErrFieldTooLong"}
      BY <1>t, <2>1 DEF TypeOK
    <3> QED BY <3>1, <3>2, <3>3
  <2> QED BY <1>t, <2>2, <2>6, <2>7 DEF hist, TypeInv, TypeOK, CallType
<1>15. ASSUME NEW m \in 0 .. MaxWrite, WritePanic(m) PROVE TypeInv' /\ SizeInv'
  BY <1>15 DEF WritePanic, Call, fields, hist, TypeInv, TypeOK, SizeInv, Steps, Outcomes
<1>16. CASE CloseRefused
  BY <1>16 DEF CloseRefused, Returns, fields, hist, TypeInv, TypeOK, SizeInv, Steps, Outcomes
<1>17. CASE Close
  BY <1>17 DEF Close, fields, hist, TypeInv, TypeOK, SizeInv, Steps, Outcomes
<1>18. CASE Trailer
  <2>1. PICK e \in Outcomes :
          /\ Sink(Zeros(blockSize), e) /\ err' = e
          /\ IF e = "nil" /\ pc = "trailer1" THEN Goes("trailer2") ELSE Returns("Close", e)
    BY <1>18 DEF Trailer
  <2>2. Zeros(blockSize) \in Seq(Byte)
    BY ZerosType
  <2>3. out' \in Seq(Byte)
    BY <1>t, <2>1, <2>2, SinkLemma, Zenon
  <2>4. UNCHANGED <<nb, pad, closed, usedBinary, hist, careless>>
    BY <1>18 DEF Trailer
  <2>7. CallType'
    BY <2>1, CallTypes DEF Steps
  <2> QED BY <1>t, <2>1, <2>3, <2>4, <2>7 DEF hist, TypeInv, TypeOK, CallType, SizeInv
<1> QED BY <1>1, <1>2, <1>3, <1>4, <1>5, <1>6, <1>7, <1>9, <1>10, <1>12, <1>13, <1>14,
           <1>15, <1>16, <1>17, <1>18 DEF Next

\* Every step keeps what the place of a call says of the writer.
LEMMA ControlNext ==
  ASSUME TypeInv, ControlInv, [Next]_vars
  PROVE  ControlInv'
<1> USE DEF ControlInv
<1>1. CASE UNCHANGED vars
  BY <1>1 DEF vars, fields, hist, LastSize
<1>2. CASE Flush
  BY <1>2 DEF Flush, Call, fields, hist
<1>3. CASE FlushMissed
  BY <1>3 DEF FlushMissed, AfterFlush, Returns, TypeInv, TypeOK
<1>4. CASE FlushPad
  <2>1. PICK e : AfterFlush(e)
    BY <1>4 DEF FlushPad
  <2> QED BY <1>4, <2>1 DEF FlushPad, AfterFlush, Returns, Goes, TypeInv, TypeOK
<1>5. CASE WriteHeaderRefused \/ WriteRefused \/ CloseRefused
  BY <1>5 DEF WriteHeaderRefused, WriteRefused, CloseRefused, Returns
<1>6. ASSUME NEW h \in Headers, WriteHeader(h) PROVE ControlInv'
  BY <1>6 DEF WriteHeader, Call, fields
<1>7. CASE Format
  BY <1>7 DEF Format, Returns, Goes
<1>8. CASE PaxHead
  <2>1. PICK e \in Outcomes : /\ Begin("x", PaxSize, e)
                              /\ IF e = "nil" THEN Goes("paxdata") ELSE Returns("WriteHeader", e)
    BY <1>8 DEF PaxHead
  <2>2. heads' # <<>> /\ LastSize' = PaxSize /\ nb' = PaxSize
    <3>1. PaxSize \in Int /\ "x" \in {"reg", "dir", "x"}
      BY WriterAssumption
    <3> QED BY <2>1, <3>1, BeginLemma, Zenon
  <2> QED BY <1>8, <2>1, <2>2 DEF PaxHead, Returns, Goes
<1>9. CASE PaxData \/ FileHead \/ Trailer
  BY <1>9 DEF PaxData, FileHead, Trailer, Returns, Goes
<1>10. ASSUME NEW m \in 0 .. MaxWrite, Write(m) \/ WritePanic(m) PROVE ControlInv'
  BY <1>10 DEF Write, WritePanic, Returns, fields
<1>11. CASE Close
  BY <1>11 DEF Close, fields
<1> QED BY <1>1, <1>2, <1>3, <1>4, <1>5, <1>6, <1>7, <1>8, <1>9, <1>10, <1>11 DEF Next

\* Close returns nil only when no error is kept.
LEMMA ReturnNext ==
  ASSUME TypeInv, ControlInv, ReturnInv, [Next]_vars
  PROVE  ReturnInv'
<1> USE DEF ReturnInv
<1>1. CASE UNCHANGED vars
  BY <1>1 DEF vars, fields
<1>2. CASE Flush \/ \E h \in Headers : WriteHeader(h)
  BY <1>2 DEF Flush, WriteHeader
<1>3. CASE FlushMissed
  BY <1>3 DEF FlushMissed, AfterFlush, Returns, TypeInv, TypeOK, ControlInv
<1>4. CASE FlushPad
  <2>1. PICK e : AfterFlush(e)
    BY <1>4 DEF FlushPad
  <2> QED BY <1>4, <2>1 DEF FlushPad, AfterFlush, Returns, Goes, TypeInv, TypeOK, ControlInv
<1>5. CASE WriteHeaderRefused \/ WriteRefused \/ CloseRefused
  BY <1>5 DEF WriteHeaderRefused, WriteRefused, CloseRefused, Returns, fields
<1>6. \A op, e : Returns(op, e) /\ op # "Close" => ReturnInv'
  BY DEF Returns
<1>7. CASE Format \/ PaxHead \/ PaxData \/ FileHead
  <2>1. pc' # "idle" \/ \E e : Returns("WriteHeader", e)
    BY <1>7 DEF Format, PaxHead, PaxData, FileHead, Goes
  <2> QED BY <1>6, <2>1
<1>8. CASE Trailer
  <2>1. pc' # "idle" \/ Returns("Close", err')
    BY <1>8 DEF Trailer, Goes
  <2> QED BY <2>1 DEF Returns
<1>9. ASSUME NEW m \in 0 .. MaxWrite, Write(m) \/ WritePanic(m) PROVE ReturnInv'
  <2>1. pc' # "idle" \/ \E e : Returns("Write", e)
    BY <1>9 DEF Write, WritePanic
  <2> QED BY <1>6, <2>1
<1>10. CASE Close
  BY <1>10 DEF Close
<1> QED BY <1>1, <1>2, <1>3, <1>4, <1>5, <1>7, <1>8, <1>9, <1>10 DEF Next

\* Every step adds to the output what is missing there, and nothing after a
\* failure of which the client has heard.
LEMMA BytesNext ==
  ASSUME IInv, TypeInv', ControlInv', [Next]_vars
  PROVE  BytesInv'
<1>i. TypeInv /\ ControlInv /\ SizeInv /\ BytesInv
  BY DEF IInv
<1>0. SUFFICES ASSUME ~careless' PROVE BytesInv'
  BY DEF BytesInv
<1>n. nb \in Int /\ pad \in Nat /\ failed \in BOOLEAN /\ closed \in BOOLEAN
  BY <1>i, WriterAssumption DEF TypeInv, TypeOK
<1>w. UNCHANGED want => Whole' = Whole
  BY DEF Whole, Zeros
\* A call that begins writes nothing.
<1>1. ASSUME UNCHANGED <<fields, out, heads, want, failed>>, ~careless, ~failed,
             pc = "idle", pc' \in {"flush", "panic"}
      PROVE  BytesInv'
  <2>1. Pending' = Pending /\ Zeros(Trailing)' = Zeros(Trailing)
    BY <1>1 DEF Pending, LastSize, Trailing, fields, DataBytes, Zeros
  <2>2. pc' \notin {"format", "paxhead", "head"} /\ pc \notin {"format", "paxhead", "head"}
    BY <1>1
  <2>3. /\ closed' = closed /\ err' = err /\ out' = out /\ want' = want /\ nb' = nb
        /\ pad' = pad /\ failed' = failed
    BY <1>1 DEF fields
  <2>4. /\ err' = "nil"
        /\ closed' => nb' = 0 /\ pad' = 0
        /\ ~closed' => want' = out' \o Pending'
        /\ closed' => out' = want' \o Zeros(Trailing)'
    BY <1>1, <1>i, <2>1, <2>3, Zenon DEF BytesInv
  <2>5. ~failed'
    BY <1>1, <2>3
  <2> QED BY <2>2, <2>4, <2>5, Zenon DEF BytesInv
\* Calls that are refused.
<1>2. ASSUME UNCHANGED <<fields, out, hist>>, ~careless, pc = "idle", pc' = "idle",
             closed \/ err # "nil", NEW op, NEW e, Returns(op, e)
      PROVE  BytesInv'
  <2>1. Pending' = Pending /\ Zeros(Trailing)' = Zeros(Trailing) /\ Whole' = Whole
    BY <1>2, <1>w DEF Pending, LastSize, Trailing, fields, hist, DataBytes, Zeros
  <2>2. CASE failed
    <3>1. failed'
      BY <1>2, <2>2 DEF Returns
    <3> QED BY <1>0, <1>2, <1>i, <2>1, <2>2, <3>1, Zenon DEF BytesInv, fields, hist
  <2>3. CASE ~failed
    <3>1. closed /\ err = "nil" /\ nb = 0 /\ pad = 0 /\ out = want \o Zeros(Trailing)
      BY <1>2, <1>i, <2>3, Zenon DEF BytesInv
    <3>2. Trailing = 2 * blockSize
      BY <1>2 DEF Trailing
    <3>3. out = Whole
      BY <3>1, <3>2, Zenon DEF Whole
    <3>4. Begins(out, Whole)
      <4>1. out \in Seq(Byte)
        BY <1>i DEF TypeInv
      <4>2. out \o <<>> = out /\ <<>> \in Seq(Byte)
        BY <4>1, ConcatEmptySeq, EmptySeq, Zenon
      <4> QED BY <3>3, <4>2, Zenon DEF Begins
    <3>5. /\ closed' = closed /\ err' = err /\ out' = out /\ want' = want /\ nb' = nb /\ pad' = pad
      BY <1>2 DEF fields, hist
    <3> QED BY <1>2, <2>1, <3>1, <3>3, <3>4, <3>5, Zenon DEF BytesInv
  <2> QED BY <2>2, <2>3
<1>3. CASE UNCHANGED vars
  <2>1. Pending' = Pending /\ Zeros(Trailing)' = Zeros(Trailing) /\ Whole' = Whole
    BY <1>3, <1>w DEF Pending, LastSize, Trailing, vars, fields, hist, DataBytes, Zeros
  <2> QED BY <1>0, <1>3, <1>i, <2>1, Zenon DEF BytesInv, vars, fields, hist
<1>4. CASE Flush \/ \E h \in Headers : WriteHeader(h)
  <2>1. ~careless /\ ~failed /\ pc = "idle" /\ pc' = "flush" /\ UNCHANGED <<fields, out, heads, want, failed>>
    BY <1>0, <1>4 DEF Flush, WriteHeader, Call, hist
  <2> QED BY <1>1, <2>1
<1>5. CASE WriteHeaderRefused \/ WriteRefused \/ CloseRefused
  <2>1. /\ UNCHANGED <<fields, out, hist>> /\ ~careless /\ pc = "idle" /\ (closed \/ err # "nil")
        /\ \E op, e : Returns(op, e)
    <3>1. CASE WriteHeaderRefused
      BY <1>0, <3>1, Zenon DEF WriteHeaderRefused, Call
    <3>2. CASE WriteRefused
      BY <1>0, <3>2, Zenon DEF WriteRefused, Call
    <3>3. CASE CloseRefused
      BY <1>0, <3>3, Zenon DEF CloseRefused
    <3> QED BY <1>5, <3>1, <3>2, <3>3
  <2>2. pc' = "idle"
    BY <2>1 DEF Returns
  <2> QED BY <1>2, <2>1, <2>2
<1>6. ASSUME NEW m \in 0 .. MaxWrite, WritePanic(m) PROVE BytesInv'
  <2>1. /\ UNCHANGED <<fields, out, heads, want, failed>> /\ ~careless /\ ~failed
        /\ pc = "idle" /\ pc' = "panic"
    BY <1>0, <1>6 DEF WritePanic, Call, hist
  <2> QED BY <1>1, <2>1
<1>7. CASE Close
  <2>1. /\ UNCHANGED <<fields, out, heads, want, failed>> /\ ~careless
        /\ pc = "idle" /\ pc' = "flush" /\ err = "nil" /\ ~closed
    BY <1>0, <1>7 DEF Close, hist
  <2>2. ~failed
    BY <1>i, <2>1 DEF BytesInv
  <2> QED BY <1>1, <2>1, <2>2
\* The other steps belong to a call in progress, so that no error has been returned.
<1>8. ASSUME pc # "idle", ~careless
      PROVE  /\ ~failed /\ err = "nil"
             /\ closed \/ pc \in {"format", "paxhead", "head"} => nb = 0 /\ pad = 0
             /\ ~closed => want = out \o Pending
             /\ closed => out = want \o Zeros(Trailing)
  BY <1>8, <1>i, Zenon DEF BytesInv
\* A call that fails leaves a start of the archive.
<1>9. ASSUME NEW op, NEW e, Returns(op, e), e \notin {"nil", "ErrWriteTooLong"}, err' # "nil",
             Begins(out', Whole')
      PROVE  BytesInv'
  <2>1. failed' /\ pc' = "idle"
    BY <1>9 DEF Returns
  <2> QED BY <1>9, <2>1, Zenon DEF BytesInv
<1>b. want = out \o Pending => Begins(out, Whole)
  BY <1>i, PendingBegins
<1>10. CASE FlushMissed
  <2>1. pc # "idle" /\ ~careless /\ nb > 0 /\ err' = "missed" /\ AfterFlush("missed")
        /\ UNCHANGED <<out, want>>
    BY <1>0, <1>10 DEF FlushMissed, hist
  <2>2. ~closed /\ want = out \o Pending
    BY <1>8, <2>1
  <2>3. PICK op : Returns(op, "missed")
    BY <2>1 DEF AfterFlush, Goes
  <2>4. Begins(out, Whole)
    BY <1>b, <2>2
  <2>5. Begins(out', Whole')
    BY <1>w, <2>1, <2>4
  <2> QED BY <1>9, <2>1, <2>3, <2>5
\* A call that goes on, or returns nil, with nothing or the rest of an entry to write.
<1>g. ASSUME ~failed', err' = "nil", want' = out' \o Pending', ~closed',
             pc' \in {"format", "paxhead", "head"} => nb' = 0 /\ pad' = 0
      PROVE  BytesInv'
  BY <1>g, Zenon DEF BytesInv
<1>11. CASE FlushPad
  <2>1. /\ pc = "flush" /\ ~careless /\ nb <= 0 /\ nb' = 0 /\ pad' = 0
        /\ UNCHANGED <<heads, want>> /\ after \in {"return", "format", "head", "trailer"}
    BY <1>0, <1>11, <1>i DEF FlushPad, hist, ControlInv, TypeInv, TypeOK
  <2>2. /\ ~failed /\ err = "nil"
        /\ closed => nb = 0 /\ pad = 0 /\ out = want \o Zeros(Trailing)
        /\ ~closed => want = out \o Pending
    BY <1>8, <2>1
  <2>3. CASE closed
    <3>1. AfterFlush("nil") /\ UNCHANGED <<err, out>>
      BY <1>11, <2>2, <2>3 DEF FlushPad
    <3>2. after = "return"
      BY <1>i, <2>1, <2>3 DEF ControlInv
    <3>3. pc' = "idle" /\ closed' /\ ~failed'
      BY <2>2, <2>3, <3>1, <3>2 DEF AfterFlush, Returns
    <3>4. Zeros(Trailing)' = Zeros(Trailing)
      BY <2>1, <3>3 DEF Trailing, Zeros
    <3>5. out' = want' \o Zeros(Trailing)' /\ err' = "nil"
      BY <2>1, <2>2, <2>3, <3>1, <3>4, Zenon
    <3> QED BY <2>1, <3>3, <3>5, Zenon DEF BytesInv
  <2>4. ASSUME ~closed, NEW e, e = "io", AfterFlush(e), err' = e, Begins(out', Whole) PROVE BytesInv'
    <3>1. PICK op : Returns(op, e)
      BY <2>4 DEF AfterFlush, Goes
    <3>2. Begins(out', Whole')
      BY <1>w, <2>1, <2>4
    <3> QED BY <1>9, <2>4, <3>1, <3>2
  <2>5. ASSUME ~closed, AfterFlush("nil"), err' = "nil", out' = want PROVE BytesInv'
    <3>1. ~failed' /\ (closed' <=> after = "trailer") /\ (after = "trailer" => pc' = "trailer1")
      BY <2>1, <2>2, <2>5 DEF AfterFlush, Returns, Goes
    <3>2. Pending' = <<>>
      BY <2>1, PendingNoneNext
    <3>3. want' = out' /\ out' \in Seq(Byte)
      BY <2>1, <2>5 DEF TypeInv
    <3>4. CASE ~closed'
      <4>1. want' = out' \o Pending'
        BY <3>2, <3>3, ConcatEmptySeq, Zenon
      <4> QED BY <1>g, <2>1, <2>5, <3>1, <3>4, <4>1
    <3>5. CASE closed'
      <4>1. Trailing' = 0
        BY <3>1, <3>5 DEF Trailing
      <4>2. Zeros(Trailing)' = <<>>
        BY <4>1 DEF Zeros
      <4>3. out' = want' \o Zeros(Trailing)'
        BY <3>3, <4>2, ConcatEmptySeq, Zenon
      <4> QED BY <2>1, <2>5, <3>1, <3>5, <4>3, Zenon DEF BytesInv
    <3> QED BY <3>4, <3>5
  <2>6. CASE ~closed
    <3>1. /\ ~(nb + pad > 0) => want = out
          /\ \A e \in Outcomes : nb + pad > 0 /\ Sink(Zeros(nb + pad), e) =>
               (e = "nil" => out' = want) /\ Begins(out', Whole)
      BY <1>i, <2>1, <2>2, <2>6, PadLemma, Zenon
    <3>2. CASE nb + pad > 0
      <4>1. PICK e \in Outcomes : Sink(Zeros(nb + pad), e) /\ err' = e /\ AfterFlush(e)
        BY <1>11, <2>2, <3>2 DEF FlushPad
      <4>2. (e = "nil" => out' = want) /\ Begins(out', Whole)
        BY <3>1, <3>2, <4>1, Zenon
      <4>3. e = "nil" \/ e = "io"
        BY DEF Outcomes
      <4> QED BY <2>4, <2>5, <2>6, <4>1, <4>2, <4>3, Zenon
    <3>3. CASE ~(nb + pad > 0)
      <4>1. AfterFlush("nil") /\ UNCHANGED <<err, out>>
        BY <1>11, <2>2, <3>3 DEF FlushPad
      <4> QED BY <2>2, <2>5, <2>6, <3>1, <3>3, <4>1, Zenon
    <3> QED BY <3>2, <3>3
  <2> QED BY <2>3, <2>6
<1>12. CASE Format
  <2>1. pc = "format" /\ ~careless /\ UNCHANGED <<nb, pad, closed, out, heads, want>>
    BY <1>0, <1>12 DEF Format, hist
  <2>2. ~closed /\ ~failed /\ err = "nil" /\ nb = 0 /\ pad = 0 /\ want = out \o Pending
    BY <1>8, <1>i, <2>1 DEF ControlInv
  <2>3. CASE "bad" \in hdr.traits
    <3>1. err' = "ErrFieldTooLong" /\ Returns("WriteHeader", "ErrFieldTooLong")
      BY <1>12, <2>3 DEF Format
    <3>2. Begins(out', Whole')
      BY <1>b, <1>w, <2>1, <2>2
    <3> QED BY <1>9, <3>1, <3>2
  <2>4. CASE "bad" \notin hdr.traits
    <3>1. UNCHANGED <<err, failed>>
      BY <1>12, <2>4 DEF Format, Goes
    <3>2. Pending' = Pending
      BY <2>1 DEF Pending, LastSize, DataBytes, Zeros
    <3>3. want' = out' \o Pending'
      BY <2>1, <2>2, <3>2, Zenon
    <3> QED BY <1>g, <2>1, <2>2, <3>1, <3>3
  <2> QED BY <2>3, <2>4
\* Nothing is missing when an entry begins.
<1>13. ASSUME pc \in {"paxhead", "head"}, ~careless PROVE want = out
  <2>1. ~closed /\ nb = 0 /\ pad = 0 /\ want = out \o Pending
    BY <1>8, <1>13, <1>i DEF ControlInv
  <2>2. Pending = <<>> /\ out \in Seq(Byte)
    BY <1>i, <2>1, PendingNone DEF TypeInv
  <2> QED BY <2>1, <2>2, ConcatEmptySeq, Zenon
<1>14. CASE PaxHead
  <2>1. PICK e \in Outcomes : /\ Begin("x", PaxSize, e)
                              /\ IF e = "nil" THEN Goes("paxdata") ELSE Returns("WriteHeader", e)
    BY <1>14 DEF PaxHead
  <2>2. pc = "paxhead" /\ ~careless /\ ~failed /\ ~closed /\ ~closed'
    BY <1>0, <1>14, <1>8, <1>i DEF PaxHead, ControlInv
  <2>3. /\ err' = e /\ e = "nil" => want' = out' \o Pending'
        /\ Begins(out', Whole')
    <3>1. want = out
      BY <1>13, <2>2
    <3>2. "x" \in {"reg", "dir", "x"} /\ PaxSize \in Int
      BY WriterAssumption
    <3> QED BY <1>i, <2>1, <3>1, <3>2, BeginLemma, Zenon
  <2>4. err' = e
    BY <2>1 DEF Begin
  <2>5. CASE e = "nil"
    <3>1. ~failed' /\ pc' = "paxdata"
      BY <2>1, <2>2, <2>5 DEF Goes
    <3> QED BY <1>g, <2>2, <2>3, <2>4, <2>5, <3>1
  <2>6. CASE e # "nil"
    <3>1. e \notin {"nil", "ErrWriteTooLong"} /\ Returns("WriteHeader", e)
      BY <2>1, <2>6 DEF Outcomes
    <3> QED BY <1>9, <2>3, <2>4, <2>6, <3>1
  <2> QED BY <2>5, <2>6
<1>15. CASE FileHead
  <2>1. PICK e \in Outcomes : Begin(hdr.type, hdr.size, e) /\ Returns("WriteHeader", e)
    BY <1>15 DEF FileHead
  <2>2. pc = "head" /\ ~careless /\ ~failed /\ ~closed /\ ~closed'
    BY <1>0, <1>15, <1>8, <1>i DEF FileHead, ControlInv
  <2>3. /\ e = "nil" => want' = out' \o Pending'
        /\ Begins(out', Whole')
    <3>1. want = out
      BY <1>13, <2>2
    <3>2. hdr.type \in {"reg", "dir", "x"} /\ hdr.size \in Int
      BY <1>i, <2>2, WriterAssumption DEF ControlInv
    <3> QED BY <1>i, <2>1, <3>1, <3>2, BeginLemma, Zenon
  <2>4. err' = e
    BY <2>1 DEF Begin
  <2>5. CASE e = "nil"
    <3>1. ~failed' /\ pc' = "idle"
      BY <2>1, <2>2, <2>5 DEF Returns
    <3> QED BY <1>g, <2>2, <2>3, <2>4, <2>5, <3>1
  <2>6. CASE e # "nil"
    <3>1. e \notin {"nil", "ErrWriteTooLong"}
      BY <2>6 DEF Outcomes
    <3> QED BY <1>9, <2>1, <2>3, <2>4, <2>6, <3>1
  <2> QED BY <2>5, <2>6
<1>16. CASE PaxData
  <2>1. PICK e \in Outcomes :
          /\ Sink(DataBytes(Len(heads), 0, PaxSize), e) /\ err' = e
          /\ nb' = PaxSize - (Len(out') - Len(out))
          /\ IF e = "nil"
             THEN pc' = "flush" /\ after' = "head" /\ UNCHANGED <<hdr, ret, failed, ended>>
             ELSE Returns("WriteHeader", e)
    BY <1>16 DEF PaxData
  <2>2. /\ pc = "paxdata" /\ ~careless /\ ~closed /\ ~closed' /\ UNCHANGED <<heads, pad, want>>
        /\ nb = PaxSize /\ LastSize = PaxSize
    BY <1>0, <1>16, <1>i DEF PaxData, ControlInv, hist
  <2>3. PaxSize \in 0 .. nb /\ nb >= 0 /\ LastSize - nb = 0
    BY <2>2, WriterAssumption
  <2>4. ~failed /\ want = out \o Pending
    BY <1>8, <2>2
  <2>5. Sink(DataBytes(Len(heads), LastSize - nb, PaxSize), e)
        /\ nb' = nb - (Len(out') - Len(out))
    BY <2>1, <2>2, <2>3, Zenon
  <2>6. /\ e = "nil" => want' = out' \o Pending'
        /\ Begins(out', Whole')
    BY <1>i, <2>2, <2>3, <2>4, <2>5, WriteLemma, Zenon
  <2>7. CASE e = "nil"
    <3>1. ~failed' /\ pc' = "flush"
      BY <2>1, <2>4, <2>7
    <3> QED BY <1>g, <2>1, <2>2, <2>6, <2>7, <3>1
  <2>8. CASE e # "nil"
    <3>1. e \notin {"nil", "ErrWriteTooLong"} /\ Returns("WriteHeader", e)
      BY <2>1, <2>8 DEF Outcomes
    <3> QED BY <1>9, <2>1, <2>6, <2>8, <3>1
  <2> QED BY <2>7, <2>8
<1>17. ASSUME NEW m \in 0 .. MaxWrite, Write(m) PROVE BytesInv'
  <2> DEFINE k == IF m > nb THEN nb ELSE m
  <2>1. PICK e \in Outcomes :
          /\ Sink(DataBytes(Len(heads), IF Len(heads) = 0 THEN 0 ELSE heads[Len(heads)].size - nb, k), e)
          /\ nb' = nb - (Len(out') - Len(out))
          /\ IF e = "nil" /\ m > nb
             THEN Returns("Write", "ErrWriteTooLong") /\ UNCHANGED err
             ELSE Returns("Write", e) /\ err' = e
    BY <1>17 DEF Write
  <2>2. /\ pc = "idle" /\ ~careless /\ ~failed /\ ~closed /\ ~closed' /\ nb >= 0
        /\ UNCHANGED <<heads, pad, want>>
    BY <1>0, <1>17 DEF Write, Call, hist
  <2>3. err = "nil" /\ want = out \o Pending
    BY <1>i, <2>2, Zenon DEF BytesInv
  <2>4. (IF Len(heads) = 0 THEN 0 ELSE heads[Len(heads)].size - nb) = LastSize - nb
    <3>1. heads \in Seq(Entry) /\ (heads = <<>> => nb = 0)
      BY <1>i DEF TypeInv, TypeOK
    <3> QED BY <1>n, <3>1 DEF LastSize
  <2>5. k \in 0 .. nb
    BY <1>n, <2>2, WriterAssumption
  <2>6. Sink(DataBytes(Len(heads), LastSize - nb, k), e)
    BY <2>1, <2>4, Zenon
  <2>7. /\ e = "nil" => want' = out' \o Pending'
        /\ Begins(out', Whole')
    BY <1>i, <2>1, <2>2, <2>3, <2>5, <2>6, WriteLemma, Zenon
  <2> HIDE DEF k
  <2>8. CASE e = "nil"
    <3>1. ~failed' /\ pc' = "idle" /\ err' = "nil"
      BY <2>1, <2>2, <2>3, <2>8 DEF Returns
    <3> QED BY <1>g, <2>2, <2>7, <2>8, <3>1
  <2>9. CASE e # "nil"
    <3>1. e \notin {"nil", "ErrWriteTooLong"} /\ Returns("Write", e) /\ err' = e
      BY <2>1, <2>9 DEF Outcomes
    <3> QED BY <1>9, <2>7, <2>9, <3>1
  <2> QED BY <2>8, <2>9
<1>18. CASE Trailer
  <2>1. PICK e \in Outcomes :
          /\ Sink(Zeros(blockSize), e) /\ err' = e
          /\ IF e = "nil" /\ pc = "trailer1" THEN Goes("trailer2") ELSE Returns("Close", e)
    BY <1>18 DEF Trailer
  <2>2. /\ pc \in {"trailer1", "trailer2"} /\ ~careless /\ closed /\ closed'
        /\ UNCHANGED <<nb, pad, want>>
    BY <1>0, <1>18, <1>i DEF Trailer, ControlInv, hist
  <2>3. ~failed /\ nb = 0 /\ pad = 0 /\ out = want \o Zeros(Trailing)
    BY <1>8, <2>2
  <2>4. /\ out = want \o Zeros(0) => /\ e = "nil" => out' = want \o Zeros(blockSize)
                                     /\ Begins(out', Whole)
        /\ out = want \o Zeros(blockSize) => /\ e = "nil" => out' = Whole
                                             /\ Begins(out', Whole)
    BY <1>i, <2>1, TrailerLemma, Zenon
  <2>5. IF pc = "trailer1" THEN Trailing = 0 ELSE Trailing = blockSize
    BY <2>2 DEF Trailing
  <2>6. Begins(out', Whole)
    BY <2>3, <2>4, <2>5, Zenon
  <2>7. CASE e # "nil"
    <3>1. Begins(out', Whole')
      BY <1>w, <2>2, <2>6
    <3>2. e \notin {"nil", "ErrWriteTooLong"} /\ Returns("Close", e)
      BY <2>1, <2>7 DEF Outcomes
    <3> QED BY <1>9, <2>1, <2>7, <3>1, <3>2
  <2>8. ASSUME e = "nil", out' = want' \o Zeros(Trailing)' PROVE BytesInv'
    <3>1. ~failed' /\ err' = "nil"
      BY <2>1, <2>3, <2>8 DEF Goes, Returns
    <3> QED BY <2>2, <2>3, <2>8, <3>1, Zenon DEF BytesInv
  <2>9. CASE e = "nil" /\ pc = "trailer1"
    <3>1. pc' = "trailer2"
      BY <2>1, <2>9 DEF Goes
    <3>2. Zeros(Trailing)' = Zeros(blockSize)
      BY <3>1 DEF Trailing, Zeros
    <3>3. out' = want \o Zeros(blockSize)
      BY <2>3, <2>4, <2>5, <2>9, Zenon
    <3>4. out' = want' \o Zeros(Trailing)'
      BY <2>2, <3>2, <3>3, Zenon
    <3> QED BY <2>8, <2>9, <3>4
  <2>10. CASE e = "nil" /\ pc = "trailer2"
    <3>1. pc' = "idle"
      BY <2>1, <2>10 DEF Returns
    <3>2. Zeros(Trailing)' = Zeros(2 * blockSize)
      BY <3>1 DEF Trailing, Zeros
    <3>3. Trailing = blockSize
      BY <2>10 DEF Trailing
    <3>4. out' = want \o Zeros(2 * blockSize)
      BY <2>3, <2>4, <2>10, <3>3, Zenon DEF Whole
    <3>5. out' = want' \o Zeros(Trailing)'
      BY <2>2, <3>2, <3>4, Zenon
    <3> QED BY <2>8, <2>10, <3>5
  <2> QED BY <2>2, <2>7, <2>9, <2>10
<1> QED BY <1>3, <1>4, <1>5, <1>6, <1>7, <1>10, <1>11, <1>12, <1>14, <1>15, <1>16, <1>17,
           <1>18 DEF Next

\* Every step keeps the invariant.
LEMMA NextIInv == IInv /\ [Next]_vars => IInv'
<1>1. ASSUME IInv, [Next]_vars PROVE IInv'
  <2>1. TypeInv /\ ControlInv /\ SizeInv /\ ReturnInv
    BY <1>1 DEF IInv
  <2>2. TypeInv' /\ SizeInv' /\ ControlInv' /\ ReturnInv'
    BY <1>1, <2>1, TypeNext, ControlNext, ReturnNext
  <2>3. BytesInv'
    BY <1>1, <2>2, BytesNext
  <2> QED BY <2>2, <2>3 DEF IInv
<1> QED BY <1>1

-----------------------------------------------------------------------------
(***************************************************************************)
(* The theorems                                                            *)
(***************************************************************************)

\* The fields of the writer have their types; in particular nb never exceeds
\* the size in the header of the entry in progress.
THEOREM TypeCorrect == Spec => []TypeOK
<1>1. IInv => TypeOK
  BY DEF IInv, TypeInv
<1> QED BY InitIInv, NextIInv, <1>1, PTL DEF Spec

\* Wherever the sink fails, it has taken the start of a well-formed archive of the
\* entries begun, if the client only closes after an error.
THEOREM PrefixWritten == Spec => []OutputPrefix
<1>1. ASSUME IInv PROVE OutputPrefix
  <2>1. SUFFICES ASSUME ~careless PROVE Len(out) <= Len(Whole) /\ out = SubSeq(Whole, 1, Len(out))
    BY Zenon DEF OutputPrefix, Whole
  <2>2. TypeInv /\ BytesInv
    BY <1>1 DEF IInv
  <2>3. out \in Seq(Byte) /\ want \in Seq(Byte) /\ Whole \in Seq(Byte)
        /\ Zeros(2 * blockSize) \in Seq(Byte) /\ Whole = want \o Zeros(2 * blockSize)
    BY <2>2, WholeType, Zenon DEF TypeInv
  <2>5. CASE failed
    <3>1. Begins(out, Whole)
      BY <2>1, <2>2, <2>5 DEF BytesInv
    <3> QED BY <2>3, <3>1, BeginsPrefix
  <2>6. CASE ~failed /\ ~closed
    <3>1. want = out \o Pending
      BY <2>1, <2>2, <2>6 DEF BytesInv
    <3>2. Begins(out, Whole)
      BY <2>2, <3>1, PendingBegins
    <3> QED BY <2>3, <3>2, BeginsPrefix
  <2>7. CASE ~failed /\ closed
    <3>1. out = want \o Zeros(Trailing)
      BY <2>1, <2>2, <2>7 DEF BytesInv
    <3>2. Begins(out, Whole)
      <4>1. PICK a \in Nat, b \in Nat : Trailing = a /\ a + b = 2 * blockSize
        <5>1. Trailing \in {0, blockSize, 2 * blockSize}
          BY DEF Trailing
        <5>2. Trailing \in Nat /\ 2 * blockSize - Trailing \in Nat
              /\ Trailing + (2 * blockSize - Trailing) = 2 * blockSize
          BY <5>1, WriterAssumption
        <5> QED BY <5>2, Zenon
      <4>2. Zeros(a) \o Zeros(b) = Zeros(2 * blockSize) /\ Zeros(a) \in Seq(Byte) /\ Zeros(b) \in Seq(Byte)
        <5>1. Zeros(a) \o Zeros(b) = Zeros(a + b)
          BY ZerosAdd
        <5>2. Zeros(a) \in Seq(Byte) /\ Zeros(b) \in Seq(Byte)
          BY ZerosType
        <5> QED BY <4>1, <5>1, <5>2, Zenon
      <4>3. (want \o Zeros(a)) \o Zeros(b) = want \o (Zeros(a) \o Zeros(b))
        BY <2>3, <4>2, Assoc, ZenonT(60)
      <4>4. Whole = out \o Zeros(b)
        BY <2>3, <3>1, <4>1, <4>2, <4>3, Zenon
      <4> QED BY <4>2, <4>4, Zenon DEF Begins
    <3> QED BY <2>3, <3>2, BeginsPrefix
  <2> QED BY <2>5, <2>6, <2>7
<1> QED BY InitIInv, NextIInv, <1>1, PTL DEF Spec

\* When Close returns nil all the entries are there, with their padding, and the
\* two zero blocks.
THEOREM CloseWritesAll == Spec => []CloseComplete
<1>1. ASSUME IInv PROVE CloseComplete
  <2>1. SUFFICES ASSUME CloseReturnedNil, ~careless PROVE out = want \o Zeros(2 * blockSize)
    BY Zenon DEF CloseComplete
  <2>2. TypeInv /\ BytesInv /\ ReturnInv
    BY <1>1 DEF IInv
  <2>3. closed /\ pc = "idle" /\ err = "nil"
    BY <2>1, <2>2 DEF CloseReturnedNil, ReturnInv
  <2>4. CASE failed
    BY <2>1, <2>2, <2>3, <2>4, Zenon DEF BytesInv, Whole
  <2>5. CASE ~failed
    <3>1. out = want \o Zeros(Trailing)
      BY <2>1, <2>2, <2>3, <2>5, Zenon DEF BytesInv
    <3>2. Trailing = 2 * blockSize
      BY <2>3 DEF Trailing
    <3> QED BY <3>1, <3>2, Zenon
  <2> QED BY <2>4, <2>5
<1> QED BY InitIInv, NextIInv, <1>1, PTL DEF Spec

\* Where a writer is that has been closed.  Close has flushed: an error is kept, or
\* there is nothing left to write, and no Close is under way once one has returned.
EndInv ==
  /\ closed => err # "nil" \/ (nb = 0 /\ pad = 0)
  /\ pc \in {"trailer1", "trailer2"} => nb = 0 /\ pad = 0
  /\ ended => closed /\ pc \notin {"trailer1", "trailer2"}

\* Every step keeps this, whatever the client calls.
LEMMA EndNext ==
  ASSUME IInv, EndInv, [Next]_vars
  PROVE  EndInv'
<1>t. TypeInv /\ ControlInv
  BY DEF IInv
<1> USE DEF EndInv
<1>1. CASE UNCHANGED vars
  BY <1>1 DEF vars, fields
<1>2. CASE Flush
  BY <1>2 DEF Flush, Call, fields
<1>3. CASE FlushMissed
  BY <1>3, <1>t DEF FlushMissed, AfterFlush, Returns, ControlInv, TypeInv, TypeOK
<1>4. CASE FlushPad
  <2>1. PICK e : AfterFlush(e)
    BY <1>4 DEF FlushPad
  <2> QED BY <1>4, <1>t, <2>1 DEF FlushPad, AfterFlush, Returns, Goes, ControlInv, TypeInv, TypeOK
<1>5. CASE WriteHeaderRefused \/ WriteRefused \/ CloseRefused
  BY <1>5 DEF WriteHeaderRefused, WriteRefused, CloseRefused, Call, Returns, fields
<1>6. ASSUME NEW h \in Headers, WriteHeader(h) PROVE EndInv'
  BY <1>6 DEF WriteHeader, Call, fields
<1>7. CASE Format \/ PaxHead \/ PaxData \/ FileHead
  <2>1. ~closed /\ closed' = closed /\ ~ended
    BY <1>7, <1>t DEF Format, PaxHead, PaxData, FileHead, ControlInv
  <2>2. pc' \notin {"trailer1", "trailer2"} /\ ~ended'
    BY <1>7, <2>1 DEF Format, PaxHead, PaxData, FileHead, Returns, Goes
  <2> QED BY <2>1, <2>2
<1>8. ASSUME NEW m \in 0 .. MaxWrite, Write(m) \/ WritePanic(m) PROVE EndInv'
  <2>1. ~closed /\ closed' = closed /\ ~ended /\ pc' \in {"idle", "panic"}
    BY <1>8 DEF Write, WritePanic, Call, Returns, fields
  <2>2. ~ended'
    BY <1>8, <2>1 DEF Write, WritePanic, Returns
  <2> QED BY <2>1, <2>2
<1>9. CASE Close
  BY <1>9 DEF Close, fields
<1>10. CASE Trailer
  BY <1>10 DEF Trailer, Returns, Goes
<1> QED BY <1>1, <1>2, <1>3, <1>4, <1>5, <1>6, <1>7, <1>8, <1>9, <1>10 DEF Next

\* Once Close has returned nothing more reaches the sink: not from a step of Write,
\* WriteHeader or Flush, and not from a second Close.
THEOREM ClosedWritesNothing == Spec => ClosedIsFinal
<1>1. ASSUME IInv, EndInv, [Next]_vars, ended PROVE out' = out
  <2>t. /\ closed /\ pc \notin {"trailer1", "trailer2"} /\ ControlInv
        /\ err # "nil" \/ (nb = 0 /\ pad = 0)
    BY <1>1 DEF IInv, EndInv
  <2>1. CASE UNCHANGED vars
    BY <2>1 DEF vars
  <2>2. CASE Flush \/ WriteHeaderRefused \/ WriteRefused \/ CloseRefused \/ Close
    BY <2>2 DEF Flush, WriteHeaderRefused, WriteRefused, CloseRefused, Close
  <2>3. CASE \E h \in Headers : WriteHeader(h)
    BY <2>3 DEF WriteHeader
  <2>4. CASE \E m \in 0 .. MaxWrite : Write(m) \/ WritePanic(m)
    BY <2>t, <2>4 DEF Write, WritePanic
  <2>5. CASE FlushMissed \/ FlushPad
    BY <2>t, <2>5 DEF FlushMissed, FlushPad
  <2>6. CASE Format \/ PaxHead \/ PaxData \/ FileHead \/ Trailer
    BY <2>t, <2>6 DEF Format, PaxHead, PaxData, FileHead, Trailer, ControlInv
  <2> QED BY <1>1, <2>1, <2>2, <2>3, <2>4, <2>5, <2>6 DEF Next
<1>2. Init => EndInv
  BY DEF Init, EndInv
<1>3. IInv /\ EndInv /\ [Next]_vars => EndInv' /\ [ended => out' = out]_vars
  BY <1>1, EndNext
<1> QED BY InitIInv, NextIInv, <1>2, <1>3, PTL DEF Spec, ClosedIsFinal
=============================================================================
