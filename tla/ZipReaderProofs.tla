-------------------------- MODULE ZipReaderProofs --------------------------
(***************************************************************************)
(* Theorems about ZipReader, for any number of handles, flate readers and  *)
(* entries: whatever the goroutines that read and close do, a flate reader *)
(* serves one entry at a time, and a client gets the bytes of its own.     *)
(***************************************************************************)
EXTENDS ZipReader, TLAPS, FiniteSetTheorems, SequenceTheorems

\* What is known of every entry.
EntryOK(f) ==
  /\ f.method \in {"Store", "Deflate", "LZMA"} /\ f.usize \in Nat
  /\ f.data \in Seq(Nat) /\ f.crc \in Seq(Nat)
  /\ f.ends \in {"EOF", "failed"} /\ f.header \in BOOLEAN
  /\ f.desc \in {"none", "right", "wrong", "cut"}

FileTypeOK == \A h \in Handles : EntryOK(file[h])
PoolTypeOK ==
  /\ pool \in Seq(FlateReaders)
  /\ flate \in [FlateReaders -> [of : Handles \cup {NoReader}, pos : Nat]]
  /\ fr \in [Handles -> FlateReaders \cup {NoReader}]
CallTypeOK ==
  /\ mu \in [Handles -> {"free", "reader", "closer"}]
  /\ rpc \in [Handles -> {"unopened", "failed", "idle", "lock", "read"}]
  /\ cpc \in [Handles -> {"idle", "lock", "put", "clear"}]
Errs == {"nil", "EOF", "failed", "ErrUnexpectedEOF", "ErrChecksum", "Read after Close"}
LocalTypeOK ==
  /\ at \in [Handles -> Nat] /\ nread \in [Handles -> Nat]
  /\ hash \in [Handles -> Seq(Nat)] /\ got \in [Handles -> Seq(Nat)]
  /\ err \in [Handles -> Errs] /\ ret \in [Handles -> Errs]
TypeInv == FileTypeOK /\ PoolTypeOK /\ CallTypeOK /\ LocalTypeOK

\* The mutex of a handle is held by the goroutine that is inside, and only an
\* opened handle of a deflated entry has a flate reader.
LockInv ==
  \A h \in Handles :
    /\ mu[h] = "reader" <=> rpc[h] = "read"
    /\ mu[h] = "closer" <=> cpc[h] \in {"put", "clear"}
    /\ cpc[h] = "put" => fr[h] # NoReader
    /\ rpc[h] \in {"unopened", "failed"} => fr[h] = NoReader /\ cpc[h] = "idle"
    /\ file[h].method # "Deflate" =>
         fr[h] = NoReader /\ cpc[h] = "idle" /\ rpc[h] \notin {"lock", "read"}
    /\ rpc[h] \in {"lock", "read"} => err[h] = "nil"
    /\ rpc[h] \in {"unopened", "failed"} => hash[h] = <<>>

Holds(h) == fr[h] # NoReader /\ cpc[h] # "clear"

Exclusive ==
  /\ \A g, h \in Handles : (g # h /\ Holds(g) /\ Holds(h)) => fr[g] # fr[h]
  /\ \A h \in Handles : Holds(h) => \A k \in 1 .. Len(pool) : pool[k] # fr[h]
  /\ \A j, k \in 1 .. Len(pool) : j # k => pool[j] # pool[k]

\* A reader that is held decompresses the entry of its handle, right behind the
\* bytes the handle has.
FlateInv ==
  \A h \in Handles : Holds(h) => /\ flate[fr[h]].of = h
                                 /\ flate[fr[h]].pos = Len(hash[h])

Begins(s, t) == Len(s) <= Len(t) /\ \A k \in 1 .. Len(s) : s[k] = t[k]

Intact(f, s) ==
  /\ s = f.data /\ Len(s) = f.usize
  /\ s = f.crc \/ (f.desc = "none" /\ f.crc = <<>>)

\* The bytes hashed are the start of the entry, those returned the start of
\* these.  They differ only after a wrong length, which comes at the end of the
\* data and will be found again.
DataOK(h) ==
  /\ nread[h] = Len(hash[h])
  /\ Begins(hash[h], file[h].data) /\ Begins(got[h], hash[h])
  /\ ret[h] = "nil" => err[h] = "nil" /\ got[h] = hash[h]
  /\ (ret[h] # "nil" /\ err[h] = "nil") =>
       /\ ret[h] = "ErrUnexpectedEOF" /\ Len(hash[h]) = Len(file[h].data)
       /\ file[h].usize # Len(file[h].data) /\ file[h].ends = "EOF"
  /\ err[h] # "nil" => ret[h] = err[h]
  /\ ret[h] = "EOF" => Intact(file[h], got[h])
DataInv == \A h \in Handles : DataOK(h)

AtInv ==
  \A h \in Handles : at[h] = IF file[h].method = "Deflate" THEN 0 ELSE Len(hash[h])

-----------------------------------------------------------------------------
\* Removing one place of a sequence keeps the others, in order.
LEMMA RemoveAtLemma ==
  ASSUME NEW S, NEW s \in Seq(S), NEW i \in 1 .. Len(s)
  PROVE  /\ RemoveAt(s, i) \in Seq(S) /\ Len(RemoveAt(s, i)) = Len(s) - 1
         /\ \A k \in 1 .. Len(s) - 1 :
              RemoveAt(s, i)[k] = s[IF k < i THEN k ELSE k + 1]
<1> DEFINE a == SubSeq(s, 1, i - 1)
           b == SubSeq(s, i + 1, Len(s))
<1>1. a \in Seq(S) /\ Len(a) = i - 1 /\ \A k \in 1 .. i - 1 : a[k] = s[k]
  OBVIOUS
<1>2. /\ b \in Seq(S) /\ Len(b) = Len(s) - i
      /\ \A k \in 1 .. Len(s) - i : b[k] = s[k + i]
  OBVIOUS
<1>3. RemoveAt(s, i) = a \o b
  BY DEF RemoveAt
<1> HIDE DEF a, b
<1>4. /\ a \o b \in Seq(S) /\ Len(a \o b) = Len(s) - 1
      /\ \A k \in 1 .. Len(s) - 1 :
           (a \o b)[k] = IF k < i THEN a[k] ELSE b[k - (i - 1)]
  <2>1. /\ a \o b \in Seq(S) /\ Len(a \o b) = Len(a) + Len(b)
        /\ \A k \in 1 .. Len(a) + Len(b) :
             (a \o b)[k] = IF k <= Len(a) THEN a[k] ELSE b[k - Len(a)]
    BY <1>1, <1>2, ConcatProperties, Zenon
  <2> QED BY <1>1, <1>2, <2>1
<1>5. ASSUME NEW k \in 1 .. Len(s) - 1
      PROVE  (a \o b)[k] = s[IF k < i THEN k ELSE k + 1]
  <2>1. CASE k < i
    BY <1>1, <1>4, <2>1
  <2>2. CASE ~(k < i)
    <3>1. k - (i - 1) \in 1 .. Len(s) - i /\ (k - (i - 1)) + i = k + 1
      BY <2>2
    <3> QED BY <1>2, <1>4, <2>2, <3>1
  <2> QED BY <2>1, <2>2
<1> QED BY <1>3, <1>4, <1>5

\* What a decompressor returns is the next piece of the entry, with an error only
\* at its end.
LEMMA AnswerLemma ==
  ASSUME NEW f, EntryOK(f), NEW p \in 0 .. Len(f.data), NEW a \in Answers(f, p)
  PROVE  /\ a.data \in Seq(Nat) /\ Len(a.data) <= Len(f.data) - p
         /\ \A k \in 1 .. Len(a.data) : a.data[k] = f.data[p + k]
         /\ a.err \in {"nil", f.ends}
         /\ a.err # "nil" => Len(a.data) = Len(f.data) - p
         /\ a.err = "nil" => Len(a.data) > 0
<1> USE ReaderAssumption DEF EntryOK
<1> DEFINE left == Len(f.data) - p
<1>1. ASSUME NEW n \in 0 .. left
      PROVE  /\ SubSeq(f.data, p + 1, p + n) \in Seq(Nat)
             /\ Len(SubSeq(f.data, p + 1, p + n)) = n
             /\ \A k \in 1 .. n : SubSeq(f.data, p + 1, p + n)[k] = f.data[p + k]
  OBVIOUS
<1>2. CASE \E n \in 1 .. (IF left < MaxRead THEN left ELSE MaxRead) :
             a = [data |-> SubSeq(f.data, p + 1, p + n), err |-> "nil"]
  <2>1. PICK n \in 1 .. (IF left < MaxRead THEN left ELSE MaxRead) :
             a = [data |-> SubSeq(f.data, p + 1, p + n), err |-> "nil"]
    BY <1>2
  <2>2. n \in 0 .. left /\ n > 0 /\ left \in Nat
    OBVIOUS
  <2>3. a.data = SubSeq(f.data, p + 1, p + n) /\ a.err = "nil"
    BY <2>1
  <2> HIDE DEF left
  <2> QED BY <1>1, <2>2, <2>3 DEF left
<1>3. CASE a = [data |-> SubSeq(f.data, p + 1, p + left), err |-> f.ends]
  <2>1. left \in 0 .. left
    OBVIOUS
  <2>2. a.data = SubSeq(f.data, p + 1, p + left) /\ a.err = f.ends /\ f.ends # "nil"
    BY <1>3
  <2> QED BY <1>1, <2>1, <2>2, SMTT(60)
<1> QED BY <1>2, <1>3 DEF Answers

\* Bytes appended to the start of a sequence where it goes on make a longer one.
LEMMA BeginsConcat ==
  ASSUME NEW s \in Seq(Nat), NEW t \in Seq(Nat), NEW b \in Seq(Nat), Begins(s, t),
         Len(b) <= Len(t) - Len(s), \A k \in 1 .. Len(b) : b[k] = t[Len(s) + k]
  PROVE  /\ s \o b \in Seq(Nat) /\ Len(s \o b) = Len(s) + Len(b)
         /\ Begins(s \o b, t) /\ Begins(s, s \o b)
         /\ Len(s \o b) = Len(t) => s \o b = t
<1>1. /\ s \o b \in Seq(Nat) /\ Len(s \o b) = Len(s) + Len(b)
      /\ \A k \in 1 .. Len(s) + Len(b) :
           (s \o b)[k] = IF k <= Len(s) THEN s[k] ELSE b[k - Len(s)]
  BY ConcatProperties, Zenon
<1>2. ASSUME NEW k \in 1 .. Len(s \o b) PROVE (s \o b)[k] = t[k]
  <2>1. CASE k <= Len(s)
    BY <1>1, <2>1 DEF Begins
  <2>2. CASE ~(k <= Len(s))
    <3>1. k - Len(s) \in 1 .. Len(b) /\ Len(s) + (k - Len(s)) = k
      BY <1>1, <2>2
    <3> QED BY <1>1, <2>2, <3>1
  <2> QED BY <2>1, <2>2
<1>3. Begins(s \o b, t) /\ Begins(s, s \o b)
  BY <1>1, <1>2 DEF Begins
<1>4. Len(s \o b) = Len(t) => s \o b = t
  BY <1>1, <1>2, SeqEqual
<1> QED BY <1>1, <1>3, <1>4

\* The error Check makes of an answer, s being hashed then.
ReadError(f, a, s) == IF a.err = "EOF" THEN EndError(f, Len(s), s) ELSE a.err

\* What an answer a and the error e of Read say of the bytes hashed, s, of which
\* hs were hashed before.
Outcome(f, hs, a, s, e) ==
  /\ a.data \in Seq(Nat) /\ s \in Seq(Nat) /\ Len(s) = Len(hs) + Len(a.data)
  /\ Begins(s, f.data) /\ Begins(hs, s)
  /\ e \in Errs \cup {"short"}
  /\ e = "short" => Len(s) = Len(f.data) /\ f.usize # Len(f.data) /\ f.ends = "EOF"
  /\ e = "EOF" => Intact(f, s)
  /\ (Len(hs) = Len(f.data) /\ f.usize # Len(f.data) /\ f.ends = "EOF")
        => e = "short" /\ s = hs

\* A wrong length is found only at the end of the data, and then every time; io.EOF
\* is returned only for data that is complete and has the right checksum.
LEMMA EndLemma ==
  ASSUME NEW f, EntryOK(f), NEW hs \in Seq(Nat), Begins(hs, f.data),
         NEW a \in Answers(f, Len(hs)), NEW s, s = hs \o a.data,
         NEW e, e = ReadError(f, a, s)
  PROVE  Outcome(f, hs, a, s, e)
<1>1. /\ f.data \in Seq(Nat) /\ f.usize \in Nat /\ f.ends \in {"EOF", "failed"}
      /\ f.desc \in {"none", "right", "wrong", "cut"} /\ Len(hs) \in 0 .. Len(f.data)
  BY DEF EntryOK, Begins
<1>2. /\ a.data \in Seq(Nat) /\ Len(a.data) <= Len(f.data) - Len(hs)
      /\ \A k \in 1 .. Len(a.data) : a.data[k] = f.data[Len(hs) + k]
      /\ a.err \in {"nil", f.ends}
      /\ a.err # "nil" => Len(a.data) = Len(f.data) - Len(hs)
      /\ a.err = "nil" => Len(a.data) > 0
  BY <1>1, AnswerLemma
<1>3. /\ s \in Seq(Nat) /\ Len(s) = Len(hs) + Len(a.data)
      /\ Begins(s, f.data) /\ Begins(hs, s)
      /\ Len(s) = Len(f.data) => s = f.data
  BY <1>1, <1>2, BeginsConcat, Zenon
<1>4. Len(s) \in Nat /\ Len(hs) \in Nat /\ Len(a.data) \in Nat /\ Len(f.data) \in Nat
  BY <1>1, <1>2, <1>3
<1>5. a.err # "nil" => Len(s) = Len(f.data) /\ s = f.data
  BY <1>2, <1>3, <1>4
<1>6. /\ e \in Errs \cup {"short"}
      /\ e = "short" => a.err = "EOF" /\ Len(s) # f.usize
      /\ (a.err = "EOF" /\ Len(s) # f.usize) => e = "short"
  BY <1>1, <1>2 DEF ReadError, EndError, Errs
<1>7. (Len(hs) = Len(f.data) /\ f.ends = "EOF") => a.err = "EOF" /\ s = f.data /\ hs = f.data
  <2> SUFFICES ASSUME Len(hs) = Len(f.data), f.ends = "EOF"
               PROVE  a.err = "EOF" /\ s = f.data /\ hs = f.data
    OBVIOUS
  <2>1. a.err = "EOF"
    BY <1>2, <1>4
  <2>2. hs = f.data
    BY <1>1, SeqEqual DEF Begins
  <2> QED BY <1>5, <2>1, <2>2
<1>8. a.err = "EOF" => f.ends = "EOF"
  BY <1>1, <1>2
<1>9. e = "short" => Len(s) = Len(f.data) /\ f.usize # Len(f.data) /\ f.ends = "EOF"
  BY <1>5, <1>6, <1>8
<1>10. e = "EOF" => Intact(f, s)
  <2> SUFFICES ASSUME e = "EOF" PROVE Intact(f, s)
    OBVIOUS
  <2>1. a.err = "EOF"
    BY <1>1, <1>2 DEF ReadError
  <2>2. EndError(f, Len(s), s) = "EOF"
    BY <2>1 DEF ReadError
  <2>3. Len(s) = f.usize
    BY <2>2 DEF EndError
  <2>4. s = f.crc \/ (f.desc = "none" /\ f.crc = <<>>)
    BY <1>1, <2>2, <2>3 DEF EndError
  <2> QED BY <1>5, <2>1, <2>3, <2>4 DEF Intact
<1>11. (Len(hs) = Len(f.data) /\ f.usize # Len(f.data) /\ f.ends = "EOF")
          => e = "short" /\ s = hs
  BY <1>6, <1>7
<1> QED BY <1>2, <1>3, <1>6, <1>9, <1>10, <1>11, Zenon DEF Outcome

\* checksumReader.Read keeps its handle's data in order, whatever piece of the
\* entry the decompressor returned, and leaves the other handles alone.
LEMMA CheckLemma ==
  ASSUME TypeInv, DataInv, NEW h \in Handles, err[h] = "nil", UNCHANGED file,
         NEW a \in Answers(file[h], Len(hash[h])), Check(h, a)
  PROVE  /\ nread' \in [Handles -> Nat]
         /\ hash' \in [Handles -> Seq(Nat)] /\ got' \in [Handles -> Seq(Nat)]
         /\ err' \in [Handles -> Errs] /\ ret' \in [Handles -> Errs]
         /\ Len(hash'[h]) = Len(hash[h]) + Len(a.data)
         /\ \A g \in Handles : g # h => /\ hash'[g] = hash[g] /\ err'[g] = err[g]
                                        /\ ret'[g] = ret[g] /\ got'[g] = got[g]
         /\ DataInv'
         /\ ret[h] # "nil" => ret'[h] = ret[h] /\ got'[h] = got[h]
<1> DEFINE s == hash[h] \o a.data
           e == ReadError(file[h], a, s)
<1>1. EntryOK(file[h]) /\ hash[h] \in Seq(Nat) /\ got[h] \in Seq(Nat)
      /\ DataOK(h) /\ nread[h] = Len(hash[h])
  BY DEF TypeInv, FileTypeOK, LocalTypeOK, DataInv, DataOK
<1>2. Begins(hash[h], file[h].data)
  BY <1>1 DEF DataOK
<1>3. Outcome(file[h], hash[h], a, s, e)
  <2> HIDE DEF s, e
  <2>1. s = hash[h] \o a.data
    BY DEF s
  <2>2. e = ReadError(file[h], a, s)
    BY DEF e
  <2> QED BY <1>1, <1>2, <2>1, <2>2, EndLemma, Zenon
<1>o. a.data \in Seq(Nat) /\ s \in Seq(Nat) /\ Len(s) = Len(hash[h]) + Len(a.data)
  BY <1>3, Zenon DEF Outcome
<1>4. nread[h] + Len(a.data) = Len(s)
  BY <1>1, <1>o
<1>5. /\ nread' = [nread EXCEPT ![h] = Len(s)] /\ hash' = [hash EXCEPT ![h] = s]
      /\ e = "short" => ret' = [ret EXCEPT ![h] = "ErrUnexpectedEOF"]
                        /\ err' = err /\ got' = got
      /\ e # "short" => /\ ret' = [ret EXCEPT ![h] = e] /\ err' = [err EXCEPT ![h] = e]
                        /\ got' = [got EXCEPT ![h] = got[h] \o a.data]
  BY <1>1, <1>4 DEF Check, Set, ReadError, TypeInv, LocalTypeOK
<1> HIDE DEF e, s
<1>6. Len(s) \in Nat /\ got[h] \o a.data \in Seq(Nat)
  <2>1. got[h] \o a.data \in Seq(Nat)
    BY <1>1, <1>o, ConcatProperties, Zenon
  <2>2. s \in Seq(Nat)
    BY <1>o
  <2>3. Len(s) \in Nat
    BY <2>2
  <2> QED BY <2>1, <2>3, Zenon
<1>7. /\ nread' \in [Handles -> Nat]
      /\ hash' \in [Handles -> Seq(Nat)] /\ got' \in [Handles -> Seq(Nat)]
      /\ err' \in [Handles -> Errs] /\ ret' \in [Handles -> Errs]
  <2>1. nread' \in [Handles -> Nat] /\ hash' \in [Handles -> Seq(Nat)]
    BY <1>o, <1>5, <1>6 DEF TypeInv, LocalTypeOK
  <2>2. got' \in [Handles -> Seq(Nat)]
    BY <1>5, <1>6 DEF TypeInv, LocalTypeOK
  <2>3. err' \in [Handles -> Errs] /\ ret' \in [Handles -> Errs]
    BY <1>3, <1>5 DEF TypeInv, LocalTypeOK, Errs, Outcome
  <2> QED BY <2>1, <2>2, <2>3
<1>8. /\ nread'[h] = Len(s) /\ hash'[h] = s
      /\ e = "short" => ret'[h] = "ErrUnexpectedEOF" /\ err'[h] = "nil"
                        /\ got'[h] = got[h]
      /\ e # "short" => ret'[h] = e /\ err'[h] = e /\ got'[h] = got[h] \o a.data
  BY <1>5 DEF TypeInv, LocalTypeOK
<1>9. \A g \in Handles : g # h =>
        /\ nread'[g] = nread[g] /\ hash'[g] = hash[g] /\ got'[g] = got[g]
        /\ err'[g] = err[g] /\ ret'[g] = ret[g]
  BY <1>5 DEF TypeInv, LocalTypeOK
<1>10. ret[h] = "nil" \/
         (/\ ret[h] = "ErrUnexpectedEOF" /\ Len(hash[h]) = Len(file[h].data)
          /\ file[h].usize # Len(file[h].data) /\ file[h].ends = "EOF")
  BY <1>1 DEF DataOK
<1>11. CASE ret[h] = "nil"
  <2>1. got[h] = hash[h] /\ got[h] \o a.data = s
    BY <1>1, <1>11 DEF DataOK, s
  <2>2. Begins(s, s)
    BY <1>o DEF Begins
  <2>3. Begins(got'[h], hash'[h])
    <3>1. hash'[h] = s
      BY <1>8
    <3>2. CASE e = "short"
      <4>1. got'[h] = hash[h]
        BY <1>8, <2>1, <3>2
      <4> QED BY <1>3, <3>1, <4>1, Zenon DEF Outcome
    <3>3. CASE e # "short"
      <4>1. got'[h] = s
        BY <1>8, <2>1, <3>3
      <4> QED BY <2>2, <3>1, <4>1, Zenon
    <3> QED BY <3>2, <3>3
  <2>4. DataOK(h)'
    BY <1>3, <1>8, <2>1, <2>3 DEF DataOK, Outcome
  <2>5. DataInv'
    BY <1>9, <2>4 DEF DataInv, DataOK
  <2> QED BY <1>o, <1>7, <1>8, <1>9, <1>11, <2>5
<1>12. CASE ret[h] # "nil"
  <2>1. e = "short" /\ s = hash[h]
    BY <1>3, <1>10, <1>12 DEF Outcome
  <2>2. DataOK(h)'
    BY <1>1, <1>3, <1>8, <1>10, <1>12, <2>1 DEF DataOK, Outcome
  <2>3. DataInv'
    BY <1>9, <2>2 DEF DataInv, DataOK
  <2> QED BY <1>o, <1>7, <1>8, <1>9, <1>10, <1>12, <2>1, <2>3
<1> QED BY <1>11, <1>12

\* Nothing added.
LEMMA PlusZero == \A m \in Nat : m + 0 = m
OBVIOUS

\* The answer of a handle that was closed: nothing, and an error that stays.
LEMMA ClosedLemma ==
  ASSUME TypeInv, DataInv, NEW h \in Handles, err[h] = "nil", UNCHANGED file,
         Check(h, [data |-> <<>>, err |-> "Read after Close"])
  PROVE  /\ nread' \in [Handles -> Nat]
         /\ hash' \in [Handles -> Seq(Nat)] /\ got' \in [Handles -> Seq(Nat)]
         /\ err' \in [Handles -> Errs] /\ ret' \in [Handles -> Errs]
         /\ hash' = hash /\ got' = got /\ ret'[h] = "Read after Close"
         /\ \A g \in Handles : g # h => err'[g] = err[g] /\ ret'[g] = ret[g]
         /\ DataInv'
<1>1. hash[h] \in Seq(Nat) /\ got[h] \in Seq(Nat) /\ nread[h] \in Nat
  BY DEF TypeInv, LocalTypeOK
<1>2. hash[h] \o <<>> = hash[h] /\ got[h] \o <<>> = got[h]
  BY <1>1, ConcatEmptySeq, Zenon
<1>3. nread[h] + Len(<<>>) = nread[h]
  <2>1. Len(<<>>) = 0
    OBVIOUS
  <2> QED BY <1>1, <2>1, PlusZero, Zenon
<1>4. /\ nread' = [nread EXCEPT ![h] = nread[h] + Len(<<>>)]
      /\ hash' = [hash EXCEPT ![h] = hash[h] \o <<>>]
      /\ ret' = [ret EXCEPT ![h] = "Read after Close"]
      /\ err' = [err EXCEPT ![h] = "Read after Close"]
      /\ got' = [got EXCEPT ![h] = got[h] \o <<>>]
  BY DEF Check, Set
<1>5. /\ nread' = [nread EXCEPT ![h] = nread[h]] /\ hash' = [hash EXCEPT ![h] = hash[h]]
      /\ got' = [got EXCEPT ![h] = got[h]]
  BY <1>2, <1>3, <1>4, Zenon
<1>6. nread' = nread /\ hash' = hash /\ got' = got
  BY <1>5 DEF TypeInv, LocalTypeOK
<1>7. /\ err' \in [Handles -> Errs] /\ ret' \in [Handles -> Errs]
      /\ ret'[h] = "Read after Close" /\ err'[h] = "Read after Close"
      /\ \A g \in Handles : g # h => err'[g] = err[g] /\ ret'[g] = ret[g]
  BY <1>4 DEF TypeInv, LocalTypeOK, Errs
<1>8. DataInv'
  BY <1>6, <1>7, ZenonT(60) DEF DataInv, DataOK
<1> QED BY <1>6, <1>7, <1>8 DEF TypeInv, LocalTypeOK

-----------------------------------------------------------------------------
IInv == TypeInv /\ LockInv /\ Exclusive /\ FlateInv /\ DataInv /\ AtInv

\* The invariant holds when nothing is open yet.
LEMMA InitIInv == Init => IInv
<1> SUFFICES ASSUME Init PROVE IInv
  OBVIOUS
<1> USE ReaderAssumption DEF Init
<1>1. FileTypeOK
  <2> SUFFICES ASSUME NEW h \in Handles PROVE EntryOK(file[h])
    BY DEF FileTypeOK
  <2>1. DOMAIN file = Handles /\ file[h] \in Range(file)
    BY DEF Range
  <2> QED BY <2>1 DEF EntryOK
<1>2. PoolTypeOK /\ CallTypeOK
  BY DEF PoolTypeOK, CallTypeOK
<1>3. LocalTypeOK
  BY DEF LocalTypeOK, Errs
<1>4. LockInv
  BY DEF LockInv
<1>5. Exclusive /\ FlateInv
  BY DEF Exclusive, FlateInv, Holds
<1>6. DataInv
  BY <1>1 DEF DataInv, DataOK, Begins, FileTypeOK, EntryOK
<1>7. AtInv
  BY DEF AtInv
<1> QED BY <1>1, <1>2, <1>3, <1>4, <1>5, <1>6, <1>7 DEF IInv, TypeInv

\* Opening: the reader taken from the pool, or made, was nobody's.
LEMMA OpenIInv ==
  ASSUME IInv, NEW h \in Handles, OpenFails(h) \/ Open(h) PROVE IInv'
<1> USE ReaderAssumption DEF IInv
<1>1. CASE OpenFails(h)
  <2> USE <1>1 DEF OpenFails, Set, locals
  <2>1. TypeInv'
    BY DEF TypeInv, FileTypeOK, PoolTypeOK, CallTypeOK, LocalTypeOK
  <2>2. LockInv'
    BY DEF LockInv, TypeInv, CallTypeOK
  <2>3. Exclusive' /\ FlateInv' /\ AtInv'
    BY DEF Exclusive, FlateInv, Holds, AtInv
  <2>4. DataInv'
    BY DEF DataInv, DataOK
  <2> QED BY <2>1, <2>2, <2>3, <2>4
<1>2. CASE Open(h) /\ file[h].method # "Deflate"
  <2> USE <1>2 DEF Open, Set, locals
  <2>1. TypeInv'
    BY DEF TypeInv, FileTypeOK, PoolTypeOK, CallTypeOK, LocalTypeOK
  <2>2. LockInv'
    BY DEF LockInv, TypeInv, CallTypeOK
  <2>3. Exclusive' /\ FlateInv' /\ AtInv'
    BY DEF Exclusive, FlateInv, Holds, AtInv
  <2>4. DataInv'
    BY DEF DataInv, DataOK
  <2> QED BY <2>1, <2>2, <2>3, <2>4
<1>3. CASE Open(h) /\ file[h].method = "Deflate"
  <2>0. /\ rpc[h] = "unopened" /\ rpc' = [rpc EXCEPT ![h] = "idle"]
        /\ UNCHANGED <<file, decompressors, mu, at, locals, cpc>>
    BY <1>3 DEF Open, Set
  <2>1. PICK x \in FlateReaders :
          /\ fr' = [fr EXCEPT ![h] = x]
          /\ \A g \in Handles : Holds(g) => fr[g] # x
          /\ pool' \in Seq(FlateReaders)
          /\ \A k \in 1 .. Len(pool') : pool'[k] # x
          /\ \A k \in 1 .. Len(pool') : \E j \in 1 .. Len(pool) : pool'[k] = pool[j]
          /\ \A j, k \in 1 .. Len(pool') : j # k => pool'[j] # pool'[k]
          /\ flate' = [flate EXCEPT ![x] = [of |-> h, pos |-> 0]]
    <3>1. PICK x : /\ fr' = [fr EXCEPT ![h] = x]
                   /\ flate' = [flate EXCEPT ![fr'[h]] = [of |-> h, pos |-> 0]]
                   /\ \/ \E k \in DOMAIN pool : x = pool[k] /\ pool' = RemoveAt(pool, k)
                      \/ x \in Fresh /\ pool' = pool
      BY <1>3 DEF Open, Set
    <3>2. fr'[h] = x
      BY <3>1 DEF TypeInv, PoolTypeOK
    <3>3. pool \in Seq(FlateReaders) /\ DOMAIN pool = 1 .. Len(pool)
      BY DEF TypeInv, PoolTypeOK
    <3>4. CASE \E k \in DOMAIN pool : x = pool[k] /\ pool' = RemoveAt(pool, k)
      <4>1. PICK k \in 1 .. Len(pool) : x = pool[k] /\ pool' = RemoveAt(pool, k)
        BY <3>3, <3>4
      <4>2. x \in FlateReaders /\ \A g \in Handles : Holds(g) => fr[g] # x
        BY <3>3, <4>1 DEF Exclusive
      <4>3. /\ pool' \in Seq(FlateReaders) /\ Len(pool') = Len(pool) - 1
            /\ \A j \in 1 .. Len(pool) - 1 : pool'[j] = pool[IF j < k THEN j ELSE j + 1]
        BY <3>3, <4>1, RemoveAtLemma, ZenonT(60)
      <4>4. ASSUME NEW j \in 1 .. Len(pool')
            PROVE  /\ (IF j < k THEN j ELSE j + 1) \in 1 .. Len(pool)
                   /\ (IF j < k THEN j ELSE j + 1) # k
                   /\ pool'[j] = pool[IF j < k THEN j ELSE j + 1]
        BY <3>3, <4>3
      <4>5. \A j \in 1 .. Len(pool') : pool'[j] # x
        BY <4>1, <4>4 DEF Exclusive
      <4>6. \A j, l \in 1 .. Len(pool') : j # l => pool'[j] # pool'[l]
        <5> SUFFICES ASSUME NEW j \in 1 .. Len(pool'), NEW l \in 1 .. Len(pool'), j # l
                     PROVE  pool'[j] # pool'[l]
          OBVIOUS
        <5>1. (IF j < k THEN j ELSE j + 1) # (IF l < k THEN l ELSE l + 1)
          BY <3>3, <4>3
        <5> QED BY <4>4, <5>1 DEF Exclusive
      <4> QED BY <3>1, <3>2, <4>2, <4>3, <4>4, <4>5, <4>6
    <3>5. CASE x \in Fresh /\ pool' = pool
      <4>1. x \in FlateReaders /\ (\A g \in Handles : fr[g] # x)
            /\ \A k \in 1 .. Len(pool) : pool[k] # x
        BY <3>3, <3>5 DEF Fresh, Range
      <4> QED BY <3>1, <3>2, <3>3, <3>5, <4>1 DEF Exclusive
    <3> QED BY <3>1, <3>4, <3>5
  <2>2. fr'[h] = x /\ \A g \in Handles : g # h => fr'[g] = fr[g]
    BY <2>1 DEF TypeInv, PoolTypeOK
  <2>3. /\ flate'[x].of = h /\ flate'[x].pos = 0
        /\ \A y \in FlateReaders : y # x => flate'[y] = flate[y]
    BY <2>1 DEF TypeInv, PoolTypeOK
  <2>4. cpc[h] = "idle" /\ hash[h] = <<>> /\ x # NoReader
    BY <2>0 DEF LockInv
  <2>5. TypeInv'
    <3>1. PoolTypeOK'
      BY <2>1 DEF TypeInv, PoolTypeOK
    <3> QED BY <2>0, <3>1 DEF TypeInv, FileTypeOK, CallTypeOK, LocalTypeOK, locals
  <2>6. LockInv'
    BY <1>3, <2>0, <2>2, <2>4 DEF LockInv, TypeInv, CallTypeOK, locals
  <2>7. Exclusive'
    BY <2>0, <2>1, <2>2 DEF Exclusive, Holds
  <2>8. FlateInv'
    <3> SUFFICES ASSUME NEW g \in Handles, Holds(g)'
                 PROVE  (flate[fr[g]].of = g /\ flate[fr[g]].pos = Len(hash[g]))'
      BY DEF FlateInv
    <3>1. CASE g = h
      BY <2>0, <2>2, <2>3, <2>4, <3>1 DEF locals
    <3>2. CASE g # h
      <4>1. Holds(g) /\ fr'[g] = fr[g] /\ fr[g] \in FlateReaders
        BY <2>0, <2>2, <3>2 DEF Holds, TypeInv, PoolTypeOK
      <4>2. fr[g] # x
        BY <2>1, <4>1
      <4> QED BY <2>0, <2>3, <4>1, <4>2 DEF FlateInv, locals
    <3> QED BY <3>1, <3>2
  <2>9. DataInv' /\ AtInv'
    BY <2>0 DEF DataInv, DataOK, AtInv, locals
  <2> QED BY <2>5, <2>6, <2>7, <2>8, <2>9
<1> QED BY <1>1, <1>2, <1>3

\* Read, directly or through the flate reader of the handle.
LEMMA ReadIInv ==
  ASSUME IInv, NEW h \in Handles,
         ReadRefused(h) \/ ReadDirect(h) \/ Read(h) \/ ReadLock(h) \/ ReadFlate(h)
  PROVE  IInv'
<1> USE DEF IInv
<1>1. CASE ReadRefused(h)
  <2> USE <1>1 DEF ReadRefused, Set
  <2>1. ret' = ret
    BY DEF DataInv, DataOK, TypeInv, LocalTypeOK
  <2>2. TypeInv' /\ LockInv' /\ Exclusive' /\ FlateInv' /\ AtInv'
    BY <2>1 DEF TypeInv, FileTypeOK, PoolTypeOK, CallTypeOK, LocalTypeOK, LockInv,
                Exclusive, FlateInv, Holds, AtInv
  <2>3. DataInv'
    BY <2>1 DEF DataInv, DataOK
  <2> QED BY <2>2, <2>3
<1>2. CASE Read(h) \/ ReadLock(h)
  <2>0. UNCHANGED <<file, decompressors, pool, flate, fr, at, locals, cpc>>
    BY <1>2 DEF Read, ReadLock
  <2>1. TypeInv'
    <3>1. CallTypeOK'
      BY <1>2 DEF Read, ReadLock, Set, TypeInv, CallTypeOK
    <3> QED BY <2>0, <3>1 DEF TypeInv, FileTypeOK, PoolTypeOK, LocalTypeOK, locals
  <2>2. LockInv'
    BY <1>2 DEF Read, ReadLock, Set, LockInv, TypeInv, CallTypeOK, locals
  <2>3. Exclusive' /\ FlateInv' /\ AtInv' /\ DataInv'
    BY <2>0 DEF Exclusive, FlateInv, Holds, AtInv, DataInv, DataOK, locals
  <2> QED BY <2>1, <2>2, <2>3
<1>3. CASE ReadDirect(h)
  <2>0. /\ rpc[h] = "idle" /\ err[h] = "nil" /\ file[h].method # "Deflate"
        /\ UNCHANGED <<file, decompressors, pool, flate, fr, mu, rpc, cpc>>
    BY <1>3 DEF ReadDirect
  <2>1. PICK a \in Answers(file[h], at[h]) :
          Check(h, a) /\ at' = [at EXCEPT ![h] = @ + Len(a.data)]
    BY <1>3 DEF ReadDirect
  <2>2. at[h] = Len(hash[h])
    BY <2>0 DEF AtInv
  <2>3. a \in Answers(file[h], Len(hash[h]))
    BY <2>1, <2>2
  <2>4. /\ nread' \in [Handles -> Nat]
        /\ hash' \in [Handles -> Seq(Nat)] /\ got' \in [Handles -> Seq(Nat)]
        /\ err' \in [Handles -> Errs] /\ ret' \in [Handles -> Errs]
        /\ Len(hash'[h]) = Len(hash[h]) + Len(a.data)
        /\ \A g \in Handles : g # h => hash'[g] = hash[g] /\ err'[g] = err[g]
        /\ DataInv'
    BY <2>0, <2>1, <2>3, CheckLemma
  <2>5. at'[h] = Len(hash'[h]) /\ \A g \in Handles : g # h => at'[g] = at[g]
    BY <2>1, <2>2, <2>4 DEF TypeInv, LocalTypeOK
  <2>6. at' \in [Handles -> Nat]
    <3>0. hash'[h] \in Seq(Nat)
      BY <2>4
    <3>1. Len(hash'[h]) \in Nat
      BY <3>0
    <3>2. at[h] + Len(a.data) = Len(hash'[h])
      BY <2>2, <2>4
    <3>3. at' = [at EXCEPT ![h] = Len(hash'[h])]
      BY <2>1, <3>2, Zenon
    <3> QED BY <3>1, <3>3 DEF TypeInv, LocalTypeOK
  <2>7. TypeInv'
    BY <2>0, <2>4, <2>6 DEF TypeInv, FileTypeOK, PoolTypeOK, CallTypeOK, LocalTypeOK
  <2>8. LockInv'
    BY <2>0, <2>4 DEF LockInv
  <2>9. Exclusive' /\ FlateInv'
    <3>1. \A g \in Handles : Holds(g) => g # h
      BY <2>0 DEF Holds, LockInv
    <3> QED BY <2>0, <2>4, <3>1, ZenonT(60) DEF Exclusive, FlateInv, Holds
  <2>10. AtInv'
    BY <2>0, <2>4, <2>5 DEF AtInv
  <2> QED BY <2>4, <2>7, <2>8, <2>9, <2>10
<1>4. CASE ReadFlate(h)
  <2>0. /\ rpc[h] = "read" /\ rpc' = [rpc EXCEPT ![h] = "idle"]
        /\ mu' = [mu EXCEPT ![h] = "free"]
        /\ UNCHANGED <<file, decompressors, pool, fr, at, cpc>>
    BY <1>4 DEF ReadFlate, Set
  <2>1. /\ err[h] = "nil" /\ mu[h] = "reader" /\ cpc[h] \notin {"put", "clear"}
        /\ file[h].method = "Deflate"
    BY <2>0 DEF LockInv
  <2>2. CallTypeOK'
    BY <2>0 DEF TypeInv, CallTypeOK
  <2>3. CASE fr[h] = NoReader
    <3>1. Check(h, [data |-> <<>>, err |-> "Read after Close"]) /\ flate' = flate
      BY <1>4, <2>3 DEF ReadFlate
    <3>2. /\ nread' \in [Handles -> Nat]
          /\ hash' \in [Handles -> Seq(Nat)] /\ got' \in [Handles -> Seq(Nat)]
          /\ err' \in [Handles -> Errs] /\ ret' \in [Handles -> Errs]
          /\ hash' = hash /\ \A g \in Handles : g # h => err'[g] = err[g]
          /\ DataInv'
      BY <2>0, <2>1, <3>1, ClosedLemma
    <3>3. TypeInv'
      BY <2>0, <2>2, <3>1, <3>2 DEF TypeInv, FileTypeOK, PoolTypeOK, LocalTypeOK
    <3>4. LockInv'
      BY <2>0, <2>1, <3>2, ZenonT(60) DEF LockInv, TypeInv, CallTypeOK
    <3>5. Exclusive' /\ FlateInv' /\ AtInv'
      BY <2>0, <3>1, <3>2 DEF Exclusive, FlateInv, Holds, AtInv
    <3> QED BY <3>2, <3>3, <3>4, <3>5
  <2>4. CASE fr[h] # NoReader
    <3>1. Holds(h) /\ fr[h] \in FlateReaders
      BY <2>1, <2>4 DEF Holds, TypeInv, PoolTypeOK
    <3>2. flate[fr[h]].of = h /\ flate[fr[h]].pos = Len(hash[h])
      BY <3>1 DEF FlateInv
    <3>3. PICK a \in Answers(file[h], Len(hash[h])) :
            Check(h, a) /\ flate' = [flate EXCEPT ![fr[h]].pos = @ + Len(a.data)]
      BY <1>4, <2>4, <3>2 DEF ReadFlate
    <3>4. /\ nread' \in [Handles -> Nat]
          /\ hash' \in [Handles -> Seq(Nat)] /\ got' \in [Handles -> Seq(Nat)]
          /\ err' \in [Handles -> Errs] /\ ret' \in [Handles -> Errs]
          /\ Len(hash'[h]) = Len(hash[h]) + Len(a.data)
          /\ \A g \in Handles : g # h => hash'[g] = hash[g] /\ err'[g] = err[g]
          /\ DataInv'
      BY <2>0, <2>1, <3>3, CheckLemma
    <3>5. flate' = [flate EXCEPT ![fr[h]].pos = Len(hash'[h])]
      <4>1. flate[fr[h]].pos + Len(a.data) = Len(hash'[h])
        BY <3>2, <3>4
      <4> QED BY <3>3, <4>1, Zenon
    <3>6. /\ flate' \in [FlateReaders -> [of : Handles \cup {NoReader}, pos : Nat]]
          /\ flate'[fr[h]].of = h /\ flate'[fr[h]].pos = Len(hash'[h])
          /\ \A y \in FlateReaders : y # fr[h] => flate'[y] = flate[y]
      <4>0. hash'[h] \in Seq(Nat)
        BY <3>4
      <4>1. Len(hash'[h]) \in Nat
        BY <4>0
      <4> QED BY <3>1, <3>2, <3>5, <4>1 DEF TypeInv, PoolTypeOK
    <3>7. TypeInv'
      BY <2>0, <2>2, <3>4, <3>6 DEF TypeInv, FileTypeOK, PoolTypeOK, LocalTypeOK
    <3>8. LockInv'
      BY <2>0, <2>1, <3>4, ZenonT(60) DEF LockInv, TypeInv, CallTypeOK
    <3>9. Exclusive' /\ AtInv'
      BY <2>0, <2>1, <3>4 DEF Exclusive, Holds, AtInv
    <3>10. FlateInv'
      <4> SUFFICES ASSUME NEW g \in Handles, Holds(g)'
                   PROVE  (flate[fr[g]].of = g /\ flate[fr[g]].pos = Len(hash[g]))'
        BY DEF FlateInv
      <4>1. CASE g = h
        BY <2>0, <3>6, <4>1
      <4>2. CASE g # h
        <5>1. Holds(g) /\ fr'[g] = fr[g] /\ fr[g] \in FlateReaders /\ fr[g] # fr[h]
          BY <2>0, <3>1, <4>2 DEF Holds, Exclusive, TypeInv, PoolTypeOK
        <5> QED BY <3>4, <3>6, <4>2, <5>1, ZenonT(60) DEF FlateInv
      <4> QED BY <4>1, <4>2
    <3> QED BY <3>4, <3>7, <3>8, <3>9, <3>10
  <2> QED BY <2>3, <2>4
<1> QED BY <1>1, <1>2, <1>3, <1>4

\* Close: the reader goes into the pool, and is not used through this handle
\* after that, although the field is cleared only later.
LEMMA CloseIInv ==
  ASSUME IInv, NEW h \in Handles,
         Close(h) \/ CloseLock(h) \/ ClosePut(h) \/ CloseClear(h)
  PROVE  IInv'
<1> USE ReaderAssumption DEF IInv
<1>0. UNCHANGED <<file, flate, at, locals, rpc>>
  BY DEF Close, CloseLock, ClosePut, CloseClear
<1>1. DataInv' /\ AtInv'
  BY <1>0 DEF DataInv, DataOK, AtInv, locals
<1>2. CASE Close(h) \/ CloseLock(h)
  <2>0. fr' = fr /\ pool' = pool
    BY <1>2 DEF Close, CloseLock
  <2>1. TypeInv'
    <3>1. CallTypeOK'
      BY <1>2 DEF Close, CloseLock, Set, TypeInv, CallTypeOK
    <3> QED BY <1>0, <2>0, <3>1 DEF TypeInv, FileTypeOK, PoolTypeOK, LocalTypeOK, locals
  <2>2. LockInv'
    BY <1>2 DEF Close, CloseLock, Set, LockInv, TypeInv, CallTypeOK, locals
  <2>3. \A g \in Handles : Holds(g)' => Holds(g)
    BY <1>2 DEF Close, CloseLock, Set, Holds, TypeInv, CallTypeOK
  <2>4. Exclusive' /\ FlateInv'
    BY <1>0, <2>0, <2>3 DEF Exclusive, FlateInv, locals
  <2> QED BY <1>1, <2>1, <2>2, <2>4
<1>3. CASE ClosePut(h)
  <2>0. /\ cpc[h] = "put" /\ pool' = Append(pool, fr[h])
        /\ cpc' = [cpc EXCEPT ![h] = "clear"] /\ fr' = fr /\ mu' = mu
    BY <1>3 DEF ClosePut, Set
  <2>1. Holds(h) /\ fr[h] \in FlateReaders
    BY <2>0 DEF LockInv, Holds, TypeInv, PoolTypeOK
  <2>2. /\ pool \in Seq(FlateReaders) /\ Len(pool) \in Nat
        /\ pool' \in Seq(FlateReaders) /\ Len(pool') = Len(pool) + 1
        /\ pool'[Len(pool) + 1] = fr[h]
        /\ \A k \in 1 .. Len(pool) : pool'[k] = pool[k]
    BY <2>0, <2>1 DEF TypeInv, PoolTypeOK
  <2>3. TypeInv'
    BY <1>0, <2>0, <2>2 DEF TypeInv, FileTypeOK, PoolTypeOK, CallTypeOK, LocalTypeOK, locals
  <2>4. LockInv'
    BY <1>0, <2>0 DEF LockInv, TypeInv, CallTypeOK, locals
  <2>5. \A g \in Handles : Holds(g)' => g # h /\ Holds(g)
    BY <2>0 DEF Holds, TypeInv, CallTypeOK
  <2>6. FlateInv'
    BY <1>0, <2>0, <2>5 DEF FlateInv, locals
  <2>7. \A k \in 1 .. Len(pool') : k \in 1 .. Len(pool) \/ k = Len(pool) + 1
    BY <2>2
  <2>8. Exclusive'
    <3>1. ASSUME NEW g \in Handles, Holds(g)', NEW k \in 1 .. Len(pool')
          PROVE  pool'[k] # fr'[g]
      BY <2>0, <2>1, <2>2, <2>5, <2>7, <3>1 DEF Exclusive
    <3>2. ASSUME NEW j \in 1 .. Len(pool'), NEW k \in 1 .. Len(pool'), j # k
          PROVE  pool'[j] # pool'[k]
      BY <2>1, <2>2, <2>7, <3>2 DEF Exclusive
    <3> QED BY <2>0, <2>5, <3>1, <3>2 DEF Exclusive
  <2> QED BY <1>1, <2>3, <2>4, <2>6, <2>8
<1>4. CASE CloseClear(h)
  <2>0. /\ cpc[h] = "clear" /\ cpc' = [cpc EXCEPT ![h] = "idle"]
        /\ mu' = [mu EXCEPT ![h] = "free"] /\ fr' = [fr EXCEPT ![h] = NoReader]
        /\ pool' = pool
    BY <1>4 DEF CloseClear, Set
  <2>1. TypeInv'
    BY <1>0, <2>0 DEF TypeInv, FileTypeOK, PoolTypeOK, CallTypeOK, LocalTypeOK, locals
  <2>2. LockInv'
    BY <1>0, <2>0 DEF LockInv, TypeInv, CallTypeOK, PoolTypeOK, locals
  <2>3. \A g \in Handles : Holds(g)' => Holds(g) /\ fr'[g] = fr[g]
    BY <2>0 DEF Holds, TypeInv, CallTypeOK, PoolTypeOK
  <2>4. Exclusive' /\ FlateInv'
    BY <1>0, <2>0, <2>3 DEF Exclusive, FlateInv, locals
  <2> QED BY <1>1, <2>1, <2>2, <2>4
<1> QED BY <1>2, <1>3, <1>4

\* Every step keeps the invariant.
LEMMA NextIInv == IInv /\ [Next]_vars => IInv'
<1> SUFFICES ASSUME IInv, [Next]_vars PROVE IInv'
  OBVIOUS
<1>1. CASE UNCHANGED <<file, pool, flate, fr, mu, at, locals, rpc, cpc>>
  BY <1>1 DEF IInv, TypeInv, FileTypeOK, PoolTypeOK, CallTypeOK, LocalTypeOK, LockInv,
              Exclusive, FlateInv, Holds, DataInv, DataOK, AtInv, locals
<1>2. CASE RegisterDecompressor("LZMA") \/ UNCHANGED vars
  BY <1>1, <1>2 DEF RegisterDecompressor, vars, locals
<1> QED BY <1>2, OpenIInv, ReadIInv, CloseIInv DEF Next

\* A sequence without repetitions is no longer than the set it is from is large.
LEMMA PoolBounded ==
  ASSUME TypeInv, Exclusive PROVE Len(pool) <= Cardinality(FlateReaders)
<1>1. pool \in Seq(FlateReaders) /\ pool \in [1 .. Len(pool) -> FlateReaders]
      /\ Len(pool) \in Nat
  BY DEF TypeInv, PoolTypeOK
<1>2. pool \in Injection(1 .. Len(pool), FlateReaders)
  BY <1>1 DEF Exclusive, Injection, IsInjective
<1>3. Cardinality(1 .. Len(pool)) = Len(pool)
  <2>1. Cardinality(1 .. Len(pool)) = IF 1 > Len(pool) THEN 0 ELSE Len(pool) - 1 + 1
    BY <1>1, FS_Interval
  <2> QED BY <1>1, <2>1
<1>4. Cardinality(1 .. Len(pool)) <= Cardinality(FlateReaders)
  BY <1>2, ReaderAssumption, FS_Injection
<1> QED BY <1>3, <1>4

\* Every reachable state is well typed: the pool never holds more readers than
\* there are, and the position of an entry stays inside it.
THEOREM TypeCorrect == Spec => []TypeOK
<1>1. IInv => TypeOK
  <2> SUFFICES ASSUME IInv PROVE TypeOK
    OBVIOUS
  <2>1. ASSUME NEW h \in Handles
        PROVE  nread[h] = Len(hash[h]) /\ at[h] \in 0 .. Len(file[h].data)
    <3>1. DataOK(h) /\ EntryOK(file[h]) /\ hash[h] \in Seq(Nat)
      BY DEF IInv, DataInv, TypeInv, FileTypeOK, LocalTypeOK
    <3>2. Len(file[h].data) \in Nat /\ Len(hash[h]) \in 0 .. Len(file[h].data)
      BY <3>1 DEF DataOK, Begins, EntryOK
    <3> QED BY <3>1, <3>2 DEF IInv, AtInv, DataOK
  <2> QED BY <2>1, PoolBounded DEF IInv, TypeInv, PoolTypeOK, CallTypeOK, TypeOK
<1> QED BY InitIInv, NextIInv, <1>1, PTL DEF Spec

\* No flate reader is ever used through two handles, and none that is in use is in
\* the pool, for any interleaving of Open, Read and Close of any number of entries.
THEOREM ReadersExclusive == Spec => []ReaderExclusive
<1>1. IInv => ReaderExclusive
  <2> SUFFICES ASSUME IInv PROVE ReaderExclusive
    OBVIOUS
  <2>1. DOMAIN pool = 1 .. Len(pool)
    BY DEF IInv, TypeInv, PoolTypeOK
  <2> QED BY <2>1 DEF IInv, Exclusive, Holds, ReaderExclusive, Range
<1> QED BY InitIInv, NextIInv, <1>1, PTL DEF Spec

\* Every client is given the bytes of its own entry, from the first on.
THEOREM OwnDataOnly == Spec => []OwnData
<1>1. IInv => OwnData
  <2> SUFFICES ASSUME IInv, NEW h \in Handles PROVE IsPrefix(got[h], file[h].data)
    BY DEF OwnData
  <2>1. /\ Begins(hash[h], file[h].data) /\ Begins(got[h], hash[h])
        /\ got[h] \in Seq(Nat) /\ hash[h] \in Seq(Nat) /\ file[h].data \in Seq(Nat)
    BY DEF IInv, DataInv, DataOK, TypeInv, LocalTypeOK, FileTypeOK, EntryOK
  <2>2. Begins(got[h], file[h].data)
    BY <2>1 DEF Begins
  <2>3. ASSUME NEW s \in Seq(Nat), NEW t \in Seq(Nat), Begins(s, t)
        PROVE  IsPrefix(s, t)
    <3>1. /\ SubSeq(s, 1, Len(s)) \in Seq(Nat) /\ SubSeq(t, 1, Len(s)) \in Seq(Nat)
          /\ Len(SubSeq(s, 1, Len(s))) = Len(s) /\ Len(SubSeq(t, 1, Len(s))) = Len(s)
          /\ \A k \in 1 .. Len(s) : SubSeq(s, 1, Len(s))[k] = SubSeq(t, 1, Len(s))[k]
      BY <2>3 DEF Begins
    <3>2. SubSeq(s, 1, Len(s)) = SubSeq(t, 1, Len(s))
      BY <3>1, SeqEqual
    <3> QED BY <2>3, <3>2 DEF IsPrefix, Begins
  <2> QED BY <2>1, <2>2, <2>3
<1> QED BY InitIInv, NextIInv, <1>1, PTL DEF Spec

\* io.EOF is only returned for an entry that was read completely and that has
\* the length and the checksum the directory gives.
THEOREM EOFIntact == Spec => []EOFMeansIntact
<1>1. IInv => EOFMeansIntact
  BY DEF IInv, DataInv, DataOK, Intact, EOFMeansIntact
<1> QED BY InitIInv, NextIInv, <1>1, PTL DEF Spec

\* The step of a Read that reports an error, and of every other operation.
ErrorsStay ==
  \A h \in Handles :
    /\ ret[h] # "nil" => got'[h] = got[h] /\ ret'[h] # "nil"
    /\ (ret[h] # "nil" /\ ret'[h] # ret[h]) =>
         ret[h] = "ErrUnexpectedEOF" /\ ret'[h] = "Read after Close"

\* After an error or io.EOF no Read of that handle returns bytes, or another error
\* than the one of a closed handle.
THEOREM FailuresFinal == Spec => FailureIsFinal
<1>1. ASSUME IInv, [Next]_vars PROVE [ErrorsStay]_vars
  <2>1. CASE UNCHANGED <<got, ret>>
    BY <2>1 DEF ErrorsStay
  <2>2. ASSUME NEW h \in Handles, ReadRefused(h) PROVE ErrorsStay
    BY <1>1, <2>2 DEF ReadRefused, Set, ErrorsStay, IInv, DataInv, DataOK, TypeInv, LocalTypeOK
  <2>3. ASSUME NEW h \in Handles, err[h] = "nil", UNCHANGED file,
               NEW a \in Answers(file[h], Len(hash[h])), Check(h, a)
        PROVE  ErrorsStay
    <3>1. /\ \A g \in Handles : g # h => ret'[g] = ret[g] /\ got'[g] = got[g]
          /\ ret[h] # "nil" => ret'[h] = ret[h] /\ got'[h] = got[h]
      BY <1>1, <2>3, CheckLemma DEF IInv
    <3> QED BY <3>1 DEF ErrorsStay
  <2>4. ASSUME NEW h \in Handles, ReadDirect(h) PROVE ErrorsStay
    <3>1. at[h] = Len(hash[h]) /\ err[h] = "nil" /\ UNCHANGED file
      BY <1>1, <2>4 DEF ReadDirect, IInv, AtInv
    <3>2. PICK a \in Answers(file[h], at[h]) : Check(h, a)
      BY <2>4 DEF ReadDirect
    <3> QED BY <2>3, <3>1, <3>2
  <2>5. ASSUME NEW h \in Handles, ReadFlate(h) PROVE ErrorsStay
    <3>1. err[h] = "nil" /\ UNCHANGED file /\ cpc[h] # "clear"
      BY <1>1, <2>5 DEF ReadFlate, IInv, LockInv
    <3>2. CASE fr[h] = NoReader
      <4>1. Check(h, [data |-> <<>>, err |-> "Read after Close"])
        BY <2>5, <3>2 DEF ReadFlate
      <4>2. /\ got' = got /\ ret'[h] = "Read after Close"
            /\ \A g \in Handles : g # h => ret'[g] = ret[g]
        BY <1>1, <3>1, <4>1, ClosedLemma DEF IInv
      <4>3. ret[h] # "nil" => ret[h] = "ErrUnexpectedEOF"
        BY <1>1, <3>1 DEF IInv, DataInv, DataOK
      <4> QED BY <4>2, <4>3 DEF ErrorsStay
    <3>3. CASE fr[h] # NoReader
      <4>1. flate[fr[h]].of = h /\ flate[fr[h]].pos = Len(hash[h])
        BY <1>1, <3>1, <3>3 DEF IInv, FlateInv, Holds
      <4>2. PICK a \in Answers(file[h], Len(hash[h])) : Check(h, a)
        BY <2>5, <3>3, <4>1 DEF ReadFlate
      <4> QED BY <2>3, <3>1, <4>2
    <3> QED BY <3>2, <3>3
  <2>6. CASE \E h \in Handles : \/ OpenFails(h) \/ Open(h) \/ Read(h) \/ ReadLock(h)
                                \/ Close(h) \/ CloseLock(h) \/ ClosePut(h) \/ CloseClear(h)
    BY <2>1, <2>6 DEF OpenFails, Open, Read, ReadLock, Close, CloseLock, ClosePut,
                      CloseClear, locals
  <2>7. CASE RegisterDecompressor("LZMA")
    BY <2>1, <2>7 DEF RegisterDecompressor, locals
  <2> QED BY <1>1, <2>2, <2>4, <2>5, <2>6, <2>7 DEF Next
<1>2. IInv /\ [Next]_vars => [ErrorsStay]_vars
  BY <1>1
<1>3. IInv /\ [Next]_vars =>
       [\A h \in Handles :
          /\ ret[h] # "nil" => got'[h] = got[h] /\ ret'[h] # "nil"
          /\ (ret[h] # "nil" /\ ret'[h] # ret[h]) =>
               ret[h] = "ErrUnexpectedEOF" /\ ret'[h] = "Read after Close"]_vars
  BY <1>2 DEF ErrorsStay
<1> QED BY InitIInv, NextIInv, <1>3, PTL DEF Spec, FailureIsFinal
=============================================================================
