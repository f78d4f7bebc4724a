------------------------------ MODULE ZipReader ------------------------------
(***************************************************************************)
(* Reading entries at the same time: File.Open, the checksumReader of      *)
(* zip/reader.go, and the pooledFlateReader and registry of                *)
(* zip/register.go.                                                        *)
(*                                                                         *)
(* A handle is what one call of Open returns.  One goroutine reads from    *)
(* it, another one may close it at any time, as often as it likes.  All    *)
(* handles share the pool of flate readers and the registry.  A checksum   *)
(* is the sequence of bytes it was computed from; that of no bytes is 0.   *)
(***************************************************************************)
EXTENDS Integers, Sequences, SequencesExt, FiniteSets

CONSTANTS
  Handles,        \* 1 .. their number
  FlateReaders,   \* the flate readers that may exist
  EntryChoices,        \* the entries the handles may be for: sequences of entries
  MaxRead,        \* bound: bytes that a Read returns
  NoReader

\* Of an entry: data: the bytes that decompressing gives, and ends: the error behind them, of
\* the decompressor or of the io.ReaderAt under it.
\* usize, crc: of the directory.  desc: the data descriptor, "wrong" if it has
\* another checksum than the directory, "cut" if the file ends in it.
ASSUME ReaderAssumption ==
  /\ MaxRead \in Nat \ {0} /\ NoReader \notin FlateReaders
  /\ \A c \in EntryChoices : DOMAIN c = Handles
  /\ NoReader \notin Handles
  /\ IsFiniteSet(FlateReaders) /\ IsFiniteSet(Handles)
  /\ Cardinality(FlateReaders) >= Cardinality(Handles)
  /\ \A c \in EntryChoices : \A f \in Range(c) :
       /\ f.method \in {"Store", "Deflate", "LZMA"} /\ f.usize \in Nat
       /\ f.data \in Seq(Nat) /\ f.crc \in Seq(Nat)
       /\ f.ends \in {"EOF", "failed"} /\ f.header \in BOOLEAN
       /\ f.desc \in {"none", "right", "wrong", "cut"}

VARIABLES
  file,           \* the entry a handle is for
  decompressors,  \* the methods registered
  pool,           \* flateReaderPool
  flate,          \* per flate reader: the handle it is reset to, and its position
  fr, mu,         \* fields of the pooledFlateReader: the reader, the mutex's owner
  at,             \* the position of an entry that needs no flate reader
  nread, hash, err,   \* fields of the checksumReader
  rpc, cpc,       \* the goroutines that read and that close
  got, ret        \* history: the bytes and the last error the client was given

locals == <<nread, hash, err, got, ret>>
vars == <<file, decompressors, pool, flate, fr, mu, at, locals, rpc, cpc>>

Init ==
  /\ file \in EntryChoices
  /\ decompressors = {"Store", "Deflate"}
  /\ pool = <<>> /\ flate = [x \in FlateReaders |-> [of |-> NoReader, pos |-> 0]]
  /\ fr = [h \in Handles |-> NoReader] /\ mu = [h \in Handles |-> "free"]
  /\ at = [h \in Handles |-> 0] /\ nread = [h \in Handles |-> 0]
  /\ hash = [h \in Handles |-> <<>>] /\ err = [h \in Handles |-> "nil"]
  /\ rpc = [h \in Handles |-> "unopened"] /\ cpc = [h \in Handles |-> "idle"]
  /\ got = [h \in Handles |-> <<>>] /\ ret = [h \in Handles |-> "nil"]

Set(f, h, v) == [f EXCEPT ![h] = v]

-----------------------------------------------------------------------------
\* RegisterDecompressor of the package: a second one for a method panics.
\* (A method that no entry has would make no difference.)
RegisterDecompressor(method) ==
  /\ method \notin decompressors /\ \E h \in Handles : file[h].method = method
  /\ decompressors' = decompressors \cup {method}
  /\ UNCHANGED <<file, pool, flate, fr, mu, at, locals, rpc, cpc>>

\* No local header, or no decompressor.
OpenFails(h) ==
  /\ rpc[h] = "unopened" /\ (~file[h].header \/ file[h].method \notin decompressors)
  /\ rpc' = Set(rpc, h, "failed")
  /\ UNCHANGED <<file, decompressors, pool, flate, fr, mu, at, locals, cpc>>

\* The flate readers that are neither in the pool nor in use.
Fresh == FlateReaders \ (Range(pool) \cup {fr[h] : h \in Handles})

\* newFlateReader: one of the pool is reset, or a new one made; the pool may give
\* none although it has some.
Open(h) ==
  /\ rpc[h] = "unopened" /\ file[h].header /\ file[h].method \in decompressors
  /\ rpc' = Set(rpc, h, "idle")
  /\ IF file[h].method # "Deflate" THEN UNCHANGED <<pool, flate, fr>>
     ELSE /\ \/ \E k \in DOMAIN pool :
                  fr' = Set(fr, h, pool[k]) /\ pool' = RemoveAt(pool, k)
             \/ \E x \in Fresh : fr' = Set(fr, h, x) /\ UNCHANGED pool
          /\ flate' = [flate EXCEPT ![fr'[h]] = [of |-> h, pos |-> 0]]
  /\ UNCHANGED <<file, decompressors, mu, at, locals, cpc>>

-----------------------------------------------------------------------------
(***************************************************************************)
(* Read                                                                    *)
(***************************************************************************)

\* What a decompressor at position p of entry f may return: some bytes, at the end
\* with or without the error.
Answers(f, p) ==
  LET left == Len(f.data) - p
      bytes(n) == SubSeq(f.data, p + 1, p + n)
  IN {[data |-> bytes(n), err |-> "nil"] : n \in 1 .. (IF left < MaxRead THEN left ELSE MaxRead)}
     \cup (IF left <= MaxRead THEN {[data |-> bytes(left), err |-> f.ends]} ELSE {})

\* An error that stays: no decompressor is asked.
ReadRefused(h) ==
  /\ rpc[h] = "idle" /\ err[h] # "nil"
  /\ ret' = Set(ret, h, err[h])
  /\ UNCHANGED <<file, decompressors, pool, flate, fr, mu, at, nread, hash, err, got,
                 rpc, cpc>>

\* (Mutated: the length is not compared.)
EndErrorAnyLength(f, n, sum) ==
  CASE f.desc = "cut" -> "ErrUnexpectedEOF"
    [] f.desc = "wrong" -> "ErrChecksum"
    [] f.desc = "right" /\ sum # f.crc -> "ErrChecksum"
    [] f.desc = "none" /\ f.crc # <<>> /\ sum # f.crc -> "ErrChecksum"
    [] OTHER -> "EOF"

\* What io.EOF of the decompressor becomes: the length, then the descriptor
\* (readDataDescriptor) and the checksum.  Without a descriptor a checksum of 0 is
\* taken for one that was not set.
EndError(f, n, sum) ==
  CASE n # f.usize -> "short"
    [] n = f.usize /\ f.desc = "cut" -> "ErrUnexpectedEOF"
    [] n = f.usize /\ f.desc = "wrong" -> "ErrChecksum"
    [] n = f.usize /\ f.desc = "right" /\ sum # f.crc -> "ErrChecksum"
    [] n = f.usize /\ f.desc = "none" /\ f.crc # <<>> /\ sum # f.crc -> "ErrChecksum"
    [] OTHER -> "EOF"

\* (Mutated: an error is returned, but does not stay.)
CheckForgets(h, a) ==
  LET e == IF a.err = "EOF" THEN EndError(file[h], nread[h] + Len(a.data), hash[h] \o a.data)
           ELSE a.err
  IN
  /\ nread' = [nread EXCEPT ![h] = @ + Len(a.data)]
  /\ hash' = [hash EXCEPT ![h] = @ \o a.data]
  /\ ret' = Set(ret, h, IF e = "short" THEN "ErrUnexpectedEOF" ELSE e)
  /\ got' = [got EXCEPT ![h] = IF e = "short" THEN @ ELSE @ \o a.data]
  /\ UNCHANGED err

\* checksumReader.Read with the answer a of the decompressor.  A wrong length
\* returns no bytes and does not stay: the decompressor will be asked again.
Check(h, a) ==
  LET e == IF a.err = "EOF" THEN EndError(file[h], nread[h] + Len(a.data), hash[h] \o a.data)
           ELSE a.err
  IN
  /\ nread' = [nread EXCEPT ![h] = @ + Len(a.data)]
  /\ hash' = [hash EXCEPT ![h] = @ \o a.data]
  /\ IF e = "short"
     THEN ret' = Set(ret, h, "ErrUnexpectedEOF") /\ UNCHANGED <<err, got>>
     ELSE /\ ret' = Set(ret, h, e) /\ err' = Set(err, h, e)
          /\ got' = [got EXCEPT ![h] = @ \o a.data]

ReadDirect(h) ==
  /\ rpc[h] = "idle" /\ err[h] = "nil" /\ file[h].method # "Deflate"
  /\ \E a \in Answers(file[h], at[h]) :
       Check(h, a) /\ at' = [at EXCEPT ![h] = @ + Len(a.data)]
  /\ UNCHANGED <<file, decompressors, pool, flate, fr, mu, rpc, cpc>>

Read(h) ==
  /\ rpc[h] = "idle" /\ err[h] = "nil" /\ file[h].method = "Deflate"
  /\ rpc' = Set(rpc, h, "lock")
  /\ UNCHANGED <<file, decompressors, pool, flate, fr, mu, at, locals, cpc>>

ReadLock(h) ==
  /\ rpc[h] = "lock" /\ mu[h] = "free"
  /\ mu' = Set(mu, h, "reader") /\ rpc' = Set(rpc, h, "read")
  /\ UNCHANGED <<file, decompressors, pool, flate, fr, at, locals, cpc>>

\* The mutex is released; what follows concerns only this goroutine.
ReadFlate(h) ==
  /\ rpc[h] = "read" /\ rpc' = Set(rpc, h, "idle") /\ mu' = Set(mu, h, "free")
  /\ IF fr[h] = NoReader
     THEN Check(h, [data |-> <<>>, err |-> "Read after Close"]) /\ UNCHANGED flate
     ELSE LET r == flate[fr[h]]
          IN \E a \in Answers(file[r.of], r.pos) :
               Check(h, a) /\ flate' = [flate EXCEPT ![fr[h]].pos = @ + Len(a.data)]
  /\ UNCHANGED <<file, decompressors, pool, fr, at, cpc>>

-----------------------------------------------------------------------------
(***************************************************************************)
(* Close                                                                   *)
(***************************************************************************)

Close(h) ==
  /\ cpc[h] = "idle" /\ rpc[h] \notin {"unopened", "failed"}
  /\ file[h].method = "Deflate" /\ cpc' = Set(cpc, h, "lock")
  /\ UNCHANGED <<file, decompressors, pool, flate, fr, mu, at, locals, rpc>>

\* (Mutated: a field that is already nil is put into the pool.)
CloseLockUnchecked(h) ==
  /\ cpc[h] = "lock" /\ mu[h] = "free" /\ mu' = Set(mu, h, "closer")
  /\ cpc' = Set(cpc, h, "put")
  /\ UNCHANGED <<file, decompressors, pool, flate, fr, at, locals, rpc>>

CloseLock(h) ==
  /\ cpc[h] = "lock" /\ mu[h] = "free" /\ mu' = Set(mu, h, "closer")
  /\ cpc' = Set(cpc, h, IF fr[h] = NoReader THEN "clear" ELSE "put")
  /\ UNCHANGED <<file, decompressors, pool, flate, fr, at, locals, rpc>>

ClosePut(h) ==
  /\ cpc[h] = "put" /\ pool' = Append(pool, fr[h]) /\ cpc' = Set(cpc, h, "clear")
  /\ UNCHANGED <<file, decompressors, flate, fr, mu, at, locals, rpc>>

\* (Mutated: the field keeps the reader that is back in the pool.)
CloseClearNot(h) ==
  /\ cpc[h] = "clear" /\ cpc' = Set(cpc, h, "idle") /\ mu' = Set(mu, h, "free")
  /\ UNCHANGED <<file, decompressors, pool, flate, fr, at, locals, rpc>>

\* (Mutated: the mutex is not released when there is nothing to close.)
CloseClearKeepsLock(h) ==
  /\ cpc[h] = "clear" /\ cpc' = Set(cpc, h, "idle")
  /\ mu' = IF fr[h] = NoReader THEN mu ELSE Set(mu, h, "free")
  /\ fr' = Set(fr, h, NoReader)
  /\ UNCHANGED <<file, decompressors, pool, flate, at, locals, rpc>>

CloseClear(h) ==
  /\ cpc[h] = "clear" /\ cpc' = Set(cpc, h, "idle") /\ mu' = Set(mu, h, "free")
  /\ fr' = Set(fr, h, NoReader)
  /\ UNCHANGED <<file, decompressors, pool, flate, at, locals, rpc>>

-----------------------------------------------------------------------------
Next ==
  \/ RegisterDecompressor("LZMA")
  \/ \E h \in Handles :
       \/ OpenFails(h) \/ Open(h)
       \/ ReadRefused(h) \/ ReadDirect(h) \/ Read(h) \/ ReadLock(h) \/ ReadFlate(h)
       \/ Close(h) \/ CloseLock(h) \/ ClosePut(h) \/ CloseClear(h)

\* A goroutine inside a call goes on.  Go's mutex lets no waiter starve.
Fairness ==
  \A h \in Handles :
    /\ SF_vars(ReadLock(h)) /\ SF_vars(CloseLock(h))
    /\ WF_vars(ReadFlate(h))
    /\ WF_vars(ClosePut(h) \/ CloseClear(h))

Spec == Init /\ [][Next]_vars /\ Fairness

-----------------------------------------------------------------------------
(***************************************************************************)
(* What the reader promises                                                *)
(***************************************************************************)

TypeOK ==
  /\ pool \in Seq(FlateReaders) /\ Len(pool) <= Cardinality(FlateReaders)
  /\ fr \in [Handles -> FlateReaders \cup {NoReader}]
  /\ mu \in [Handles -> {"free", "reader", "closer"}]
  /\ \A h \in Handles : nread[h] = Len(hash[h]) /\ at[h] \in 0 .. Len(file[h].data)
  /\ rpc \in [Handles -> {"unopened", "failed", "idle", "lock", "read"}]
  /\ cpc \in [Handles -> {"idle", "lock", "put", "clear"}]

\* A flate reader belongs to one entry at a time: no two handles hold the same
\* one, and none that is held is in the pool, except while Close is between
\* putting it back and clearing the field, which nobody else looks at then.
ReaderExclusive ==
  LET holds(h) == fr[h] # NoReader /\ cpc[h] # "clear"
  IN /\ \A g, h \in Handles : (g # h /\ holds(g) /\ holds(h)) => fr[g] # fr[h]
     /\ \A h \in Handles : holds(h) => fr[h] \notin Range(pool)
     /\ \A j, k \in DOMAIN pool : j # k => pool[j] # pool[k]

\* Whoever else reads, closes and reuses readers, a client gets the bytes of its
\* own entry, in order and without a hole.
OwnData == \A h \in Handles : IsPrefix(got[h], file[h].data)

\* io.EOF is returned only when the whole entry has been read, of the length the
\* directory gives and with its checksum; a checksum of 0 without a data
\* descriptor is the exception the code makes.
EOFMeansIntact ==
  \A h \in Handles : ret[h] = "EOF" =>
    LET f == file[h]
    IN /\ got[h] = f.data /\ Len(got[h]) = f.usize
       /\ got[h] = f.crc \/ (f.desc = "none" /\ f.crc = <<>>)

\* A Read that has failed is followed by no bytes and no io.EOF: errors stay,
\* and so does the end.
FailureIsFinal ==
  [][\A h \in Handles :
       /\ ret[h] # "nil" => got'[h] = got[h] /\ ret'[h] # "nil"
       /\ (ret[h] # "nil" /\ ret'[h] # ret[h]) =>
            ret[h] = "ErrUnexpectedEOF" /\ ret'[h] = "Read after Close"]_vars

\* Read and Close return, however often the other one takes the mutex.
CallsReturn ==
  \A h \in Handles :
    /\ rpc[h] \in {"lock", "read"} ~> rpc[h] = "idle"
    /\ cpc[h] # "idle" ~> cpc[h] = "idle"
=============================================================================
