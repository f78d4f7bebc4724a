------------------------------ MODULE TarFields ------------------------------
(***************************************************************************)
(* The fields of a tar header as functions: numbers, strings, PAX records  *)
(* and times (tar/strconv.go), formats and checksum (tar/format.go), file  *)
(* modes (tar/common.go), and how writeHeader of tar/writer.go chooses     *)
(* between the forms of a field.                                           *)
(*                                                                         *)
(* A string is a sequence of characters, given by their code points.       *)
(***************************************************************************)
EXTENDS Integers, Sequences, SequencesExt

CONSTANTS
  IntBytes,             \* bytes of an int64: 8 (TLC's integers allow 3)
  maxNanoSecondDigits   \* 9 in the code

ASSUME FieldsAssumption == {IntBytes, maxNanoSecondDigits} \subseteq Nat \ {0}

NUL == 0
Newline == 10
Space == 32
Plus == 43
Minus == 45
Dot == 46
Zero == 48
Equals == 61

Fill(n, c) == [i \in 1 .. n |-> c]
Result(v) == [ok |-> TRUE, v |-> v]
Refused == [ok |-> FALSE, v |-> 0]

-----------------------------------------------------------------------------
(***************************************************************************)
(* strconv and strings, as far as they are used                            *)
(***************************************************************************)

FormatInt(x, base) ==
  LET digits[y \in Nat] ==
        IF y < base THEN <<Zero + y>> ELSE Append(digits[y \div base], Zero + (y % base))
  IN IF x < 0 THEN <<Minus>> \o digits[-x] ELSE digits[x]

ParseUint(s, base) ==
  LET value[i \in 0 .. Len(s)] == IF i = 0 THEN 0 ELSE base * value[i - 1] + s[i] - Zero
  IN IF s # <<>> /\ \A i \in DOMAIN s : s[i] \in Zero .. Zero + base - 1
     THEN Result(value[Len(s)]) ELSE Refused

ParseInt(s, base) ==
  CASE s # <<>> /\ s[1] = Minus -> [ParseUint(Tail(s), base) EXCEPT !.v = -@]
    [] s # <<>> /\ s[1] = Plus -> ParseUint(Tail(s), base)
    [] OTHER -> ParseUint(s, base)

\* The position of the first c in s, 0 if there is none.
Index(s, c) == SelectInSeq(s, LAMBDA d : d = c)

TrimBoth(s) ==
  LET kept == {i \in DOMAIN s : s[i] \notin {Space, NUL}}
  IN SelectSeq([i \in DOMAIN s |-> i],
               LAMBDA i : \E j, k \in kept : j <= i /\ i <= k)

-----------------------------------------------------------------------------
(***************************************************************************)
(* Strings                                                                 *)
(***************************************************************************)

isASCII(s) == \A i \in DOMAIN s : s[i] < 128
toASCII(s) == SelectSeq(s, LAMBDA c : c < 128)

\* Bytes of s: a character that is not ASCII takes two here.
ByteLen(s) == 2 * Len(s) - Len(toASCII(s))

parseString(b) == IF Index(b, NUL) = 0 THEN b ELSE SubSeq(b, 1, Index(b, NUL) - 1)

\* s in a field of n bytes that is zero.
formatString(n, s) ==
  IF ByteLen(s) > n THEN [b |-> Fill(n, NUL), ok |-> FALSE]
  ELSE [b |-> toASCII(s) \o Fill(n - Len(toASCII(s)), NUL), ok |-> TRUE]

\* (Mutated: only the length asks for a PAX record.)
needsPaxLength(n, s) == ByteLen(s) > n

needsPax(n, s) == ByteLen(s) > n \/ ~isASCII(s)

\* formatString of writeHeader: the field, and the PAX record if one is needed.
WriteString(n, s) ==
  LET ascii == toASCII(s)
  IN [b |-> formatString(n, IF Len(ascii) > n THEN SubSeq(ascii, 1, n) ELSE ascii).b,
      pax |-> IF needsPax(n, s) THEN <<s>> ELSE <<>>]

\* What the reader makes of it: an empty record does not count.
ReadString(w) ==
  IF w.pax # <<>> /\ w.pax[1] # <<>> THEN w.pax[1] ELSE parseString(w.b)

-----------------------------------------------------------------------------
(***************************************************************************)
(* Numbers                                                                 *)
(***************************************************************************)

\* (Mutated: the first byte is taken for data.)
fitsInBase256Whole(n, x) == n >= IntBytes \/ (-(256 ^ n) <= x /\ x < 256 ^ n)

fitsInBase256(n, x) ==
  n >= IntBytes + 1 \/ (-(256 ^ (n - 1)) <= x /\ x < 256 ^ (n - 1))

formatOctal(n, x) ==
  LET s == FormatInt(x, 8)
      zeros == n - Len(s) - 1
  IN formatString(n, IF zeros > 0 THEN Fill(zeros, Zero) \o s ELSE s)

parseOctal(b) ==
  LET kept == TrimBoth(b)
  IN IF kept = <<>> THEN Result(0)
     ELSE ParseUint(parseString([k \in DOMAIN kept |-> b[kept[k]]]), 8)

\* Big endian two's complement with the top bit set.
formatNumeric(n, x) ==
  LET shifted[k \in 0 .. n - 1] == IF k = 0 THEN x ELSE shifted[k - 1] \div 256
      byte(i) == shifted[n - i] % 256
  IN IF fitsInBase256(n, x)
     THEN [b |-> [i \in 1 .. n |-> IF i = 1 THEN 128 + (byte(1) % 128) ELSE byte(i)],
           ok |-> TRUE]
     ELSE [b |-> formatOctal(n, 0).b, ok |-> FALSE]

\* The bytes of a binary number: inverted when it is negative, without the top bit.
Inverted(b) == (b[1] \div 64) % 2 = 1
Masked(b, i) ==
  LET c == IF Inverted(b) THEN 255 - b[i] ELSE b[i] IN IF i = 1 THEN c % 128 ELSE c

\* (Mutated: the sign bit is not checked.)
parseBase256Unsigned(b) ==
  LET x[i \in 0 .. Len(b)] ==
        CASE i = 0 -> Result(0)
          [] i > 0 /\ (~x[i - 1].ok \/ x[i - 1].v >= 256 ^ (IntBytes - 1)) -> Refused
          [] OTHER -> Result(256 * x[i - 1].v + Masked(b, i))
      last == x[Len(b)]
  IN IF ~last.ok THEN Refused ELSE Result(IF Inverted(b) THEN -last.v - 1 ELSE last.v)

parseBase256(b) ==
  LET x[i \in 0 .. Len(b)] ==
        CASE i = 0 -> Result(0)
          [] i > 0 /\ (~x[i - 1].ok \/ x[i - 1].v >= 256 ^ (IntBytes - 1)) -> Refused
          [] OTHER -> Result(256 * x[i - 1].v + Masked(b, i))
      last == x[Len(b)]
  IN IF ~last.ok \/ last.v >= 2 ^ (8 * IntBytes - 1) THEN Refused
     ELSE Result(IF Inverted(b) THEN -last.v - 1 ELSE last.v)

parseNumeric(b) == IF b # <<>> /\ b[1] >= 128 THEN parseBase256(b) ELSE parseOctal(b)

\* formatNumeric of writeHeader, without preferPax.
WriteNumber(n, x) ==
  IF Len(FormatInt(x, 8)) < n THEN formatOctal(n, x) ELSE formatNumeric(n, x)

-----------------------------------------------------------------------------
(***************************************************************************)
(* PAX records and times                                                   *)
(***************************************************************************)

Record(size, k, v) ==
  FormatInt(size, 10) \o <<Space>> \o k \o <<Equals>> \o v \o <<Newline>>

\* (Mutated: the digits of the size are counted once.)
formatPAXRecordOnce(k, v) ==
  LET size == Len(k) + Len(v) + 3 IN Record(size + Len(FormatInt(size, 10)), k, v)

\* The size counts its own digits, of which there may be one more for it.
formatPAXRecord(k, v) ==
  LET sum == Len(k) + Len(v) + 3
      size == sum + Len(FormatInt(sum, 10))
      record == Record(size, k, v)
  IN IF Len(record) # size THEN Record(Len(record), k, v) ELSE record

\* A size that the slice expression cannot do with panics.
parsePAXRecord(s) ==
  LET sp == Index(s, Space)
      n == IF sp = 0 THEN Refused ELSE ParseInt(SubSeq(s, 1, sp - 1), 10)
      rec == SubSeq(s, sp + 1, n.v - 1)
      bad(e) == [err |-> e, k |-> <<>>, v |-> <<>>, r |-> s]
  IN CASE ~n.ok \/ n.v < 5 \/ Len(s) < n.v -> bad("ErrHeader")
       [] n.ok /\ n.v >= 5 /\ Len(s) >= n.v /\ n.v - 1 < sp -> bad("panic")
       [] OTHER -> IF s[n.v] # Newline \/ Index(rec, Equals) = 0 THEN bad("ErrHeader")
                   ELSE [err |-> "nil", k |-> SubSeq(rec, 1, Index(rec, Equals) - 1),
                         v |-> SubSeq(rec, Index(rec, Equals) + 1, Len(rec)),
                         r |-> SubSeq(s, n.v + 1, Len(s))]

\* (Mutated: the sign is that of the seconds.)
NegativeSeconds(ss, secs) == secs < 0

Negative(ss, secs) == ss # <<>> /\ ss[1] = Minus

\* A time in units of the last digit that is kept.
parsePAXTime(s) ==
  LET dot == Index(s, Dot)
      ss == IF dot = 0 THEN s ELSE SubSeq(s, 1, dot - 1)
      sn == IF dot = 0 THEN <<>> ELSE SubSeq(s, dot + 1, Len(s))
      secs == ParseInt(ss, 10)
      nsecs == ParseUint(SubSeq(sn \o Fill(maxNanoSecondDigits, Zero), 1,
                                maxNanoSecondDigits), 10)
      unit == 10 ^ maxNanoSecondDigits
  IN CASE ~secs.ok \/ (sn # <<>> /\ ~ParseUint(sn, 10).ok) -> Refused
       [] OTHER -> Result(secs.v * unit
                          + (IF Negative(ss, secs.v) THEN -nsecs.v ELSE nsecs.v))

-----------------------------------------------------------------------------
(***************************************************************************)
(* The header block: its checksum and magic fields, and all other bytes    *)
(***************************************************************************)

magicGNU == <<117, 115, 116, 97, 114, 32>>
magicUSTAR == <<117, 115, 116, 97, 114, 0>>
versionGNU == <<32, 0>>
versionUSTAR == <<48, 48>>
trailerSTAR == <<116, 97, 114, 0>>

ZeroBlock(body) ==
  [body |-> body, magic |-> Fill(6, 0), version |-> Fill(2, 0), trailer |-> Fill(4, 0),
   chksum |-> Fill(8, 0)]

\* (Mutated: the checksum field counts as it is.)
SummedRaw(b) == b.chksum \o b.body \o b.magic \o b.version \o b.trailer

\* The bytes the checksum is over: its own field counts as spaces.
Summed(b) == Fill(8, Space) \o b.body \o b.magic \o b.version \o b.trailer

ComputeChecksum(b) ==
  LET s == Summed(b)
      sum[i \in 0 .. Len(s)] == IF i = 0 THEN 0 ELSE sum[i - 1] + s[i]
  IN [unsigned |-> sum[Len(s)],
      signed |-> sum[Len(s)] - 256 * Len(SelectSeq(s, LAMBDA c : c >= 128))]

SetFormat(b, format) ==
  LET set == CASE format = "V7" -> b
               [] format = "GNU" -> [b EXCEPT !.magic = magicGNU, !.version = versionGNU]
               [] format = "STAR" -> [b EXCEPT !.magic = magicUSTAR,
                                               !.version = versionUSTAR,
                                               !.trailer = trailerSTAR]
               [] format \in {"USTAR", "PAX"} ->
                    [b EXCEPT !.magic = magicUSTAR, !.version = versionUSTAR]
  IN [set EXCEPT !.chksum = formatOctal(7, ComputeChecksum(set).unsigned).b \o <<Space>>]

GetFormat(b) ==
  LET value == parseOctal(b.chksum)
      sums == ComputeChecksum(b)
  IN CASE ~value.ok \/ value.v \notin {sums.unsigned, sums.signed} -> "unknown"
       [] OTHER -> CASE b.magic = magicUSTAR /\ b.trailer = trailerSTAR -> "STAR"
                     [] b.magic = magicUSTAR /\ b.trailer # trailerSTAR -> "USTAR"
                     [] b.magic = magicGNU /\ b.version = versionGNU -> "GNU"
                     [] OTHER -> "V7"

-----------------------------------------------------------------------------
(***************************************************************************)
(* File modes: an os.FileMode is its permissions and a set of other bits   *)
(***************************************************************************)

c_ISUID == 2048
c_ISGID == 1024
c_ISVTX == 512
Has(m, bit) == (m \div bit) % 2 = 1

\* The bits of the type in Header.Mode, and of the Typeflag.
UnixType(m) ==
  CASE m \div 4096 = 4 -> {"dir"}
    [] m \div 4096 = 1 -> {"pipe"}
    [] m \div 4096 = 10 -> {"symlink"}
    [] m \div 4096 = 6 -> {"device"}
    [] m \div 4096 = 2 -> {"device", "char"}
    [] m \div 4096 = 12 -> {"socket"}
    [] OTHER -> {}
FlagType(typeflag) ==
  CASE typeflag = "symlink" -> {"symlink"}
    [] typeflag = "char" -> {"device", "char"}
    [] typeflag = "block" -> {"device"}
    [] typeflag = "dir" -> {"dir"}
    [] typeflag = "fifo" -> {"pipe"}
    [] OTHER -> {}

\* headerFileInfo.Mode
Mode(h) ==
  [perm |-> h.mode % 512,
   bits |-> {s \in {"setuid", "setgid", "sticky"} :
               \/ s = "setuid" /\ Has(h.mode, c_ISUID)
               \/ s = "setgid" /\ Has(h.mode, c_ISGID)
               \/ s = "sticky" /\ Has(h.mode, c_ISVTX)}
            \cup UnixType(h.mode) \cup FlagType(h.typeflag)]

TypeBits == {"dir", "symlink", "pipe", "socket", "device", "irregular"}

\* (Mutated: a device is a block device.)
TypeflagBlock(bits) ==
  CASE bits \cap TypeBits = {} -> "reg"
    [] "dir" \in bits -> "dir"
    [] "symlink" \in bits /\ "dir" \notin bits -> "symlink"
    [] "device" \in bits /\ bits \cap {"dir", "symlink"} = {} -> "block"
    [] "pipe" \in bits /\ bits \cap {"dir", "symlink", "device"} = {} -> "fifo"
    [] OTHER -> "unsupported"

\* The switch of FileInfoHeader.
Typeflag(bits) ==
  CASE bits \cap TypeBits = {} -> "reg"
    [] "dir" \in bits -> "dir"
    [] "symlink" \in bits /\ "dir" \notin bits -> "symlink"
    [] "device" \in bits /\ bits \cap {"dir", "symlink"} = {} ->
         IF "char" \in bits THEN "char" ELSE "block"
    [] "pipe" \in bits /\ bits \cap {"dir", "symlink", "device"} = {} -> "fifo"
    [] OTHER -> "unsupported"

\* (Mutated: the Header behind a FileInfo is not looked at.)
IsHardLinkNever(fi) == FALSE

IsHardLink(fi) == fi.sys # <<>> /\ fi.sys[1].typeflag = "link"

\* FileInfoHeader of a FileInfo, whose Sys may be a Header.
FileInfoHeader(fi, link) ==
  LET type == Typeflag(fi.mode.bits)
      hard == IsHardLink(fi)
      bit(s, n) == IF s \in fi.mode.bits THEN n ELSE 0
  IN [ok |-> type # "unsupported",
      typeflag |-> IF hard THEN "link" ELSE type,
      size |-> IF type = "reg" /\ ~hard THEN fi.size ELSE 0,
      linkname |-> IF hard THEN fi.sys[1].linkname
                   ELSE IF type = "symlink" THEN link ELSE "",
      mode |-> fi.mode.perm + bit("setuid", c_ISUID) + bit("setgid", c_ISGID)
               + bit("sticky", c_ISVTX)]

FileInfo(h) == [mode |-> Mode(h), size |-> h.size, sys |-> <<h>>]

isHeaderOnlyType(typeflag) ==
  typeflag \in {"link", "symlink", "char", "block", "dir", "fifo"}
=============================================================================
