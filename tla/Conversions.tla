----------------------------- MODULE Conversions -----------------------------
(***************************************************************************)
(* What the conversions of TarFields and ZipFields keep.  A behaviour      *)
(* picks one input and stops; the properties compare what comes out with   *)
(* what went in, or with a reference definition.                           *)
(***************************************************************************)
EXTENDS TarFields, FiniteSets

CONSTANTS
  Numbers, FieldSizes,       \* numbers, and lengths of fields for them
  FieldBytes,                \* contents of fields
  Strings, Keys, Values,     \* texts; keys and values of PAX records
  Rests,                     \* what follows a record
  TimeTexts,                 \* PAX times: [sign, whole, dot, fraction]
  Bodies,                    \* bytes of a header block
  Perms,                     \* permission bits
  Times, Zones, OldTimes,    \* instants, offsets of zones; timestamps in an Extra
  Settings                   \* FlateSettings

\* Permissions are nine bits, and settings are integers.
ASSUME InputsAssumption ==
  /\ Perms \subseteq 0 .. 511
  /\ Settings \subseteq [level : Int, blockSize : Int, blocks : Int]

VARIABLE input
vars == <<input>>

Z == INSTANCE ZipFields

Init == input = [kind |-> "none"]
Unused == input.kind = "none"
Pick(i) == input' = i

-----------------------------------------------------------------------------
PickNumber ==
  Unused /\ \E n \in FieldSizes, x \in Numbers : Pick([kind |-> "number", n |-> n, x |-> x])
PickField ==
  Unused /\ \E b \in FieldBytes : Pick([kind |-> "field", b |-> b])
PickString ==
  Unused /\ \E n \in FieldSizes, s \in Strings : Pick([kind |-> "string", n |-> n, s |-> s])
PickRecord ==
  /\ Unused
  /\ \E k \in Keys, v \in Values, r \in Rests :
       Pick([kind |-> "record", k |-> k, v |-> v, r |-> r])
PickTimeText ==
  Unused /\ \E t \in TimeTexts : Pick([kind |-> "timetext", t |-> t])
PickBlock ==
  /\ Unused
  /\ \E b \in Bodies, f \in {"V7", "GNU", "STAR", "USTAR", "PAX"} :
       Pick([kind |-> "block", b |-> b, f |-> f])

\* The types of files that os.FileInfo tells apart.
FileTypes == { {}, {"dir"}, {"symlink"}, {"pipe"}, {"socket"}, {"device"},
               {"device", "char"}, {"irregular"} }
FileModes ==
  { [perm |-> p, bits |-> t \cup s] :
      p \in Perms, t \in FileTypes, s \in SUBSET {"setuid", "setgid", "sticky"} }
PickMode ==
  Unused /\ \E m \in FileModes, c \in BOOLEAN : Pick([kind |-> "mode", m |-> m, char |-> c])

\* Headers of a tar file whose mode has the type, as some tools write it, or not.
Typeflags == {"reg", "link", "symlink", "char", "block", "dir", "fifo"}
TypeCode(flag) ==
  CASE flag \in {"reg", "link"} -> 8 [] flag = "symlink" -> 10 [] flag = "char" -> 2
    [] flag = "block" -> 6 [] flag = "dir" -> 4 [] OTHER -> 1
PickHeader ==
  /\ Unused
  /\ \E f \in Typeflags, p \in Perms, coded \in BOOLEAN, size \in {0, 1} :
       Pick([kind |-> "header",
             h |-> [typeflag |-> f, mode |-> p + (IF coded THEN 4096 * TypeCode(f) ELSE 0),
                    size |-> size,
                    linkname |-> IF f \in {"link", "symlink"} THEN "target" ELSE ""]])

\* A time, and the timestamps that the Extra of its header had before.
PickTime ==
  /\ Unused
  /\ \E t \in Times, z \in Zones, old \in OldTimes :
       Pick([kind |-> "time", t |-> [at |-> t, zone |-> z],
             old |-> [k \in DOMAIN old |-> Z!uint32Unix(old[k])]])
PickSettings ==
  Unused /\ \E s \in Settings : Pick([kind |-> "settings", s |-> s])

Next ==
  \/ PickNumber \/ PickField \/ PickString \/ PickRecord \/ PickTimeText
  \/ PickBlock \/ PickMode \/ PickHeader \/ PickTime \/ PickSettings

Spec == Init /\ [][Next]_vars

-----------------------------------------------------------------------------
(***************************************************************************)
(* Fields of a tar header                                                  *)
(***************************************************************************)

\* A number that writeHeader writes without an error is never read as another
\* one: it comes back, in whichever form it was written, or, if it is negative
\* and short enough for octal, its field is refused.  The error is reported for
\* numbers that neither form can hold, and only for them.
NumberKept ==
  input.kind = "number" =>
    LET w == WriteNumber(input.n, input.x)
        r == parseNumeric(w.b)
        octal == Len(FormatInt(input.x, 8)) < input.n
    IN /\ w.ok => Len(w.b) = input.n
       /\ w.ok => IF input.x < 0 /\ octal THEN ~r.ok ELSE r = Result(input.x)
       /\ w.ok <=> (octal \/ input.n > IntBytes
                     \/ input.x \in -(256 ^ (input.n - 1)) .. 256 ^ (input.n - 1) - 1)

\* The number a binary field stands for: all bits but the first are two's
\* complement, whatever its length.
TwosComplement(b) ==
  LET first == IF b[1] % 128 >= 64 THEN (b[1] % 128) - 128 ELSE b[1] % 128
  IN FoldLeft(LAMBDA x, c : 256 * x + c, first, Tail(b))

\* Whatever a field holds, a binary number is read exactly or refused because it
\* does not fit an int64; an octal one is never negative.
FieldExact ==
  input.kind = "field" =>
    LET r == parseNumeric(input.b)
        limit == 2 ^ (8 * IntBytes - 1)
        x == TwosComplement(input.b)
    IN IF input.b[1] >= 128
       THEN r = IF -limit <= x /\ x < limit THEN Result(x) ELSE Refused
       ELSE r.ok => r.v \in 0 .. 8 ^ Len(input.b) - 1

\* Numbers survive the header: both of the above.
NumbersExact == NumberKept /\ FieldExact

\* A string without a NUL comes back from its field or its PAX record: one that is
\* too long or not ASCII is not cut silently.
StringKept ==
  (input.kind = "string" /\ \A i \in DOMAIN input.s : input.s[i] # NUL) =>
    ReadString(WriteString(input.n, input.s)) = input.s

\* A record states its own length, at every number of digits, and is taken apart
\* where it was put together: what follows it is untouched, and key and value come
\* back (a key with "=" in it is cut there, without loss of the rest).
RecordKept ==
  input.kind = "record" =>
    LET s == formatPAXRecord(input.k, input.v)
        p == parsePAXRecord(s \o input.r)
    IN /\ p.err = "nil" /\ p.r = input.r
       /\ p.k \o <<Equals>> \o p.v = input.k \o <<Equals>> \o input.v
       /\ Index(input.k, Equals) = 0 => p.k = input.k

\* A PAX time is read as its decimal value, cut towards zero to the digits that
\* are kept, also between -1 and 0; anything else is refused.
PAXTimeExact ==
  input.kind = "timetext" =>
    LET t == input.t
        unit == 10 ^ maxNanoSecondDigits
        text == t.sign \o t.whole \o (IF t.dot THEN <<Dot>> \o t.fraction ELSE <<>>)
        digit(k) == IF t.dot /\ k \in DOMAIN t.fraction THEN t.fraction[k] - Zero ELSE 0
        below[k \in 0 .. maxNanoSecondDigits] ==
          IF k = 0 THEN 0 ELSE 10 * below[k - 1] + digit(k)
        size == unit * ParseUint(t.whole, 10).v + below[maxNanoSecondDigits]
        proper == /\ t.whole # <<>>
                  /\ t.dot => \A k \in DOMAIN t.fraction : t.fraction[k] \in Zero .. Zero + 9
    IN parsePAXTime(text) =
         IF ~proper THEN Refused ELSE Result(IF t.sign = <<Minus>> THEN -size ELSE size)

\* A block is recognised as the format it was given (PAX headers look like USTAR
\* ones), and a change of one byte outside the checksum makes it no header at all.
\* (In the checksum it need not: the byte behind the digits may be a space or NUL.)
FormatKept ==
  input.kind = "block" =>
    LET b == SetFormat(ZeroBlock(input.b), input.f)
        changed(f) == {[b EXCEPT ![f][k] = (@ + d) % 256] :
                         k \in DOMAIN b[f] \cap 1 .. 6, d \in {1, 64, 128, 255}}
    IN /\ GetFormat(b) = IF input.f = "PAX" THEN "USTAR" ELSE input.f
       /\ \A f \in {"body", "magic", "version", "trailer"} : \A c \in changed(f) :
            GetFormat(c) = "unknown"

\* What a header block and the records in front of it say is what was put there:
\* strings, records, and the format that tells which fields there are.
HeadersKept == StringKept /\ RecordKept /\ FormatKept

\* FileInfoHeader keeps the type, permissions and special bits of a file, for all
\* types but those it refuses.
TarModeKept ==
  input.kind = "mode" =>
    LET h == FileInfoHeader([mode |-> input.m, size |-> 1, sys |-> <<>>], "target")
    IN IF input.m.bits \cap {"socket", "irregular"} # {} THEN ~h.ok
       ELSE h.ok /\ Mode(h) = input.m /\ (h.size = 0 <=> isHeaderOnlyType(h.typeflag))

\* A header made from the FileInfo of a header describes the same file: hard links
\* stay links, without data, whether or not the mode has a type in it.
HeaderKept ==
  input.kind = "header" =>
    LET h == FileInfoHeader(FileInfo(input.h), input.h.linkname)
    IN /\ h.ok /\ h.typeflag = input.h.typeflag /\ h.linkname = input.h.linkname
       /\ Mode(h) = Mode(input.h)
       /\ h.size = IF isHeaderOnlyType(h.typeflag) THEN 0 ELSE input.h.size

-----------------------------------------------------------------------------
(***************************************************************************)
(* Fields of a zip header                                                  *)
(***************************************************************************)

\* Mode gives back what SetMode was given, and a reader that looks at the MS-DOS
\* bits only agrees on what is a directory and what is writable.  (Not kept: files
\* of no known type, and character devices where os.ModeType has their bit.)
ZipModeKept ==
  (input.kind = "mode" /\ "irregular" \notin input.m.bits
    /\ ~(input.char /\ "char" \in input.m.bits)) =>
    LET h == Z!SetMode(input.m, input.char)
        dos == Z!Mode([h EXCEPT !.creator = "fat"], FALSE)
    IN /\ Z!Mode(h, "dir" \in input.m.bits) = input.m
       /\ dos.bits = input.m.bits \cap {"dir"}
       /\ Z!IsSet(dos.perm, Z!Writable) <=> Z!IsSet(input.m.perm, Z!Writable)

\* A file keeps its type, permissions and special bits through FileInfoHeader and
\* Mode of tar, through a tar header made from another one, and through SetMode
\* and Mode of zip.
ModesKept == TarModeKept /\ HeaderKept /\ ZipModeKept

\* A time comes back to the second, for the years its 32 bits reach, whatever
\* timestamps the header had before, and so does its zone, if it is one of those
\* in use and the year in it one of the DOS date; the second that the DOS time
\* may lack does not change it.  Any other zone costs nothing but the zone.
TimeKept ==
  input.kind = "time" =>
    LET t == input.t
        r == Z!ReadModified(Z!CreateModified(t, input.old))
        year(zone) == Z!Date(Z!Instant(t.at.days, t.at.secs + zone).days).year
        back == Z!ModTime(Z!SetModTime(t))
    IN /\ (~Z!Before(t.at, Z!Instant(0, 0)) /\ Z!Before(t.at, Z!Instant(49710, 23296))) =>
            /\ r.at = t.at
            /\ (t.zone % 900 = 0 /\ -43200 <= t.zone /\ t.zone <= 50400
                 /\ year(t.zone) \in 1980 .. 2107) => r.zone = t.zone
       /\ r.zone % 900 = 0 /\ -43200 <= r.zone /\ r.zone <= 50400
       /\ year(0) \in 1980 .. 2107 => back = [t.at EXCEPT !.secs = @ - (@ % 2)]

\* Times survive both formats: PAX times (PAXTimeExact) and zip times (TimeKept).
TimesExact == PAXTimeExact /\ TimeKept

\* Whatever settings a zip writer was offered, the compressor of its entries works
\* with the ones it has: the errors that newFlateWriter ignores do not occur.
SettingsUsed ==
  input.kind = "settings" =>
    Z!newFlateWriter(Z!SetCompressionSettings(Z!defaultCompressionSettings, input.s))
      = "as set"
=============================================================================
