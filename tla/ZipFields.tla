------------------------------ MODULE ZipFields ------------------------------
(***************************************************************************)
(* The fields of a zip header as functions: times, time zones and file     *)
(* modes (zip/struct.go, with the parts of CreateHeader in zip/writer.go   *)
(* and readDirectoryHeader in zip/reader.go that use them), and the        *)
(* settings of the compressor (zip/register.go).                           *)
(*                                                                         *)
(* An instant is a pair of days since 1970-01-01 and seconds of the day in *)
(* UTC; a time is an instant and the offset of its zone in seconds.        *)
(***************************************************************************)
EXTENDS Integers, Sequences, SequencesExt

Day == 86400
Instant(days, secs) == [days |-> days + (secs \div Day), secs |-> secs % Day]
Before(a, b) == a.days < b.days \/ (a.days = b.days /\ a.secs < b.secs)

-----------------------------------------------------------------------------
(***************************************************************************)
(* The calendar of package time                                            *)
(***************************************************************************)

\* The date of a day, and the day of a date whose month and day may be out of
\* range.  Years are counted from March, 400 of them are 146097 days.
Date(days) ==
  LET z == days + 719468
      doe == z % 146097
      yoe == (doe - (doe \div 1460) + (doe \div 36524) - (doe \div 146096)) \div 365
      doy == doe - (365 * yoe + (yoe \div 4) - (yoe \div 100))
      mp == (5 * doy + 2) \div 153
      month == IF mp < 10 THEN mp + 3 ELSE mp - 9
  IN [year |-> 400 * (z \div 146097) + yoe + (IF month <= 2 THEN 1 ELSE 0),
      month |-> month, day |-> doy - ((153 * mp + 2) \div 5) + 1]

DayOf(year, month, day) ==
  LET y == year + ((month - 1) \div 12) - (IF (month - 1) % 12 < 2 THEN 1 ELSE 0)
      mp == (month - 3) % 12
      yoe == y % 400
  IN 146097 * (y \div 400) + 365 * yoe + (yoe \div 4) - (yoe \div 100)
     + ((153 * mp + 2) \div 5) + day - 1 - 719468

-----------------------------------------------------------------------------
(***************************************************************************)
(* Times                                                                   *)
(***************************************************************************)

uint16(n) == n % 65536

timeToMsDosTime(t) ==
  LET local == Instant(t.at.days, t.at.secs + t.zone)
      d == Date(local.days)
  IN [date |-> uint16(d.day + 32 * d.month + 512 * (d.year - 1980)),
      time |-> uint16(((local.secs % 60) \div 2) + 32 * ((local.secs \div 60) % 60)
                      + 2048 * (local.secs \div 3600))]

msDosTimeToTime(d) ==
  Instant(DayOf((d.date \div 512) + 1980, (d.date \div 32) % 16, d.date % 32),
          3600 * (d.time \div 2048) + 60 * ((d.time \div 32) % 64) + 2 * (d.time % 32))

\* uint32 of the seconds since 1970: 2^32 seconds are 49710 days and 23296 seconds.
uint32Unix(at) ==
  CHOOSE u \in {Instant(at.days + 49710 * k, at.secs + 23296 * k) : k \in -2 .. 2} :
    ~Before(u, Instant(0, 0)) /\ Before(u, Instant(49710, 23296))

\* Duration.Round to d, halves away from zero.
Round(x, d) == IF x < 0 THEN -(d * ((-x + (d \div 2)) \div d)) ELSE d * ((x + (d \div 2)) \div d)

\* (Mutated: a zone east of +12:00 is not sensible.)
timeZoneNarrow(days, secs) ==
  LET offset == Round(Day * days + secs, 900)
  IN IF days \in -2 .. 2 /\ -43200 <= offset /\ offset <= 43200 THEN offset ELSE 0

\* The zone of a difference of days and seconds: 15 minutes, -12:00 to +14:00.
timeZone(days, secs) ==
  LET offset == Round(Day * days + secs, 900)
  IN IF days \in -2 .. 2 /\ -43200 <= offset /\ offset <= 50400 THEN offset ELSE 0

\* What CreateHeader does for Modified = t in a header whose Extra has some
\* timestamps already, from the archive it was read from.
CreateModified(t, extra) ==
  [dos |-> timeToMsDosTime(t), extra |-> Append(extra, uint32Unix(t.at))]

\* Modified of readDirectoryHeader: the last timestamp of Extra, in the zone that
\* the difference to the DOS time gives; without one the DOS time as UTC.
ReadModified(h) ==
  LET dos == msDosTimeToTime(h.dos)
      at == Last(h.extra)
  IN IF h.extra = <<>> THEN [at |-> dos, zone |-> 0]
     ELSE [at |-> at,
           zone |-> IF h.dos.date = 0 /\ h.dos.time = 0 THEN 0
                    ELSE timeZone(dos.days - at.days, dos.secs - at.secs)]

\* SetModTime and ModTime work in UTC.
SetModTime(t) == timeToMsDosTime([t EXCEPT !.zone = 0])
ModTime(dos) == msDosTimeToTime(dos)

-----------------------------------------------------------------------------
(***************************************************************************)
(* Modes: an os.FileMode is its permissions and a set of other bits.       *)
(* ExternalAttrs is its upper half, a Unix mode, and its lower half, the   *)
(* bits of MS-DOS.                                                         *)
(***************************************************************************)

s_ISUID == 2048
s_ISGID == 1024
s_ISVTX == 512
IsSet(m, bit) == (m \div bit) % 2 = 1
Writable == 128         \* 0200

\* mode & os.ModeType: since Go 1.12 it has ModeCharDevice.
TypeOf(bits, charType) ==
  bits \cap ({"dir", "symlink", "pipe", "socket", "device", "irregular"}
             \cup IF charType THEN {"char"} ELSE {})

\* (Mutated: a named pipe is not told from a file.)
UnixTypePipeless(bits, type) ==
  CASE type = {"dir"} -> 4
    [] type = {"symlink"} -> 10
    [] type = {"socket"} -> 12
    [] type = {"device"} -> IF "char" \in bits THEN 2 ELSE 6
    [] OTHER -> 8

UnixType(bits, type) ==
  CASE type = {"dir"} -> 4
    [] type = {"symlink"} -> 10
    [] type = {"pipe"} -> 1
    [] type = {"socket"} -> 12
    [] type = {"device"} -> IF "char" \in bits THEN 2 ELSE 6
    [] OTHER -> 8

fileModeToUnixMode(mode, charType) ==
  LET bit(s, n) == IF s \in mode.bits THEN n ELSE 0
  IN 4096 * UnixType(mode.bits, TypeOf(mode.bits, charType)) + mode.perm
     + bit("setuid", s_ISUID) + bit("setgid", s_ISGID) + bit("sticky", s_ISVTX)

unixModeToFileMode(m) ==
  [perm |-> m % 512,
   bits |-> (CASE m \div 4096 = 6 -> {"device"}
               [] m \div 4096 = 2 -> {"device", "char"}
               [] m \div 4096 = 4 -> {"dir"}
               [] m \div 4096 = 1 -> {"pipe"}
               [] m \div 4096 = 10 -> {"symlink"}
               [] m \div 4096 = 12 -> {"socket"}
               [] OTHER -> {})
            \cup {s \in {"setuid", "setgid", "sticky"} :
                    \/ s = "setuid" /\ IsSet(m, s_ISUID)
                    \/ s = "setgid" /\ IsSet(m, s_ISGID)
                    \/ s = "sticky" /\ IsSet(m, s_ISVTX)}]

\* Permissions 0777 or 0666, and 0222 less for a file that is read only.
msdosModeToFileMode(dos) ==
  [perm |-> (IF "dir" \in dos THEN 511 ELSE 438) - (IF "readonly" \in dos THEN 146 ELSE 0),
   bits |-> dos \cap {"dir"}]

SetMode(mode, charType) ==
  [creator |-> "unix", unix |-> fileModeToUnixMode(mode, charType),
   dos |-> (mode.bits \cap {"dir"})
           \cup (IF IsSet(mode.perm, Writable) THEN {} ELSE {"readonly"})]

\* Mode of a header; slash: the name ends in one.
Mode(h, slash) ==
  LET mode == CASE h.creator \in {"unix", "macosx"} -> unixModeToFileMode(h.unix)
                [] h.creator \in {"ntfs", "vfat", "fat"} -> msdosModeToFileMode(h.dos)
                [] OTHER -> [perm |-> 0, bits |-> {}]
  IN IF slash THEN [mode EXCEPT !.bits = @ \cup {"dir"}] ELSE mode

-----------------------------------------------------------------------------
(***************************************************************************)
(* Settings of the compressor                                              *)
(***************************************************************************)

\* (Mutated: a block size of 16 KiB is enough.)
ValidateMinimum(s) == s.level \in -2 .. 9 /\ s.blocks > 0 /\ s.blockSize >= 16384

Validate(s) == s.level \in -2 .. 9 /\ s.blocks > 0 /\ s.blockSize > 16384

\* pflate.NewWriter and SetConcurrency, whose errors newFlateWriter ignores: it
\* returns a writer with the settings or with others, or calls SetConcurrency of nil.
newFlateWriter(s) ==
  CASE s.level \notin -2 .. 9 -> "panic"
    [] s.level \in -2 .. 9 /\ (s.blockSize <= 16384 \/ s.blocks <= 0) -> "defaults"
    [] OTHER -> "as set"

defaultCompressionSettings == [level |-> -1, blockSize |-> 262144, blocks |-> 16]

\* The settings of a writer that has old ones: an error leaves them.
SetCompressionSettings(old, s) == IF Validate(s) THEN s ELSE old
=============================================================================
