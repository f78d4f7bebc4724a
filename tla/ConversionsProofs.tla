-------------------------- MODULE ConversionsProofs --------------------------
(***************************************************************************)
(* Theorems about the conversions that need no induction on the digits of  *)
(* a number: file modes, for all permissions and types of files, and the   *)
(* settings of the compressor.                                             *)
(***************************************************************************)
EXTENDS Conversions, TLAPS

\* The bits of a mode that are neither permissions nor a type.
Special == {"setuid", "setgid", "sticky"}

\* The headers of PickHeader.
CodedMode(f, p, coded) == p + (IF coded THEN 4096 * TypeCode(f) ELSE 0)
HeaderWith(f, p, coded, size) ==
  [typeflag |-> f, mode |-> CodedMode(f, p, coded), size |-> size,
   linkname |-> IF f \in {"link", "symlink"} THEN "target" ELSE ""]
Headers == {HeaderWith(f, p, coded, size) :
              f \in Typeflags, p \in Perms, coded \in BOOLEAN, size \in {0, 1}}

\* The inputs are of the sets they are picked from.
InputInv ==
  /\ input.kind = "mode" => input.m \in FileModes /\ input.char \in BOOLEAN
  /\ input.kind = "header" => input.h \in Headers
  /\ input.kind = "settings" => input.s \in Settings

\* They are: an input is picked once.
LEMMA InputsPicked == Spec => []InputInv
<1>1. Init => InputInv
  BY DEF Init, InputInv
<1>2. InputInv /\ [Next]_vars => InputInv'
  <2> SUFFICES ASSUME InputInv, [Next]_vars PROVE InputInv'
    OBVIOUS
  <2>1. CASE PickMode
    BY <2>1 DEF PickMode, Pick, InputInv
  <2>2. CASE PickHeader
    <3>1. PICK f \in Typeflags, p \in Perms, coded \in BOOLEAN, size \in {0, 1} :
            input' = [kind |-> "header", h |-> HeaderWith(f, p, coded, size)]
      BY <2>2, Zenon DEF PickHeader, Pick, HeaderWith, CodedMode
    <3>2. PICK h : h = HeaderWith(f, p, coded, size) /\ input' = [kind |-> "header", h |-> h]
      BY <3>1, Zenon
    <3>3. h \in Headers
      BY <3>2, SMT DEF Headers
    <3>4. input'.kind = "header" /\ input'.h = h
      BY <3>2
    <3> QED  BY <3>3, <3>4 DEF InputInv
  <2>3. CASE PickSettings
    BY <2>3 DEF PickSettings, Pick, InputInv
  <2>4. CASE PickNumber
    BY <2>4 DEF PickNumber, Pick, InputInv
  <2>5. CASE PickField
    BY <2>5 DEF PickField, Pick, InputInv
  <2>6. CASE PickString
    BY <2>6 DEF PickString, Pick, InputInv
  <2>7. CASE PickRecord
    BY <2>7 DEF PickRecord, Pick, InputInv
  <2>8. CASE PickTimeText
    BY <2>8 DEF PickTimeText, Pick, InputInv
  <2>9. CASE PickBlock
    BY <2>9 DEF PickBlock, Pick, InputInv
  <2>10. CASE PickTime
    BY <2>10 DEF PickTime, Pick, InputInv
  <2>11. CASE UNCHANGED vars
    BY <2>11 DEF vars, InputInv
  <2> QED  BY <2>1, <2>2, <2>3, <2>4, <2>5, <2>6, <2>7, <2>8, <2>9, <2>10, <2>11 DEF Next
<1> QED  BY <1>1, <1>2, PTL DEF Spec

-----------------------------------------------------------------------------
(* The settings of the compressor.                                          *)

\* Whatever FlateSettings a zip writer is offered, newFlateWriter makes a compressor
\* with the settings the writer has: Validate refuses all that pflate refuses.
THEOREM SettingsApplied == Spec => []SettingsUsed
<1>1. InputInv => SettingsUsed
  <2> SUFFICES ASSUME InputInv, input.kind = "settings"
               PROVE  Z!newFlateWriter(Z!SetCompressionSettings(Z!defaultCompressionSettings,
                                                                input.s)) = "as set"
    BY Zenon DEF SettingsUsed
  <2>1. PICK s \in [level : Int, blockSize : Int, blocks : Int] : s = input.s
    BY InputsAssumption DEF InputInv
  <2>2. PICK u \in [level : Int, blockSize : Int, blocks : Int] :
          u = Z!SetCompressionSettings(Z!defaultCompressionSettings, s) /\ Z!Validate(u)
    <3>1. /\ Z!defaultCompressionSettings \in [level : Int, blockSize : Int, blocks : Int]
          /\ Z!Validate(Z!defaultCompressionSettings)
      BY SMT DEF Z!defaultCompressionSettings, Z!Validate
    <3> QED  BY <3>1, Zenon DEF Z!SetCompressionSettings
  <2>3. u.level \in -2 .. 9 /\ ~(u.blockSize <= 16384) /\ ~(u.blocks <= 0)
    BY <2>2, SMT DEF Z!Validate
  <2>4. Z!newFlateWriter(u) = "as set"
    BY <2>3, SMT DEF Z!newFlateWriter
  <2> QED  BY <2>1, <2>2, <2>4, Zenon
<1> QED  BY <1>1, InputsPicked, PTL

-----------------------------------------------------------------------------
(* Modes as numbers.                                                        *)

\* One bit of a mode, if the special bit x is in s.
Bit(s, x, n) == IF x \in s THEN n ELSE 0

\* A mode with the type k, the permissions p and the special bits s.
Numbered(k, p, s) ==
  (((4096 * k + p) + Bit(s, "setuid", 2048)) + Bit(s, "setgid", 1024)) + Bit(s, "sticky", 512)

\* The special bits found in the number m.
BitsIn(m) ==
  {x \in Special : \/ x = "setuid" /\ Has(m, 2048)
                   \/ x = "setgid" /\ Has(m, 1024)
                   \/ x = "sticky" /\ Has(m, 512)}

\* The mode of the header h has the permissions p and the other bits b.
ModeIs(h, p, b) == Mode(h) = [perm |-> p, bits |-> b]

\* What is found in the number m: the parts of a mode.
HasParts(m, k, p, s) ==
  /\ m % 512 = p
  /\ m \div 4096 = k
  /\ BitsIn(m) = s

\* The parts of a mode are found in its number.
LEMMA PartsFound ==
  ASSUME NEW k \in 0 .. 15, NEW p \in 0 .. 511, NEW s \in SUBSET Special,
         NEW m, m = Numbered(k, p, s)
  PROVE  HasParts(m, k, p, s)
<1> DEFINE a == Bit(s, "setuid", 2048)  b == Bit(s, "setgid", 1024)  c == Bit(s, "sticky", 512)
<1>1. a \in {0, 2048} /\ b \in {0, 1024} /\ c \in {0, 512}
  BY DEF Bit
<1>2. m = (((4096 * k + p) + a) + b) + c
  BY Zenon DEF Numbered
<1>3. /\ a = 2048 <=> "setuid" \in s
      /\ b = 1024 <=> "setgid" \in s
      /\ c = 512 <=> "sticky" \in s
  BY DEF Bit
<1> HIDE DEF a, b, c
<1>4. /\ m % 512 = p /\ m \div 4096 = k
      /\ Has(m, 2048) <=> a = 2048
      /\ Has(m, 1024) <=> b = 1024
      /\ Has(m, 512) <=> c = 512
  <2> USE <1>2 DEF Has
  <2>1. CASE a = 0 /\ b = 0
    BY <1>1, <2>1, SMTT(30)
  <2>2. CASE a = 0 /\ b = 1024
    BY <1>1, <2>2, SMTT(30)
  <2>3. CASE a = 2048 /\ b = 0
    BY <1>1, <2>3, SMTT(30)
  <2>4. CASE a = 2048 /\ b = 1024
    BY <1>1, <2>4, SMTT(30)
  <2> QED  BY <1>1, <2>1, <2>2, <2>3, <2>4, SMT
<1>5. /\ Has(m, 2048) <=> "setuid" \in s
      /\ Has(m, 1024) <=> "setgid" \in s
      /\ Has(m, 512) <=> "sticky" \in s
  BY <1>3, <1>4, SMT
<1>6. ASSUME NEW x PROVE x \in BitsIn(m) <=> x \in s
  <2>1. CASE x \in Special
    BY <1>5, <2>1, SMT DEF BitsIn, Special
  <2>2. CASE x \notin Special
    BY <2>2, Zenon DEF BitsIn
  <2> QED  BY <2>1, <2>2
<1>7. BitsIn(m) = s
  BY <1>6, SMT
<1>8. m % 512 = p /\ m \div 4096 = k
  BY <1>4, SMT
<1> QED  BY <1>7, <1>8, Zenon DEF HasParts

\* The bits of a mode are those of the type and the special ones.
LEMMA BitsApart ==
  ASSUME NEW t \in FileTypes, NEW s \in SUBSET Special
  PROVE  /\ \A x \in TypeBits \cup {"char"} : x \in t \cup s <=> x \in t
         /\ \A x \in Special : x \in t \cup s <=> x \in s
<1>1. (TypeBits \cup {"char"}) \cap Special = {}
  BY DEF TypeBits, Special
<1>2. t \subseteq TypeBits \cup {"char"}
  BY DEF FileTypes, TypeBits
<1> QED  BY <1>1, <1>2, Zenon

-----------------------------------------------------------------------------
(* Modes of tar.                                                            *)

\* The type flag of a file with the type t stands for t.
LEMMA FlagKept ==
  ASSUME NEW t \in FileTypes, NEW s \in SUBSET Special
  PROVE  LET f == Typeflag(t \cup s)
         IN IF t \cap {"socket", "irregular"} # {} THEN f = "unsupported"
            ELSE /\ f \in Typeflags \ {"link"} /\ FlagType(f) = t
                 /\ f = "reg" <=> t = {}
<1>1. PICK u : u = t \cup s
  OBVIOUS
<1>2. \A x \in TypeBits \cup {"char"} : x \in u <=> x \in t
  BY <1>1, BitsApart, Zenon
<1>3. u \cap TypeBits = t \cap TypeBits
  BY <1>2, Zenon
<1>5. /\ "dir" \in u <=> "dir" \in t
      /\ "symlink" \in u <=> "symlink" \in t
      /\ "device" \in u <=> "device" \in t
      /\ "char" \in u <=> "char" \in t
      /\ "pipe" \in u <=> "pipe" \in t
      /\ u \cap {"dir", "symlink"} = t \cap {"dir", "symlink"}
      /\ u \cap {"dir", "symlink", "device"} = t \cap {"dir", "symlink", "device"}
  BY <1>2 DEF TypeBits
<1>6. Typeflag(u) = Typeflag(t)
  BY <1>3, <1>5, SMT DEF Typeflag
<1>4. CASE t = {}
  <2>1. Typeflag(t) = "reg"
    BY <1>4, SMT DEF Typeflag, TypeBits
  <2> QED  BY <1>1, <1>4, <1>6, <2>1 DEF Typeflags, FlagType
<1>7. CASE t = {"dir"}
  <2>1. Typeflag(t) = "dir"
    BY <1>7 DEF Typeflag, TypeBits
  <2> QED  BY <1>1, <1>6, <1>7, <2>1 DEF Typeflags, FlagType
<1>8. CASE t = {"symlink"}
  <2>1. Typeflag(t) = "symlink"
    BY <1>8 DEF Typeflag, TypeBits
  <2> QED  BY <1>1, <1>6, <1>8, <2>1 DEF Typeflags, FlagType
<1>9. CASE t = {"pipe"}
  <2>1. Typeflag(t) = "fifo"
    BY <1>9 DEF Typeflag, TypeBits
  <2> QED  BY <1>1, <1>6, <1>9, <2>1 DEF Typeflags, FlagType
<1>10. CASE t = {"device"}
  <2>1. Typeflag(t) = "block"
    BY <1>10 DEF Typeflag, TypeBits
  <2> QED  BY <1>1, <1>6, <1>10, <2>1 DEF Typeflags, FlagType
<1>11. CASE t = {"device", "char"}
  <2>1. Typeflag(t) = "char"
    BY <1>11 DEF Typeflag, TypeBits
  <2> QED  BY <1>1, <1>6, <1>11, <2>1 DEF Typeflags, FlagType
<1>12. CASE t = {"socket"} \/ t = {"irregular"}
  <2>1. Typeflag(t) = "unsupported"
    BY <1>12 DEF Typeflag, TypeBits
  <2>2. t \cap {"socket", "irregular"} # {}
    BY <1>12
  <2> QED  BY <1>1, <1>6, <2>1, <2>2, Zenon
<1> QED  BY <1>4, <1>7, <1>8, <1>9, <1>10, <1>11, <1>12, Zenon DEF FileTypes

\* Mode of a header whose mode is the number of its parts.
LEMMA TarModeIs ==
  ASSUME NEW k \in 0 .. 15, NEW p \in 0 .. 511, NEW s \in SUBSET Special,
         NEW h, h.mode = Numbered(k, p, s)
  PROVE  ModeIs(h, p, (s \cup UnixType(h.mode)) \cup FlagType(h.typeflag))
<1>1. HasParts(h.mode, k, p, s)
  BY PartsFound, Zenon
<1>2. Mode(h) = [perm |-> h.mode % 512,
                 bits |-> (BitsIn(h.mode) \cup UnixType(h.mode)) \cup FlagType(h.typeflag)]
  BY Zenon DEF Mode, BitsIn, c_ISUID, c_ISGID, c_ISVTX, Special
<1>3. h.mode % 512 = p /\ BitsIn(h.mode) = s
  BY <1>1, Zenon DEF HasParts
<1> QED  BY <1>2, <1>3, Zenon DEF ModeIs

\* A mode without a type in it gives none.
LEMMA NoType ==
  ASSUME NEW m, NEW p, NEW s, HasParts(m, 0, p, s)
  PROVE  UnixType(m) = {}
BY SMT DEF HasParts, UnixType

\* The header of a file with the type t: its mode has the permissions and the special
\* bits, and the type is in the flag alone.
LEMMA HeaderMade ==
  ASSUME NEW t \in FileTypes, NEW p \in 0 .. 511, NEW s \in SUBSET Special,
         NEW fi, fi.mode.perm = p, fi.mode.bits = t \cup s, NEW link,
         NEW h, h = FileInfoHeader(fi, link)
  PROVE  ModeIs(h, p, s \cup FlagType(h.typeflag))
<1>1. h.mode = ((p + Bit(s, "setuid", 2048)) + Bit(s, "setgid", 1024)) + Bit(s, "sticky", 512)
  <2>1. \A x \in Special : x \in fi.mode.bits <=> x \in s
    BY BitsApart, Zenon
  <2>2. /\ "setuid" \in fi.mode.bits <=> "setuid" \in s
        /\ "setgid" \in fi.mode.bits <=> "setgid" \in s
        /\ "sticky" \in fi.mode.bits <=> "sticky" \in s
    BY <2>1 DEF Special
  <2>3. h.mode = ((fi.mode.perm + Bit(fi.mode.bits, "setuid", 2048))
                    + Bit(fi.mode.bits, "setgid", 1024)) + Bit(fi.mode.bits, "sticky", 512)
    BY Zenon DEF FileInfoHeader, Bit, c_ISUID, c_ISGID, c_ISVTX
  <2>4. /\ Bit(fi.mode.bits, "setuid", 2048) = Bit(s, "setuid", 2048)
        /\ Bit(fi.mode.bits, "setgid", 1024) = Bit(s, "setgid", 1024)
        /\ Bit(fi.mode.bits, "sticky", 512) = Bit(s, "sticky", 512)
    BY <2>2, SMT DEF Bit
  <2> QED  BY <2>3, <2>4, SMT
<1>2. h.mode = Numbered(0, p, s)
  <2>1. 4096 * 0 + p = p
    BY SMT
  <2>2. Numbered(0, p, s) = (((4096 * 0 + p) + Bit(s, "setuid", 2048)) + Bit(s, "setgid", 1024))
                              + Bit(s, "sticky", 512)
    BY SMT DEF Numbered
  <2> QED  BY <1>1, <2>1, <2>2, SMT
<1>3. UnixType(h.mode) = {}
  <2>1. HasParts(h.mode, 0, p, s)
    <3>1. 0 \in 0 .. 15
      BY SMT
    <3> QED  BY <1>2, <3>1, PartsFound, Zenon
  <2> QED  BY <2>1, NoType, Zenon
<1>4. ModeIs(h, p, (s \cup UnixType(h.mode)) \cup FlagType(h.typeflag))
  <2>1. 0 \in 0 .. 15
    BY SMT
  <2> QED  BY <1>2, <2>1, TarModeIs, Zenon
<1>5. (s \cup UnixType(h.mode)) \cup FlagType(h.typeflag) = s \cup FlagType(h.typeflag)
  BY <1>3, Zenon
<1> QED  BY <1>4, <1>5, Zenon

\* The parts of a mode that FileInfoHeader and SetMode are given.
LEMMA ModeParts ==
  ASSUME NEW m \in FileModes
  PROVE  \E t \in FileTypes, p \in 0 .. 511, s \in SUBSET Special :
           m = [perm |-> p, bits |-> t \cup s] /\ m.perm = p /\ m.bits = t \cup s
<1>1. PICK p \in Perms, t \in FileTypes, s \in SUBSET Special :
        m = [perm |-> p, bits |-> t \cup s]
  BY SMT DEF FileModes, Special
<1>2. p \in 0 .. 511
  BY InputsAssumption
<1>3. m.perm = p /\ m.bits = t \cup s
  BY <1>1
<1> QED  BY <1>1, <1>2, <1>3, Zenon

\* FileInfoHeader keeps the modes of files.
LEMMA TarModesKept == InputInv => TarModeKept
<1> SUFFICES ASSUME InputInv, input.kind = "mode"
             PROVE  TarModeKept
  BY Zenon DEF TarModeKept
<1>1. PICK fi : fi = [mode |-> input.m, size |-> 1, sys |-> <<>>]
  OBVIOUS
<1>2. fi.mode = input.m /\ fi.size = 1 /\ fi.sys = <<>>
  BY <1>1
<1>3. PICK t \in FileTypes, p \in 0 .. 511, s \in SUBSET Special :
        input.m = [perm |-> p, bits |-> t \cup s] /\ input.m.perm = p /\ input.m.bits = t \cup s
  BY ModeParts, Zenon DEF InputInv
<1>4. PICK h : h = FileInfoHeader(fi, "target")
  OBVIOUS
<1>5. PICK f : f = Typeflag(t \cup s)
  OBVIOUS
<1>6. /\ h.ok <=> f # "unsupported"
      /\ h.typeflag = f
      /\ h.size = IF f = "reg" THEN 1 ELSE 0
  <2>1. ~IsHardLink(fi)
    BY <1>2 DEF IsHardLink
  <2>2. Typeflag(fi.mode.bits) = f
    BY <1>2, <1>3, <1>5, Zenon
  <2>3. h.ok = (Typeflag(fi.mode.bits) # "unsupported")
    BY <1>4, Zenon DEF FileInfoHeader
  <2>4. h.typeflag = IF IsHardLink(fi) THEN "link" ELSE Typeflag(fi.mode.bits)
    BY <1>4, Zenon DEF FileInfoHeader
  <2>5. h.size = IF Typeflag(fi.mode.bits) = "reg" /\ ~IsHardLink(fi) THEN fi.size ELSE 0
    BY <1>4, Zenon DEF FileInfoHeader
  <2>6. h.ok <=> f # "unsupported"
    BY <2>2, <2>3, Zenon
  <2>7. h.typeflag = f
    BY <2>1, <2>2, <2>4, Zenon
  <2>8. h.size = IF f = "reg" THEN 1 ELSE 0
    BY <1>2, <2>1, <2>2, <2>5, SMT
  <2> QED  BY <2>6, <2>7, <2>8, Zenon
<1>7. ModeIs(h, p, s \cup FlagType(h.typeflag))
  <2>1. fi.mode.perm = p /\ fi.mode.bits = t \cup s
    BY <1>2, <1>3, Zenon
  <2> QED  BY <1>4, <2>1, HeaderMade, Zenon
<1>8. input.m.bits \cap {"socket", "irregular"} = t \cap {"socket", "irregular"}
  BY <1>3 DEF Special
<1>9. CASE t \cap {"socket", "irregular"} # {}
  <2>1. f = "unsupported"
    BY <1>5, <1>9, FlagKept, ZenonT(60)
  <2> QED  BY <1>1, <1>4, <1>6, <1>8, <1>9, <2>1, Zenon DEF TarModeKept
<1>10. CASE t \cap {"socket", "irregular"} = {}
  <2>1. /\ f \in Typeflags \ {"link"} /\ FlagType(f) = t
        /\ f = "reg" <=> t = {}
    BY <1>5, <1>10, FlagKept, ZenonT(60)
  <2>2. h.ok
    BY <1>6, <2>1 DEF Typeflags
  <2>3. Mode(h) = input.m
    <3>1. s \cup FlagType(h.typeflag) = t \cup s
      BY <1>6, <2>1, Zenon
    <3> QED  BY <1>3, <1>7, <3>1, Zenon DEF ModeIs
  <2>4. h.size = 0 <=> isHeaderOnlyType(h.typeflag)
    BY <1>6, <2>1 DEF Typeflags, isHeaderOnlyType
  <2> QED  BY <1>1, <1>4, <1>8, <1>10, <2>2, <2>3, <2>4, Zenon DEF TarModeKept
<1> QED  BY <1>9, <1>10, Zenon

\* The type that a mode has in it is the one of the flag, and none for files and links;
\* a file of that type is given that flag.
LEMMA CodesOfFlags ==
  ASSUME NEW f \in Typeflags
  PROVE  /\ TypeCode(f) \in 0 .. 15
         /\ \A m : m \div 4096 = TypeCode(f) => UnixType(m) = FlagType(f)
         /\ FlagType(f) \in FileTypes
         /\ Typeflag(FlagType(f)) = IF f = "link" THEN "reg" ELSE f
<1>1. CASE f \in {"reg", "link"}
  BY <1>1, SMT DEF TypeCode, UnixType, FlagType, FileTypes, Typeflag, TypeBits
<1>2. CASE f = "symlink"
  BY <1>2, SMT DEF TypeCode, UnixType, FlagType, FileTypes, Typeflag, TypeBits
<1>3. CASE f = "char"
  BY <1>3, SMT DEF TypeCode, UnixType, FlagType, FileTypes, Typeflag, TypeBits
<1>4. CASE f = "block"
  BY <1>4, SMT DEF TypeCode, UnixType, FlagType, FileTypes, Typeflag, TypeBits
<1>5. CASE f = "dir"
  BY <1>5, SMT DEF TypeCode, UnixType, FlagType, FileTypes, Typeflag, TypeBits
<1>6. CASE f = "fifo"
  BY <1>6, SMT DEF TypeCode, UnixType, FlagType, FileTypes, Typeflag, TypeBits
<1> QED  BY <1>1, <1>2, <1>3, <1>4, <1>5, <1>6, SMT DEF Typeflags

\* A header made from the FileInfo of a header keeps what that one says.
LEMMA TarHeadersKept == InputInv => HeaderKept
<1> SUFFICES ASSUME InputInv, input.kind = "header"
             PROVE  HeaderKept
  BY Zenon DEF HeaderKept
<1>1. PICK f \in Typeflags, p \in Perms, coded \in BOOLEAN, size \in {0, 1} :
        input.h = HeaderWith(f, p, coded, size)
  BY SMT DEF InputInv, Headers
<1>2. PICK g : g = input.h
  OBVIOUS
<1>3. PICK k \in 0 .. 15 : k = IF coded THEN TypeCode(f) ELSE 0
  <2>1. 0 \in 0 .. 15
    BY SMT
  <2> QED  BY <2>1, CodesOfFlags, Zenon
<1>4. /\ g.typeflag = f
      /\ g.mode = CodedMode(f, p, coded)
      /\ g.size = size
      /\ g.linkname = IF f \in {"link", "symlink"} THEN "target" ELSE ""
  <2>0. g = HeaderWith(f, p, coded, size)
    BY <1>1, <1>2, Zenon
  <2>1. g.typeflag = f
    BY <2>0, Zenon DEF HeaderWith
  <2>2. g.mode = CodedMode(f, p, coded)
    BY <2>0, Zenon DEF HeaderWith
  <2>3. g.size = size
    BY <2>0, Zenon DEF HeaderWith
  <2>4. g.linkname = IF f \in {"link", "symlink"} THEN "target" ELSE ""
    BY <2>0, Zenon DEF HeaderWith
  <2> QED  BY <2>1, <2>2, <2>3, <2>4, Zenon
<1>5. p \in 0 .. 511 /\ {} \in SUBSET Special
  BY InputsAssumption
<1>6. g.mode = Numbered(k, p, {})
  <2>1. g.mode = p + 4096 * k
    <3>1. CASE coded
      <4>1. PICK x : x = 4096 * TypeCode(f)
        OBVIOUS
      <4>2. CodedMode(f, p, TRUE) = p + x
        BY <4>1, SMT DEF CodedMode
      <4>3. k = TypeCode(f) /\ g.mode = p + x
        BY <1>3, <1>4, <3>1, <4>2, Zenon
      <4> QED  BY <1>5, <4>1, <4>3, SMT
    <3>2. CASE ~coded
      <4>1. CodedMode(f, p, FALSE) = p + 0
        BY SMT DEF CodedMode
      <4>2. k = 0 /\ g.mode = CodedMode(f, p, FALSE)
        BY <1>3, <1>4, <3>2, Zenon
      <4>3. k = 0 /\ g.mode = p + 0
        BY <4>1, <4>2, Zenon
      <4> QED  BY <1>5, <4>3, SMT
    <3> QED  BY <3>1, <3>2, SMT
  <2>2. Numbered(k, p, {}) = (((4096 * k + p) + 0) + 0) + 0
    BY SMT DEF Numbered, Bit
  <2> QED  BY <1>5, <2>1, <2>2, SMT
<1>7. UnixType(g.mode) = IF coded THEN FlagType(f) ELSE {}
  <2>1. HasParts(g.mode, k, p, {})
    BY <1>5, <1>6, PartsFound, Zenon
  <2>2. CASE coded
    <3>1. g.mode \div 4096 = k
      BY <2>1, SMT DEF HasParts
    <3>2. k = TypeCode(f)
      BY <1>3, <2>2, Zenon
    <3>3. UnixType(g.mode) = FlagType(f)
      BY <3>1, <3>2, CodesOfFlags, SMT
    <3> QED  BY <2>2, <3>3, Zenon
  <2>3. CASE ~coded
    <3>1. HasParts(g.mode, 0, p, {})
      BY <1>3, <2>1, <2>3, Zenon
    <3> QED  BY <2>3, <3>1, NoType, Zenon
  <2> QED  BY <2>2, <2>3, Zenon
<1>8. ModeIs(g, p, FlagType(f))
  <2>1. ModeIs(g, p, ({} \cup UnixType(g.mode)) \cup FlagType(g.typeflag))
    BY <1>5, <1>6, TarModeIs, Zenon
  <2>2. ({} \cup UnixType(g.mode)) \cup FlagType(g.typeflag) = FlagType(f)
    <3>1. UnixType(g.mode) \subseteq FlagType(f) /\ g.typeflag = f
      BY <1>4, <1>7, Zenon
    <3> QED  BY <3>1, SMT
  <2> QED  BY <2>1, <2>2, Zenon
<1>9. PICK fi : fi = FileInfo(g)
  OBVIOUS
<1>10. /\ fi.mode = Mode(g) /\ fi.size = size
       /\ IsHardLink(fi) <=> f = "link"
       /\ fi.sys[1].linkname = g.linkname
  <2>1. fi.mode = Mode(g) /\ fi.size = g.size /\ fi.sys = <<g>>
    BY <1>9, Zenon DEF FileInfo
  <2>2. fi.sys # <<>> /\ fi.sys[1] = g
    BY <2>1, SMT
  <2> QED  BY <1>4, <2>1, <2>2, Zenon DEF IsHardLink
<1>11. PICK t \in FileTypes : t = FlagType(f)
  BY CodesOfFlags, Zenon
<1>12. fi.mode.perm = p /\ fi.mode.bits = t
  <2>1. fi.mode = [perm |-> p, bits |-> FlagType(f)]
    BY <1>8, <1>10, Zenon DEF ModeIs
  <2> QED  BY <1>11, <2>1, SMT
<1>13. PICK h : h = FileInfoHeader(fi, g.linkname)
  OBVIOUS
<1>14. ModeIs(h, p, {} \cup FlagType(h.typeflag))
  <2>1. fi.mode.bits = t \cup {}
    BY <1>12, Zenon
  <2> QED  BY <1>5, <1>12, <1>13, <2>1, HeaderMade, Zenon
<1>15. Typeflag(fi.mode.bits) = IF f = "link" THEN "reg" ELSE f
  BY <1>11, <1>12, CodesOfFlags, Zenon
<1>16. h.ok /\ h.typeflag = f
  <2>1. h.ok = (Typeflag(fi.mode.bits) # "unsupported")
    BY <1>13, Zenon DEF FileInfoHeader
  <2>2. h.typeflag = IF IsHardLink(fi) THEN "link" ELSE Typeflag(fi.mode.bits)
    BY <1>13, Zenon DEF FileInfoHeader
  <2>3. Typeflag(fi.mode.bits) # "unsupported"
    BY <1>15, SMT DEF Typeflags
  <2> QED  BY <1>10, <1>15, <2>1, <2>2, <2>3, Zenon
<1>17. h.linkname = g.linkname
  <2>1. h.linkname = IF IsHardLink(fi) THEN fi.sys[1].linkname
                     ELSE IF Typeflag(fi.mode.bits) = "symlink" THEN g.linkname ELSE ""
    BY <1>13, Zenon DEF FileInfoHeader
  <2>2. CASE f = "link"
    BY <1>10, <2>1, <2>2, Zenon
  <2>3. CASE f # "link"
    <3>1. h.linkname = IF f = "symlink" THEN g.linkname ELSE ""
      BY <1>10, <1>15, <2>1, <2>3, Zenon
    <3>2. f # "symlink" => g.linkname = ""
      <4>1. f # "symlink" => f \notin {"link", "symlink"}
        BY <2>3
      <4> QED  BY <1>4, <4>1, Zenon
    <3> QED  BY <3>1, <3>2, Zenon
  <2> QED  BY <2>2, <2>3, Zenon
<1>18. h.size = IF isHeaderOnlyType(h.typeflag) THEN 0 ELSE g.size
  <2>1. h.size = IF Typeflag(fi.mode.bits) = "reg" /\ ~IsHardLink(fi) THEN fi.size ELSE 0
    BY <1>13, Zenon DEF FileInfoHeader
  <2>2. isHeaderOnlyType(h.typeflag) <=> f # "reg"
    BY <1>16, SMT DEF isHeaderOnlyType, Typeflags
  <2>3. (Typeflag(fi.mode.bits) = "reg" /\ ~IsHardLink(fi)) <=> f = "reg"
    BY <1>10, <1>15, SMT
  <2> QED  BY <1>4, <1>10, <2>1, <2>2, <2>3, Zenon
<1>19. Mode(h) = Mode(g)
  <2>1. {} \cup FlagType(h.typeflag) = FlagType(f)
    BY <1>16, Zenon
  <2>2. ModeIs(h, p, FlagType(f))
    BY <1>14, <2>1, Zenon
  <2> QED  BY <1>8, <2>2, Zenon DEF ModeIs
<1>20. h.typeflag = g.typeflag
  BY <1>4, <1>16, Zenon
<1>21. h = FileInfoHeader(FileInfo(input.h), input.h.linkname)
  BY <1>2, <1>9, <1>13, Zenon
<1> QED  BY <1>2, <1>16, <1>17, <1>18, <1>19, <1>20, <1>21, Zenon DEF HeaderKept

-----------------------------------------------------------------------------
(* Modes of zip.                                                            *)

\* The type in a Unix mode.
ZipType(k) ==
  CASE k = 6 -> {"device"}
    [] k = 2 -> {"device", "char"}
    [] k = 4 -> {"dir"}
    [] k = 1 -> {"pipe"}
    [] k = 10 -> {"symlink"}
    [] k = 12 -> {"socket"}
    [] OTHER -> {}

\* The types that SetMode knows the numbers of.
LEMMA ZipTypes ==
  /\ ZipType(8) = {} /\ ZipType(4) = {"dir"} /\ ZipType(10) = {"symlink"}
  /\ ZipType(1) = {"pipe"} /\ ZipType(12) = {"socket"}
  /\ ZipType(6) = {"device"} /\ ZipType(2) = {"device", "char"}
  /\ {8, 4, 10, 1, 12, 6, 2} \subseteq 0 .. 15
BY SMT DEF ZipType

\* The number k stands for the type t.
TypeFound(k, t) == k \in 0 .. 15 /\ ZipType(k) = t

\* The number that SetMode gives a type stands for it.
LEMMA ZipTypeKept ==
  ASSUME NEW t \in FileTypes, NEW s \in SUBSET Special, NEW char \in BOOLEAN,
         "irregular" \notin t, ~(char /\ "char" \in t),
         NEW k, k = Z!UnixType(t \cup s, Z!TypeOf(t \cup s, char))
  PROVE  TypeFound(k, t)
<1> USE DEF TypeFound
<1>1. PICK u : u = t \cup s
  OBVIOUS
<1>2. PICK ty : ty = Z!TypeOf(u, char)
  OBVIOUS
<1>3. ty = t \ {"char"}
  <2>1. PICK c : c = IF char THEN {"char"} ELSE {}
    OBVIOUS
  <2>2. c \subseteq {"char"} /\ ("char" \in t => c = {})
    BY <2>1, Zenon
  <2>3. ty = u \cap (TypeBits \cup c)
    BY <1>2, <2>1, Zenon DEF Z!TypeOf, TypeBits
  <2>4. \A x \in TypeBits \cup {"char"} : x \in u <=> x \in t
    BY <1>1, BitsApart, Zenon
  <2>5. t \subseteq TypeBits \cup {"char"} /\ "char" \notin TypeBits
    BY DEF FileTypes, TypeBits
  <2>6. ASSUME NEW x PROVE x \in ty <=> x \in t \ {"char"}
    BY <2>2, <2>3, <2>4, <2>5, Zenon
  <2> QED  BY <2>6, Zenon
<1>4. "char" \in u <=> "char" \in t
  BY <1>1, BitsApart, Zenon
<1>5. k = Z!UnixType(u, ty)
  BY <1>1, <1>2, Zenon
<1>6. CASE t = {}
  <2>1. ty = {}
    BY <1>3, <1>6
  <2>2. k = 8
    BY <1>5, <2>1, SMTT(30) DEF Z!UnixType
  <2> QED  BY <1>6, <2>2, ZipTypes, Zenon
<1>7. CASE t = {"dir"}
  <2>1. ty = {"dir"}
    BY <1>3, <1>7
  <2>2. k = 4
    BY <1>5, <2>1, SMTT(30) DEF Z!UnixType
  <2> QED  BY <1>7, <2>2, ZipTypes, Zenon
<1>8. CASE t = {"symlink"}
  <2>1. ty = {"symlink"}
    BY <1>3, <1>8
  <2>2. k = 10
    BY <1>5, <2>1, SMTT(30) DEF Z!UnixType
  <2> QED  BY <1>8, <2>2, ZipTypes, Zenon
<1>9. CASE t = {"pipe"}
  <2>1. ty = {"pipe"}
    BY <1>3, <1>9
  <2>2. k = 1
    BY <1>5, <2>1, SMTT(30) DEF Z!UnixType
  <2> QED  BY <1>9, <2>2, ZipTypes, Zenon
<1>10. CASE t = {"socket"}
  <2>1. ty = {"socket"}
    BY <1>3, <1>10
  <2>2. k = 12
    BY <1>5, <2>1, SMTT(30) DEF Z!UnixType
  <2> QED  BY <1>10, <2>2, ZipTypes, Zenon
<1>11. CASE t = {"device"}
  <2>1. ty = {"device"} /\ "char" \notin u
    BY <1>3, <1>4, <1>11
  <2>2. k = 6
    BY <1>5, <2>1, SMTT(30) DEF Z!UnixType
  <2> QED  BY <1>11, <2>2, ZipTypes, Zenon
<1>12. CASE t = {"device", "char"}
  <2>1. ty = {"device"} /\ "char" \in u
    BY <1>3, <1>4, <1>12
  <2>2. k = 2
    BY <1>5, <2>1, SMTT(30) DEF Z!UnixType
  <2> QED  BY <1>12, <2>2, ZipTypes, Zenon
<1>13. t # {"irregular"}
  OBVIOUS
<1> QED  BY <1>6, <1>7, <1>8, <1>9, <1>10, <1>11, <1>12, <1>13, Zenon DEF FileTypes

\* The mode of the type k, the permissions p and the special bits s.
ZipMode(k, p, s) == [perm |-> p, bits |-> ZipType(k) \cup s]

\* A Unix mode is read as its parts.
LEMMA ZipModeIs ==
  ASSUME NEW m, NEW k, NEW p, NEW s, HasParts(m, k, p, s)
  PROVE  Z!unixModeToFileMode(m) = ZipMode(k, p, s)
<1>1. Z!unixModeToFileMode(m) = ZipMode(m \div 4096, m % 512, BitsIn(m))
  BY SMTT(30) DEF ZipMode, Z!unixModeToFileMode, ZipType, BitsIn, Special, Has, Z!IsSet,
               Z!s_ISUID, Z!s_ISGID, Z!s_ISVTX
<1>2. m % 512 = p /\ m \div 4096 = k /\ BitsIn(m) = s
  BY SMT DEF HasParts
<1> QED  BY <1>1, <1>2, SMT

\* SetMode and Mode keep the modes of files, and the bits of MS-DOS agree.
LEMMA ZipModesKept == InputInv => ZipModeKept
<1> SUFFICES ASSUME InputInv, input.kind = "mode", "irregular" \notin input.m.bits,
                    ~(input.char /\ "char" \in input.m.bits)
             PROVE  ZipModeKept
  BY Zenon DEF ZipModeKept
<1>1. PICK t \in FileTypes, p \in 0 .. 511, s \in SUBSET Special :
        input.m = [perm |-> p, bits |-> t \cup s] /\ input.m.perm = p /\ input.m.bits = t \cup s
  BY ModeParts, Zenon DEF InputInv
<1>2. PICK char \in BOOLEAN : char = input.char
  BY Zenon DEF InputInv
<1>3. "irregular" \notin t /\ ~(char /\ "char" \in t)
  BY <1>1, <1>2, Zenon
<1>4. PICK k : k = Z!UnixType(t \cup s, Z!TypeOf(t \cup s, char))
  OBVIOUS
<1>5. k \in 0 .. 15 /\ ZipType(k) = t
  <2>1. TypeFound(k, t)
    BY <1>3, <1>4, ZipTypeKept, Zenon
  <2> QED  BY <2>1, Zenon DEF TypeFound
<1>6. PICK h : h = Z!SetMode(input.m, char)
  OBVIOUS
<1>7. h.unix = Numbered(k, p, s)
  <2>1. /\ "setuid" \in t \cup s <=> "setuid" \in s
        /\ "setgid" \in t \cup s <=> "setgid" \in s
        /\ "sticky" \in t \cup s <=> "sticky" \in s
    <3>1. \A x \in Special : x \in t \cup s <=> x \in s
      BY BitsApart, Zenon
    <3> QED  BY <3>1 DEF Special
  <2>2. h.unix = Z!fileModeToUnixMode(input.m, char)
    BY <1>6, Zenon DEF Z!SetMode
  <2>3. Z!fileModeToUnixMode(input.m, char)
          = Numbered(Z!UnixType(input.m.bits, Z!TypeOf(input.m.bits, char)), input.m.perm,
                     input.m.bits)
    BY Zenon DEF Z!fileModeToUnixMode, Numbered, Bit, Z!s_ISUID, Z!s_ISGID, Z!s_ISVTX
  <2>4. h.unix = Numbered(k, p, t \cup s)
    BY <1>1, <1>4, <2>2, <2>3, Zenon
  <2>5. Numbered(k, p, t \cup s) = Numbered(k, p, s)
    BY <2>1, SMT DEF Numbered, Bit
  <2> QED  BY <2>4, <2>5, Zenon
<1>8. Z!unixModeToFileMode(h.unix) = input.m
  <2>1. HasParts(h.unix, k, p, s)
    BY <1>5, <1>7, PartsFound, Zenon
  <2>2. Z!unixModeToFileMode(h.unix) = ZipMode(k, p, s)
    BY <2>1, ZipModeIs, SMT
  <2> QED  BY <1>1, <1>5, <2>2, Zenon DEF ZipMode
<1>9. Z!Mode(h, "dir" \in input.m.bits) = input.m
  <2>1. h.creator = "unix"
    BY <1>6, Zenon DEF Z!SetMode
  <2>2. CASE "dir" \in input.m.bits
    <3>1. Z!Mode(h, TRUE) = [input.m EXCEPT !.bits = @ \cup {"dir"}]
      BY <1>8, <2>1, SMT DEF Z!Mode
    <3>2. input.m.bits \cup {"dir"} = input.m.bits
      BY <2>2, Zenon
    <3>3. [input.m EXCEPT !.bits = @ \cup {"dir"}] = input.m
      BY <1>1, <3>2, SMT
    <3>4. ("dir" \in input.m.bits) = TRUE
      BY <2>2, Zenon
    <3> QED  BY <3>1, <3>3, <3>4, Zenon
  <2>3. CASE "dir" \notin input.m.bits
    <3>1. Z!Mode(h, FALSE) = input.m
      BY <1>8, <2>1, SMT DEF Z!Mode
    <3>2. ("dir" \in input.m.bits) = FALSE
      BY <2>3
    <3> QED  BY <3>1, <3>2, Zenon
  <2> QED  BY <2>2, <2>3, Zenon
<1>10. PICK dos : dos = Z!Mode([h EXCEPT !.creator = "fat"], FALSE)
  OBVIOUS
<1>11. dos = Z!msdosModeToFileMode(h.dos)
  <2>1. PICK g : g = [h EXCEPT !.creator = "fat"]
    OBVIOUS
  <2>2. g.creator = "fat" /\ g.dos = h.dos
    BY <1>6, <2>1, SMT DEF Z!SetMode
  <2>3. Z!Mode(g, FALSE) = Z!msdosModeToFileMode(g.dos)
    BY <2>2, SMT DEF Z!Mode
  <2> QED  BY <1>10, <2>1, <2>2, <2>3, Zenon
<1>12. h.dos = (input.m.bits \cap {"dir"})
                 \cup (IF Z!IsSet(input.m.perm, Z!Writable) THEN {} ELSE {"readonly"})
  BY <1>6, Zenon DEF Z!SetMode
<1>13. /\ "dir" \in h.dos <=> "dir" \in input.m.bits
       /\ "readonly" \in h.dos <=> ~Z!IsSet(input.m.perm, Z!Writable)
  BY <1>12, SMT
<1>14. dos.bits = input.m.bits \cap {"dir"}
  <2>1. dos.bits = h.dos \cap {"dir"}
    BY <1>11, SMT DEF Z!msdosModeToFileMode
  <2> QED  BY <1>13, <2>1, SMT
<1>15. Z!IsSet(dos.perm, Z!Writable) <=> Z!IsSet(input.m.perm, Z!Writable)
  <2>1. dos.perm = (IF "dir" \in h.dos THEN 511 ELSE 438)
                     - (IF "readonly" \in h.dos THEN 146 ELSE 0)
    BY <1>11, SMT DEF Z!msdosModeToFileMode
  <2>2. Z!IsSet(dos.perm, Z!Writable) <=> "readonly" \notin h.dos
    BY <2>1, SMT DEF Z!IsSet, Z!Writable
  <2> QED  BY <1>13, <2>2, Zenon
<1> QED  BY <1>2, <1>6, <1>9, <1>10, <1>14, <1>15, Zenon DEF ZipModeKept

-----------------------------------------------------------------------------
\* The type, the permissions and the special bits of a file come back from the tar header
\* that FileInfoHeader makes of it, from a tar header made of another one, and from the
\* zip header that SetMode fills in, for all types that the code claims to keep.
THEOREM ModesReadBack == Spec => []ModesKept
<1>1. InputInv => ModesKept
  BY TarModesKept, TarHeadersKept, ZipModesKept, Zenon DEF ModesKept
<1> QED  BY <1>1, InputsPicked, PTL
=============================================================================
