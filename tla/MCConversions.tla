--------------------------- MODULE MCConversions ---------------------------
(* Inputs at the boundaries of the conversions, with integers of 3 bytes.   *)
EXTENDS Conversions

Around(S) == UNION {{s - 1, s, s + 1} : s \in S}
Limit == 2 ^ (8 * IntBytes - 1)
SomeNumbers ==
  {-Limit, -Limit + 1, Limit - 1, 0}
    \cup Around({8, 64, 512, 4096, 256, 65536, -8, -64, -512, -256, -65536})

SomeBytes == {0, 1, 32, 45, 48, 55, 56, 127, 128, 129, 191, 192, 255}
SomeFields == UNION {[1 .. n -> SomeBytes] : n \in 1 .. 3}
                \cup {<<a>> \o b : a \in {128, 191, 192, 255}, b \in [1 .. 3 -> {0, 1, 127, 128, 255}]}

SomeStrings == UNION {[1 .. n -> {0, 97, 233}] : n \in 0 .. 4}

Text(n) == Fill(n, 97)
SomeKeys == {Text(1), Text(3), <<97, Equals, 97>>, <<97, Space, Newline>>}
SomeValues == {Text(n) : n \in (0 .. 9) \cup (84 .. 96) \cup (984 .. 992)}
                \cup {<<Newline, Equals, Space>>}
SomeRests == {<<>>, formatPAXRecord(Text(2), Text(2)), <<Space>>}

SomeTimeTexts ==
  [sign : {<<>>, <<Minus>>, <<Plus>>}, whole : {<<>>, <<48>>, <<49>>, <<49, 50>>},
   dot : BOOLEAN, fraction : {<<>>, <<53>>, <<48, 53>>, <<57, 57, 57>>, <<53, 120>>, <<45, 53>>}]

SomeBodies == [1 .. 3 -> {0, 1, 127, 128, 255}] \cup {Fill(60, 255), Fill(60, 128)}

SomePerms == {0, 292, 420, 511}

\* 1970, 1979/80, a leap day, 2100, the end of 32 bits, 2107/08; odd seconds.
SomeTimes ==
  {[days |-> d, secs |-> s] :
     d \in {-1, 0, 3651, 3652, 11016, 18321, 47540, 49709, 49710, 50402, 50403},
     s \in {0, 1, 23295, 23296, 43199, 86399}}
SomeOldTimes == {<<>>, <<[days |-> 0, secs |-> 0], [days |-> 18321, secs |-> 1]>>}
SomeZones == {0, 3600, 20700, 50400, -43200, -18000, 20220, 54000, 450, -1}

SomeSettings ==
  [level : {-3, -2, -1, 0, 9, 10}, blockSize : {0, 16383, 16384, 16385, 262144}, blocks : {-1, 0, 1, 16}]
=============================================================================
