---------------------------- MODULE MCZipReader ----------------------------
(* Small entries for ZipReader.                                            *)
EXTENDS ZipReader

Entry(method, data, usize, crc, desc) ==
  [method |-> method, data |-> data, ends |-> "EOF", usize |-> usize, crc |-> crc,
   desc |-> desc, header |-> TRUE]

Good == Entry("Deflate", <<1, 2>>, 2, <<1, 2>>, "right")
Other == Entry("Deflate", <<3>>, 1, <<3>>, "none")
Damaged == Entry("Deflate", <<4>>, 1, <<5>>, "none")
Short == Entry("Deflate", <<6>>, 2, <<6>>, "right")
Broken == [Entry("Deflate", <<7>>, 1, <<7>>, "none") EXCEPT !.ends = "failed"]
Stored == {Entry("Store", <<8>>, 1, <<8>>, "cut"), Entry("Store", <<8>>, 1, <<>>, "none"),
           Entry("LZMA", <<8>>, 1, <<8>>, "wrong"), Entry("LZMA", <<8>>, 1, <<9>>, "right"),
           [Entry("Store", <<>>, 0, <<>>, "none") EXCEPT !.header = FALSE]}

SomeChoices ==
  {<<Good, Other>>, <<Good, Short>>, <<Damaged, Short>>, <<Broken, Damaged>>}
    \cup {<<s, Damaged>> : s \in Stored}
=============================================================================
