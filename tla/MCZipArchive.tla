---------------------------- MODULE MCZipArchive ----------------------------
(* Small headers for ZipArchive.  With the lengths of the configurations an  *)
(* entry needs 4 bytes beside its data and its fields, and a directory       *)
(* header 3: two small entries stay below uint32max = 12.                    *)
EXTENDS ZipArchive

Header(name, text, nonUTF8, method, modified) ==
  [name |-> name, comment |-> text, nonUTF8 |-> nonUTF8, method |-> method,
   modified |-> modified]
Plain(name, method, modified) == Header(name, "none", FALSE, method, modified)

Three == <<Plain("ascii", "Store", FALSE), Plain("utf8", "Deflate", TRUE),
           Plain("bad", "LZMA", FALSE)>>
Encodings == <<Header("utf8", "ascii", TRUE, "Store", FALSE), Plain("bad", "Store", FALSE)>>
BadComment == <<Header("utf8", "bad", FALSE, "Store", FALSE), Plain("utf8", "Store", TRUE)>>
Long == <<Plain("long", "Store", FALSE), Header("ascii", "long", FALSE, "Store", FALSE)>>

\* An empty archive of the client's: it ends the data of a stored first entry,
\* and it is what the file has in front of the zip data.
EmptyArchive == [records |-> 0, size |-> 0, offset |-> 0, comment |-> 0]
InnerArchives ==
  [x \in {[t |-> "raw", unit |-> <<1, 10>>], PrefixByte(1)} |-> EmptyArchive]
NoInner == [x \in {} |-> EmptyArchive]

AllHeaders == {Three, Encodings, BadComment, Long}
StoredHeaders == {<<Plain("ascii", "Store", FALSE)>>}
DeflatedHeaders == {<<Plain("ascii", "Deflate", FALSE)>>}
=============================================================================
