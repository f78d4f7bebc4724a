---------------------------- MODULE MCTarWriter ----------------------------
(* Small headers for TarWriter.  blockSize = 2 makes the padding 0 or 1.    *)
EXTENDS TarWriter

File(n, traits) == [type |-> "reg", size |-> n, traits |-> traits]
Dir(n) == [type |-> "dir", size |-> n, traits |-> {}]

FileHeaders == {File(0, {}), File(1, {"pax"}), File(3, {}), File(1, {"bad"})}
AllHeaders == FileHeaders \cup {File(2, {"binary"}), File(-1, {}), Dir(0), Dir(2)}
=============================================================================
