---------------------------- MODULE MCTarReader ----------------------------
(* Small archives for TarReader.  blockSize = 2 makes the padding 0 or 1.   *)
EXTENDS TarReader

Entry == [type |-> "reg", valid |-> TRUE, size |-> 0, len |-> 0, named |-> FALSE,
          rsize |-> None, fmt |-> "none", sp |-> <<>>, mapok |-> TRUE,
          total |-> None, blocks |-> 0]
File(n) == [Entry EXCEPT !.size = n, !.len = n]
Dir(n) == [Entry EXCEPT !.type = "dir", !.size = n]
LongName == [Entry EXCEPT !.type = "L", !.size = 1, !.len = 1, !.named = TRUE]
Pax(size) == [Entry EXCEPT !.type = "x", !.size = 1, !.len = 1, !.rsize = size]
PaxSparse(f, m, t) == [Entry EXCEPT !.type = "x", !.size = 1, !.len = 1,
                                    !.fmt = f, !.sp = m, !.total = t]
Frag(o, n) == [offset |-> o, numBytes |-> n]
GNUSparse(m, n, t, b) ==
  [Entry EXCEPT !.type = "sparse", !.size = n, !.len = n, !.sp = m, !.total = t,
                !.blocks = b]

SomeMap == <<Frag(1, 2), Frag(3, 0), Frag(4, 1)>>

\* Every length for every stream: cut anywhere.
AllCuts(archives, zeros) ==
  {Stream(a, z, c, k) : a \in archives, z \in zeros, c \in 0 .. 24, k \in BOOLEAN}

PlainSources ==
  AllCuts({ <<File(3), Dir(2), File(2)>>,
            <<Pax(3), LongName, [File(3) EXCEPT !.size = 0], File(1)>> }, {0, 1, 2})

SparseSources ==
  AllCuts({ <<GNUSparse(SomeMap, 3, 6, 1), File(1)>>,
            <<PaxSparse("0.1", SomeMap, 5), File(4), File(1)>>,
            <<PaxSparse("1.0", <<>>, 6), [File(5) EXCEPT !.sp = SomeMap, !.blocks = 1]>>,
            <<PaxSparse("0.0", <<Frag(1, 2)>>, None), LongName, File(3)>>,
            <<GNUSparse(<<>>, 0, 2, 0), GNUSparse(<<Frag(0, 2)>>, 2, 2, 2)>> }, {2})

BrokenSources ==
  { Stream(a, 2, 24, FALSE) : a \in
    { <<[File(0) EXCEPT !.valid = FALSE], File(1)>>,
      <<[File(2) EXCEPT !.valid = FALSE], File(1)>>,
      <<[File(2) EXCEPT !.size = -1], File(1)>>,
      <<[Pax(2) EXCEPT !.valid = FALSE], File(2)>>,
      <<Pax(Bad), File(2)>>,
      <<Pax(-3), File(2)>>,
      <<PaxSparse("0.1", SomeMap, Bad), File(3)>>,
      <<PaxSparse("0.1", SomeMap, 6), File(2), File(1)>>,
      <<PaxSparse("0.1", <<>>, 6), File(2)>>,
      <<[PaxSparse("0.1", SomeMap, 6) EXCEPT !.mapok = FALSE], File(3)>>,
      <<PaxSparse("1.0", <<>>, 6), [File(1) EXCEPT !.sp = SomeMap, !.blocks = 1]>>,
      <<GNUSparse(<<Frag(2, 1), Frag(1, 1)>>, 2, 6, 0), File(1)>>,
      <<GNUSparse(<<Frag(31, 2)>>, 2, 6, 0), File(1)>>,
      <<GNUSparse(<<Frag(2, 3)>>, 3, 4, 0), File(1)>>,
      <<[GNUSparse(SomeMap, 3, 6, 0) EXCEPT !.mapok = FALSE], File(1)>> } }

ReadSources == PlainSources \cup SparseSources \cup BrokenSources

NameSources == { Stream(<<LongName, Pax(2), File(2)>>, 2, 24, FALSE) }
=============================================================================
