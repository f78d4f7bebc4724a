---------------------------- MODULE DeflateStream ----------------------------
(***************************************************************************)
(* What a deflate writer promises, whatever goroutines are behind it: an   *)
(* ordered stream that is delivered later than it is accepted, Flush and   *)
(* Close as barriers, one lasting error, and an end that nothing follows.  *)
(* Pflate implements this specification; ZipWriter relies on it.           *)
(***************************************************************************)
EXTENDS Integers

CONSTANTS Errors, NoErr

VARIABLES
  accepted,    \* bytes passed to Write since NewWriter or Reset
  delivered,   \* the bytes, by number, that reached the underlying writer
  ended,       \* has the end of the stream reached it?
  err,         \* the first error
  call,        \* the method running, "none", or "panic"
  ret          \* the last method that returned, and its error

vars == <<accepted, delivered, ended, err, call, ret>>

Init ==
  /\ accepted = 0 /\ delivered = {} /\ ended = FALSE
  /\ err = NoErr /\ call = "none" /\ ret = [op |-> "none", err |-> NoErr]

\* Write takes any number of bytes; behind the end it takes none.
Write ==
  /\ call = "none" /\ err = NoErr /\ call' = "Write"
  /\ IF ended THEN accepted' = accepted
              ELSE accepted' \in Nat /\ accepted' >= accepted
  /\ UNCHANGED <<delivered, ended, err, ret>>

Barrier(m) ==
  /\ call = "none" /\ err = NoErr /\ ~ended /\ call' = m
  /\ UNCHANGED <<accepted, delivered, ended, err, ret>>

\* Bytes arrive at any time after they were accepted, in order as long as
\* there was no error; the end arrives during Close, with the last of them.
Deliver ==
  /\ ~ended /\ delivered \subseteq delivered' /\ delivered' \subseteq 1 .. accepted
  /\ err = NoErr => \E k \in 0 .. accepted : delivered' = 1 .. k
  /\ ended' \in BOOLEAN
  /\ ended' => call = "Close" /\ (err = NoErr => delivered' = 1 .. accepted)
  /\ UNCHANGED <<accepted, err, call, ret>>

Fail ==
  /\ err = NoErr /\ err' \in Errors /\ ~(ended /\ call = "none")
  /\ UNCHANGED <<accepted, delivered, ended, call, ret>>

\* A barrier that returns nil has let everything through.
Returns(m) ==
  /\ call' = "none" /\ ret' = [op |-> m, err |-> err]
  /\ (m \in {"Flush", "Close"} /\ err = NoErr) => delivered = 1 .. accepted
  /\ (m = "Close" /\ err = NoErr) => ended
  /\ UNCHANGED <<accepted, delivered, ended, err>>

Return == call \in {"Write", "Flush", "Close"} /\ Returns(call)

\* A call that does nothing: after an error, or a barrier behind the end.
Refuse(m) ==
  /\ call = "none" /\ (err # NoErr \/ (ended /\ m # "Write"))
  /\ Returns(m)

Panic ==
  /\ call = "Write" /\ ended /\ call' = "panic"
  /\ UNCHANGED <<accepted, delivered, ended, err, ret>>

Reset ==
  /\ call = "none" /\ ended /\ err = NoErr /\ call' = "Reset"
  /\ UNCHANGED <<accepted, delivered, ended, err, ret>>

ResetDone == call = "Reset" /\ Init'

Next ==
  \/ Write \/ Barrier("Flush") \/ Barrier("Close")
  \/ Deliver \/ Fail \/ Return \/ Panic
  \/ \E m \in {"Write", "Flush", "Close"} : Refuse(m)
  \/ Reset \/ ResetDone

Spec == Init /\ [][Next]_vars
=============================================================================
