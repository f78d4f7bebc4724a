-------------------------------- MODULE Pflate --------------------------------
(***************************************************************************)
(* The parallel deflate writer of pflate/pflate.go.                        *)
(*                                                                         *)
(* One caller goroutine runs Write, Flush, Close, SetConcurrency and       *)
(* Reset.  Each full buffer becomes a block: a "result" r is sent on the   *)
(* bounded channel z.results and a goroutine compressBlock is started for  *)
(* it.  A listener goroutine receives the results in the order they were   *)
(* sent, waits for the compressed bytes of each and writes them to z.w.    *)
(*                                                                         *)
(* A byte of input is a unit, numbered in the order the client passes it   *)
(* to Write, so that losing, repeating or reordering units is visible.     *)
(* A result is a slot 1, 2, ..., numbered in the order compressCurrent     *)
(* makes them.  What compression does to the bytes is abstracted: the      *)
(* compressed block is known by its slot, which remembers the data, the    *)
(* dictionary and whether the block ends the deflate stream.               *)
(***************************************************************************)
EXTENDS Integers, Sequences, FiniteSets

CONSTANTS
  tailSize,          \* length of the dictionary taken from the previous block
  defaultBlockSize,  \* block size and channel capacity NewWriter and Reset
  defaultBlocks,     \*   install
  Settings,          \* pairs <<blockSize, blocks>> a client asks for
  MaxWrite,          \* bound: units in one call of Write
  MaxSlots,          \* bound: blocks made in a behaviour
  MaxChans,          \* bound: channels made in a behaviour
  MaxResets,         \* bound: calls of Reset
  SinkFails,         \* may z.w.Write fail or write short?
  CompressorFails,   \* may flate report an error?
  ResetAnytime,      \* may Reset be called before Close has returned nil?
  WriteAfterClose    \* may Write be called after Close?

ASSUME ConstantsAssumption ==
  /\ tailSize \in Nat /\ MaxWrite \in Nat
  /\ MaxSlots \in Nat /\ MaxChans \in Nat /\ MaxResets \in Nat
  /\ defaultBlockSize \in Nat /\ defaultBlockSize > tailSize
  /\ defaultBlocks \in Nat /\ defaultBlocks > 0
  /\ Settings \subseteq (Nat \X Nat)
  /\ {SinkFails, CompressorFails, ResetAnytime, WriteAfterClose} \subseteq BOOLEAN

Slot == 1 .. MaxSlots        \* results made by compressCurrent
Chan == 0 .. MaxChans        \* values of the field z.results, by age
Sink == 0 .. MaxResets       \* values of the field z.w, by age

NoErr == "nil"
SinkErrors == {"write"}      \* z.w.Write failed or wrote less than the block
Errors == SinkErrors \cup {"flate"}

VARIABLES
  \* fields of the Writer z
  started, closed, err, blockSize, blocks, currentBuffer, prevTail,
  results,           \* the current channel
  w,                 \* the current underlying writer
  \* channels of results
  queue,             \* queue[c]: the slots waiting in channel c
  chanClosed,        \* chanClosed[c]: close(c) was called
  \* results and their compressors
  nslots,            \* number of results made
  slot,              \* slot[s]: the block, its compressor and notifyWritten
  \* listener goroutines, one per value of w on which Write was called
  listener,
  \* the caller goroutine
  pc, op, q,         \* where it is, in which method, what Write has left to copy
  ret,               \* what the last method that returned returned
  \* history
  sent,              \* units the client passed to Write before Close, since
                     \*   NewWriter or Reset
  first,             \* slots made before the last Reset
  out                \* out[k]: the slots written to sink k, in order

zVars == <<started, closed, err, blockSize, blocks, currentBuffer, prevTail,
           results, w>>
chanVars == <<queue, chanClosed>>
slotVars == <<nslots, slot>>
callVars == <<pc, op, q, ret>>
histVars == <<sent, first, out>>
vars == <<zVars, chanVars, slotVars, listener, callVars, histVars>>

SlotStates == {"none", "busy", "failing", "ready", "failed"}
ListenerStates == {"none", "start", "recv", "result", "notify", "abort", "done"}
CallerStates == {"idle", "fill", "send", "await", "check", "reset", "panic"}
Methods == {"none", "Write", "Flush", "Close"}

NoSlot == [data |-> <<>>, dict |-> <<>>, final |-> FALSE, st |-> "none",
           notified |-> FALSE]
NoListener == [pc |-> "none", ch |-> 0, r |-> 0]

Init ==
  /\ started = FALSE /\ closed = FALSE /\ err = NoErr
  /\ blockSize = defaultBlockSize /\ blocks = defaultBlocks
  /\ currentBuffer = <<>> /\ prevTail = <<>>
  /\ results = 0 /\ w = 0
  /\ queue = [c \in Chan |-> <<>>]
  /\ chanClosed = [c \in Chan |-> FALSE]
  /\ nslots = 0 /\ slot = [s \in Slot |-> NoSlot]
  /\ listener = [k \in Sink |-> NoListener]
  /\ pc = "idle" /\ op = "none" /\ q = <<>>
  /\ ret = [op |-> "none", err |-> NoErr]
  /\ sent = 0 /\ first = 0 /\ out = [k \in Sink |-> <<>>]

-----------------------------------------------------------------------------
(***************************************************************************)
(* Helpers                                                                 *)
(***************************************************************************)

\* pushError: the first error stays.  z.pushedErr is closed exactly when
\* err is set, so waiting on it is waiting for err # NoErr.
pushError(e) == err' = IF err = NoErr THEN e ELSE err

Return(method, e) ==
  /\ pc' = "idle"
  /\ ret' = [op |-> method, err |-> e]

\* (Mutated: a block too short to fill the dictionary leaves the old one.)
TailOfKeepsOld(c) ==
  IF Len(c) > tailSize THEN SubSeq(c, Len(c) - tailSize + 1, Len(c)) ELSE prevTail

\* The last tailSize units of a block, its successor's dictionary.
TailOf(c) ==
  IF Len(c) > tailSize THEN SubSeq(c, Len(c) - tailSize + 1, Len(c)) ELSE <<>>

\* The part of Write that every method runs first: start the listener.
StartListener ==
  IF started
  THEN UNCHANGED <<started, currentBuffer, listener>>
  ELSE /\ started' = TRUE
       /\ currentBuffer' = <<>>
       /\ listener' = [listener EXCEPT ![w].pc = "start"]

\* Bounds of the model: every block the call can make still has a slot.  Each
\* turn of Write's loop copies at least one unit and makes at most one block.
RoomForWrite(n) == nslots + n <= MaxSlots
RoomForFlush == nslots < MaxSlots

-----------------------------------------------------------------------------
(***************************************************************************)
(* The caller goroutine                                                    *)
(***************************************************************************)

\* SetConcurrency.  That it is called before the first Write, as newFlateWriter
\* does, is an assumption about the client: the code does not check it.  Any other
\* pair of arguments is refused, or is the current one: no change.
SetConcurrency(size, n) ==
  /\ pc = "idle" /\ ~started /\ results < MaxChans
  /\ size > tailSize /\ n > 0
  /\ <<size, n>> # <<blockSize, blocks>>
  /\ blockSize' = size
  /\ blocks' = n
  /\ results' = results + 1
  /\ UNCHANGED <<started, closed, err, currentBuffer, prevTail, w, chanVars,
                 slotVars, listener, callVars, histVars>>

\* Write(p) with len(p) = n, up to the copy loop.
WriteRefused ==
  /\ pc = "idle" /\ err # NoErr
  /\ Return("Write", err)
  /\ UNCHANGED <<zVars, chanVars, slotVars, listener, op, q, histVars>>

Write(n) ==
  /\ pc = "idle" /\ err = NoErr
  /\ (closed => WriteAfterClose) /\ RoomForWrite(n)
  /\ StartListener
  /\ pc' = "fill" /\ op' = "Write"
  /\ q' = [i \in 1 .. n |-> sent + i]
  /\ sent' = IF closed THEN sent ELSE sent + n
  /\ UNCHANGED <<closed, err, blockSize, blocks, prevTail, results, w,
                 chanVars, slotVars, ret, first, out>>

\* (Mutated: the copy ignores the room left in the buffer.)
FillIgnoresRoom ==
  /\ pc = "fill" /\ q # <<>>
  /\ currentBuffer' = currentBuffer \o q
  /\ q' = <<>>
  /\ pc' = IF Len(currentBuffer) + Len(q) >= blockSize THEN "send" ELSE "fill"
  /\ UNCHANGED <<started, closed, err, blockSize, blocks, prevTail, results, w,
                 chanVars, slotVars, listener, op, ret, histVars>>

\* One turn of Write's loop: copy what fits, and compress a full buffer.
Fill ==
  /\ pc = "fill" /\ q # <<>>
  /\ LET length == IF Len(q) + Len(currentBuffer) > blockSize
                   THEN blockSize - Len(currentBuffer) ELSE Len(q)
     IN /\ currentBuffer' = currentBuffer \o SubSeq(q, 1, length)
        /\ q' = SubSeq(q, length + 1, Len(q))
        /\ pc' = IF Len(currentBuffer) + length >= blockSize
                 THEN "send" ELSE "fill"
  /\ UNCHANGED <<started, closed, err, blockSize, blocks, prevTail, results, w,
                 chanVars, slotVars, listener, op, ret, histVars>>

WriteReturn ==
  /\ pc = "fill" /\ q = <<>>
  /\ Return("Write", err)
  /\ UNCHANGED <<zVars, chanVars, slotVars, listener, op, q, histVars>>

\* Flush and Close, when they return without compressing anything.
FlushRefused ==
  /\ pc = "idle" /\ (err # NoErr \/ closed)
  /\ \E m \in {"Flush", "Close"} : Return(m, err)
  /\ UNCHANGED <<zVars, chanVars, slotVars, listener, op, q, histVars>>

Flush ==
  /\ pc = "idle" /\ err = NoErr /\ ~closed /\ RoomForFlush
  /\ StartListener
  /\ pc' = "send" /\ op' = "Flush"
  /\ UNCHANGED <<closed, err, blockSize, blocks, prevTail, results, w,
                 chanVars, slotVars, q, ret, histVars>>

Close ==
  /\ pc = "idle" /\ err = NoErr /\ ~closed /\ RoomForFlush
  /\ closed' = TRUE
  /\ StartListener
  /\ pc' = "send" /\ op' = "Close"
  /\ UNCHANGED <<err, blockSize, blocks, prevTail, results, w,
                 chanVars, slotVars, q, ret, histVars>>

\* (Mutated: the channel has one place more.)
CompressCurrentExtra ==
  /\ pc = "send" /\ ~chanClosed[results]
  /\ Len(queue[results]) <= blocks
  /\ nslots' = nslots + 1
  /\ queue' = [queue EXCEPT ![results] = Append(@, nslots + 1)]
  /\ slot' = [slot EXCEPT ![nslots + 1] =
                [data |-> currentBuffer, dict |-> prevTail, final |-> closed,
                 st |-> "busy", notified |-> FALSE]]
  /\ prevTail' = TailOf(currentBuffer)
  /\ currentBuffer' = <<>>
  /\ pc' = IF op = "Write" THEN "check" ELSE "await"
  /\ UNCHANGED <<started, closed, err, blockSize, blocks, results, w,
                 chanClosed, listener, op, q, ret, histVars>>

\* compressCurrent: its select, when the channel takes the result.  A buffer
\* never holds more than blockSize units, so the branch that splits it is dead.
CompressCurrent ==
  /\ pc = "send" /\ ~chanClosed[results]
  /\ Len(queue[results]) < blocks
  /\ nslots' = nslots + 1
  /\ queue' = [queue EXCEPT ![results] = Append(@, nslots + 1)]
  /\ slot' = [slot EXCEPT ![nslots + 1] =
                [data |-> currentBuffer, dict |-> prevTail, final |-> closed,
                 st |-> "busy", notified |-> FALSE]]
  /\ prevTail' = TailOf(currentBuffer)
  /\ currentBuffer' = <<>>
  /\ pc' = IF op = "Write" THEN "check" ELSE "await"
  /\ UNCHANGED <<started, closed, err, blockSize, blocks, results, w,
                 chanClosed, listener, op, q, ret, histVars>>

\* (Mutated: a plain send, without the case on pushedErr.)
CompressCurrentDeaf ==
  /\ pc = "send" /\ err # NoErr /\ Len(queue[results]) < blocks
  /\ pc' = "check"
  /\ UNCHANGED <<zVars, chanVars, slotVars, listener, op, q, ret, histVars>>

\* The select of compressCurrent, when an error was pushed.
CompressCurrentError ==
  /\ pc = "send" /\ err # NoErr
  /\ pc' = "check"
  /\ UNCHANGED <<zVars, chanVars, slotVars, listener, op, q, ret, histVars>>

\* Sending on a closed channel panics.
CompressCurrentPanic ==
  /\ pc = "send" /\ chanClosed[results]
  /\ pc' = "panic"
  /\ UNCHANGED <<zVars, chanVars, slotVars, listener, op, q, ret, histVars>>

\* (Mutated: it waits for the compressor instead of the listener.)
AwaitCompressed ==
  /\ pc = "await" /\ slot[nslots].st \in {"ready", "failed"}
  /\ pc' = "check"
  /\ UNCHANGED <<zVars, chanVars, slotVars, listener, op, q, ret, histVars>>

\* compressCurrent(true): <-r.notifyWritten, r being the last result made.
AwaitWritten ==
  /\ pc = "await" /\ slot[nslots].notified
  /\ pc' = "check"
  /\ UNCHANGED <<zVars, chanVars, slotVars, listener, op, q, ret, histVars>>

\* checkError after compressCurrent, in Write, Flush and Close.
WriteCheck ==
  /\ pc = "check" /\ op = "Write"
  /\ IF err # NoErr THEN Return("Write", err)
                    ELSE pc' = "fill" /\ UNCHANGED ret
  /\ UNCHANGED <<zVars, chanVars, slotVars, listener, op, q, histVars>>

FlushCheck ==
  /\ pc = "check" /\ op = "Flush"
  /\ Return("Flush", err)
  /\ UNCHANGED <<zVars, chanVars, slotVars, listener, op, q, histVars>>

\* (Mutated: Close leaves the channel open.)
CloseCheckLeavesOpen ==
  /\ pc = "check" /\ op = "Close"
  /\ Return("Close", err)
  /\ UNCHANGED <<zVars, chanVars, slotVars, listener, op, q, histVars>>

CloseCheck ==
  /\ pc = "check" /\ op = "Close"
  /\ Return("Close", err)
  /\ chanClosed' = IF err = NoErr THEN [chanClosed EXCEPT ![results] = TRUE]
                                  ELSE chanClosed
  /\ UNCHANGED <<zVars, queue, slotVars, listener, op, q, histVars>>

\* Reset(w), up to the wg.Wait of init.  chanClosed[results] holds while idle
\* only if Close has returned nil.
Reset ==
  /\ pc = "idle" /\ w < MaxResets /\ results + 1 < MaxChans
  /\ ResetAnytime \/ chanClosed[results]
  /\ chanClosed' = IF closed THEN chanClosed
                             ELSE [chanClosed EXCEPT ![results] = TRUE]
  /\ results' = IF <<blockSize, blocks>> = <<defaultBlockSize, defaultBlocks>>
                THEN results ELSE results + 1
  /\ blockSize' = defaultBlockSize
  /\ blocks' = defaultBlocks
  /\ pc' = "reset"
  /\ UNCHANGED <<started, closed, err, currentBuffer, prevTail, w, queue,
                 slotVars, listener, op, q, ret, histVars>>

\* The rest of init, once no compressor is running.
ResetInit ==
  /\ pc = "reset"
  /\ \A s \in Slot : slot[s].st \notin {"busy", "failing"}
  /\ started' = FALSE /\ closed' = FALSE /\ err' = NoErr
  /\ currentBuffer' = <<>> /\ prevTail' = <<>>
  /\ results' = results + 1
  /\ w' = w + 1
  /\ pc' = "idle" /\ op' = "none" /\ q' = <<>>
  /\ ret' = [op |-> "none", err |-> NoErr]
  /\ sent' = 0 /\ first' = nslots
  /\ UNCHANGED <<blockSize, blocks, chanVars, slotVars, listener, out>>

-----------------------------------------------------------------------------
(***************************************************************************)
(* compressBlock for slot s                                                *)
(***************************************************************************)

CompressOK(s) ==
  /\ slot[s].st = "busy"
  /\ slot' = [slot EXCEPT ![s].st = "ready"]
  /\ UNCHANGED <<zVars, chanVars, nslots, listener, callVars, histVars>>

\* (Mutated: the error is dropped.)
CompressErrorSilent(s) ==
  /\ CompressorFails /\ slot[s].st = "busy"
  /\ slot' = [slot EXCEPT ![s].st = "failing"]
  /\ UNCHANGED <<zVars, chanVars, nslots, listener, callVars, histVars>>

\* pushError, then the deferred close(r.result) with nothing sent on it.
CompressError(s) ==
  /\ CompressorFails /\ slot[s].st = "busy"
  /\ slot' = [slot EXCEPT ![s].st = "failing"]
  /\ pushError("flate")
  /\ UNCHANGED <<started, closed, blockSize, blocks, currentBuffer, prevTail,
                 results, w, chanVars, nslots, listener, callVars, histVars>>

\* (Mutated: only the successful path closes r.result.)
CompressAbandonNoClose(s) ==
  /\ slot[s].st = "failing"
  /\ UNCHANGED vars

CompressAbandon(s) ==
  /\ slot[s].st = "failing"
  /\ slot' = [slot EXCEPT ![s].st = "failed"]
  /\ UNCHANGED <<zVars, chanVars, nslots, listener, callVars, histVars>>

-----------------------------------------------------------------------------
(***************************************************************************)
(* The listener goroutine started while z.w was sink k.  It reads the      *)
(* fields z.results, once, and z.w, for every block, when it gets to them. *)
(***************************************************************************)

Listen(k) ==
  /\ listener[k].pc = "start"
  /\ listener' = [listener EXCEPT ![k] = [pc |-> "recv", ch |-> results, r |-> 0]]
  /\ UNCHANGED <<zVars, chanVars, slotVars, callVars, histVars>>

\* (Mutated: the listener takes the newest result first.)
ReceiveNewest(k) ==
  LET ch == queue[listener[k].ch] IN
  /\ listener[k].pc = "recv" /\ ch # <<>>
  /\ listener' = [listener EXCEPT ![k].pc = "result", ![k].r = ch[Len(ch)]]
  /\ queue' = [queue EXCEPT ![listener[k].ch] = SubSeq(@, 1, Len(@) - 1)]
  /\ UNCHANGED <<zVars, chanClosed, slotVars, callVars, histVars>>

Receive(k) ==
  /\ listener[k].pc = "recv" /\ queue[listener[k].ch] # <<>>
  /\ listener' = [listener EXCEPT
                    ![k] = [@ EXCEPT !.pc = "result",
                                     !.r = Head(queue[listener[k].ch])]]
  /\ queue' = [queue EXCEPT ![listener[k].ch] = Tail(@)]
  /\ UNCHANGED <<zVars, chanClosed, slotVars, callVars, histVars>>

ListenerDone(k) ==
  /\ listener[k].pc = "recv" /\ queue[listener[k].ch] = <<>>
  /\ chanClosed[listener[k].ch]
  /\ listener' = [listener EXCEPT ![k].pc = "done"]
  /\ UNCHANGED <<zVars, chanVars, slotVars, callVars, histVars>>

\* buf := <-r.result; z.w.Write(buf).  A failed compressor left buf empty.
WriteBlock(k) ==
  /\ listener[k].pc = "result" /\ slot[listener[k].r].st \in {"ready", "failed"}
  /\ listener' = [listener EXCEPT ![k].pc = "notify"]
  /\ out' = [out EXCEPT ![w] = Append(@, listener[k].r)]
  /\ UNCHANGED <<zVars, chanVars, slotVars, callVars, sent, first>>

WriteBlockError(k) ==
  /\ SinkFails
  /\ listener[k].pc = "result" /\ slot[listener[k].r].st \in {"ready", "failed"}
  /\ listener' = [listener EXCEPT ![k].pc = "abort"]
  /\ \E e \in SinkErrors : pushError(e)
  /\ UNCHANGED <<started, closed, blockSize, blocks, currentBuffer, prevTail,
                 results, w, chanVars, slotVars, callVars, histVars>>

\* close(r.notifyWritten); the listener returns if the write had failed.
Notify(k) ==
  /\ listener[k].pc \in {"notify", "abort"}
  /\ listener' = [listener EXCEPT
                    ![k].pc = IF @ = "notify" THEN "recv" ELSE "done"]
  /\ slot' = [slot EXCEPT ![listener[k].r].notified = TRUE]
  /\ UNCHANGED <<zVars, chanVars, nslots, callVars, histVars>>

-----------------------------------------------------------------------------
CallerStep ==
  \/ Fill \/ WriteReturn \/ CompressCurrent \/ CompressCurrentError
  \/ CompressCurrentPanic \/ AwaitWritten \/ WriteCheck \/ FlushCheck
  \/ CloseCheck \/ ResetInit

ClientCall ==
  \/ \E c \in Settings : SetConcurrency(c[1], c[2])
  \/ \E n \in 0 .. MaxWrite : Write(n)
  \/ WriteRefused \/ Flush \/ Close \/ FlushRefused \/ Reset

CompressorStep(s) == CompressOK(s) \/ CompressError(s) \/ CompressAbandon(s)

ListenerStep(k) ==
  \/ Listen(k) \/ Receive(k) \/ ListenerDone(k)
  \/ WriteBlock(k) \/ WriteBlockError(k) \/ Notify(k)

Next ==
  \/ ClientCall
  \/ CallerStep
  \/ \E s \in Slot : CompressorStep(s)
  \/ \E k \in Sink : ListenerStep(k)

\* Every goroutine that can take a step of the package does; the client need
\* not call anything.
Fairness ==
  /\ WF_vars(CallerStep)
  /\ \A s \in Slot : WF_vars(CompressorStep(s))
  /\ \A k \in Sink : WF_vars(ListenerStep(k))

Spec == Init /\ [][Next]_vars
FairSpec == Spec /\ Fairness
-----------------------------------------------------------------------------
(***************************************************************************)
(* What the writer promises                                                *)
(***************************************************************************)

SlotType == [data : Seq(Nat), dict : Seq(Nat), final : BOOLEAN,
             st : SlotStates, notified : BOOLEAN]

ZTypeOK ==
  /\ started \in BOOLEAN /\ closed \in BOOLEAN /\ err \in Errors \cup {NoErr}
  /\ blockSize \in Nat /\ blockSize > tailSize /\ blocks \in Nat /\ blocks > 0
  /\ currentBuffer \in Seq(Nat) /\ prevTail \in Seq(Nat)
  /\ results \in Chan /\ w \in Sink
ChanTypeOK == queue \in [Chan -> Seq(Slot)] /\ chanClosed \in [Chan -> BOOLEAN]
SlotTypeOK == nslots \in 0 .. MaxSlots /\ slot \in [Slot -> SlotType]
ListenerTypeOK ==
  listener \in [Sink -> [pc : ListenerStates, ch : Chan, r : 0 .. MaxSlots]]
CallTypeOK ==
  /\ pc \in CallerStates /\ op \in Methods /\ q \in Seq(Nat)
  /\ ret \in [op : Methods, err : Errors \cup {NoErr}]
HistTypeOK ==
  sent \in Nat /\ first \in 0 .. MaxSlots /\ out \in [Sink -> Seq(Slot)]

\* Types, and the size of the current buffer: outside Reset, which drops it, it
\* never outgrows blockSize, so compressCurrent's branch for a buffer of more
\* than two blocks is dead code.
TypeOK ==
  /\ ZTypeOK /\ ChanTypeOK /\ SlotTypeOK /\ ListenerTypeOK
  /\ CallTypeOK /\ HistTypeOK
  /\ pc # "reset" => Len(currentBuffer) <= blockSize

\* Blocks reach the underlying writer in the order compressCurrent made them,
\* none skipped and none twice, whatever order their compressors finish in.
InOrder == \A i \in 1 .. Len(out[w]) : out[w][i] = first + i

\* The units a reader of the current sink gets: a failed block is empty there.
Written == {i \in 1 .. Len(out[w]) : slot[out[w][i]].st = "ready"}
Delivered(u) ==
  \E i \in Written : \E j \in DOMAIN slot[out[w][i]].data :
    slot[out[w][i]].data[j] = u

\* As long as no error was pushed, what reached the underlying writer is a
\* prefix of what the client wrote: no hole is left by a failed block, and
\* the units of one block follow those of the blocks before it.
StreamIntact ==
  err = NoErr =>
    /\ \A u \in 1 .. sent : Delivered(u) => \A v \in 1 .. u : Delivered(v)
    /\ \A i, i2 \in Written :
         \A j \in DOMAIN slot[out[w][i]].data, j2 \in DOMAIN slot[out[w][i2]].data :
           (i < i2 \/ (i = i2 /\ j < j2))
             => slot[out[w][i]].data[j] < slot[out[w][i2]].data[j2]

\* "Flush does not return until the data has been written": once Flush or
\* Close has returned nil, every unit passed to Write is in the sink.
FlushSync ==
  (pc = "idle" /\ ret.op \in {"Flush", "Close"} /\ ret.err = NoErr)
    => \A u \in 1 .. sent : Delivered(u)

\* A block is compressed with a dictionary a reader can rebuild: nothing, or
\* exactly the tailSize units that come just before it in the same stream.
DictionaryMatches ==
  \A s \in first + 1 .. nslots :
    (slot[s].data # <<>> /\ slot[s].dict # <<>>) =>
      /\ Len(slot[s].dict) = tailSize
      /\ \A i \in 1 .. tailSize :
           slot[s].dict[i] = slot[s].data[1] - 1 - tailSize + i

\* The blocks whose compressor is running.
Processing == {s \in Slot : slot[s].st \in {"busy", "failing"}}

\* The bound the code has on the blocks being compressed, and on the memory they
\* hold: the capacity of the channel, and the one result the listener has taken
\* out and waits for.  It is one more than documented (ConcurrencyLimit).
Backpressure == Cardinality(Processing) <= blocks + 1

\* The documented bound: SetConcurrency(250000, 16) means that "up to 16 blocks
\* can be processing at once before the writer blocks".
ConcurrencyLimit == Cardinality(Processing) <= blocks

\* The methods as their callers see them, for the abstract stream.
Stream == INSTANCE DeflateStream WITH
  accepted <- sent,
  delivered <- {u \in 1 .. sent : Delivered(u)},
  ended <- \E i \in Written : slot[out[w][i]].final,
  call <- CASE pc = "idle" -> "none" [] pc = "reset" -> "Reset"
            [] pc = "panic" -> "panic" [] OTHER -> op

\* The writer with all its goroutines implements the abstract stream: what is
\* delivered is always a prefix while there is no error, Flush and Close are
\* barriers, errors last, nothing follows the final block even if the client goes
\* on writing after Close, and Reset after Close starts anew.
ImplementsStream == Stream!Spec

\* Reset "discards the Writer z's state": no block made before Reset is
\* written to the sink given to Reset.
ResetDiscards == \A i \in 1 .. Len(out[w]) : out[w][i] > first

\* The listener has returned, or is about to, because a write failed.
ListenerGone ==
  \E k \in Sink : listener[k].pc \in {"abort", "done"} /\ ~chanClosed[listener[k].ch]

\* Every call returns (or panics), whatever compressors fail, as long as no
\* failed write has taken the listener away; and a call of Write returns even then.
CallReturns ==
  /\ (pc # "idle") ~> (pc \in {"idle", "panic"} \/ ListenerGone)
  /\ (pc # "idle" /\ op = "Write") ~> (pc \in {"idle", "panic"})

\* Flush and Close return too, with the error, when the sink fails.
FlushReturns == (pc # "idle" /\ op \in {"Flush", "Close"}) ~> (pc = "idle")

\* Once Close has returned nil the listener goroutine ends.
ListenerStops ==
  \A k \in Sink : (w = k /\ pc = "idle" /\ ret.op = "Close" /\ ret.err = NoErr)
                   ~> (listener[k].pc = "done")
=============================================================================
