---------------------------- MODULE PflateProofs ----------------------------
(***************************************************************************)
(* Theorems about Pflate, for every block size, channel capacity,          *)
(* dictionary length and bound.                                            *)
(***************************************************************************)
EXTENDS Pflate, FiniteSetTheorems, TLAPS

USE DEF zVars, chanVars, slotVars, callVars, histVars, Return

-----------------------------------------------------------------------------
(***************************************************************************)
(* Type correctness                                                        *)
(***************************************************************************)

\* What makes TypeOK inductive: the room each method keeps in the buffer and
\* among the slots while it is under way, and a result in the hands of every
\* listener that works on one.
CallerRoom ==
  /\ ~started => currentBuffer = <<>>
  /\ pc \in {"fill", "send", "await", "check"} => started
  /\ pc \in {"idle", "check"} /\ err = NoErr => Len(currentBuffer) < blockSize
  /\ pc = "fill" => /\ Len(currentBuffer) < blockSize
                    /\ nslots + Len(q) <= MaxSlots
                    /\ op = "Write"
  /\ pc = "send" => /\ nslots + 1 <= MaxSlots
                    /\ op = "Write" => nslots + Len(q) + 1 <= MaxSlots
  /\ pc = "await" => currentBuffer = <<>> /\ op # "Write"
  /\ pc = "check" /\ op = "Write" => nslots + Len(q) <= MaxSlots
  /\ pc = "reset" => results < MaxChans /\ w < MaxResets
  /\ pc # "reset" => Len(currentBuffer) <= blockSize

ListenerHolds ==
  \A k \in Sink : listener[k].pc \in {"result", "notify", "abort"}
                    => listener[k].r \in Slot

TypeInv == TypeOK /\ CallerRoom /\ ListenerHolds

\* Parts of TypeInv a step leaves alone.
LEMMA Frame ==
  ASSUME TypeInv
  PROVE  /\ UNCHANGED zVars => ZTypeOK'
         /\ UNCHANGED chanVars => ChanTypeOK'
         /\ UNCHANGED slotVars => SlotTypeOK'
         /\ UNCHANGED listener => ListenerTypeOK' /\ ListenerHolds'
         /\ UNCHANGED callVars => CallTypeOK'
         /\ UNCHANGED histVars => HistTypeOK'
         /\ UNCHANGED <<zVars, nslots, callVars>> => CallerRoom'
<1> USE DEF TypeInv, TypeOK
<1>1. UNCHANGED zVars => ZTypeOK'
  BY DEF ZTypeOK
<1>2. UNCHANGED chanVars => ChanTypeOK'
  BY DEF ChanTypeOK
<1>3. UNCHANGED slotVars => SlotTypeOK'
  BY DEF SlotTypeOK
<1>4. UNCHANGED listener => ListenerTypeOK' /\ ListenerHolds'
  BY DEF ListenerTypeOK, ListenerHolds
<1>5. UNCHANGED callVars => CallTypeOK'
  BY DEF CallTypeOK
<1>6. UNCHANGED histVars => HistTypeOK'
  BY DEF HistTypeOK
<1>7. UNCHANGED <<zVars, nslots, callVars>> => CallerRoom'
  BY DEF CallerRoom
<1> QED BY <1>1, <1>2, <1>3, <1>4, <1>5, <1>6, <1>7

LEMMA JoinTypeInv ==
  ASSUME ZTypeOK', ChanTypeOK', SlotTypeOK', ListenerTypeOK', CallTypeOK',
         HistTypeOK', CallerRoom', ListenerHolds'
  PROVE  TypeInv'
BY DEF TypeInv, TypeOK, CallerRoom

LEMMA InitTypeInv == Init => TypeInv
<1> SUFFICES ASSUME Init PROVE TypeInv
  OBVIOUS
<1> USE ConstantsAssumption DEF Init
<1>1. ZTypeOK
  <2>1. started \in BOOLEAN /\ closed \in BOOLEAN
    BY Zenon
  <2>2. results \in Chan /\ w \in Sink
    BY DEF Chan, Sink
  <2> QED BY <2>1, <2>2 DEF ZTypeOK, NoErr
<1>2. ChanTypeOK /\ HistTypeOK
  BY DEF ChanTypeOK, HistTypeOK
<1>3. SlotTypeOK
  BY DEF SlotTypeOK, SlotType, NoSlot, SlotStates
<1>4. ListenerTypeOK
  BY DEF ListenerTypeOK, NoListener, ListenerStates, Chan
<1>5. CallTypeOK
  BY DEF CallTypeOK, CallerStates, Methods, NoErr
<1>6. CallerRoom /\ ListenerHolds
  BY DEF CallerRoom, ListenerHolds, NoListener
<1> QED
  BY <1>1, <1>2, <1>3, <1>4, <1>5, <1>6 DEF TypeInv, TypeOK, CallerRoom

\* Starting the listener changes nothing else: the buffer was empty.
LEMMA StartListenerEffect ==
  ASSUME TypeInv, StartListener
  PROVE  /\ started' = TRUE /\ currentBuffer' = currentBuffer
         /\ ListenerTypeOK' /\ ListenerHolds'
<1>1. CASE started
  <2>1. started' = TRUE
    BY <1>1, Zenon DEF StartListener, TypeInv, TypeOK, ZTypeOK
  <2>2. UNCHANGED <<currentBuffer, listener>>
    BY <1>1, Zenon DEF StartListener
  <2> QED BY <2>1, <2>2, Frame
<1>2. CASE ~started
  <2>1. /\ started' = TRUE /\ currentBuffer' = <<>>
        /\ listener' = [listener EXCEPT ![w].pc = "start"]
    BY <1>2, Zenon DEF StartListener
  <2>2. currentBuffer' = currentBuffer
    BY <1>2, <2>1 DEF TypeInv, CallerRoom
  <2>3. ListenerTypeOK' /\ ListenerHolds'
    BY <2>1 DEF TypeInv, TypeOK, ListenerTypeOK, ListenerHolds, ListenerStates,
                ZTypeOK
  <2> QED BY <2>1, <2>2, <2>3
<1> QED BY <1>1, <1>2

\* The calls a client can make.
LEMMA ClientTypeInv == TypeInv /\ ClientCall => TypeInv'
<1> SUFFICES ASSUME TypeInv, ClientCall PROVE TypeInv'
  OBVIOUS
<1> USE ConstantsAssumption
<1>1. ASSUME NEW c \in Settings, SetConcurrency(c[1], c[2]) PROVE TypeInv'
  <2>1. c[1] \in Nat /\ c[2] \in Nat
    OBVIOUS
  <2>2. ZTypeOK'
    BY <1>1, <2>1 DEF SetConcurrency, TypeInv, TypeOK, ZTypeOK, Chan
  <2>3. CallerRoom'
    BY <1>1, <2>1 DEF SetConcurrency, TypeInv, TypeOK, CallerRoom, ZTypeOK
  <2> QED BY <1>1, <2>2, <2>3, Frame, JoinTypeInv DEF SetConcurrency
<1>2. ASSUME NEW n \in 0 .. MaxWrite, Write(n) PROVE TypeInv'
  <2> USE DEF Write, TypeInv, TypeOK
  <2>1. ZTypeOK'
    BY <1>2, StartListenerEffect DEF ZTypeOK
  <2>2. ListenerTypeOK' /\ ListenerHolds'
    BY <1>2, StartListenerEffect
  <2>3. q' \in Seq(Nat) /\ Len(q') = n
    BY <1>2 DEF HistTypeOK
  <2>4. CallTypeOK'
    BY <1>2, <2>3 DEF CallTypeOK, CallerStates, Methods
  <2>5. HistTypeOK'
    BY <1>2 DEF HistTypeOK
  <2>6. CallerRoom'
    BY <1>2, <2>3, StartListenerEffect DEF CallerRoom, ZTypeOK, RoomForWrite
  <2> QED BY <1>2, <2>1, <2>2, <2>4, <2>5, <2>6, Frame, JoinTypeInv
<1>3. CASE WriteRefused \/ FlushRefused
  <2>1. CallTypeOK'
    BY <1>3 DEF WriteRefused, FlushRefused, TypeInv, TypeOK, ZTypeOK,
                CallTypeOK, CallerStates, Methods
  <2>2. CallerRoom'
    BY <1>3 DEF WriteRefused, FlushRefused, TypeInv, CallerRoom
  <2> QED BY <1>3, <2>1, <2>2, Frame, JoinTypeInv DEF WriteRefused, FlushRefused
<1>4. CASE Flush \/ Close
  <2> USE DEF Flush, Close, TypeInv, TypeOK
  <2>1. ZTypeOK'
    BY <1>4, StartListenerEffect DEF ZTypeOK
  <2>2. ListenerTypeOK' /\ ListenerHolds'
    BY <1>4, StartListenerEffect
  <2>3. CallTypeOK'
    BY <1>4 DEF CallTypeOK, CallerStates, Methods
  <2>4. CallerRoom'
    <3>1. pc' = "send" /\ op' \in {"Flush", "Close"} /\ started' = TRUE
      BY <1>4, StartListenerEffect
    <3>2. nslots' + 1 <= MaxSlots
      BY <1>4 DEF SlotTypeOK, RoomForFlush
    <3>3. Len(currentBuffer') <= blockSize'
      <4>1. Len(currentBuffer) <= blockSize
        BY <1>4 DEF CallerRoom
      <4>2. currentBuffer' = currentBuffer /\ blockSize' = blockSize
        BY <1>4, StartListenerEffect
      <4> QED BY <4>1, <4>2
    <3> QED BY <3>1, <3>2, <3>3 DEF CallerRoom
  <2> QED BY <1>4, <2>1, <2>2, <2>3, <2>4, Frame, JoinTypeInv
<1>5. CASE Reset
  <2> USE DEF Reset, TypeInv, TypeOK
  <2>1. ZTypeOK'
    BY <1>5 DEF ZTypeOK, Chan
  <2>2. ChanTypeOK'
    BY <1>5 DEF ChanTypeOK
  <2>3. CallTypeOK'
    BY <1>5 DEF CallTypeOK, CallerStates
  <2>4. CallerRoom'
    BY <1>5 DEF CallerRoom, ZTypeOK, Chan
  <2> QED BY <1>5, <2>1, <2>2, <2>3, <2>4, Frame, JoinTypeInv
<1> QED BY <1>1, <1>2, <1>3, <1>4, <1>5 DEF ClientCall

\* Cutting the first units of one sequence and appending them to another.
LEMMA CopyLemma ==
  \A a, b \in Seq(Nat) : \A l \in 0 .. Len(b) :
    /\ a \o SubSeq(b, 1, l) \in Seq(Nat)
    /\ Len(a \o SubSeq(b, 1, l)) = Len(a) + l
    /\ SubSeq(b, l + 1, Len(b)) \in Seq(Nat)
    /\ Len(SubSeq(b, l + 1, Len(b))) = Len(b) - l
<1> TAKE a, b \in Seq(Nat)
<1> TAKE l \in 0 .. Len(b)
<1>1. SubSeq(b, 1, l) \in Seq(Nat) /\ Len(SubSeq(b, 1, l)) = l
  OBVIOUS
<1>2. SubSeq(b, l + 1, Len(b)) \in Seq(Nat)
  OBVIOUS
<1>3. Len(SubSeq(b, l + 1, Len(b))) = Len(b) - l
  OBVIOUS
<1> QED BY <1>1, <1>2, <1>3

\* The methods, once called.
LEMMA CallerTypeInv == TypeInv /\ CallerStep => TypeInv'
<1> SUFFICES ASSUME TypeInv, CallerStep PROVE TypeInv'
  OBVIOUS
<1> USE ConstantsAssumption
<1>1. CASE Fill
  <2> DEFINE length == IF Len(q) + Len(currentBuffer) > blockSize
                       THEN blockSize - Len(currentBuffer) ELSE Len(q)
  <2> USE DEF TypeInv, TypeOK, CallTypeOK, ZTypeOK
  <2>1. /\ Len(q) \in Nat /\ Len(currentBuffer) \in Nat /\ Len(q) > 0
        /\ pc = "fill"
    <3>1. q \in Seq(Nat) /\ currentBuffer \in Seq(Nat)
      OBVIOUS
    <3>2. q # <<>> /\ pc = "fill"
      BY <1>1, Zenon DEF Fill
    <3> HIDE DEF TypeInv, TypeOK, CallTypeOK, ZTypeOK
    <3> QED BY <3>1, <3>2
  <2>2. length \in 1 .. Len(q) /\ Len(currentBuffer) + length <= blockSize
    BY <2>1 DEF CallerRoom
  <2>a. /\ currentBuffer' = currentBuffer \o SubSeq(q, 1, length)
        /\ q' = SubSeq(q, length + 1, Len(q))
        /\ pc' = IF Len(currentBuffer) + length >= blockSize
                 THEN "send" ELSE "fill"
        /\ UNCHANGED <<started, closed, err, blockSize, blocks, prevTail, results,
             w, op, nslots, ret>>
    BY <1>1 DEF Fill
  <2> HIDE DEF length
  <2>3. /\ currentBuffer' \in Seq(Nat)
        /\ Len(currentBuffer') = Len(currentBuffer) + length
        /\ q' \in Seq(Nat) /\ Len(q') = Len(q) - length
    <3>1. length \in 0 .. Len(q) /\ q \in Seq(Nat) /\ currentBuffer \in Seq(Nat)
      BY <2>1, <2>2
    <3>2. /\ currentBuffer \o SubSeq(q, 1, length) \in Seq(Nat)
          /\ Len(currentBuffer \o SubSeq(q, 1, length)) = Len(currentBuffer) + length
          /\ SubSeq(q, length + 1, Len(q)) \in Seq(Nat)
          /\ Len(SubSeq(q, length + 1, Len(q))) = Len(q) - length
      BY <3>1, CopyLemma, Zenon
    <3> QED BY <2>a, <3>2, Zenon
  <2>4. ZTypeOK'
    BY <2>3, <2>a
  <2>5. CallTypeOK'
    BY <2>3, <2>a DEF CallerStates
  <2>6. CallerRoom'
    <3>1. started
      BY <2>1, Zenon DEF CallerRoom
    <3> QED BY <2>1, <2>2, <2>3, <2>a, <3>1 DEF CallerRoom, SlotTypeOK
  <2> QED BY <1>1, <2>4, <2>5, <2>6, Frame, JoinTypeInv DEF Fill
<1>2. CASE WriteReturn \/ WriteCheck \/ FlushCheck \/ CloseCheck
  <2> USE DEF WriteReturn, WriteCheck, FlushCheck, CloseCheck, TypeInv, TypeOK
  <2>1. CallTypeOK'
    BY <1>2 DEF ZTypeOK, CallTypeOK, CallerStates, Methods
  <2>2. CallerRoom'
    BY <1>2 DEF CallerRoom, CallTypeOK
  <2>3. ChanTypeOK'
    BY <1>2 DEF ChanTypeOK
  <2> QED BY <1>2, <2>1, <2>2, <2>3, Frame, JoinTypeInv
<1>3. CASE CompressCurrentError \/ CompressCurrentPanic \/ AwaitWritten
  <2> USE DEF CompressCurrentError, CompressCurrentPanic, AwaitWritten, TypeInv, TypeOK
  <2>1. CallTypeOK'
    BY <1>3 DEF CallTypeOK, CallerStates
  <2>2. CASE AwaitWritten
    <3>1. CallerRoom'
      BY <2>2 DEF CallerRoom, ZTypeOK
    <3> QED BY <2>1, <2>2, <3>1, Frame, JoinTypeInv
  <2>3. CASE CompressCurrentError \/ CompressCurrentPanic
    <3>1. CallerRoom'
      BY <2>3 DEF CallerRoom, CallTypeOK, SlotTypeOK
    <3> QED BY <2>1, <2>3, <3>1, Frame, JoinTypeInv
  <2> QED BY <1>3, <2>2, <2>3
<1>4. CASE CompressCurrent
  <2> USE DEF CompressCurrent, TypeInv, TypeOK
  <2>1. nslots' \in Slot
    BY <1>4 DEF CallerRoom, SlotTypeOK, Slot
  <2>2. TailOf(currentBuffer) \in Seq(Nat)
    BY DEF TailOf, ZTypeOK
  <2>3. ZTypeOK'
    BY <1>4, <2>2 DEF ZTypeOK
  <2>4. SlotTypeOK'
    BY <1>4, <2>1 DEF SlotTypeOK, SlotType, SlotStates, ZTypeOK, Slot
  <2>5. ChanTypeOK'
    BY <1>4, <2>1 DEF ChanTypeOK, ZTypeOK
  <2>6. CallTypeOK'
    BY <1>4 DEF CallTypeOK, CallerStates
  <2>7. CallerRoom'
    BY <1>4 DEF CallerRoom, ZTypeOK, SlotTypeOK
  <2> QED BY <1>4, <2>3, <2>4, <2>5, <2>6, <2>7, Frame, JoinTypeInv
<1>5. CASE ResetInit
  <2> USE DEF ResetInit, TypeInv, TypeOK
  <2>1. ZTypeOK'
    <3>1. started' \in BOOLEAN /\ closed' \in BOOLEAN
      BY <1>5, Zenon
    <3>2. results' \in Chan /\ w' \in Sink
      BY <1>5 DEF ZTypeOK, CallerRoom, Chan, Sink
    <3> QED BY <1>5, <3>1, <3>2 DEF ZTypeOK, NoErr
  <2>2. CallTypeOK'
    BY <1>5 DEF CallTypeOK, CallerStates, Methods
  <2>3. HistTypeOK'
    BY <1>5 DEF HistTypeOK, SlotTypeOK
  <2>4. CallerRoom'
    BY <1>5 DEF CallerRoom, ZTypeOK
  <2> QED BY <1>5, <2>1, <2>2, <2>3, <2>4, Frame, JoinTypeInv
<1> QED BY <1>1, <1>2, <1>3, <1>4, <1>5 DEF CallerStep

\* The compressors.
LEMMA CompressorTypeInv ==
  ASSUME TypeInv, NEW s \in Slot, CompressorStep(s) PROVE TypeInv'
<1> USE ConstantsAssumption DEF TypeInv, TypeOK
<1>1. CASE CompressOK(s) \/ CompressAbandon(s)
  <2> USE DEF CompressOK, CompressAbandon
  <2>1. SlotTypeOK'
    <3>1. PICK st \in SlotStates : slot' = [slot EXCEPT ![s].st = st]
      BY <1>1 DEF SlotStates
    <3> QED BY <1>1, <3>1 DEF SlotTypeOK, SlotType
  <2> QED BY <1>1, <2>1, Frame, JoinTypeInv
<1>2. CASE CompressError(s)
  <2> USE DEF CompressError, pushError
  <2>1. SlotTypeOK'
    BY <1>2 DEF SlotTypeOK, SlotType, SlotStates
  <2>2. ZTypeOK' /\ err' # NoErr
    BY <1>2 DEF ZTypeOK, Errors, NoErr
  <2>3. CallerRoom'
    BY <1>2, <2>2 DEF CallerRoom
  <2> QED BY <1>2, <2>1, <2>2, <2>3, Frame, JoinTypeInv
<1> QED BY <1>1, <1>2 DEF CompressorStep

\* The listeners.
LEMMA ListenerTypeInv ==
  ASSUME TypeInv, NEW k \in Sink, ListenerStep(k) PROVE TypeInv'
<1> USE ConstantsAssumption DEF TypeInv, TypeOK
<1>1. CASE Listen(k) \/ ListenerDone(k)
  <2>1. ListenerTypeOK' /\ ListenerHolds'
    <3>1. CASE Listen(k)
      BY <3>1 DEF Listen, ListenerTypeOK, ListenerHolds, ListenerStates, ZTypeOK
    <3>2. CASE ListenerDone(k)
      BY <3>2 DEF ListenerDone, ListenerTypeOK, ListenerHolds, ListenerStates
    <3> QED BY <1>1, <3>1, <3>2
  <2> QED BY <1>1, <2>1, Frame, JoinTypeInv DEF Listen, ListenerDone
<1>2. CASE Receive(k)
  <2> USE DEF Receive, ListenerTypeOK, ChanTypeOK
  <2>1. queue[listener[k].ch] \in Seq(Slot) /\ listener[k].ch \in Chan
    OBVIOUS
  <2>2. Head(queue[listener[k].ch]) \in Slot /\ Tail(queue[listener[k].ch]) \in Seq(Slot)
    BY <1>2, <2>1
  <2>3. ListenerTypeOK' /\ ListenerHolds'
    <3>1. PICK h \in Slot :
            listener' = [listener EXCEPT ![k] = [@ EXCEPT !.pc = "result", !.r = h]]
      BY <1>2, <2>2
    <3>2. h \in 0 .. MaxSlots /\ "result" \in ListenerStates
      BY DEF Slot, ListenerStates
    <3> QED BY <3>1, <3>2 DEF ListenerHolds
  <2>4. ChanTypeOK'
    BY <1>2, <2>2
  <2> QED BY <1>2, <2>3, <2>4, Frame, JoinTypeInv
<1>3. CASE WriteBlock(k)
  <2> USE DEF WriteBlock
  <2>1. ListenerTypeOK' /\ ListenerHolds'
    BY <1>3 DEF ListenerTypeOK, ListenerHolds, ListenerStates
  <2>2. HistTypeOK'
    BY <1>3 DEF HistTypeOK, ListenerHolds, ZTypeOK
  <2> QED BY <1>3, <2>1, <2>2, Frame, JoinTypeInv
<1>4. CASE WriteBlockError(k)
  <2> USE DEF WriteBlockError, pushError
  <2>1. ListenerTypeOK' /\ ListenerHolds'
    BY <1>4 DEF ListenerTypeOK, ListenerHolds, ListenerStates
  <2>2. ZTypeOK' /\ err' # NoErr
    BY <1>4 DEF ZTypeOK, Errors, SinkErrors, NoErr
  <2>3. CallerRoom'
    BY <1>4, <2>2 DEF CallerRoom
  <2> QED BY <1>4, <2>1, <2>2, <2>3, Frame, JoinTypeInv
<1>5. CASE Notify(k)
  <2> USE DEF Notify
  <2>1. ListenerTypeOK' /\ ListenerHolds'
    BY <1>5 DEF ListenerTypeOK, ListenerHolds, ListenerStates
  <2>2. SlotTypeOK'
    BY <1>5 DEF SlotTypeOK, SlotType
  <2> QED BY <1>5, <2>1, <2>2, Frame, JoinTypeInv
<1> QED BY <1>1, <1>2, <1>3, <1>4, <1>5 DEF ListenerStep

LEMMA StutterTypeInv == TypeInv /\ UNCHANGED vars => TypeInv'
BY Frame, JoinTypeInv DEF vars

\* Every reachable state is well typed, and the buffer compressCurrent is given
\* is never longer than a block.
THEOREM TypeCorrect == Spec => []TypeOK
<1>1. TypeInv /\ [Next]_vars => TypeInv'
  BY ClientTypeInv, CallerTypeInv, CompressorTypeInv, ListenerTypeInv,
     StutterTypeInv DEF Next
<1>2. TypeInv => TypeOK
  BY DEF TypeInv
<1> QED BY InitTypeInv, <1>1, <1>2, PTL DEF Spec
-----------------------------------------------------------------------------
(***************************************************************************)
(* Blocks are written in order                                             *)
(*                                                                         *)
(* N blocks of the stream are in the sink; the listener of the current     *)
(* sink may have taken one more out of the channel; the channel holds the  *)
(* rest, in order.  Listeners of earlier sinks are inert, because Reset is *)
(* called only after Close has returned nil, when everything is written.   *)
(***************************************************************************)

L == listener[w]
N == first + Len(out[w])
Taken == IF L.pc \in {"result", "abort"} THEN N + 1 ELSE N

\* The channel holds the blocks the listener has not taken, in order.
QueueRest ==
  (pc # "reset" /\ L.pc # "done") =>
    /\ Len(queue[results]) = nslots - Taken
    /\ \A i \in 1 .. Len(queue[results]) : queue[results][i] = Taken + i

\* The listener of the current sink works on the next block.
ListenerNext ==
  /\ L.pc \in {"none", "start"} => out[w] = <<>>
  /\ L.pc \in {"none", "start"} => pc # "reset"
  /\ L.pc \in {"result", "abort"} => L.r = N + 1
  /\ L.pc = "notify" => L.r = N
  /\ L.pc \in {"recv", "result", "notify", "abort"} =>
       IF pc = "reset" THEN L.ch <= results ELSE L.ch = results
  /\ L.pc = "none" => nslots = first
  /\ ~started <=> L.pc = "none"

\* What is left of earlier streams never moves again; nothing of a later one
\* is there yet.
OthersInert ==
  /\ \A k \in Sink : k < w =>
       /\ listener[k].pc \in {"recv", "done"}
       /\ listener[k].pc = "recv" =>
            listener[k].ch < results /\ queue[listener[k].ch] = <<>>
  /\ \A k \in Sink : k > w => listener[k].pc = "none" /\ out[k] = <<>>
  /\ \A c \in Chan : c > results => queue[c] = <<>> /\ ~chanClosed[c]

\* notifyWritten is closed only for a block that is in the sink, or once an
\* error was pushed.
NotifiedWritten ==
  \A s \in first + 1 .. nslots : (slot[s].notified /\ err = NoErr) =>
    /\ s <= N
    /\ L.pc = "notify" => s < N

\* Flush and Close go on without an error only when the last block is written;
\* then the channel is empty and the listener waits.
ClosedComplete ==
  /\ pc = "await" => nslots > first
  /\ (pc = "check" /\ op # "Write" /\ err = NoErr)
       => nslots > first /\ slot[nslots].notified
  /\ L.pc = "abort" => err # NoErr
  /\ (L.pc = "done" /\ err = NoErr) => (pc = "reset" \/ chanClosed[results])
  /\ (pc = "reset" \/ chanClosed[results]) =>
       /\ N = nslots /\ L.pc \in {"recv", "done"}
       /\ L.pc = "recv" => queue[L.ch] = <<>>

OrderInv ==
  /\ first <= nslots
  /\ InOrder /\ QueueRest /\ ListenerNext /\ OthersInert
  /\ NotifiedWritten /\ ClosedComplete

\* Steps of the caller that touch neither blocks, channels nor listeners.
LEMMA OrderFrame ==
  ASSUME TypeInv, OrderInv, pc # "reset", pc' # "reset", started' = started,
         UNCHANGED <<err, results, w, queue, chanClosed, nslots, slot, listener,
                     first, out>>,
         pc' = "await" => nslots > first,
         (pc' = "check" /\ op' # "Write" /\ err = NoErr)
           => nslots > first /\ slot[nslots].notified
  PROVE  OrderInv'
<1>1. L' = L /\ N' = N /\ Taken' = Taken
  BY DEF L, N, Taken
<1> USE <1>1 DEF OrderInv
<1>2. InOrder'
  BY DEF InOrder
<1>3. QueueRest'
  BY DEF QueueRest
<1>4. ListenerNext'
  BY DEF ListenerNext
<1>5. OthersInert'
  BY DEF OthersInert
<1>6. NotifiedWritten'
  BY DEF NotifiedWritten
<1>7. ClosedComplete'
  BY DEF ClosedComplete
<1> QED BY <1>2, <1>3, <1>4, <1>5, <1>6, <1>7

LEMMA InitOrderInv == Init => OrderInv
<1> SUFFICES ASSUME Init PROVE OrderInv
  OBVIOUS
<1> USE ConstantsAssumption DEF Init
<1>1. w \in Sink /\ results \in Chan
  BY DEF Sink, Chan
<1>2. out[w] = <<>> /\ L = NoListener /\ N = 0 /\ Taken = 0
  BY <1>1 DEF L, N, Taken, NoListener
<1>3. InOrder
  BY <1>2 DEF InOrder
<1>4. QueueRest
  BY <1>1, <1>2 DEF QueueRest
<1>5. ListenerNext
  BY <1>2 DEF ListenerNext, NoListener
<1>6. OthersInert
  BY <1>1 DEF OthersInert, Sink, Chan, NoListener
<1>7. NotifiedWritten
  BY DEF NotifiedWritten
<1>8. ClosedComplete
  BY <1>1, <1>2 DEF ClosedComplete, NoListener
<1> QED BY <1>3, <1>4, <1>5, <1>6, <1>7, <1>8 DEF OrderInv

\* Reset is called as the zip writer would: on a stream that was closed.
LEMMA ClientOrderInv ==
  ASSUME ~ResetAnytime, TypeInv, OrderInv, ClientCall PROVE OrderInv'
<1> USE ConstantsAssumption
<1>0. /\ w \in Sink /\ results \in Chan /\ first \in Nat /\ nslots \in Nat
      /\ Len(out[w]) \in Nat /\ N \in Nat
  BY DEF TypeInv, TypeOK, ZTypeOK, HistTypeOK, SlotTypeOK, N
<1>1. CASE WriteRefused \/ FlushRefused
  BY <1>1, OrderFrame DEF WriteRefused, FlushRefused
<1>2. ASSUME NEW c \in Settings, SetConcurrency(c[1], c[2]) PROVE OrderInv'
  <2> USE <1>2 DEF SetConcurrency
  <2>1. L' = L /\ N' = N /\ Taken' = Taken /\ L.pc = "none" /\ nslots = first
        /\ out[w] = <<>> /\ Taken = first
    BY <1>0 DEF L, N, Taken, OrderInv, ListenerNext
  <2>2. results + 1 \in Chan /\ queue[results + 1] = <<>> /\ ~chanClosed[results + 1]
    BY <1>0 DEF OrderInv, OthersInert, Chan
  <2>3. InOrder' /\ NotifiedWritten'
    BY <1>0, <2>1 DEF OrderInv, InOrder, NotifiedWritten
  <2>4. QueueRest'
    BY <1>0, <2>1, <2>2 DEF QueueRest
  <2>5. ListenerNext'
    BY <1>0, <2>1 DEF OrderInv, ListenerNext
  <2>6. OthersInert'
    <3>1. \A k \in Sink : listener[k].ch \in Nat
      BY DEF TypeInv, TypeOK, ListenerTypeOK, Chan
    <3>2. results' \in Nat /\ results' > results
      BY <1>0 DEF Chan
    <3>3. \A c2 \in Chan : c2 > results' => c2 > results
      BY <1>0, <3>2 DEF Chan
    <3> QED BY <1>0, <3>1, <3>2, <3>3 DEF OrderInv, OthersInert, Chan
  <2>7. ClosedComplete'
    BY <1>0, <2>1, <2>2 DEF OrderInv, ClosedComplete
  <2> QED BY <2>3, <2>4, <2>5, <2>6, <2>7 DEF OrderInv
<1>3. ASSUME StartListener, pc = "idle", pc' \in {"fill", "send"},
             UNCHANGED <<err, results, w, queue, chanClosed, nslots, slot, first, out>>
      PROVE  OrderInv'
  <2>1. CASE started
    <3>1. started' = started /\ listener' = listener
      BY <2>1, <1>3, Zenon DEF StartListener
    <3> QED BY <1>3, <3>1, OrderFrame
  <2>2. CASE ~started
    <3>1. started' = TRUE /\ listener' = [listener EXCEPT ![w].pc = "start"]
      BY <2>2, <1>3, Zenon DEF StartListener
    <3>2. L.pc = "none" /\ L'.pc = "start" /\ nslots = first /\ out[w] = <<>>
          /\ N' = N /\ Taken' = Taken /\ Taken = N
          /\ \A k \in Sink : k # w => listener'[k] = listener[k]
      BY <1>0, <1>3, <2>2, <3>1
      DEF L, N, Taken, OrderInv, ListenerNext, TypeInv, TypeOK, ListenerTypeOK
    <3>3. InOrder' /\ NotifiedWritten'
      BY <1>0, <1>3, <3>2 DEF OrderInv, InOrder, NotifiedWritten
    <3>4. QueueRest'
      BY <1>0, <1>3, <3>2 DEF OrderInv, QueueRest
    <3>5. ListenerNext'
      BY <1>0, <1>3, <3>1, <3>2 DEF OrderInv, ListenerNext
    <3>6. OthersInert'
      BY <1>0, <1>3, <3>2 DEF OrderInv, OthersInert, Sink
    <3>7. ClosedComplete'
      BY <1>0, <1>3, <3>2 DEF OrderInv, ClosedComplete
    <3> QED BY <1>3, <3>3, <3>4, <3>5, <3>6, <3>7 DEF OrderInv
  <2> QED BY <2>1, <2>2
<1>4. ASSUME NEW n \in 0 .. MaxWrite, Write(n) PROVE OrderInv'
  BY <1>3, <1>4 DEF Write
<1>5. CASE Flush \/ Close
  BY <1>3, <1>5 DEF Flush, Close
<1>6. CASE Reset
  <2> USE <1>6 DEF Reset
  <2>1. chanClosed[results] /\ pc # "reset" /\ pc' = "reset"
    OBVIOUS
  <2>2. /\ L' = L /\ N' = N /\ N = nslots /\ L.pc \in {"recv", "done"}
        /\ L.pc = "recv" => L.ch = results /\ queue[L.ch] = <<>>
        /\ results' \in Nat /\ results' >= results
    BY <1>0, <2>1 DEF L, N, OrderInv, ClosedComplete, ListenerNext, Chan
  <2>3. InOrder' /\ NotifiedWritten'
    BY <1>0, <2>2 DEF OrderInv, InOrder, NotifiedWritten
  <2>4. QueueRest'
    BY <2>1 DEF QueueRest
  <2>5. ListenerNext'
    BY <1>0, <2>1, <2>2 DEF OrderInv, ListenerNext, Chan
  <2>6. OthersInert'
    <3>1. \A k \in Sink : listener[k].ch \in Nat
      BY DEF TypeInv, TypeOK, ListenerTypeOK, Chan
    <3>2. \A c \in Chan : c > results' => chanClosed'[c] = chanClosed[c]
      BY <1>0, <2>2 DEF Chan, TypeInv, TypeOK, ChanTypeOK
    <3>3. \A c \in Chan : c > results' => c > results
      BY <1>0, <2>2 DEF Chan
    <3> QED BY <1>0, <2>2, <3>1, <3>2, <3>3 DEF OrderInv, OthersInert, Chan
  <2>7. ClosedComplete'
    BY <1>0, <2>1, <2>2 DEF OrderInv, ClosedComplete
  <2> QED BY <2>3, <2>4, <2>5, <2>6, <2>7 DEF OrderInv
<1> QED BY <1>1, <1>2, <1>4, <1>5, <1>6 DEF ClientCall
\* The last block of a stream is written when Flush or Close finds no error.
LEMMA LastWritten ==
  ASSUME TypeInv, OrderInv, pc = "check", op # "Write", err = NoErr
  PROVE  /\ N = nslots /\ L.pc \in {"recv", "done"}
         /\ L.pc = "recv" => queue[L.ch] = <<>> /\ L.ch = results
<1> USE ConstantsAssumption
<1>0. /\ w \in Sink /\ results \in Chan /\ first \in Nat /\ nslots \in Nat
      /\ N \in Nat /\ L.pc \in ListenerStates /\ queue[results] \in Seq(Slot)
  BY DEF TypeInv, TypeOK, ZTypeOK, HistTypeOK, SlotTypeOK, N, L, ListenerTypeOK,
         ChanTypeOK
<1>1. nslots > first /\ slot[nslots].notified
  BY DEF OrderInv, ClosedComplete
<1>2. nslots <= N /\ (L.pc = "notify" => nslots < N)
  BY <1>0, <1>1 DEF OrderInv, NotifiedWritten
<1>3. CASE L.pc = "done"
  BY <1>3 DEF OrderInv, ClosedComplete
<1>4. CASE L.pc # "done"
  <2>1. Len(queue[results]) = nslots - Taken /\ Len(queue[results]) \in Nat
    BY <1>0, <1>4 DEF OrderInv, QueueRest
  <2>2. Taken = N /\ N = nslots /\ L.pc \notin {"result", "abort", "notify"}
    BY <1>0, <1>2, <2>1 DEF Taken
  <2>3. L.pc \notin {"none", "start"}
    BY <1>0, <1>1, <2>2 DEF N, OrderInv, ListenerNext
  <2>4. L.pc = "recv"
    BY <1>0, <1>4, <2>2, <2>3 DEF ListenerStates
  <2>5. L.ch = results /\ queue[results] = <<>>
    BY <1>0, <2>1, <2>2, <2>4 DEF OrderInv, ListenerNext
  <2> QED BY <2>2, <2>4, <2>5
<1> QED BY <1>3, <1>4

LEMMA CallerOrderInv == ASSUME TypeInv, OrderInv, CallerStep PROVE OrderInv'
<1> USE ConstantsAssumption
<1>0. /\ w \in Sink /\ results \in Chan /\ first \in Nat /\ nslots \in Nat
      /\ Len(out[w]) \in Nat /\ N \in Nat /\ queue[results] \in Seq(Slot)
  BY DEF TypeInv, TypeOK, ZTypeOK, HistTypeOK, SlotTypeOK, N, ChanTypeOK
<1>1. CASE Fill \/ WriteReturn \/ CompressCurrentError \/ CompressCurrentPanic
           \/ WriteCheck \/ FlushCheck
  BY <1>1, OrderFrame DEF Fill, WriteReturn, CompressCurrentError,
     CompressCurrentPanic, WriteCheck, FlushCheck
<1>2. CASE AwaitWritten
  BY <1>2, OrderFrame DEF AwaitWritten, OrderInv, ClosedComplete
<1>3. CASE CloseCheck
  <2>1. CASE err # NoErr
    <3>1. chanClosed' = chanClosed
      BY <1>3, <2>1 DEF CloseCheck
    <3> QED BY <1>3, <2>1, <3>1, OrderFrame DEF CloseCheck
  <2>2. CASE err = NoErr
    <3> USE <1>3, <2>2 DEF CloseCheck
    <3>1. /\ N = nslots /\ L.pc \in {"recv", "done"}
          /\ L.pc = "recv" => queue[L.ch] = <<>> /\ L.ch = results
      BY LastWritten
    <3>2. /\ L' = L /\ N' = N /\ Taken' = Taken
          /\ \A c \in Chan : c # results => chanClosed'[c] = chanClosed[c]
          /\ chanClosed'[results] = TRUE
      BY <1>0 DEF L, N, Taken, TypeInv, TypeOK, ChanTypeOK
    <3>3. InOrder' /\ QueueRest' /\ ListenerNext' /\ NotifiedWritten'
      BY <3>2 DEF OrderInv, InOrder, QueueRest, ListenerNext, NotifiedWritten
    <3>4. OthersInert'
      BY <1>0, <3>2 DEF OrderInv, OthersInert, Chan
    <3>5. ClosedComplete'
      BY <1>0, <3>1, <3>2 DEF OrderInv, ClosedComplete
    <3> QED BY <3>3, <3>4, <3>5 DEF OrderInv
  <2> QED BY <2>1, <2>2
<1>4. CASE CompressCurrent
  <2> USE <1>4 DEF CompressCurrent
  <2>0. nslots + 1 \in Slot /\ pc # "reset" /\ pc' \in {"check", "await"}
        /\ (pc' = "check" => op' = "Write")
    BY <1>0 DEF TypeInv, CallerRoom, Slot
  <2>1. /\ L' = L /\ N' = N /\ Taken' = Taken /\ nslots' = nslots + 1
        /\ queue'[results] = Append(queue[results], nslots + 1)
        /\ \A c \in Chan : c # results => queue'[c] = queue[c]
        /\ \A s \in Slot : s # nslots + 1 => slot'[s] = slot[s]
        /\ slot'[nslots + 1].notified = FALSE
    BY <1>0, <2>0 DEF L, N, Taken, TypeInv, TypeOK, ChanTypeOK, SlotTypeOK
  <2>2. InOrder'
    BY DEF OrderInv, InOrder
  <2>3. QueueRest'
    <3>1. Len(queue'[results]) = Len(queue[results]) + 1
          /\ \A i \in 1 .. Len(queue[results]) : queue'[results][i] = queue[results][i]
          /\ queue'[results][Len(queue[results]) + 1] = nslots + 1
          /\ Len(queue[results]) \in Nat
      BY <1>0, <2>0, <2>1
    <3>2. Taken \in Nat
      BY <1>0 DEF Taken
    <3> QED BY <1>0, <2>0, <2>1, <3>1, <3>2 DEF OrderInv, QueueRest
  <2>4. ListenerNext'
    <3>1. L.pc # "none"
      BY DEF TypeInv, CallerRoom, OrderInv, ListenerNext
    <3> QED BY <1>0, <2>0, <2>1, <3>1 DEF OrderInv, ListenerNext
  <2>5. OthersInert'
    <3>1. \A k \in Sink : listener[k].ch \in Chan
      BY DEF TypeInv, TypeOK, ListenerTypeOK
    <3> QED BY <1>0, <2>1, <3>1 DEF OrderInv, OthersInert, Chan
  <2>6. NotifiedWritten'
    <3> SUFFICES ASSUME NEW s \in first + 1 .. nslots + 1, slot'[s].notified,
                        err = NoErr
                 PROVE  s <= N /\ (L.pc = "notify" => s < N)
      BY <2>1 DEF NotifiedWritten
    <3>1. s # nslots + 1
      BY <2>1
    <3>2. s \in first + 1 .. nslots /\ s \in Slot
      BY <1>0, <2>0, <3>1 DEF Slot
    <3> QED BY <2>1, <3>1, <3>2 DEF OrderInv, NotifiedWritten
  <2>7. ClosedComplete'
    <3>1. (~chanClosed'[results'] /\ L.pc # "abort") \/ err # NoErr
      BY DEF OrderInv, ClosedComplete
    <3> QED BY <1>0, <2>0, <2>1, <3>1 DEF OrderInv, ClosedComplete
  <2> QED BY <1>0, <2>1, <2>2, <2>3, <2>4, <2>5, <2>6, <2>7 DEF OrderInv
<1>5. CASE ResetInit
  <2> USE <1>5 DEF ResetInit
  <2>0. w' = w + 1 /\ w' \in Sink /\ results' = results + 1 /\ results' \in Chan
    BY <1>0 DEF TypeInv, CallerRoom, Sink, Chan
  <2>1. /\ out'[w'] = <<>> /\ L'.pc = "none" /\ N' = nslots /\ Taken' = nslots
        /\ queue[results'] = <<>> /\ ~chanClosed[results']
    <3>1. out[w'] = <<>> /\ listener[w'].pc = "none"
      BY <1>0, <2>0 DEF OrderInv, OthersInert, Sink
    <3>2. queue[results'] = <<>> /\ ~chanClosed[results']
      BY <1>0, <2>0 DEF OrderInv, OthersInert, Chan
    <3>3. L'.pc = "none" /\ N' = nslots
      BY <1>0, <2>0, <3>1 DEF L, N
    <3>4. Taken' = nslots
      BY <3>3 DEF Taken
    <3> QED BY <3>1, <3>2, <3>3, <3>4
  <2>2. InOrder' /\ QueueRest' /\ ListenerNext' /\ NotifiedWritten'
    BY <1>0, <2>0, <2>1 DEF InOrder, QueueRest, ListenerNext, NotifiedWritten
  <2>3. OthersInert'
    <3>1. \A k \in Sink : listener[k].ch \in Nat
      BY DEF TypeInv, TypeOK, ListenerTypeOK, Chan
    <3>2. L.pc \in {"recv", "done"} /\
          (L.pc = "recv" => queue[L.ch] = <<>> /\ L.ch <= results)
      BY DEF OrderInv, ClosedComplete, ListenerNext
    <3>3. \A k \in Sink : k < w' => k < w \/ k = w
      BY <1>0, <2>0 DEF Sink
    <3>4. \A k \in Sink : k > w' => k > w
      BY <1>0, <2>0 DEF Sink
    <3>5. \A c \in Chan : c > results' => c > results
      BY <1>0, <2>0 DEF Chan
    <3> QED BY <1>0, <2>0, <3>1, <3>2, <3>3, <3>4, <3>5
            DEF OrderInv, OthersInert, L, Chan
  <2>4. ClosedComplete'
    BY <2>1 DEF ClosedComplete
  <2> QED BY <1>0, <2>2, <2>3, <2>4 DEF OrderInv
<1> QED BY <1>1, <1>2, <1>3, <1>4, <1>5 DEF CallerStep
\* A compressor changes the state of its slot, and may push an error.
LEMMA CompressorOrderInv ==
  ASSUME TypeInv, OrderInv, NEW s \in Slot, CompressorStep(s) PROVE OrderInv'
<1>1. /\ UNCHANGED <<started, results, w, queue, chanClosed, nslots, listener, first,
                     out, pc, op>>
      /\ \A t \in Slot : slot'[t].notified = slot[t].notified
      /\ err' = NoErr => err = NoErr
  <2>1. CASE CompressOK(s) \/ CompressAbandon(s)
    <3>1. PICK st \in SlotStates : slot' = [slot EXCEPT ![s].st = st]
      BY <2>1 DEF CompressOK, CompressAbandon, SlotStates
    <3>2. \A t \in Slot : slot'[t].notified = slot[t].notified
      BY <3>1 DEF TypeInv, TypeOK, SlotTypeOK, SlotType
    <3> QED BY <2>1, <3>2 DEF CompressOK, CompressAbandon
  <2>2. CASE CompressError(s)
    <3>1. err' # NoErr
      BY <2>2 DEF CompressError, pushError, NoErr
    <3> QED
      BY <2>2, <3>1 DEF CompressError, TypeInv, TypeOK, SlotTypeOK, SlotType
  <2> QED BY <2>1, <2>2 DEF CompressorStep
<1>2. /\ L' = L /\ N' = N /\ Taken' = Taken
  BY <1>1 DEF L, N, Taken
<1>3. InOrder' /\ QueueRest' /\ ListenerNext' /\ OthersInert'
  BY <1>1, <1>2 DEF OrderInv, InOrder, QueueRest, ListenerNext, OthersInert
<1>4. \A t \in first + 1 .. nslots : t \in Slot
  BY ConstantsAssumption DEF TypeInv, TypeOK, SlotTypeOK, HistTypeOK, Slot
<1>5. NotifiedWritten'
  BY <1>1, <1>2, <1>4 DEF OrderInv, NotifiedWritten
<1>6. ClosedComplete'
  <2>1. nslots > first => nslots \in first + 1 .. nslots
    BY ConstantsAssumption DEF TypeInv, TypeOK, SlotTypeOK, HistTypeOK
  <2> QED BY <1>1, <1>2, <1>4, <2>1 DEF OrderInv, ClosedComplete
<1> QED BY <1>1, <1>3, <1>5, <1>6 DEF OrderInv
LEMMA HeadTailLemma ==
  \A a \in Seq(Slot) : a # <<>> =>
    /\ Head(a) = a[1] /\ Tail(a) \in Seq(Slot)
    /\ Len(a) \in Nat /\ Len(a) > 0 /\ Len(Tail(a)) = Len(a) - 1
    /\ \A i \in 1 .. Len(a) - 1 : Tail(a)[i] = a[i + 1]
OBVIOUS

\* Only the listener of the current sink does anything but end.
LEMMA ListenerOrderInv ==
  ASSUME TypeInv, OrderInv, NEW k \in Sink, ListenerStep(k) PROVE OrderInv'
<1> USE ConstantsAssumption
<1>0. /\ w \in Sink /\ results \in Chan /\ first \in Nat /\ nslots \in Nat
      /\ Len(out[w]) \in Nat /\ N \in Nat /\ queue[results] \in Seq(Slot)
      /\ out[w] \in Seq(Slot) /\ \A j \in Sink : listener[j].ch \in Chan
      /\ k < w \/ k = w \/ k > w
  <2>1. k < w \/ k = w \/ k > w
    BY DEF TypeInv, TypeOK, ZTypeOK, Sink
  <2>2. \A j \in Sink : listener[j].ch \in Chan
    BY DEF TypeInv, TypeOK, ListenerTypeOK
  <2> QED
    BY <2>1, <2>2 DEF TypeInv, TypeOK, ZTypeOK, HistTypeOK, SlotTypeOK, N, ChanTypeOK
<1>1. ASSUME k # w PROVE ListenerDone(k) /\ k < w
  <2>1. ~(k > w)
    BY DEF OrderInv, OthersInert, ListenerStep, Listen, Receive, ListenerDone,
           WriteBlock, WriteBlockError, Notify
  <2>2. k < w
    BY <1>0, <1>1, <2>1
  <2> QED
    BY <2>2 DEF OrderInv, OthersInert, ListenerStep, Listen, Receive, ListenerDone,
                WriteBlock, WriteBlockError, Notify
<1>2. CASE ListenerDone(k)
  <2> USE <1>2 DEF ListenerDone
  <2>1. /\ N' = N /\ (k # w => L' = L)
        /\ k = w => L'.pc = "done" /\ L.pc = "recv"
        /\ \A j \in Sink : j # k => listener'[j] = listener[j]
        /\ listener'[k].pc = "done"
    BY <1>0 DEF N, L, TypeInv, TypeOK, ListenerTypeOK
  <2>2. InOrder' /\ NotifiedWritten'
    BY <2>1 DEF OrderInv, InOrder, NotifiedWritten
  <2>3. QueueRest' /\ ListenerNext'
    <3>1. CASE k = w
      BY <2>1, <3>1 DEF QueueRest, OrderInv, ListenerNext
    <3>2. CASE k # w
      BY <2>1, <3>2 DEF QueueRest, OrderInv, ListenerNext, Taken
    <3> QED BY <3>1, <3>2
  <2>4. OthersInert'
    BY <1>0, <1>1, <2>1 DEF OrderInv, OthersInert, Sink
  <2>5. ClosedComplete'
    <3>1. CASE k = w
      <4>1. pc = "reset" \/ chanClosed[results]
        BY <2>1, <3>1 DEF OrderInv, ListenerNext, L
      <4> QED BY <2>1, <3>1, <4>1 DEF OrderInv, ClosedComplete
    <3>2. CASE k # w
      BY <2>1, <3>2 DEF OrderInv, ClosedComplete
    <3> QED BY <3>1, <3>2
  <2> QED BY <2>2, <2>3, <2>4, <2>5 DEF OrderInv
<1>3. CASE ~ListenerDone(k)
  <2>0. k = w /\ L = listener[k]
    BY <1>1, <1>3 DEF L
  <2>1. CASE Listen(k)
    <3> USE <2>1 DEF Listen
    <3>1. /\ L.pc = "start" /\ L' = [pc |-> "recv", ch |-> results, r |-> 0]
          /\ N' = N /\ Taken' = Taken /\ Taken = N /\ out[w] = <<>>
          /\ \A j \in Sink : j # w => listener'[j] = listener[j]
          /\ pc # "reset" /\ started
      BY <1>0, <2>0 DEF L, N, Taken, TypeInv, TypeOK, ListenerTypeOK, OrderInv,
                        ListenerNext
    <3>2. InOrder' /\ QueueRest' /\ NotifiedWritten'
      BY <3>1 DEF OrderInv, InOrder, QueueRest, NotifiedWritten
    <3>3. ListenerNext'
      BY <3>1 DEF OrderInv, ListenerNext
    <3>4. OthersInert'
      BY <1>0, <3>1 DEF OrderInv, OthersInert, Sink
    <3>5. ClosedComplete'
      BY <3>1 DEF OrderInv, ClosedComplete
    <3> QED BY <3>2, <3>3, <3>4, <3>5 DEF OrderInv
  <2>2. CASE Receive(k)
    <3> USE <2>2 DEF Receive
    <3>1. L.pc = "recv" /\ queue[L.ch] # <<>>
      BY <2>0
    <3>2. pc # "reset" /\ ~chanClosed[results] /\ L.ch = results
      BY <3>1 DEF OrderInv, ClosedComplete, ListenerNext
    <3>3. Taken = N /\ Len(queue[results]) = nslots - N
          /\ \A i \in 1 .. Len(queue[results]) : queue[results][i] = N + i
      BY <3>1, <3>2 DEF OrderInv, QueueRest, Taken
    <3>4. Head(queue[results]) = N + 1 /\ Tail(queue[results]) \in Seq(Slot)
          /\ Len(Tail(queue[results])) = Len(queue[results]) - 1
          /\ Len(queue[results]) \in Nat
          /\ \A i \in 1 .. Len(Tail(queue[results])) :
               Tail(queue[results])[i] = queue[results][i + 1]
      <4>1. queue[results] \in Seq(Slot) /\ queue[results] # <<>>
        BY <1>0, <3>1, <3>2
      <4> HIDE DEF Receive
      <4>2. /\ Head(queue[results]) = queue[results][1]
            /\ Tail(queue[results]) \in Seq(Slot)
            /\ Len(queue[results]) \in Nat /\ Len(queue[results]) > 0
            /\ Len(Tail(queue[results])) = Len(queue[results]) - 1
            /\ \A i \in 1 .. Len(queue[results]) - 1 :
                 Tail(queue[results])[i] = queue[results][i + 1]
        BY <4>1, HeadTailLemma, Zenon
      <4> QED BY <1>0, <3>3, <4>2
    <3>5. L' = [L EXCEPT !.pc = "result", !.r = N + 1]
          /\ L' \in [pc : ListenerStates, ch : Chan, r : 0 .. MaxSlots]
      <4>1. listener'[w] = [L EXCEPT !.pc = "result", !.r = Head(queue[results])]
        BY <1>0, <2>0, <3>2 DEF TypeInv, TypeOK, ListenerTypeOK
      <4>2. listener' \in [Sink -> [pc : ListenerStates, ch : Chan, r : 0 .. MaxSlots]]
        BY ListenerTypeInv DEF TypeInv, TypeOK, ListenerTypeOK
      <4>3. L' = listener'[w]
        BY DEF L
      <4> QED BY <1>0, <3>4, <4>1, <4>2, <4>3
    <3>6. /\ L'.pc = "result" /\ L'.r = N + 1 /\ L'.ch = results
          /\ N' = N /\ Taken' = N + 1
          /\ \A j \in Sink : j # w => listener'[j] = listener[j]
          /\ queue'[results] = Tail(queue[results])
          /\ \A c \in Chan : c # results => queue'[c] = queue[c]
      <4>1. L \in [pc : ListenerStates, ch : Chan, r : 0 .. MaxSlots]
        BY <1>0 DEF L, TypeInv, TypeOK, ListenerTypeOK
      <4>2. L'.pc = "result" /\ L'.r = N + 1 /\ L'.ch = results
        BY <3>2, <3>5, <4>1
      <4>3. N' = N
        BY DEF N
      <4>4. Taken' = N + 1
        BY <4>2, <4>3 DEF Taken
      <4>5. \A j \in Sink : j # w => listener'[j] = listener[j]
        BY <2>0 DEF TypeInv, TypeOK, ListenerTypeOK
      <4>6. /\ queue'[results] = Tail(queue[results])
            /\ \A c \in Chan : c # results => queue'[c] = queue[c]
        BY <1>0, <2>0, <3>2 DEF TypeInv, TypeOK, ChanTypeOK
      <4> QED BY <4>2, <4>3, <4>4, <4>5, <4>6
    <3>7. InOrder'
      BY DEF OrderInv, InOrder
    <3>8. NotifiedWritten'
      BY <3>1, <3>6 DEF OrderInv, NotifiedWritten
    <3>9. QueueRest'
      <4> HIDE DEF Receive
      <4>1. Len(queue'[results]) = nslots - (N + 1)
        BY <1>0, <3>3, <3>4, <3>6
      <4>2. \A i \in 1 .. Len(queue'[results]) : queue'[results][i] = N + 1 + i
        <5> SUFFICES ASSUME NEW i \in 1 .. Len(queue[results]) - 1
                     PROVE  Tail(queue[results])[i] = N + 1 + i
          BY <3>4, <3>6
        <5>1. Tail(queue[results])[i] = queue[results][i + 1]
          BY <3>4
        <5>2. i + 1 \in 1 .. Len(queue[results])
          BY <3>4
        <5>3. queue[results][i + 1] = N + (i + 1)
          BY <3>3, <5>2
        <5> QED BY <1>0, <5>1, <5>3
      <4>3. results' = results /\ nslots' = nslots
        BY <2>2 DEF Receive
      <4> QED BY <3>6, <4>1, <4>2, <4>3 DEF QueueRest
    <3>10. ListenerNext'
      BY <3>1, <3>2, <3>6 DEF OrderInv, ListenerNext
    <3>11. OthersInert'
      <4>1. /\ \A j \in Sink : j < w \/ j > w => listener'[j] = listener[j]
            /\ \A c \in Chan : c < results \/ c > results => queue'[c] = queue[c]
        BY <1>0, <3>6 DEF Sink, Chan
      <4> QED BY <1>0, <4>1 DEF OrderInv, OthersInert
    <3>12. ClosedComplete'
      BY <3>1, <3>2, <3>6 DEF OrderInv, ClosedComplete
    <3> QED BY <3>7, <3>8, <3>9, <3>10, <3>11, <3>12 DEF OrderInv
  <2>3. CASE WriteBlock(k)
    <3>1. /\ L.pc = "result" /\ L.r = N + 1 /\ L.r \in Slot
          /\ pc # "reset" /\ ~chanClosed[results] /\ L.ch = results
      BY <1>0, <2>0, <2>3 DEF WriteBlock, OrderInv, ListenerNext, ClosedComplete,
                              TypeInv, ListenerHolds
    <3>2. /\ L'.pc = "notify" /\ L'.r = N + 1 /\ L'.ch = results
          /\ \A j \in Sink : j # w => listener'[j] = listener[j]
      BY <1>0, <2>0, <2>3, <3>1
      DEF WriteBlock, L, TypeInv, TypeOK, ListenerTypeOK
    <3>3. /\ out'[w] = Append(out[w], N + 1)
          /\ \A j \in Sink : j # w => out'[j] = out[j]
      BY <1>0, <2>0, <2>3, <3>1 DEF WriteBlock, TypeInv, TypeOK, HistTypeOK
    <3>4. /\ Len(out'[w]) = Len(out[w]) + 1 /\ out'[w][Len(out[w]) + 1] = N + 1
          /\ \A i \in 1 .. Len(out[w]) : out'[w][i] = out[w][i]
      BY <1>0, <3>1, <3>3
    <3>5. UNCHANGED <<started, err, results, w, queue, chanClosed, nslots, slot,
                      first, pc, op>>
      BY <2>3 DEF WriteBlock
    <3>6. N' = N + 1 /\ Taken' = N + 1 /\ Taken = N + 1
      <4>1. N' = N + 1
        BY <1>0, <3>4, <3>5 DEF N
      <4> QED BY <3>1, <3>2, <4>1 DEF Taken
    <3>7. InOrder'
      <4>1. \A i \in 1 .. Len(out[w]) : out[w][i] = first + i
        BY DEF OrderInv, InOrder
      <4>2. \A i \in 1 .. Len(out[w]) + 1 : i \in 1 .. Len(out[w]) \/ i = Len(out[w]) + 1
        BY <1>0
      <4>3. N + 1 = first + (Len(out[w]) + 1)
        BY <1>0 DEF N
      <4> QED BY <3>4, <3>5, <4>1, <4>2, <4>3 DEF InOrder
    <3>8. QueueRest'
      BY <3>1, <3>2, <3>5, <3>6 DEF OrderInv, QueueRest
    <3>9. ListenerNext'
      BY <3>1, <3>2, <3>5, <3>6 DEF OrderInv, ListenerNext
    <3>10. OthersInert'
      <4>1. \A j \in Sink : j < w \/ j > w =>
              listener'[j] = listener[j] /\ out'[j] = out[j]
        BY <1>0, <3>2, <3>3 DEF Sink
      <4> QED BY <1>0, <3>5, <4>1 DEF OrderInv, OthersInert
    <3>11. NotifiedWritten'
      BY <1>0, <3>1, <3>5, <3>6 DEF OrderInv, NotifiedWritten
    <3>12. ClosedComplete'
      BY <3>1, <3>2, <3>5, <3>6 DEF OrderInv, ClosedComplete
    <3> QED BY <3>5, <3>7, <3>8, <3>9, <3>10, <3>11, <3>12 DEF OrderInv
  <2>4. CASE WriteBlockError(k)
    <3>1. /\ L.pc = "result" /\ L.r = N + 1
          /\ pc # "reset" /\ ~chanClosed[results] /\ L.ch = results
      BY <1>0, <2>0, <2>4 DEF WriteBlockError, OrderInv, ListenerNext, ClosedComplete
    <3>2. /\ L'.pc = "abort" /\ L'.r = N + 1 /\ L'.ch = results
          /\ \A j \in Sink : j # w => listener'[j] = listener[j]
      BY <1>0, <2>0, <2>4, <3>1
      DEF WriteBlockError, L, TypeInv, TypeOK, ListenerTypeOK
    <3>3. err' # NoErr
      BY <2>4 DEF WriteBlockError, pushError, SinkErrors, NoErr
    <3>4. UNCHANGED <<started, results, w, queue, chanClosed, nslots, slot, first,
                      out, pc, op>>
      BY <2>4 DEF WriteBlockError
    <3>5. N' = N /\ Taken' = N + 1 /\ Taken = N + 1
      BY <3>1, <3>2, <3>4 DEF N, Taken
    <3>6. InOrder' /\ NotifiedWritten'
      BY <3>3, <3>4 DEF OrderInv, InOrder, NotifiedWritten
    <3>7. QueueRest'
      BY <3>1, <3>2, <3>4, <3>5 DEF OrderInv, QueueRest
    <3>8. ListenerNext'
      BY <3>1, <3>2, <3>4, <3>5 DEF OrderInv, ListenerNext
    <3>9. OthersInert'
      <4>1. \A j \in Sink : j < w \/ j > w => listener'[j] = listener[j]
        BY <1>0, <3>2 DEF Sink
      <4> QED BY <1>0, <3>4, <4>1 DEF OrderInv, OthersInert
    <3>10. ClosedComplete'
      BY <3>1, <3>2, <3>3, <3>4, <3>5 DEF OrderInv, ClosedComplete
    <3> QED BY <3>4, <3>6, <3>7, <3>8, <3>9, <3>10 DEF OrderInv
  <2>5. CASE Notify(k)
    <3>1. /\ L.pc \in {"notify", "abort"} /\ L.r \in Slot
          /\ pc # "reset" /\ ~chanClosed[results] /\ L.ch = results
      BY <1>0, <2>0, <2>5 DEF Notify, OrderInv, ListenerNext, ClosedComplete,
                              TypeInv, ListenerHolds
    <3>2. /\ L'.pc = IF L.pc = "notify" THEN "recv" ELSE "done"
          /\ L'.ch = results
          /\ \A j \in Sink : j # w => listener'[j] = listener[j]
      BY <1>0, <2>0, <2>5, <3>1
      DEF Notify, L, TypeInv, TypeOK, ListenerTypeOK
    <3>3. \A t \in Slot : t # L.r => slot'[t] = slot[t]
      BY <2>0, <2>5 DEF Notify, TypeInv, TypeOK, SlotTypeOK
    <3>4. UNCHANGED <<started, err, results, w, queue, chanClosed, nslots, first,
                      out, pc, op>>
      BY <2>5 DEF Notify
    <3>5. N' = N /\ (L.pc = "notify" => Taken' = Taken)
      BY <3>1, <3>2, <3>4 DEF N, Taken
    <3>6. InOrder'
      BY <3>4 DEF OrderInv, InOrder
    <3>7. QueueRest'
      BY <3>1, <3>2, <3>4, <3>5 DEF OrderInv, QueueRest
    <3>8. ListenerNext'
      BY <3>1, <3>2, <3>4, <3>5 DEF OrderInv, ListenerNext
    <3>9. OthersInert'
      <4>1. \A j \in Sink : j < w \/ j > w => listener'[j] = listener[j]
        BY <1>0, <3>2 DEF Sink
      <4> QED BY <1>0, <3>4, <4>1 DEF OrderInv, OthersInert
    <3>10. NotifiedWritten'
      <4> SUFFICES ASSUME NEW s \in first + 1 .. nslots, slot'[s].notified,
                          err = NoErr
                   PROVE  s <= N /\ L'.pc # "notify"
        BY <3>4, <3>5 DEF NotifiedWritten
      <4>1. L.pc = "notify"
        BY <3>1 DEF OrderInv, ClosedComplete
      <4>2. CASE s = L.r
        BY <1>0, <3>2, <4>1, <4>2 DEF OrderInv, ListenerNext
      <4>3. CASE s # L.r
        <5>1. s \in Slot
          BY <1>0 DEF Slot, TypeInv, TypeOK, SlotTypeOK
        <5> QED BY <3>2, <3>3, <4>1, <4>3, <5>1 DEF OrderInv, NotifiedWritten
      <4> QED BY <4>2, <4>3
    <3>11. ClosedComplete'
      <4>1. slot'[nslots].notified \/ ~slot[nslots].notified \/ nslots <= first
        <5>1. nslots > first => nslots \in Slot
          BY <1>0 DEF Slot, TypeInv, TypeOK, SlotTypeOK
        <5>2. slot'[L.r].notified
          BY <2>0, <2>5, <3>1 DEF Notify, TypeInv, TypeOK, SlotTypeOK, SlotType
        <5> QED BY <1>0, <3>3, <5>1, <5>2
      <4>2. L.pc = "abort" => err # NoErr
        BY DEF OrderInv, ClosedComplete
      <4> QED BY <1>0, <3>1, <3>2, <3>4, <3>5, <4>1, <4>2 DEF OrderInv, ClosedComplete
    <3> QED BY <3>4, <3>6, <3>7, <3>8, <3>9, <3>10, <3>11 DEF OrderInv
  <2> QED BY <1>3, <2>1, <2>2, <2>3, <2>4, <2>5 DEF ListenerStep
<1> QED BY <1>2, <1>3
LEMMA StutterOrderInv == TypeInv /\ OrderInv /\ UNCHANGED vars => OrderInv'
<1> SUFFICES ASSUME OrderInv, UNCHANGED vars PROVE OrderInv'
  OBVIOUS
<1>1. L' = L /\ N' = N /\ Taken' = Taken
  BY DEF vars, L, N, Taken
<1> QED
  BY <1>1 DEF vars, OrderInv, InOrder, QueueRest, ListenerNext, OthersInert,
              NotifiedWritten, ClosedComplete

\* Whatever order the compressors finish in, the blocks of a stream reach the
\* underlying writer in the order compressCurrent made them, none skipped and
\* none repeated, provided Reset is only called once Close has returned nil.
THEOREM BlocksInOrder == ASSUME ~ResetAnytime PROVE Spec => []InOrder
<1> DEFINE IInv == TypeInv /\ OrderInv
<1>1. Init => IInv
  BY InitTypeInv, InitOrderInv
<1>2. IInv /\ [Next]_vars => IInv'
  <2>1. TypeInv /\ [Next]_vars => TypeInv'
    BY ClientTypeInv, CallerTypeInv, CompressorTypeInv, ListenerTypeInv,
       StutterTypeInv DEF Next
  <2>2. IInv /\ [Next]_vars => OrderInv'
    BY ClientOrderInv, CallerOrderInv, CompressorOrderInv, ListenerOrderInv,
       StutterOrderInv DEF Next
  <2> QED BY <2>1, <2>2
<1>3. IInv => InOrder
  BY DEF OrderInv
<1> QED BY <1>1, <1>2, <1>3, PTL DEF Spec

-----------------------------------------------------------------------------
(***************************************************************************)
(* What a stream delivers, and that the writer with all its goroutines     *)
(* implements the abstract DeflateStream.                                  *)
(*                                                                         *)
(* The order of the blocks (OrderInv) is not enough: one has to know which *)
(* units each block holds (UnitsInv), that a closed stream takes no more   *)
(* of them (CloseInv), that only the last block ends the stream            *)
(* (FinalInv), and how far compressors and listener have come (StateInv).  *)
(***************************************************************************)

\* Does the stream still take blocks?
Open == pc # "reset" /\ ~chanClosed[results]

\* Is a call of Write under way?
InWrite == pc = "fill" \/ (pc \in {"send", "check"} /\ op = "Write")

Blocks == first + 1 .. nslots

\* h[s]: the last unit of the blocks up to s.  A block holds the units that
\* follow those of the block before it.
Ends(h) ==
  /\ h[first] = 0
  /\ \A s \in Blocks :
       /\ h[s] = h[s - 1] + Len(slot[s].data)
       /\ \A j \in 1 .. Len(slot[s].data) : slot[s].data[j] = h[s - 1] + j
  /\ \A m, n \in first .. nslots : m <= n => h[m] <= h[n]
  /\ \A n \in first .. nslots : \A u \in 1 .. h[n] :
       \E s \in first + 1 .. n : h[s - 1] < u /\ u <= h[s]

\* The units that are in no block yet are in the buffer, and then in what Write
\* has still to copy.
Held(h) ==
  /\ h[nslots] <= sent
  /\ Open =>
       /\ \A j \in 1 .. Len(currentBuffer) : currentBuffer[j] = h[nslots] + j
       /\ h[nslots] + Len(currentBuffer) <= sent
       /\ InWrite =>
            /\ \A j \in 1 .. Len(q) : q[j] = h[nslots] + Len(currentBuffer) + j
            /\ h[nslots] + Len(currentBuffer) + Len(q) = sent
       /\ (err = NoErr /\ ~InWrite) => h[nslots] + Len(currentBuffer) = sent
  /\ ~Open => h[nslots] = sent
  /\ (pc \in {"await", "check"} /\ op # "Write" /\ err = NoErr) => currentBuffer = <<>>

FlushedNil == pc = "idle" /\ ret.op \in {"Flush", "Close"} /\ ret.err = NoErr
Synced(h) ==
  FlushedNil => N = nslots /\ h[nslots] = sent /\ \A s \in Blocks : slot[s].st = "ready"

UnitsInv == \E h \in [Nat -> Nat] : Ends(h) /\ Held(h) /\ Synced(h)

Barriers == {"send", "await", "check"}
CloseInv ==
  /\ ~Open => closed /\ err = NoErr
  /\ (closed /\ err = NoErr /\ Open) => pc \in Barriers /\ op = "Close"
  /\ pc \in Barriers => op # "none"
  /\ (pc \in Barriers /\ op = "Flush") => ~closed
  /\ (pc \in Barriers /\ op = "Close") => closed /\ Open
  /\ (InWrite /\ Open) => ~closed

FinalInv ==
  /\ \A s \in Blocks : slot[s].final => /\ closed /\ s = nslots
                                        /\ ~(pc = "send" /\ op = "Close")
                                        /\ ~slot[s].notified => pc = "await" /\ op = "Close"
  /\ (pc = "await" /\ op = "Close") => slot[nslots].final
  /\ (pc = "check" /\ op = "Close" /\ err = NoErr) => slot[nslots].final
  /\ ~Open => nslots > first /\ slot[nslots].final

StateInv ==
  /\ N <= nslots
  /\ \A s \in Slot : s > nslots => slot[s].st = "none"
  /\ \A s \in Slot : s <= first => slot[s].st \notin {"busy", "failing"}
  /\ \A s \in Blocks :
       /\ s <= N => slot[s].st \in {"ready", "failed"}
       /\ slot[s].st \in {"failing", "failed"} => err # NoErr
       /\ slot[s].notified => s <= N \/ L.pc = "done"

QueueInv ==
  pc # "reset" => /\ Len(queue[results]) <= blocks
                  /\ nslots - N <= Len(queue[results]) + 1

DictInv ==
  /\ nslots = first => prevTail = <<>>
  /\ nslots > first => prevTail = TailOf(slot[nslots].data)
  /\ \A s \in Blocks :
       slot[s].dict = IF s = first + 1 THEN <<>> ELSE TailOf(slot[s - 1].data)

StreamInv ==
  TypeInv /\ OrderInv /\ UnitsInv /\ CloseInv /\ FinalInv /\ StateInv /\ QueueInv /\ DictInv

-----------------------------------------------------------------------------
(***************************************************************************)
(* How far compressors and listener have come                              *)
(***************************************************************************)

\* The types of what the invariant speaks of.
LEMMA Types ==
  ASSUME TypeInv
  PROVE  /\ w \in Sink /\ results \in Chan /\ first \in Nat /\ nslots \in Nat
         /\ nslots <= MaxSlots /\ MaxSlots \in Nat
         /\ Len(out[w]) \in Nat /\ out[w] \in Seq(Slot) /\ N \in Nat
         /\ queue[results] \in Seq(Slot) /\ Len(queue[results]) \in Nat
         /\ Blocks \subseteq Slot
         /\ \A s \in Slot : slot[s] \in SlotType
<1> USE ConstantsAssumption
<1>1. /\ w \in Sink /\ results \in Chan /\ first \in Nat /\ nslots \in Nat
      /\ nslots <= MaxSlots /\ MaxSlots \in Nat
      /\ out[w] \in Seq(Slot) /\ queue[results] \in Seq(Slot)
  BY DEF TypeInv, TypeOK, ZTypeOK, HistTypeOK, SlotTypeOK, ChanTypeOK
<1>2. Len(out[w]) \in Nat /\ N \in Nat
  BY <1>1 DEF N
<1>3. Len(queue[results]) \in Nat
  BY <1>1
<1>4. Blocks \subseteq Slot
  BY <1>1 DEF Blocks, Slot
<1>5. \A s \in Slot : slot[s] \in SlotType
  BY DEF TypeInv, TypeOK, SlotTypeOK
<1> QED BY <1>1, <1>2, <1>3, <1>4, <1>5

\* A listener that does more than end is the one of the current sink.
LEMMA CurrentListener ==
  ASSUME TypeInv, OrderInv, NEW k \in Sink, ListenerStep(k), ~ListenerDone(k)
  PROVE  k = w
<1>1. k < w \/ k = w \/ k > w
  BY DEF TypeInv, TypeOK, ZTypeOK, Sink
<1>2. ~(k > w)
  BY DEF OrderInv, OthersInert, ListenerStep, Listen, Receive, ListenerDone,
         WriteBlock, WriteBlockError, Notify
<1>3. ~(k < w)
  BY DEF OrderInv, OthersInert, ListenerStep, Listen, Receive, ListenerDone,
         WriteBlock, WriteBlockError, Notify
<1> QED BY <1>1, <1>2, <1>3

\* What the listener of the current sink does to it: it takes the next block,
\* writes it or fails, and notifies.
LEMMA ListenerEffect ==
  ASSUME TypeInv, OrderInv, NEW k \in Sink, ListenerStep(k)
  PROVE  /\ UNCHANGED <<started, closed, blockSize, blocks, currentBuffer, prevTail,
                        results, w, chanClosed, nslots, callVars, sent, first>>
         /\ \/ /\ Listen(k) \/ Receive(k) \/ ListenerDone(k)
               /\ UNCHANGED <<slot, out, err>> /\ (L.pc = "done" => L'.pc = "done")
            \/ /\ WriteBlock(k) /\ k = w /\ UNCHANGED <<slot, err, queue>>
               /\ L.pc = "result" /\ L.r = N + 1 /\ L.r \in Slot /\ L'.pc = "notify"
               /\ slot[N + 1].st \in {"ready", "failed"}
               /\ out'[w] = Append(out[w], N + 1) /\ Open
               /\ N + 1 <= nslots
            \/ /\ WriteBlockError(k) /\ k = w /\ UNCHANGED <<slot, out, queue>>
               /\ L.pc = "result" /\ L'.pc = "abort" /\ err' # NoErr
               /\ err' = IF err = NoErr THEN err' ELSE err
               /\ N + 1 <= nslots /\ Open
            \/ /\ Notify(k) /\ k = w /\ UNCHANGED <<out, err, queue>>
               /\ L.r \in Slot /\ slot' = [slot EXCEPT ![L.r].notified = TRUE]
               /\ \/ L.pc = "notify" /\ L'.pc = "recv" /\ L.r = N
                  \/ L.pc = "abort" /\ L'.pc = "done" /\ L.r = N + 1 /\ err # NoErr
<1>t. /\ w \in Sink /\ results \in Chan /\ first \in Nat /\ nslots \in Nat
      /\ N \in Nat /\ queue[results] \in Seq(Slot) /\ Len(queue[results]) \in Nat
      /\ L \in [pc : ListenerStates, ch : Chan, r : 0 .. MaxSlots]
      /\ listener \in [Sink -> [pc : ListenerStates, ch : Chan, r : 0 .. MaxSlots]]
  BY Types DEF L, TypeInv, TypeOK, ListenerTypeOK
<1>0. UNCHANGED <<started, closed, blockSize, blocks, currentBuffer, prevTail,
                  results, w, chanClosed, nslots, callVars, sent, first>>
  BY DEF ListenerStep, Listen, Receive, ListenerDone, WriteBlock, WriteBlockError, Notify
<1>1. CASE Listen(k) \/ Receive(k) \/ ListenerDone(k)
  <2>1. UNCHANGED <<slot, out, err, w>>
    BY <1>1 DEF Listen, Receive, ListenerDone
  <2>2. CASE ListenerDone(k)
    <3>1. L'.pc = IF k = w THEN "done" ELSE L.pc
      BY <1>t, <2>1, <2>2 DEF ListenerDone, L
    <3> QED BY <1>0, <2>1, <2>2, <3>1
  <2>3. CASE Listen(k) \/ Receive(k)
    <3>1. listener[k].pc # "done"
      BY <2>3 DEF Listen, Receive
    <3>2. k # w => L' = L
      BY <1>t, <2>1, <2>3 DEF Listen, Receive, L
    <3> QED BY <1>0, <2>1, <2>3, <3>1, <3>2 DEF L
  <2> QED BY <1>1, <2>2, <2>3
<1>2. ASSUME L.pc = "result" PROVE L.r = N + 1 /\ N + 1 <= nslots /\ Open
  <2>1. L.r = N + 1 /\ pc # "reset" /\ ~chanClosed[results]
    BY <1>2 DEF OrderInv, ListenerNext, ClosedComplete
  <2>2. Len(queue[results]) = nslots - (N + 1)
    BY <1>2, <2>1 DEF OrderInv, QueueRest, Taken
  <2> QED BY <1>t, <2>1, <2>2 DEF Open
<1>3. CASE WriteBlock(k)
  <2>1. k = w
    BY <1>3, CurrentListener DEF WriteBlock, ListenerDone
  <2>2. L.pc = "result" /\ L.r \in Slot /\ slot[L.r].st \in {"ready", "failed"}
    BY <1>3, <2>1 DEF WriteBlock, L, TypeInv, ListenerHolds
  <2>3. L'.pc = "notify"
    BY <1>3, <1>t, <2>1 DEF WriteBlock, L
  <2>4. out'[w] = Append(out[w], N + 1)
    BY <1>2, <1>3, <1>t, <2>1, <2>2 DEF WriteBlock, L, TypeInv, TypeOK, HistTypeOK
  <2> QED BY <1>0, <1>2, <1>3, <2>1, <2>2, <2>3, <2>4 DEF WriteBlock
<1>4. CASE WriteBlockError(k)
  <2>1. k = w
    BY <1>4, CurrentListener DEF WriteBlockError, ListenerDone
  <2>2. L.pc = "result"
    BY <1>4, <2>1 DEF WriteBlockError, L
  <2>3. L'.pc = "abort"
    BY <1>4, <1>t, <2>1 DEF WriteBlockError, L
  <2>4. err' # NoErr /\ err' = IF err = NoErr THEN err' ELSE err
    BY <1>4 DEF WriteBlockError, pushError, SinkErrors, NoErr
  <2> QED BY <1>0, <1>2, <1>4, <2>1, <2>2, <2>3, <2>4 DEF WriteBlockError
<1>5. CASE Notify(k)
  <2>1. k = w
    BY <1>5, CurrentListener DEF Notify, ListenerDone
  <2>2. L.pc \in {"notify", "abort"} /\ L.r \in Slot
    BY <1>5, <2>1 DEF Notify, L, TypeInv, ListenerHolds
  <2>3. L'.pc = IF L.pc = "notify" THEN "recv" ELSE "done"
    BY <1>5, <1>t, <2>1 DEF Notify, L
  <2>4. (L.pc = "notify" => L.r = N) /\ (L.pc = "abort" => L.r = N + 1 /\ err # NoErr)
    BY DEF OrderInv, ListenerNext, ClosedComplete
  <2>5. slot' = [slot EXCEPT ![L.r].notified = TRUE]
    BY <1>5, <2>1 DEF Notify, L
  <2> QED BY <1>0, <1>5, <2>1, <2>2, <2>3, <2>4, <2>5 DEF Notify
<1> QED BY <1>1, <1>3, <1>4, <1>5 DEF ListenerStep

\* What a compressor does: it finishes its block, or fails and says so.
LEMMA CompressorEffect ==
  ASSUME TypeInv, NEW s \in Slot, CompressorStep(s)
  PROVE  /\ UNCHANGED <<started, closed, blockSize, blocks, currentBuffer, prevTail,
                        results, w, chanVars, nslots, listener, callVars, histVars>>
         /\ \A t \in Slot : t # s => slot'[t] = slot[t]
         /\ slot'[s].data = slot[s].data /\ slot'[s].dict = slot[s].dict
         /\ slot'[s].final = slot[s].final /\ slot'[s].notified = slot[s].notified
         /\ \/ slot[s].st = "busy" /\ slot'[s].st = "ready" /\ err' = err
            \/ slot[s].st = "busy" /\ slot'[s].st = "failing" /\ err' # NoErr
               /\ err' = IF err = NoErr THEN "flate" ELSE err
            \/ slot[s].st = "failing" /\ slot'[s].st = "failed" /\ err' = err
<1>t. slot \in [Slot -> SlotType] /\ slot[s] \in SlotType
  BY DEF TypeInv, TypeOK, SlotTypeOK
<1>0. UNCHANGED <<started, closed, blockSize, blocks, currentBuffer, prevTail,
                  results, w, chanVars, nslots, listener, callVars, histVars>>
  BY DEF CompressorStep, CompressOK, CompressError, CompressAbandon
<1>1. ASSUME NEW st, slot' = [slot EXCEPT ![s].st = st]
      PROVE  /\ \A t \in Slot : t # s => slot'[t] = slot[t]
             /\ slot'[s].data = slot[s].data /\ slot'[s].dict = slot[s].dict
             /\ slot'[s].final = slot[s].final /\ slot'[s].notified = slot[s].notified
             /\ slot'[s].st = st
  BY <1>1, <1>t DEF SlotType
<1>2. CASE CompressOK(s)
  BY <1>0, <1>1, <1>2 DEF CompressOK
<1>3. CASE CompressError(s)
  <2>1. err' # NoErr /\ err' = IF err = NoErr THEN "flate" ELSE err
    BY <1>3 DEF CompressError, pushError, NoErr
  <2> QED BY <1>0, <1>1, <1>3, <2>1 DEF CompressError
<1>4. CASE CompressAbandon(s)
  BY <1>0, <1>1, <1>4 DEF CompressAbandon
<1> QED BY <1>2, <1>3, <1>4 DEF CompressorStep

\* What compressCurrent does: it makes the next block of the buffer.
LEMMA CompressCurrentEffect ==
  ASSUME TypeInv, CompressCurrent
  PROVE  /\ UNCHANGED <<started, closed, err, blockSize, blocks, results, w,
                        chanClosed, listener, op, q, ret, histVars>>
         /\ pc = "send" /\ ~chanClosed[results] /\ Len(queue[results]) < blocks
         /\ pc' = (IF op = "Write" THEN "check" ELSE "await")
         /\ nslots' = nslots + 1 /\ nslots + 1 \in Slot /\ currentBuffer' = <<>>
         /\ prevTail' = TailOf(currentBuffer)
         /\ \A t \in Slot : t # nslots + 1 => slot'[t] = slot[t]
         /\ slot'[nslots + 1] = [data |-> currentBuffer, dict |-> prevTail, final |-> closed,
                                 st |-> "busy", notified |-> FALSE]
         /\ Len(queue'[results]) = Len(queue[results]) + 1
<1>1. nslots + 1 \in Slot
  BY Types DEF CompressCurrent, TypeInv, CallerRoom, Slot
<1>2. /\ \A t \in Slot : t # nslots + 1 => slot'[t] = slot[t]
      /\ slot'[nslots + 1] = [data |-> currentBuffer, dict |-> prevTail, final |-> closed,
                              st |-> "busy", notified |-> FALSE]
  BY <1>1 DEF CompressCurrent, TypeInv, TypeOK, SlotTypeOK
<1>3. queue'[results] = Append(queue[results], nslots + 1)
  BY Types DEF CompressCurrent, TypeInv, TypeOK, ChanTypeOK
<1>4. Len(queue'[results]) = Len(queue[results]) + 1
  <2>1. queue[results] \in Seq(Slot)
    BY Types
  <2> QED BY <1>1, <1>3, <2>1
<1> QED BY <1>1, <1>2, <1>4 DEF CompressCurrent

\* The steps of the caller that make no block and start nothing anew.
LEMMA QuietCaller ==
  ASSUME TypeInv, OrderInv, ClientCall \/ CallerStep, ~CompressCurrent, ~ResetInit
  PROVE  /\ UNCHANGED <<w, nslots, slot, first, out, err, queue, prevTail>>
         /\ L.pc = "done" => L'.pc = "done"
         /\ N' = N
<1>1. ASSUME StartListener, w' = w PROVE L.pc = "done" => L'.pc = "done"
  <2>1. SUFFICES ASSUME L.pc = "done" PROVE L'.pc = "done"
    OBVIOUS
  <2>2. started
    BY <2>1 DEF OrderInv, ListenerNext
  <2> QED BY <1>1, <2>1, <2>2 DEF StartListener, L
<1>2. CASE ClientCall
  <2>1. UNCHANGED <<w, nslots, slot, first, out, err, queue, prevTail>>
    BY <1>2 DEF ClientCall, SetConcurrency, Write, WriteRefused, Flush, Close, FlushRefused, Reset
  <2>2. L.pc = "done" => L'.pc = "done"
    <3>1. StartListener \/ UNCHANGED listener
      BY <1>2 DEF ClientCall, SetConcurrency, Write, WriteRefused, Flush, Close, FlushRefused, Reset
    <3> QED BY <1>1, <2>1, <3>1 DEF L
  <2> QED BY <2>1, <2>2 DEF N
<1>3. CASE CallerStep
  <2>1. UNCHANGED <<w, nslots, slot, first, out, err, queue, prevTail, listener>>
    BY <1>3 DEF CallerStep, Fill, WriteReturn, CompressCurrentError, CompressCurrentPanic,
                AwaitWritten, WriteCheck, FlushCheck, CloseCheck
  <2> QED BY <2>1 DEF N, L
<1> QED BY <1>2, <1>3

\* Every step keeps StateInv.
LEMMA StateNext ==
  ASSUME TypeInv, OrderInv, StateInv, [Next]_vars
  PROVE  StateInv'
<1>t. /\ first \in Nat /\ nslots \in Nat /\ N \in Nat /\ Blocks \subseteq Slot
      /\ out[w] \in Seq(Slot) /\ Len(out[w]) \in Nat /\ nslots <= MaxSlots /\ MaxSlots \in Nat
  BY Types
<1>1. ASSUME UNCHANGED <<w, nslots, slot, first, err>>, N' = N, L.pc = "done" => L'.pc = "done"
      PROVE  StateInv'
  BY <1>1 DEF StateInv, Blocks
<1>2. CASE UNCHANGED vars
  BY <1>1, <1>2 DEF vars, N, L
<1>3. CASE (ClientCall \/ CallerStep) /\ ~CompressCurrent /\ ~ResetInit
  BY <1>1, <1>3, QuietCaller
<1>4. CASE CompressCurrent
  <2>1. N' = N /\ L' = L
    BY <1>4 DEF CompressCurrent, N, L
  <2>2. Blocks' = Blocks \cup {nslots + 1}
    BY <1>4, <1>t, CompressCurrentEffect DEF Blocks, OrderInv
  <2>3. /\ nslots' = nslots + 1 /\ first' = first /\ err' = err /\ nslots + 1 \in Slot
        /\ \A t \in Slot : t # nslots + 1 => slot'[t] = slot[t]
        /\ slot'[nslots + 1].st = "busy" /\ ~slot'[nslots + 1].notified
    BY <1>4, CompressCurrentEffect
  <2>4. \A s \in Blocks : s # nslots + 1 /\ s \in Slot
    BY <1>t DEF Blocks
  <2>5. first <= nslots /\ N <= nslots
    BY DEF OrderInv, StateInv
  <2>6. /\ N' <= nslots'
        /\ \A s \in Slot : s > nslots' => slot'[s].st = "none"
        /\ \A s \in Slot : s <= first' => slot'[s].st \notin {"busy", "failing"}
    BY <1>t, <2>1, <2>3, <2>5 DEF StateInv, Slot
  <2>7. ASSUME NEW s \in Blocks'
        PROVE  /\ s <= N' => slot'[s].st \in {"ready", "failed"}
               /\ slot'[s].st \in {"failing", "failed"} => err' # NoErr
               /\ slot'[s].notified => s <= N' \/ L'.pc = "done"
    <3>1. CASE s = nslots + 1
      BY <1>t, <2>1, <2>3, <2>5, <3>1
    <3>2. CASE s \in Blocks
      BY <2>1, <2>3, <2>4, <3>2 DEF StateInv
    <3> QED BY <2>2, <3>1, <3>2
  <2> QED BY <2>6, <2>7 DEF StateInv
<1>5. CASE ResetInit
  <2>1. first' = nslots /\ nslots' = nslots /\ N' = nslots
    <3>1. w' \in Sink /\ out[w'] = <<>>
      <4>1. w \in Sink /\ w' = w + 1 /\ w < MaxResets
        BY <1>5, Types DEF ResetInit, TypeInv, CallerRoom
      <4>2. w' \in Sink /\ w' > w
        BY <4>1, ConstantsAssumption DEF Sink
      <4> QED BY <4>2 DEF OrderInv, OthersInert
    <3> QED BY <1>5, <1>t, <3>1 DEF ResetInit, N
  <2>2. Blocks' = {}
    BY <1>t, <2>1 DEF Blocks
  <2>3. slot' = slot /\ \A s \in Slot : slot[s].st \notin {"busy", "failing"}
    BY <1>5 DEF ResetInit
  <2> QED BY <1>t, <2>1, <2>2, <2>3 DEF StateInv
<1>6. ASSUME NEW s \in Slot, CompressorStep(s) PROVE StateInv'
  <2>1. N' = N /\ L' = L /\ first' = first /\ nslots' = nslots /\ Blocks' = Blocks
    BY <1>6, CompressorEffect DEF N, L, Blocks
  <2>2. slot[s].st \in {"busy", "failing"}
    BY <1>6, CompressorEffect
  <2>3. s > first /\ s <= nslots /\ s \in Blocks /\ s > N
    BY <1>t, <2>2 DEF StateInv, Slot, Blocks
  <2> QED BY <1>6, <1>t, <2>1, <2>2, <2>3, CompressorEffect, ZenonT(60) DEF StateInv, Slot
<1>7. ASSUME NEW k \in Sink, ListenerStep(k) PROVE StateInv'
  <2>0. first' = first /\ nslots' = nslots /\ Blocks' = Blocks /\ w' = w
    BY <1>7, ListenerEffect DEF Blocks
  <2>1. CASE Listen(k) \/ Receive(k) \/ ListenerDone(k)
    <3>1. UNCHANGED <<slot, out, err>> /\ (L.pc = "done" => L'.pc = "done")
      BY <1>7, <2>1, ListenerEffect DEF Listen, Receive, ListenerDone, WriteBlock, WriteBlockError, Notify
    <3> QED BY <1>1, <2>0, <3>1 DEF N
  <2>2. ASSUME UNCHANGED <<slot, err>>, L.pc = "result", slot[N + 1].st \in {"ready", "failed"},
               out'[w] = Append(out[w], N + 1), N + 1 <= nslots, N + 1 \in Slot
        PROVE  StateInv'
    <3>1. N' = N + 1
      BY <1>t, <2>0, <2>2 DEF N
    <3> QED BY <1>t, <2>0, <2>2, <3>1 DEF StateInv, Blocks
  <2>3. ASSUME UNCHANGED <<slot, out>>, L.pc = "result", err' # NoErr PROVE StateInv'
    <3>1. N' = N
      BY <2>0, <2>3 DEF N
    <3> QED BY <2>0, <2>3, <3>1 DEF StateInv
  <2>4. ASSUME UNCHANGED <<out, err>>, L.r \in Slot, slot' = [slot EXCEPT ![L.r].notified = TRUE],
               \/ L.pc = "notify" /\ L'.pc = "recv" /\ L.r = N
               \/ L.pc = "abort" /\ L'.pc = "done" /\ L.r = N + 1 /\ err # NoErr
        PROVE  StateInv'
    <3>1. N' = N
      BY <2>0, <2>4 DEF N
    <3>2. \A t \in Slot : slot'[t].st = slot[t].st
      BY <2>4 DEF TypeInv, TypeOK, SlotTypeOK, SlotType
    <3>3. \A t \in Slot : t # L.r => slot'[t].notified = slot[t].notified
      BY <2>4 DEF TypeInv, TypeOK, SlotTypeOK, SlotType
    <3> QED BY <1>t, <2>0, <2>4, <3>1, <3>2, <3>3 DEF StateInv
  <2> QED BY <1>7, <2>1, <2>2, <2>3, <2>4, ListenerEffect
<1> QED BY <1>2, <1>3, <1>4, <1>5, <1>6, <1>7 DEF Next

-----------------------------------------------------------------------------
(***************************************************************************)
(* Closing                                                                 *)
(***************************************************************************)

\* Steps that are not the caller's leave the call, and what Close sees of it.
LEMMA OthersEffect ==
  ASSUME TypeInv, OrderInv, StateInv,
         \/ \E s \in Slot : CompressorStep(s)
         \/ \E k \in Sink : ListenerStep(k)
  PROVE  /\ UNCHANGED <<pc, op, q, ret, closed, chanClosed, results, nslots, first, sent,
                        blocks, w, currentBuffer, prevTail>>
         /\ err' # err => err' # NoErr /\ Open /\ N < nslots
         /\ \A s \in Slot : /\ slot'[s].data = slot[s].data /\ slot'[s].dict = slot[s].dict
                            /\ slot'[s].final = slot[s].final
                            /\ slot[s].notified => slot'[s].notified
                            /\ slot[s].st = "ready" => slot'[s].st = "ready"
<1>t. /\ first \in Nat /\ nslots \in Nat /\ N \in Nat /\ Blocks \subseteq Slot
      /\ \A s \in Slot : slot[s] \in SlotType
  BY Types
<1>1. ASSUME NEW s \in Slot, CompressorStep(s)
      PROVE  /\ UNCHANGED <<pc, op, q, ret, closed, chanClosed, results, nslots, first, sent,
                            blocks, w, currentBuffer, prevTail>>
             /\ err' # err => err' # NoErr /\ Open /\ N < nslots
             /\ \A t \in Slot : /\ slot'[t].data = slot[t].data /\ slot'[t].dict = slot[t].dict
                                /\ slot'[t].final = slot[t].final
                                /\ slot[t].notified => slot'[t].notified
                                /\ slot[t].st = "ready" => slot'[t].st = "ready"
  <2>1. slot[s].st \in {"busy", "failing"}
    BY <1>1, CompressorEffect
  <2>2. s > first /\ s <= nslots /\ s > N
    BY <1>t, <2>1 DEF StateInv, Slot, Blocks
  <2>3. N < nslots
    BY <1>t, <2>2 DEF Slot
  <2>4. Open
    BY <1>t, <2>3 DEF Open, OrderInv, ClosedComplete
  <2>5. err' # err => err' # NoErr
    BY <1>1, CompressorEffect
  <2>6. UNCHANGED <<pc, op, q, ret, closed, chanClosed, results, nslots, first, sent,
                    blocks, w, currentBuffer, prevTail>>
    BY <1>1, CompressorEffect
  <2>7. \A t \in Slot : /\ slot'[t].data = slot[t].data /\ slot'[t].dict = slot[t].dict
                        /\ slot'[t].final = slot[t].final
                        /\ slot[t].notified => slot'[t].notified
                        /\ slot[t].st = "ready" => slot'[t].st = "ready"
    BY <1>1, <2>1, CompressorEffect
  <2> QED BY <2>3, <2>4, <2>5, <2>6, <2>7
<1>2. ASSUME NEW k \in Sink, ListenerStep(k)
      PROVE  /\ UNCHANGED <<pc, op, q, ret, closed, chanClosed, results, nslots, first, sent,
                            blocks, w, currentBuffer, prevTail>>
             /\ err' # err => err' # NoErr /\ Open /\ N < nslots
             /\ \A t \in Slot : /\ slot'[t].data = slot[t].data /\ slot'[t].dict = slot[t].dict
                                /\ slot'[t].final = slot[t].final
                                /\ slot[t].notified => slot'[t].notified
                                /\ slot[t].st = "ready" => slot'[t].st = "ready"
  <2>1. UNCHANGED <<pc, op, q, ret, closed, chanClosed, results, nslots, first, sent,
                    blocks, w, currentBuffer, prevTail>>
    BY <1>2, ListenerEffect
  <2>2. err' # err => err' # NoErr /\ Open /\ N < nslots
    <3>1. N + 1 <= nslots => N < nslots
      BY <1>t
    <3> QED BY <1>2, <3>1, ListenerEffect
  <2>3. ASSUME NEW r \in Slot, slot' = [slot EXCEPT ![r].notified = TRUE]
        PROVE  \A t \in Slot : /\ slot'[t].data = slot[t].data /\ slot'[t].dict = slot[t].dict
                               /\ slot'[t].final = slot[t].final
                               /\ slot[t].notified => slot'[t].notified
                               /\ slot[t].st = "ready" => slot'[t].st = "ready"
    BY <2>3 DEF TypeInv, TypeOK, SlotTypeOK, SlotType
  <2>4. \/ UNCHANGED slot
        \/ L.r \in Slot /\ slot' = [slot EXCEPT ![L.r].notified = TRUE]
    BY <1>2, ListenerEffect
  <2> QED BY <2>1, <2>2, <2>3, <2>4
<1> QED BY <1>1, <1>2

\* Every step keeps CloseInv.
LEMMA CloseNext ==
  ASSUME ~ResetAnytime, TypeInv, OrderInv, StateInv, CloseInv, [Next]_vars
  PROVE  CloseInv'
<1> USE DEF CloseInv, Open, InWrite, Barriers
<1>t. results \in Chan /\ chanClosed \in [Chan -> BOOLEAN] /\ op \in Methods /\ pc \in CallerStates
      /\ closed \in BOOLEAN
  BY Types DEF TypeInv, TypeOK, ChanTypeOK, CallTypeOK, ZTypeOK
<1>1. CASE UNCHANGED vars
  BY <1>1 DEF vars
<1>2. CASE (\E s \in Slot : CompressorStep(s)) \/ \E k \in Sink : ListenerStep(k)
  <2>1. /\ UNCHANGED <<pc, op, closed, chanClosed, results>>
        /\ err' # err => err' # NoErr /\ Open
    BY <1>2, OthersEffect
  <2> QED BY <2>1
<1>3. ASSUME NEW c \in Settings, SetConcurrency(c[1], c[2]) PROVE CloseInv'
  <2>1. ~chanClosed[results + 1] /\ pc = "idle" /\ results' = results + 1
        /\ UNCHANGED <<pc, op, closed, err, chanClosed>>
    <3>1. results + 1 \in Chan /\ results + 1 > results
      BY <1>3, <1>t, ConstantsAssumption DEF SetConcurrency, Chan
    <3> QED BY <1>3, <3>1 DEF SetConcurrency, OrderInv, OthersInert
  <2>2. ~chanClosed[results]
    BY <1>3 DEF SetConcurrency, OrderInv, ListenerNext, ClosedComplete
  <2> QED BY <2>1, <2>2
<1>4. ASSUME NEW n \in 0 .. MaxWrite, Write(n) PROVE CloseInv'
  BY <1>4 DEF Write
<1>5. CASE WriteRefused \/ FlushRefused
  BY <1>5 DEF WriteRefused, FlushRefused
<1>6. CASE Flush \/ Close
  BY <1>6 DEF Flush, Close
<1>7. CASE Reset
  BY <1>7, <1>t DEF Reset
<1>8. CASE Fill \/ WriteReturn \/ CompressCurrentError \/ CompressCurrentPanic
           \/ AwaitWritten \/ WriteCheck \/ FlushCheck
  BY <1>8 DEF Fill, WriteReturn, CompressCurrentError, CompressCurrentPanic,
              AwaitWritten, WriteCheck, FlushCheck, TypeInv, CallerRoom
<1>9. CASE CompressCurrent
  BY <1>9 DEF CompressCurrent
<1>10. CASE CloseCheck
  BY <1>10, <1>t DEF CloseCheck
<1>11. CASE ResetInit
  <2>1. ~chanClosed[results + 1]
    <3>1. results + 1 \in Chan /\ results + 1 > results
      BY <1>11, <1>t, ConstantsAssumption DEF ResetInit, TypeInv, CallerRoom, Chan
    <3> QED BY <3>1 DEF OrderInv, OthersInert
  <2> QED BY <1>11, <2>1 DEF ResetInit
<1> QED BY <1>1, <1>2, <1>3, <1>4, <1>5, <1>6, <1>7, <1>8, <1>9, <1>10, <1>11
        DEF Next, ClientCall, CallerStep

\* SetConcurrency, too, leaves the stream with an open channel.
LEMMA SettingEffect ==
  ASSUME TypeInv, OrderInv, NEW c \in Settings, SetConcurrency(c[1], c[2])
  PROVE  /\ Open /\ Open' /\ L.pc = "none" /\ nslots = first /\ N = nslots
         /\ queue'[results'] = <<>> /\ blocks' \in Nat
<1>t. results \in Chan /\ w \in Sink /\ first \in Nat
  BY Types
<1>1. results + 1 \in Chan /\ results + 1 > results
  BY <1>t, ConstantsAssumption DEF SetConcurrency, Chan
<1>2. ~chanClosed[results + 1] /\ queue[results + 1] = <<>>
  BY <1>1 DEF OrderInv, OthersInert
<1>3. L.pc = "none" /\ out[w] = <<>> /\ nslots = first
  BY DEF SetConcurrency, OrderInv, ListenerNext
<1>4. Open
  BY <1>3 DEF Open, SetConcurrency, OrderInv, ClosedComplete
<1>5. N = nslots
  BY <1>t, <1>3 DEF N
<1>6. c[2] \in Nat
  BY ConstantsAssumption
<1> QED BY <1>2, <1>3, <1>4, <1>5, <1>6 DEF Open, SetConcurrency

\* What the end of Reset does: a new stream without blocks, on a new channel.
LEMMA ResetInitEffect ==
  ASSUME TypeInv, OrderInv, ResetInit
  PROVE  /\ Open' /\ first' = nslots /\ nslots' = nslots /\ N' = nslots /\ Blocks' = {}
         /\ queue'[results'] = <<>> /\ w' \in Sink /\ out'[w'] = <<>> /\ ~InWrite'
         /\ pc' = "idle" /\ op' = "none" /\ sent' = 0 /\ currentBuffer' = <<>> /\ prevTail' = <<>>
         /\ ret' = [op |-> "none", err |-> NoErr] /\ ~closed' /\ err' = NoErr
         /\ blocks' = blocks /\ slot' = slot
<1>t. results \in Chan /\ w \in Sink /\ first \in Nat /\ nslots \in Nat
  BY Types
<1>1. results + 1 \in Chan /\ results + 1 > results
  BY <1>t, ConstantsAssumption DEF ResetInit, TypeInv, CallerRoom, Chan
<1>2. w + 1 \in Sink /\ w + 1 > w
  BY <1>t, ConstantsAssumption DEF ResetInit, TypeInv, CallerRoom, Sink
<1>3. ~chanClosed[results + 1] /\ queue[results + 1] = <<>> /\ out[w + 1] = <<>>
  BY <1>1, <1>2 DEF OrderInv, OthersInert
<1>4. /\ pc' = "idle" /\ op' = "none" /\ sent' = 0 /\ currentBuffer' = <<>> /\ prevTail' = <<>>
      /\ ret' = [op |-> "none", err |-> NoErr] /\ ~closed' /\ err' = NoErr
      /\ blocks' = blocks /\ slot' = slot /\ first' = nslots /\ nslots' = nslots
      /\ results' = results + 1 /\ w' = w + 1 /\ UNCHANGED <<queue, chanClosed, out>>
  BY Zenon DEF ResetInit
<1>5. Open' /\ ~InWrite'
  BY <1>3, <1>4 DEF Open, InWrite
<1>6. Blocks' = {}
  BY <1>t, <1>4 DEF Blocks
<1>7. N' = nslots
  BY <1>t, <1>3, <1>4 DEF N
<1> QED BY <1>2, <1>3, <1>4, <1>5, <1>6, <1>7

\* Every step keeps FinalInv.
LEMMA FinalNext ==
  ASSUME ~ResetAnytime, TypeInv, OrderInv, StateInv, CloseInv, FinalInv, [Next]_vars
  PROVE  FinalInv'
<1>t. /\ results \in Chan /\ chanClosed \in [Chan -> BOOLEAN] /\ op \in Methods /\ pc \in CallerStates
      /\ first \in Nat /\ nslots \in Nat /\ Blocks \subseteq Slot /\ closed \in BOOLEAN
      /\ first <= nslots
  BY Types DEF TypeInv, TypeOK, ChanTypeOK, CallTypeOK, ZTypeOK, OrderInv
<1>n. nslots > first => nslots \in Blocks
  BY <1>t DEF Blocks
<1>1. CASE UNCHANGED vars
  BY <1>1 DEF vars, FinalInv, Blocks, Open
<1>2. CASE (\E s \in Slot : CompressorStep(s)) \/ \E k \in Sink : ListenerStep(k)
  <2>1. /\ UNCHANGED <<pc, op, closed, chanClosed, results, nslots, first>>
        /\ err' # err => err' # NoErr
    BY <1>2, OthersEffect
  <2>2. \A s \in Blocks : /\ slot'[s].final = slot[s].final
                          /\ slot[s].notified => slot'[s].notified
    BY <1>2, <1>t, OthersEffect
  <2>3. Blocks' = Blocks /\ Open' = Open
    BY <2>1 DEF Blocks, Open
  <2>4. pc = "await" => nslots > first
    BY DEF OrderInv, ClosedComplete
  <2>5. (pc = "check" /\ op = "Close" /\ err = NoErr) => nslots > first
    BY DEF OrderInv, ClosedComplete
  <2>6. err' = NoErr => err = NoErr
    BY <2>1
  <2> QED BY <1>n, <2>1, <2>2, <2>3, <2>4, <2>5, <2>6 DEF FinalInv
<1>3. ASSUME UNCHANGED <<nslots, first, slot, closed>>, Open' = Open,
             pc' \notin {"await", "send"}, pc # "await",
             ~(pc' = "check" /\ op' = "Close" /\ err' = NoErr)
      PROVE  FinalInv'
  BY <1>3 DEF FinalInv, Blocks
<1>4. ASSUME NEW c \in Settings, SetConcurrency(c[1], c[2]) PROVE FinalInv'
  <2>1. /\ UNCHANGED <<nslots, first, slot, closed, pc>> /\ pc = "idle"
        /\ Open /\ Open'
    BY <1>4, SettingEffect DEF SetConcurrency
  <2> QED BY <2>1 DEF FinalInv, Blocks
<1>5. ASSUME NEW n \in 0 .. MaxWrite, Write(n) PROVE FinalInv'
  BY <1>3, <1>5 DEF Write, Open
<1>6. CASE WriteRefused \/ FlushRefused
  BY <1>3, <1>6 DEF WriteRefused, FlushRefused, Open
<1>7. CASE Flush \/ Close
  BY <1>7 DEF Flush, Close, FinalInv, CloseInv, Blocks, Open
<1>8. CASE Reset
  BY <1>8, <1>t DEF Reset, Open, FinalInv, Blocks
<1>9. CASE WriteReturn \/ WriteCheck \/ FlushCheck \/ CompressCurrentPanic
  BY <1>3, <1>9 DEF WriteReturn, WriteCheck, FlushCheck, CompressCurrentPanic, Open
<1>10. CASE CompressCurrentError
  BY <1>10 DEF CompressCurrentError, FinalInv, Blocks, Open
<1>11. CASE Fill
  <2>1. op = "Write" /\ pc = "fill"
    BY <1>11 DEF Fill, TypeInv, CallerRoom
  <2> QED BY <1>11, <2>1 DEF Fill, FinalInv, Blocks, Open
<1>12. CASE AwaitWritten
  BY <1>12 DEF AwaitWritten, FinalInv, Blocks, Open
<1>13. CASE CloseCheck
  <2>1. err = NoErr => nslots > first /\ slot[nslots].final
    BY <1>13 DEF CloseCheck, FinalInv, OrderInv, ClosedComplete
  <2>2. Open /\ closed
    BY <1>13 DEF CloseCheck, CloseInv, Barriers
  <2>3. ~Open' => err = NoErr
    BY <1>13, <1>t, <2>2 DEF CloseCheck, Open
  <2> QED BY <1>13, <2>1, <2>2, <2>3 DEF CloseCheck, FinalInv, Blocks
<1>14. CASE CompressCurrent
  <2>1. /\ nslots' = nslots + 1 /\ nslots + 1 \in Slot
        /\ \A t \in Slot : t # nslots + 1 => slot'[t] = slot[t]
        /\ slot'[nslots + 1].final = closed /\ ~slot'[nslots + 1].notified
        /\ UNCHANGED <<closed, op, err, first, chanClosed, results>> /\ pc = "send"
        /\ pc' = (IF op = "Write" THEN "check" ELSE "await") /\ ~chanClosed[results]
    BY <1>14, CompressCurrentEffect
  <2>2. Open /\ Open'
    BY <2>1 DEF Open
  <2>3. closed => op = "Close"
    BY <1>t, <2>1, <2>2 DEF CloseInv, Barriers, InWrite, Methods
  <2>4. \A s \in Blocks : ~slot[s].final /\ s # nslots + 1
    BY <1>t, <2>1, <2>3 DEF FinalInv, Blocks
  <2>5. Blocks' = Blocks \cup {nslots + 1}
    BY <1>t, <2>1 DEF Blocks
  <2>6. \A s \in Blocks' : slot'[s].final => s = nslots + 1 /\ closed
    BY <1>t, <2>1, <2>4, <2>5
  <2>7. op = "Close" => closed
    BY <2>1 DEF CloseInv, Barriers
  <2> QED BY <2>1, <2>2, <2>3, <2>6, <2>7 DEF FinalInv
<1>15. CASE ResetInit
  <2>1. Blocks' = {} /\ Open' /\ pc' = "idle"
    BY <1>15, ResetInitEffect
  <2> QED BY <2>1 DEF FinalInv
<1> QED BY <1>1, <1>2, <1>4, <1>5, <1>6, <1>7, <1>8, <1>9, <1>10, <1>11, <1>12, <1>13, <1>14, <1>15
        DEF Next, ClientCall, CallerStep

-----------------------------------------------------------------------------
(***************************************************************************)
(* The channel and the dictionaries                                        *)
(***************************************************************************)

\* Every step keeps QueueInv.
LEMMA QueueNext ==
  ASSUME TypeInv, OrderInv, StateInv, QueueInv, [Next]_vars
  PROVE  QueueInv'
<1>t. /\ first \in Nat /\ nslots \in Nat /\ N \in Nat /\ results \in Chan /\ w \in Sink
      /\ queue[results] \in Seq(Slot) /\ Len(queue[results]) \in Nat /\ blocks \in Nat
      /\ out[w] \in Seq(Slot) /\ Len(out[w]) \in Nat
  BY Types DEF TypeInv, TypeOK, ZTypeOK
<1>1. ASSUME UNCHANGED <<results, blocks, nslots, queue>>, N' = N, pc = "reset" => pc' = "reset"
      PROVE  QueueInv'
  BY <1>1 DEF QueueInv
<1>2. CASE UNCHANGED vars
  BY <1>1, <1>2 DEF vars, N
<1>3. CASE \E s \in Slot : CompressorStep(s)
  BY <1>1, <1>3, CompressorEffect DEF N
<1>4. ASSUME NEW c \in Settings, SetConcurrency(c[1], c[2]) PROVE QueueInv'
  <2>1. N' = nslots' /\ nslots' = nslots /\ queue'[results'] = <<>> /\ blocks' \in Nat
    BY <1>4, SettingEffect DEF SetConcurrency, N
  <2> QED BY <1>t, <2>1 DEF QueueInv
<1>5. CASE ResetInit
  <2>1. N' = nslots' /\ nslots' = nslots /\ queue'[results'] = <<>> /\ blocks' = blocks
    BY <1>5, ResetInitEffect
  <2> QED BY <1>t, <2>1 DEF QueueInv
<1>6. CASE Reset
  BY <1>6 DEF Reset, QueueInv
<1>7. CASE CompressCurrent
  <2>1. /\ Len(queue[results]) < blocks /\ Len(queue'[results']) = Len(queue[results]) + 1
        /\ nslots' = nslots + 1 /\ blocks' = blocks /\ pc = "send"
    BY <1>7, CompressCurrentEffect
  <2>2. N' = N
    BY <1>7 DEF CompressCurrent, N
  <2> QED BY <1>t, <2>1, <2>2 DEF QueueInv
<1>8. ASSUME (\E n \in 0 .. MaxWrite : Write(n)) \/ WriteRefused \/ Flush \/ Close \/ FlushRefused
             \/ Fill \/ WriteReturn \/ CompressCurrentError \/ CompressCurrentPanic
             \/ AwaitWritten \/ WriteCheck \/ FlushCheck \/ CloseCheck
      PROVE  QueueInv'
  <2>1. UNCHANGED <<results, blocks, nslots, queue, first, out, w>> /\ pc # "reset"
    BY <1>8 DEF Write, WriteRefused, Flush, Close, FlushRefused, Fill, WriteReturn,
                CompressCurrentError, CompressCurrentPanic, AwaitWritten, WriteCheck,
                FlushCheck, CloseCheck
  <2> QED BY <1>1, <2>1 DEF N
<1>9. ASSUME NEW k \in Sink, ListenerStep(k) PROVE QueueInv'
  <2>0. UNCHANGED <<results, blocks, nslots, first, w, pc>>
    BY <1>9, ListenerEffect
  <2>1. CASE Receive(k)
    <3>1. k = w /\ N' = N
      BY <1>9, <2>0, <2>1, CurrentListener DEF Receive, ListenerDone, N
    <3>2. SUFFICES ASSUME pc # "reset" PROVE QueueInv'
      BY <2>0 DEF QueueInv
    <3>3. L.pc = "recv" /\ L.ch = results /\ queue[results] # <<>>
          /\ queue'[results] = Tail(queue[results])
      BY <1>t, <2>1, <3>1, <3>2 DEF Receive, L, OrderInv, ListenerNext, TypeInv, TypeOK, ChanTypeOK
    <3>4. Len(queue[results]) = nslots - N
      BY <3>2, <3>3 DEF OrderInv, QueueRest, Taken
    <3>5. Len(queue'[results]) = Len(queue[results]) - 1
      BY <1>t, <3>3
    <3> QED BY <1>t, <2>0, <3>1, <3>2, <3>4, <3>5 DEF QueueInv
  <2>2. ASSUME UNCHANGED queue, out'[w] = Append(out[w], N + 1), N + 1 \in Slot PROVE QueueInv'
    <3>1. N' = N + 1
      BY <1>t, <2>0, <2>2 DEF N
    <3> QED BY <1>t, <2>0, <2>2, <3>1 DEF QueueInv
  <2>3. ASSUME UNCHANGED <<queue, out>> PROVE QueueInv'
    BY <1>1, <2>0, <2>3 DEF N
  <2>4. Listen(k) \/ ListenerDone(k) => UNCHANGED <<queue, out>>
    BY DEF Listen, ListenerDone
  <2> QED BY <1>9, <2>1, <2>2, <2>3, <2>4, ListenerEffect
<1> QED BY <1>2, <1>3, <1>4, <1>5, <1>6, <1>7, <1>8, <1>9 DEF Next, ClientCall, CallerStep

\* Every step keeps DictInv.
LEMMA DictNext ==
  ASSUME TypeInv, OrderInv, StateInv, DictInv, [Next]_vars
  PROVE  DictInv'
<1>t. /\ first \in Nat /\ nslots \in Nat /\ Blocks \subseteq Slot /\ first <= nslots
      /\ nslots <= MaxSlots /\ MaxSlots \in Nat
  BY Types DEF OrderInv
<1>1. ASSUME UNCHANGED <<nslots, first, prevTail>>,
             \A s \in Slot : slot'[s].data = slot[s].data /\ slot'[s].dict = slot[s].dict
      PROVE  DictInv'
  <2>1. Blocks' = Blocks /\ \A s \in Blocks : s # first + 1 => s - 1 \in Slot
    BY <1>1, <1>t DEF Blocks, Slot
  <2>2. nslots > first => nslots \in Slot
    BY <1>t DEF Slot
  <2> QED BY <1>1, <1>t, <2>1, <2>2 DEF DictInv, TailOf
<1>2. CASE UNCHANGED vars
  BY <1>1, <1>2 DEF vars
<1>3. CASE (\E s \in Slot : CompressorStep(s)) \/ \E k \in Sink : ListenerStep(k)
  BY <1>1, <1>3, OthersEffect
<1>4. CASE (ClientCall \/ CallerStep) /\ ~CompressCurrent /\ ~ResetInit
  BY <1>1, <1>4, QuietCaller
<1>5. CASE ResetInit
  <2>1. Blocks' = {} /\ nslots' = first' /\ prevTail' = <<>> /\ nslots' = nslots
    BY <1>5, ResetInitEffect
  <2> QED BY <1>t, <2>1 DEF DictInv
<1>6. CASE CompressCurrent
  <2>1. /\ nslots' = nslots + 1 /\ nslots + 1 \in Slot /\ first' = first
        /\ \A t \in Slot : t # nslots + 1 => slot'[t] = slot[t]
        /\ slot'[nslots + 1].data = currentBuffer /\ slot'[nslots + 1].dict = prevTail
        /\ prevTail' = TailOf(currentBuffer)
    BY <1>6, CompressCurrentEffect
  <2>2. Blocks' = Blocks \cup {nslots + 1}
    BY <1>t, <2>1 DEF Blocks
  <2>3. \A s \in Blocks : slot'[s] = slot[s] /\ (s # first + 1 => slot'[s - 1] = slot[s - 1])
    BY <1>t, <2>1 DEF Blocks, Slot
  <2>4. nslots > first => slot'[nslots] = slot[nslots]
    BY <1>t, <2>1 DEF Slot
  <2>5. slot'[nslots + 1].dict = IF nslots + 1 = first + 1 THEN <<>>
                                 ELSE TailOf(slot'[(nslots + 1) - 1].data)
    <3>1. (nslots + 1) - 1 = nslots
      BY <1>t
    <3>2. CASE nslots = first
      BY <2>1, <3>2 DEF DictInv
    <3>3. CASE nslots > first
      <4>1. nslots + 1 # first + 1
        BY <1>t, <3>3
      <4>2. prevTail = TailOf(slot[nslots].data)
        BY <3>3 DEF DictInv
      <4> QED BY <2>1, <2>4, <3>1, <3>3, <4>1, <4>2
    <3> QED BY <1>t, <3>2, <3>3
  <2>6. ASSUME NEW s \in Blocks
        PROVE  slot'[s].dict = IF s = first + 1 THEN <<>> ELSE TailOf(slot'[s - 1].data)
    <3>1. slot[s].dict = IF s = first + 1 THEN <<>> ELSE TailOf(slot[s - 1].data)
      BY DEF DictInv
    <3> QED BY <2>3, <3>1
  <2>7. nslots' > first' /\ prevTail' = TailOf(slot'[nslots'].data)
    BY <1>t, <2>1
  <2>8. nslots' # first'
    BY <1>t, <2>1
  <2> HIDE DEF TailOf
  <2> DEFINE D(s) == slot'[s].dict = IF s = first + 1 THEN <<>> ELSE TailOf(slot'[s - 1].data)
  <2>10. \A s \in Blocks' : D(s)
    <3>1. D(nslots + 1)
      BY <2>5
    <3>2. \A s \in Blocks : D(s)
      BY <2>6
    <3> HIDE DEF D
    <3> QED BY <2>2, <3>1, <3>2
  <2> QED BY <2>1, <2>7, <2>8, <2>10 DEF DictInv
<1> QED BY <1>2, <1>3, <1>4, <1>5, <1>6 DEF Next

-----------------------------------------------------------------------------
(***************************************************************************)
(* Which units are where                                                   *)
(***************************************************************************)

\* Ends depends on the blocks of the stream and their data alone.
LEMMA EndsKept ==
  ASSUME NEW h \in [Nat -> Nat], TypeInv, Ends(h), UNCHANGED <<first, nslots>>,
         \A s \in Slot : slot'[s].data = slot[s].data
  PROVE  Ends(h)'
<1>1. Blocks' = Blocks /\ Blocks \subseteq Slot
  BY Types DEF Blocks
<1>2. \A s \in Blocks : slot'[s].data = slot[s].data
  BY <1>1
<1> QED BY <1>1, <1>2, ZenonT(60) DEF Ends

\* The types of what Held speaks of.
LEMMA HeldTypes ==
  ASSUME NEW h \in [Nat -> Nat], TypeInv
  PROVE  /\ h[nslots] \in Nat /\ sent \in Nat /\ currentBuffer \in Seq(Nat) /\ q \in Seq(Nat)
         /\ Len(currentBuffer) \in Nat /\ Len(q) \in Nat
<1>1. sent \in Nat /\ currentBuffer \in Seq(Nat) /\ q \in Seq(Nat) /\ nslots \in Nat
  BY Types DEF TypeInv, TypeOK, ZTypeOK, CallTypeOK, HistTypeOK
<1>2. Len(currentBuffer) \in Nat /\ Len(q) \in Nat
  BY <1>1, SMTT(60)
<1> QED BY <1>1, <1>2

\* In a stream with everything written and no error, every block is ready.
LEMMA AllReady ==
  ASSUME TypeInv, StateInv, N = nslots, err = NoErr
  PROVE  \A s \in Blocks : slot[s].st = "ready"
<1>1. first \in Nat /\ nslots \in Nat
  BY Types
<1>2. \A s \in Blocks : s <= N
  BY <1>1 DEF Blocks
<1> QED BY <1>2 DEF StateInv

\* Two runs of units that follow each other still do when the first units of the
\* second are moved to the end of the first.
LEMMA MoveUnits ==
  \A a, b \in Seq(Nat) : \A l \in 0 .. Len(b) : \A m \in Nat :
    /\ \A j \in 1 .. Len(a) : a[j] = m + j
    /\ \A j \in 1 .. Len(b) : b[j] = m + Len(a) + j
    => /\ \A j \in 1 .. Len(a) + l : (a \o SubSeq(b, 1, l))[j] = m + j
       /\ \A j \in 1 .. Len(b) - l : SubSeq(b, l + 1, Len(b))[j] = m + (Len(a) + l) + j
<1> SUFFICES
      ASSUME NEW a \in Seq(Nat), NEW b \in Seq(Nat), NEW l \in 0 .. Len(b), NEW m \in Nat,
             \A j \in 1 .. Len(a) : a[j] = m + j,
             \A j \in 1 .. Len(b) : b[j] = m + Len(a) + j
      PROVE  /\ \A j \in 1 .. Len(a) + l : (a \o SubSeq(b, 1, l))[j] = m + j
             /\ \A j \in 1 .. Len(b) - l : SubSeq(b, l + 1, Len(b))[j] = m + (Len(a) + l) + j
  BY Zenon
<1>0. Len(a) \in Nat /\ Len(b) \in Nat /\ l \in Nat /\ l <= Len(b)
  OBVIOUS
<1>1. /\ SubSeq(b, 1, l) \in Seq(Nat) /\ Len(SubSeq(b, 1, l)) = l
      /\ \A i \in 1 .. l : SubSeq(b, 1, l)[i] = b[i]
  OBVIOUS
<1>2. ASSUME NEW j \in 1 .. Len(a) + l PROVE (a \o SubSeq(b, 1, l))[j] = m + j
  <2>1. CASE j <= Len(a)
    BY <1>0, <1>1, <2>1
  <2>2. CASE j > Len(a)
    <3>1. j - Len(a) \in 1 .. l /\ j - Len(a) \in 1 .. Len(b)
      BY <1>0, <2>2
    <3>2. (a \o SubSeq(b, 1, l))[j] = SubSeq(b, 1, l)[j - Len(a)]
      BY <1>0, <1>1, <2>2
    <3>3. b[j - Len(a)] = m + Len(a) + (j - Len(a))
      BY <3>1
    <3>4. m + Len(a) + (j - Len(a)) = m + j
      BY <1>0
    <3> QED BY <1>1, <3>1, <3>2, <3>3, <3>4
  <2> QED BY <1>0, <2>1, <2>2
<1>3. ASSUME NEW j \in 1 .. Len(b) - l
      PROVE  SubSeq(b, l + 1, Len(b))[j] = m + (Len(a) + l) + j
  <2>1. l + j \in 1 .. Len(b)
    BY <1>0
  <2>2. SubSeq(b, l + 1, Len(b))[j] = b[l + j]
    BY <1>0
  <2>3. b[l + j] = m + Len(a) + (l + j)
    BY <2>1
  <2> QED BY <1>0, <2>2, <2>3
<1> QED BY <1>2, <1>3

\* How many units fit.
LEMMA FitLemma ==
  \A a, b, c \in Nat : a < c => (IF b + a > c THEN c - a ELSE b) \in 0 .. b
OBVIOUS

\* Fill moves units from what is left of Write's argument to the buffer.
LEMMA FillUnits ==
  ASSUME NEW h \in [Nat -> Nat], TypeInv, Held(h), Fill
  PROVE  Held(h)'
<1> DEFINE length == IF Len(q) + Len(currentBuffer) > blockSize
                     THEN blockSize - Len(currentBuffer) ELSE Len(q)
<1>t. /\ h[nslots] \in Nat /\ sent \in Nat /\ currentBuffer \in Seq(Nat) /\ q \in Seq(Nat)
      /\ Len(currentBuffer) \in Nat /\ Len(q) \in Nat
      /\ blockSize \in Nat /\ Len(currentBuffer) < blockSize
  BY HeldTypes DEF Fill, TypeInv, TypeOK, ZTypeOK, CallerRoom
<1>1. length \in 0 .. Len(q)
  <2>1. /\ Len(currentBuffer) \in Nat /\ Len(q) \in Nat /\ blockSize \in Nat
        /\ Len(currentBuffer) < blockSize
    BY <1>t
  <2> QED BY <2>1, FitLemma, Zenon
<1>2. /\ currentBuffer' = currentBuffer \o SubSeq(q, 1, length)
      /\ q' = SubSeq(q, length + 1, Len(q))
      /\ pc' \in {"send", "fill"} /\ pc = "fill" /\ op = "Write" /\ op' = "Write"
      /\ UNCHANGED <<results, chanClosed, nslots, sent, err>>
  BY DEF Fill, TypeInv, CallerRoom
<1>3. Open' = Open /\ InWrite /\ InWrite'
  BY <1>2 DEF Open, InWrite
<1>4. CASE Open
  <2>1. /\ \A j \in 1 .. Len(currentBuffer) : currentBuffer[j] = h[nslots] + j
        /\ \A j \in 1 .. Len(q) : q[j] = h[nslots] + Len(currentBuffer) + j
        /\ h[nslots] + Len(currentBuffer) + Len(q) = sent /\ h[nslots] <= sent
    BY <1>3, <1>4 DEF Held
  <2> HIDE DEF length
  <2>2. Len(currentBuffer') = Len(currentBuffer) + length /\ Len(q') = Len(q) - length
    BY <1>1, <1>2, <1>t, CopyLemma, Zenon
  <2>3. /\ \A j \in 1 .. Len(currentBuffer') : currentBuffer'[j] = h[nslots] + j
        /\ \A j \in 1 .. Len(q') : q'[j] = h[nslots] + Len(currentBuffer') + j
    <3>1. /\ \A j \in 1 .. Len(currentBuffer) + length :
               (currentBuffer \o SubSeq(q, 1, length))[j] = h[nslots] + j
          /\ \A j \in 1 .. Len(q) - length :
               SubSeq(q, length + 1, Len(q))[j] = h[nslots] + (Len(currentBuffer) + length) + j
      BY <1>1, <1>t, <2>1, MoveUnits, ZenonT(60)
    <3> QED BY <1>2, <2>2, <3>1, Zenon
  <2>4. h[nslots] + Len(currentBuffer') + Len(q') = sent /\ h[nslots] + Len(currentBuffer') <= sent
    <3>1. length \in Nat /\ length <= Len(q)
      BY <1>1, <1>t
    <3>2. h[nslots] + Len(currentBuffer) + Len(q) = sent
      BY <2>1
    <3> DEFINE b == h[nslots]
               lc == Len(currentBuffer)
               lq == Len(q)
    <3>3. b \in Nat /\ lc \in Nat /\ lq \in Nat /\ sent \in Nat
      BY <1>t
    <3> HIDE DEF b, lc, lq
    <3>4. b + (lc + length) + (lq - length) = b + lc + lq /\ b + (lc + length) <= b + lc + lq
      BY <3>1, <3>3 DEF lq
    <3> QED BY <2>2, <3>2, <3>4 DEF b, lc, lq
  <2> QED BY <1>2, <1>3, <1>4, <2>1, <2>3, <2>4 DEF Held
<1>5. CASE ~Open
  BY <1>2, <1>3, <1>5 DEF Held
<1> QED BY <1>4, <1>5

\* compressCurrent makes a block of the units in the buffer.
LEMMA CompressUnits ==
  ASSUME TypeInv, OrderInv, UnitsInv, CompressCurrent
  PROVE  UnitsInv'
<1>1. PICK h \in [Nat -> Nat] : Ends(h) /\ Held(h)
  BY DEF UnitsInv
<1>2. /\ UNCHANGED <<err, results, chanClosed, op, q, first, sent>>
      /\ pc = "send" /\ ~chanClosed[results]
      /\ pc' = (IF op = "Write" THEN "check" ELSE "await")
      /\ nslots' = nslots + 1 /\ nslots + 1 \in Slot /\ currentBuffer' = <<>>
      /\ \A t \in Slot : t # nslots + 1 => slot'[t] = slot[t]
      /\ slot'[nslots + 1].data = currentBuffer
  BY CompressCurrentEffect, SMTT(60)
<1>3. Open /\ Open' /\ InWrite' = InWrite /\ (InWrite <=> op = "Write") /\ pc' # "idle"
  BY <1>2 DEF Open, InWrite
<1> DEFINE b == h[nslots]
           l == Len(currentBuffer)
<1>t. /\ b \in Nat /\ l \in Nat /\ sent \in Nat /\ first \in Nat /\ nslots \in Nat
      /\ first <= nslots /\ Blocks \subseteq Slot
  BY <1>1, HeldTypes, Types DEF OrderInv
<1>4. PICK g \in [Nat -> Nat] :
        g[nslots + 1] = b + l /\ \A n \in Nat : n # nslots + 1 => g[n] = h[n]
  <2>1. nslots + 1 \in Nat /\ b + l \in Nat
    BY <1>t, SMTT(60)
  <2>2. [h EXCEPT ![nslots + 1] = b + l] \in [Nat -> Nat]
    BY <2>1
  <2> QED BY <2>1, <2>2
<1>5. \A n \in first .. nslots : n \in Nat /\ g[n] = h[n]
  BY <1>t, <1>4
<1>6. Blocks' = Blocks \cup {nslots + 1} /\ first' .. nslots' = (first .. nslots) \cup {nslots + 1}
  <2>0. first \in Nat /\ nslots \in Nat /\ first <= nslots
    BY <1>t
  <2>1. first' = first /\ nslots' = nslots + 1
    BY <1>2
  <2>2. first + 1 .. nslots + 1 = (first + 1 .. nslots) \cup {nslots + 1}
    BY <2>0
  <2>3. first .. nslots + 1 = (first .. nslots) \cup {nslots + 1}
    BY <2>0
  <2> QED BY <2>1, <2>2, <2>3 DEF Blocks
<1>7. \A n \in first .. nslots : h[n] \in Nat /\ h[n] <= b
  <2>1. \A n \in first .. nslots : n <= nslots /\ n \in Nat
    BY <1>t
  <2>2. nslots \in first .. nslots
    BY <1>t
  <2> QED BY <1>1, <2>1, <2>2 DEF Ends
<1> HIDE DEF b, l
<1>8. Ends(g)'
  <2>1. g[first'] = 0
    <3>1. first \in first .. nslots
      BY <1>t
    <3> QED BY <1>1, <1>2, <1>5, <3>1 DEF Ends
  <2>2. ASSUME NEW s \in Blocks'
        PROVE  /\ g[s] = g[s - 1] + Len(slot'[s].data)
               /\ \A j \in 1 .. Len(slot'[s].data) : slot'[s].data[j] = g[s - 1] + j
    <3>1. CASE s \in Blocks
      <4>1. s \in first .. nslots /\ s - 1 \in first .. nslots /\ s # nslots + 1 /\ s \in Slot
        BY <1>t, <3>1 DEF Blocks
      <4>2. g[s] = h[s] /\ g[s - 1] = h[s - 1] /\ slot'[s] = slot[s]
        BY <1>2, <1>5, <4>1
      <4> QED BY <1>1, <3>1, <4>2 DEF Ends
    <3>2. CASE s = nslots + 1
      <4>1. nslots \in first .. nslots /\ (nslots + 1) - 1 = nslots
        BY <1>t
      <4>2. g[s - 1] = b /\ g[s] = b + l
        BY <1>4, <1>5, <3>2, <4>1 DEF b
      <4>3. \A j \in 1 .. Len(currentBuffer) : currentBuffer[j] = b + j
        BY <1>1, <1>3 DEF Held, b
      <4> QED BY <1>2, <3>2, <4>2, <4>3 DEF l
    <3> QED BY <1>6, <3>1, <3>2
  <2>3. ASSUME NEW m \in first' .. nslots', NEW n \in first' .. nslots', m <= n
        PROVE  g[m] <= g[n]
    <3>1. CASE n \in first .. nslots
      <4>1. m \in first .. nslots
        BY <1>t, <1>2, <2>3, <3>1
      <4> QED BY <1>1, <1>5, <2>3, <3>1, <4>1 DEF Ends
    <3>2. CASE n = nslots + 1
      <4>1. CASE m \in first .. nslots
        <5>1. g[m] = h[m] /\ h[m] \in Nat /\ h[m] <= b /\ g[n] = b + l
          BY <1>4, <1>5, <1>7, <3>2, <4>1
        <5> QED BY <1>t, <5>1
      <4>2. CASE m = nslots + 1
        BY <1>t, <1>4, <3>2, <4>2
      <4> QED BY <1>6, <4>1, <4>2
    <3> QED BY <1>6, <3>1, <3>2
  <2>4. ASSUME NEW n \in first' .. nslots', NEW u \in 1 .. g[n]
        PROVE  \E s \in first' + 1 .. n : g[s - 1] < u /\ u <= g[s]
    <3>1. ASSUME NEW m \in first .. nslots, u \in 1 .. h[m]
          PROVE  \E s \in first + 1 .. m : g[s - 1] < u /\ u <= g[s]
      <4>1. PICK s \in first + 1 .. m : h[s - 1] < u /\ u <= h[s]
        BY <1>1, <3>1 DEF Ends
      <4>2. s \in first .. nslots /\ s - 1 \in first .. nslots
        BY <1>t
      <4> QED BY <1>5, <4>1, <4>2
    <3>2. CASE n \in first .. nslots
      BY <1>2, <1>5, <3>1, <3>2
    <3>3. CASE n = nslots + 1
      <4>1. u \in 1 .. (b + l)
        BY <1>4, <3>3
      <4>2. CASE u <= b
        <5>1. nslots \in first .. nslots /\ u \in 1 .. h[nslots]
          BY <1>t, <4>1, <4>2 DEF b
        <5>2. PICK s \in first + 1 .. nslots : g[s - 1] < u /\ u <= g[s]
          BY <3>1, <5>1
        <5>3. s \in first' + 1 .. n
          BY <1>t, <1>2, <3>3
        <5> QED BY <5>2, <5>3
      <4>3. CASE u > b
        <5>0. nslots + 1 \in first + 1 .. nslots + 1
          BY <1>t
        <5>1. nslots + 1 \in first' + 1 .. n /\ (nslots + 1) - 1 = nslots /\ nslots \in first .. nslots
          BY <1>t, <1>2, <3>3, <5>0
        <5>2. g[(nslots + 1) - 1] = b /\ g[nslots + 1] = b + l
          BY <1>4, <1>5, <5>1 DEF b
        <5>3. g[(nslots + 1) - 1] < u /\ u <= g[nslots + 1]
          BY <1>t, <4>1, <4>3, <5>2
        <5> QED BY <5>1, <5>3
      <4> QED BY <1>t, <4>1, <4>2, <4>3
    <3> QED BY <1>6, <3>2, <3>3
  <2> QED BY <2>1, <2>2, <2>3, <2>4 DEF Ends
<1>9. Held(g)'
  <2>1. g[nslots'] = b + l /\ Len(currentBuffer') = 0 /\ sent' = sent
    BY <1>2, <1>4
  <2>2. /\ b + l <= sent
        /\ InWrite => /\ \A j \in 1 .. Len(q) : q[j] = b + l + j
                      /\ b + l + Len(q) = sent
        /\ (err = NoErr /\ ~InWrite) => b + l = sent
    BY <1>1, <1>3 DEF Held, b, l
  <2>3. \A j \in 1 .. Len(currentBuffer') : currentBuffer'[j] = g[nslots'] + j
    BY <2>1
  <2>4. g[nslots'] + Len(currentBuffer') = b + l
    BY <1>t, <2>1
  <2> QED BY <1>2, <1>3, <2>1, <2>2, <2>3, <2>4 DEF Held
<1>10. Synced(g)'
  BY <1>3 DEF Synced, FlushedNil
<1> QED BY <1>4, <1>8, <1>9, <1>10 DEF UnitsInv

\* The steps of compressors and listeners.
LEMMA OthersUnits ==
  ASSUME TypeInv, OrderInv, StateInv, UnitsInv,
         \/ \E s \in Slot : CompressorStep(s)
         \/ \E k \in Sink : ListenerStep(k)
  PROVE  UnitsInv'
<1>1. PICK h \in [Nat -> Nat] : Ends(h) /\ Held(h) /\ Synced(h)
  BY DEF UnitsInv
<1>2. /\ UNCHANGED <<pc, op, q, ret, closed, chanClosed, results, nslots, first, sent,
                     w, currentBuffer>>
      /\ err' # err => err' # NoErr
      /\ \A s \in Slot : slot'[s].data = slot[s].data
                         /\ (slot[s].st = "ready" => slot'[s].st = "ready")
  BY OthersEffect
<1>3. Ends(h)'
  BY <1>1, <1>2, EndsKept
<1>4. Open' = Open /\ InWrite' = InWrite /\ FlushedNil' = FlushedNil /\ Blocks' = Blocks
  BY <1>2 DEF Open, InWrite, FlushedNil, Blocks
<1>5. Held(h)'
  <2>1. err' = NoErr => err = NoErr
    BY <1>2
  <2> QED BY <1>1, <1>2, <1>4, <2>1 DEF Held
<1>6. N = nslots => N' = N
  <2>1. (\E s \in Slot : CompressorStep(s)) => N' = N
    BY CompressorEffect DEF N
  <2>2. ASSUME NEW k \in Sink, ListenerStep(k), N = nslots PROVE N' = N
    <3>1. nslots \in Nat /\ ~(N + 1 <= nslots)
      BY <2>2, Types
    <3>2. UNCHANGED out
      BY <2>2, <3>1, ListenerEffect
    <3> QED BY <1>2, <3>2 DEF N
  <2> QED BY <2>1, <2>2
<1>7. Synced(h)'
  <2>1. Blocks \subseteq Slot
    BY Types
  <2> QED BY <1>1, <1>2, <1>4, <1>6, <2>1 DEF Synced
<1> QED BY <1>3, <1>5, <1>7 DEF UnitsInv

\* The steps of the caller but compressCurrent and the end of Reset.
LEMMA CallerUnits ==
  ASSUME ~ResetAnytime, TypeInv, OrderInv, StateInv, CloseInv, UnitsInv,
         ClientCall \/ CallerStep, ~CompressCurrent, ~ResetInit
  PROVE  UnitsInv'
<1>1. PICK h \in [Nat -> Nat] : Ends(h) /\ Held(h) /\ Synced(h)
  BY DEF UnitsInv
<1>2. UNCHANGED <<nslots, slot, first, err>> /\ N' = N /\ Blocks' = Blocks
  BY QuietCaller DEF Blocks
<1>3. Ends(h)'
  BY <1>1, <1>2, EndsKept
<1>t. /\ h[nslots] \in Nat /\ sent \in Nat /\ currentBuffer \in Seq(Nat) /\ q \in Seq(Nat)
      /\ Len(currentBuffer) \in Nat /\ Len(q) \in Nat
      /\ results \in Chan /\ chanClosed \in [Chan -> BOOLEAN]
  BY <1>1, HeldTypes, Types DEF TypeInv, TypeOK, ChanTypeOK
<1>4. ASSUME Held(h)', Synced(h)' PROVE UnitsInv'
  BY <1>3, <1>4 DEF UnitsInv
<1>5. ASSUME ~FlushedNil' PROVE Synced(h)'
  BY <1>5 DEF Synced
<1>6. ASSUME UNCHANGED <<sent, currentBuffer, q>>, Open' = Open, InWrite' = InWrite,
             pc' \notin {"await", "check"}
      PROVE  Held(h)'
  BY <1>1, <1>2, <1>6 DEF Held
<1>7. ASSUME NEW c \in Settings, SetConcurrency(c[1], c[2]) PROVE UnitsInv'
  <2>1. /\ Open /\ Open' /\ pc = "idle"
        /\ UNCHANGED <<sent, currentBuffer, q, pc, op, ret>>
    BY <1>7, SettingEffect DEF SetConcurrency
  <2>2. Held(h)'
    BY <1>1, <1>2, <2>1 DEF Held, InWrite
  <2>3. Synced(h)'
    BY <1>1, <1>2, <2>1 DEF Synced, FlushedNil
  <2> QED BY <1>4, <2>2, <2>3
<1>8. ASSUME NEW n \in 0 .. MaxWrite, Write(n) PROVE UnitsInv'
  <2>0. n \in Nat
    BY ConstantsAssumption
  <2>1. /\ pc = "idle" /\ err = NoErr /\ pc' = "fill" /\ UNCHANGED <<results, chanClosed>>
        /\ q' = [i \in 1 .. n |-> sent + i] /\ sent' = IF closed THEN sent ELSE sent + n
    BY <1>8 DEF Write
  <2>2. currentBuffer' = currentBuffer
    BY <1>8, StartListenerEffect DEF Write
  <2>3. Open' = Open /\ InWrite' /\ ~InWrite /\ (Open <=> ~closed)
    BY <2>1 DEF Open, InWrite, CloseInv, Barriers
  <2>4. CASE Open
    <3>1. /\ \A j \in 1 .. Len(currentBuffer) : currentBuffer[j] = h[nslots] + j
          /\ h[nslots] + Len(currentBuffer) = sent /\ h[nslots] <= sent
      BY <1>1, <2>1, <2>3, <2>4 DEF Held
    <3>2. sent' = sent + n
      BY <2>1, <2>3, <2>4
    <3>3. Len(q') = n /\ \A j \in 1 .. n : q'[j] = sent + j
      BY <2>0, <2>1
    <3>4. h[nslots] <= sent + n /\ sent <= sent + n
      <4>1. \A x, y \in Nat : x <= y => x <= y + n
        BY <2>0
      <4>2. sent <= sent
        BY <1>t
      <4> QED BY <1>t, <3>1, <4>1, <4>2, Zenon
    <3>5. \A j \in 1 .. Len(q') : q'[j] = h[nslots] + Len(currentBuffer') + j
      BY <2>2, <3>1, <3>3
    <3>6. h[nslots] + Len(currentBuffer') + Len(q') = sent' /\ h[nslots] + Len(currentBuffer') <= sent'
      BY <2>2, <3>1, <3>2, <3>3, <3>4
    <3> QED BY <1>2, <2>1, <2>2, <2>3, <2>4, <3>1, <3>2, <3>4, <3>5, <3>6, <1>4, <1>5
            DEF Held, FlushedNil
  <2>5. CASE ~Open
    <3>1. h[nslots] = sent /\ sent' = sent /\ h[nslots] <= sent
      BY <1>1, <2>1, <2>3, <2>5 DEF Held
    <3> QED BY <1>2, <2>1, <2>3, <2>5, <3>1, <1>4, <1>5 DEF Held, FlushedNil
  <2> QED BY <2>4, <2>5
<1>9. CASE WriteRefused \/ FlushRefused
  <2>1. /\ pc = "idle" /\ pc' = "idle"
        /\ UNCHANGED <<sent, currentBuffer, q, results, chanClosed, closed>>
    BY <1>9 DEF WriteRefused, FlushRefused
  <2>2. Open' = Open /\ InWrite' = InWrite
    BY <2>1 DEF Open, InWrite
  <2>3. FlushedNil' => ~Open /\ err = NoErr
    BY <1>9 DEF WriteRefused, FlushRefused, FlushedNil, CloseInv, Barriers
  <2>4. ~Open => N = nslots /\ h[nslots] = sent
    BY <1>1 DEF Held, Open, OrderInv, ClosedComplete
  <2>5. Synced(h)'
    BY <1>2, <2>1, <2>3, <2>4, AllReady DEF Synced
  <2> QED BY <1>4, <1>6, <2>1, <2>2, <2>5
<1>10. CASE Flush \/ Close
  <2>1. /\ pc = "idle" /\ pc' = "send" /\ op' # "Write" /\ UNCHANGED <<sent, q, results, chanClosed>>
    BY <1>10 DEF Flush, Close
  <2>2. currentBuffer' = currentBuffer
    BY <1>10, StartListenerEffect DEF Flush, Close
  <2>3. Open' = Open /\ InWrite' = InWrite /\ ~FlushedNil'
    BY <2>1 DEF Open, InWrite, FlushedNil
  <2> QED BY <1>4, <1>5, <1>6, <2>1, <2>2, <2>3
<1>11. CASE Reset
  <2>1. /\ pc = "idle" /\ pc' = "reset" /\ chanClosed[results] /\ UNCHANGED <<sent, currentBuffer, q>>
    BY <1>11 DEF Reset
  <2>2. ~Open /\ ~Open' /\ ~FlushedNil' /\ ~InWrite /\ ~InWrite'
    BY <2>1 DEF Open, FlushedNil, InWrite
  <2>3. Held(h)'
    BY <1>1, <1>2, <2>1, <2>2 DEF Held
  <2> QED BY <1>4, <1>5, <2>2, <2>3
<1>12. CASE Fill
  <2>1. Held(h)'
    BY <1>1, <1>12, FillUnits
  <2>2. ~FlushedNil'
    BY <1>12 DEF Fill, FlushedNil
  <2> QED BY <1>4, <1>5, <2>1, <2>2
<1>13. CASE WriteReturn \/ WriteCheck
  <2>1. /\ InWrite /\ UNCHANGED <<sent, currentBuffer, q, results, chanClosed, op>>
        /\ pc # "reset" /\ pc' # "reset" /\ pc' \in {"idle", "fill"}
        /\ pc' = "idle" => err # NoErr \/ q = <<>>
        /\ pc' = "fill" => pc = "check" /\ op = "Write"
    BY <1>13 DEF WriteReturn, WriteCheck, InWrite
  <2>2. Open' = Open /\ (pc' = "idle" => ~InWrite') /\ (pc' = "fill" => InWrite')
    BY <2>1 DEF Open, InWrite
  <2>3. q = <<>> => h[nslots] + Len(currentBuffer) + Len(q) = h[nslots] + Len(currentBuffer)
    BY <1>t
  <2>4. Held(h)'
    BY <1>1, <1>2, <2>1, <2>2, <2>3 DEF Held
  <2>5. ~FlushedNil'
    <3>1. pc' = "fill" \/ ret'.op = "Write"
      BY <1>13 DEF WriteReturn, WriteCheck
    <3> QED BY <3>1 DEF FlushedNil
  <2> QED BY <1>4, <1>5, <2>4, <2>5
<1>14. CASE CompressCurrentError \/ AwaitWritten
  <2>1. /\ UNCHANGED <<sent, currentBuffer, q, results, chanClosed, op>> /\ pc' = "check"
        /\ \/ pc = "send" /\ err # NoErr
           \/ pc = "await" /\ op # "Write"
    BY <1>14 DEF CompressCurrentError, AwaitWritten, TypeInv, CallerRoom
  <2>2. Open' = Open /\ InWrite' = InWrite /\ ~FlushedNil'
    BY <2>1 DEF Open, InWrite, FlushedNil
  <2>3. Held(h)'
    BY <1>1, <1>2, <2>1, <2>2 DEF Held
  <2> QED BY <1>4, <1>5, <2>2, <2>3
<1>15. CASE CompressCurrentPanic
  <2>1. /\ UNCHANGED <<sent, currentBuffer, q, results, chanClosed, op>> /\ pc' = "panic"
        /\ pc = "send" /\ chanClosed[results]
    BY <1>15 DEF CompressCurrentPanic
  <2>2. ~Open' /\ ~Open /\ ~FlushedNil'
    BY <2>1 DEF Open, FlushedNil
  <2>3. Held(h)'
    BY <1>1, <1>2, <2>1, <2>2 DEF Held
  <2> QED BY <1>4, <1>5, <2>2, <2>3
<1>16. CASE FlushCheck \/ CloseCheck
  <2>1. /\ UNCHANGED <<sent, currentBuffer, q, results, op>> /\ pc' = "idle"
        /\ pc = "check" /\ op # "Write" /\ ret'.err = err
        /\ chanClosed' = chanClosed \/ err = NoErr
    BY <1>16 DEF FlushCheck, CloseCheck
  <2>2. ~InWrite /\ ~InWrite' /\ InWrite' = InWrite
    BY <2>1 DEF InWrite
  <2>3. CASE err = NoErr
    <3>1. currentBuffer = <<>> /\ N = nslots
      BY <1>1, <2>1, <2>3, LastWritten DEF Held
    <3>2. h[nslots] = sent
      <4>1. Open => h[nslots] + Len(currentBuffer) = sent
        BY <1>1, <2>2, <2>3 DEF Held
      <4>2. ~Open => h[nslots] = sent
        BY <1>1 DEF Held
      <4>3. Len(currentBuffer) = 0
        BY <3>1
      <4> QED BY <1>t, <4>1, <4>2, <4>3
    <3>3. Len(currentBuffer') = 0 /\ h[nslots'] + Len(currentBuffer') = sent' /\ h[nslots'] = sent'
          /\ sent' <= sent'
      BY <1>2, <1>t, <2>1, <3>1, <3>2
    <3>4. \A j \in 1 .. Len(currentBuffer') : FALSE
      BY <3>3
    <3>5. Held(h)'
      BY <2>1, <2>2, <3>3, <3>4 DEF Held
    <3>6. \A s \in Blocks : slot[s].st = "ready"
      BY <2>3, <3>1, AllReady
    <3>7. Synced(h)'
      BY <1>2, <2>1, <3>1, <3>2, <3>6 DEF Synced
    <3> QED BY <1>4, <3>5, <3>7
  <2>4. CASE err # NoErr
    <3>1. Open' = Open
      BY <2>1, <2>4 DEF Open
    <3>2. ~FlushedNil'
      BY <2>1, <2>4 DEF FlushedNil
    <3> QED BY <1>4, <1>5, <1>6, <2>1, <2>2, <3>1, <3>2
  <2> QED BY <2>3, <2>4
<1> QED BY <1>7, <1>8, <1>9, <1>10, <1>11, <1>12, <1>13, <1>14, <1>15, <1>16
        DEF ClientCall, CallerStep

\* Every step keeps UnitsInv.
LEMMA UnitsNext ==
  ASSUME ~ResetAnytime, TypeInv, OrderInv, StateInv, CloseInv, UnitsInv, [Next]_vars
  PROVE  UnitsInv'
<1>1. CASE UNCHANGED vars
  <2>1. PICK h \in [Nat -> Nat] : Ends(h) /\ Held(h) /\ Synced(h)
    BY DEF UnitsInv
  <2>2. Ends(h)'
    BY <1>1, <2>1, EndsKept DEF vars
  <2>3. Held(h)' /\ Synced(h)'
    BY <1>1, <2>1 DEF vars, Held, Open, InWrite, Synced, FlushedNil, Blocks, N
  <2> QED BY <2>2, <2>3 DEF UnitsInv
<1>2. CASE ResetInit
  <2>0. nslots \in Nat
    BY Types
  <2>1. /\ Open' /\ first' = nslots /\ nslots' = nslots /\ Blocks' = {} /\ ~InWrite'
        /\ sent' = 0 /\ currentBuffer' = <<>> /\ pc' = "idle" /\ ret'.op = "none"
    BY <1>2, ResetInitEffect
  <2>2. PICK h \in [Nat -> Nat] : \A n \in Nat : h[n] = 0
    <3>1. [n \in Nat |-> 0] \in [Nat -> Nat]
      OBVIOUS
    <3> QED BY <3>1
  <2>3. Ends(h)'
    BY <2>0, <2>1, <2>2 DEF Ends
  <2>4. Held(h)'
    <3>1. Len(currentBuffer') = 0 /\ h[nslots'] = 0
      BY <2>0, <2>1, <2>2
    <3> QED BY <2>1, <3>1 DEF Held
  <2>5. Synced(h)'
    BY <2>1 DEF Synced, FlushedNil
  <2> QED BY <2>3, <2>4, <2>5 DEF UnitsInv
<1> QED BY <1>1, <1>2, CompressUnits, CallerUnits, OthersUnits DEF Next

-----------------------------------------------------------------------------
(***************************************************************************)
(* The invariants of the stream                                            *)
(***************************************************************************)

\* A new writer satisfies the invariants.
LEMMA InitStreamInv == Init => StreamInv
<1> SUFFICES ASSUME Init PROVE StreamInv
  OBVIOUS
<1>1. TypeInv /\ OrderInv
  BY InitTypeInv, InitOrderInv
<1>t. 0 \in Chan /\ 0 \in Sink
  BY ConstantsAssumption DEF Chan, Sink
<1>2. /\ first = 0 /\ nslots = 0 /\ sent = 0 /\ currentBuffer = <<>> /\ prevTail = <<>> /\ pc = "idle"
      /\ ret.op = "none" /\ ~closed /\ err = NoErr /\ ~chanClosed[results] /\ queue[results] = <<>>
      /\ out[w] = <<>> /\ slot = [s \in Slot |-> NoSlot]
  BY <1>t DEF Init
<1>3. Blocks = {} /\ N = 0 /\ Open /\ ~InWrite
  BY <1>2 DEF Blocks, N, Open, InWrite
<1>4. UnitsInv
  <2>1. PICK h \in [Nat -> Nat] : \A n \in Nat : h[n] = 0
    <3>1. [n \in Nat |-> 0] \in [Nat -> Nat]
      OBVIOUS
    <3> QED BY <3>1
  <2>2. Ends(h)
    BY <1>2, <1>3, <2>1 DEF Ends
  <2>3. Held(h)
    <3>1. Len(currentBuffer) = 0 /\ h[nslots] = 0
      BY <1>2, <2>1
    <3> QED BY <1>2, <1>3, <3>1 DEF Held
  <2>4. Synced(h)
    BY <1>2 DEF Synced, FlushedNil
  <2> QED BY <2>2, <2>3, <2>4 DEF UnitsInv
<1>5. CloseInv /\ FinalInv /\ DictInv
  BY <1>2, <1>3 DEF CloseInv, Barriers, FinalInv, DictInv
<1>6. StateInv
  BY <1>2, <1>3 DEF StateInv, NoSlot
<1>7. QueueInv
  <2>1. blocks \in Nat /\ Len(queue[results]) = 0
    BY <1>2, ConstantsAssumption DEF Init
  <2> QED BY <1>2, <1>3, <2>1 DEF QueueInv
<1> QED BY <1>1, <1>4, <1>5, <1>6, <1>7 DEF StreamInv

\* Every step of every goroutine keeps them.
LEMMA NextStreamInv ==
  ASSUME ~ResetAnytime, StreamInv, [Next]_vars
  PROVE  StreamInv'
<1> USE DEF StreamInv
<1>1. TypeInv'
  BY ClientTypeInv, CallerTypeInv, CompressorTypeInv, ListenerTypeInv, StutterTypeInv DEF Next
<1>2. OrderInv'
  BY ClientOrderInv, CallerOrderInv, CompressorOrderInv, ListenerOrderInv, StutterOrderInv DEF Next
<1>3. UnitsInv'
  BY UnitsNext
<1>4. CloseInv' /\ FinalInv'
  BY CloseNext, FinalNext
<1>5. StateInv' /\ QueueInv' /\ DictInv'
  BY StateNext, QueueNext, DictNext
<1> QED BY <1>1, <1>2, <1>3, <1>4, <1>5

\* Positions within a run of l units that follows the first a.
LEMMA WithinLemma ==
  \A a, l, u \in Nat : \A j \in 1 .. l : u = a + j => a < u /\ u <= a + l
OBVIOUS

\* Where a unit is: in a block that is written and was compressed.
LEMMA DeliveredBlocks ==
  ASSUME TypeInv, OrderInv, StateInv, NEW h \in [Nat -> Nat], Ends(h), NEW u \in Nat
  PROVE  Delivered(u) <=> \E s \in first + 1 .. N : /\ slot[s].st = "ready"
                                                   /\ h[s - 1] < u /\ u <= h[s]
<1>t. /\ first \in Nat /\ nslots \in Nat /\ N \in Nat /\ Len(out[w]) \in Nat /\ N = first + Len(out[w])
      /\ first <= nslots /\ N <= nslots /\ Blocks \subseteq Slot
  BY Types DEF OrderInv, StateInv, N
<1>1. \A i \in 1 .. Len(out[w]) : out[w][i] = first + i /\ first + i \in first + 1 .. N
  BY <1>t DEF OrderInv, InOrder
<1>2. \A s \in first + 1 .. N : /\ s \in Blocks /\ s - first \in 1 .. Len(out[w])
                               /\ first + (s - first) = s /\ s - 1 \in Nat /\ s \in Nat
  BY <1>t DEF Blocks
<1>3. \A s \in Blocks : /\ slot[s].data \in Seq(Nat) /\ Len(slot[s].data) \in Nat
                        /\ DOMAIN slot[s].data = 1 .. Len(slot[s].data)
  <2> SUFFICES ASSUME NEW s \in Blocks
               PROVE  /\ slot[s].data \in Seq(Nat) /\ Len(slot[s].data) \in Nat
                      /\ DOMAIN slot[s].data = 1 .. Len(slot[s].data)
    OBVIOUS
  <2>1. slot[s].data \in Seq(Nat)
    BY <1>t, Types DEF SlotType
  <2> QED BY <2>1, SMTT(60)
<1>4. ASSUME Delivered(u)
      PROVE  \E s \in first + 1 .. N : slot[s].st = "ready" /\ h[s - 1] < u /\ u <= h[s]
  <2>1. PICK i \in Written : \E j \in DOMAIN slot[out[w][i]].data : slot[out[w][i]].data[j] = u
    BY <1>4 DEF Delivered
  <2>2. i \in 1 .. Len(out[w]) /\ slot[out[w][i]].st = "ready"
    BY <2>1 DEF Written
  <2>3. PICK s \in first + 1 .. N : s = out[w][i]
    BY <1>1, <2>2
  <2>4. s \in Blocks /\ s - 1 \in Nat /\ s \in Nat
    BY <1>2
  <2>5. PICK j \in 1 .. Len(slot[s].data) : slot[s].data[j] = u
    BY <1>3, <2>1, <2>3, <2>4
  <2>6. h[s] = h[s - 1] + Len(slot[s].data) /\ u = h[s - 1] + j
    BY <2>4, <2>5 DEF Ends
  <2>7. h[s - 1] \in Nat /\ h[s] \in Nat /\ Len(slot[s].data) \in Nat
    BY <1>3, <2>4
  <2>8. h[s - 1] < u /\ u <= h[s]
    <3>1. h[s - 1] < u /\ u <= h[s - 1] + Len(slot[s].data)
      BY <2>5, <2>6, <2>7, WithinLemma, Zenon
    <3> QED BY <2>6, <3>1
  <2> QED BY <2>2, <2>3, <2>8
<1>5. ASSUME NEW s \in first + 1 .. N, slot[s].st = "ready", h[s - 1] < u, u <= h[s]
      PROVE  Delivered(u)
  <2> DEFINE i == s - first
             j == u - h[s - 1]
  <2>1. s \in Blocks /\ i \in 1 .. Len(out[w]) /\ s - 1 \in Nat /\ s \in Nat
    BY <1>2
  <2>2. out[w][i] = s
    BY <1>1, <1>2, <2>1
  <2>3. i \in Written
    BY <1>5, <2>1, <2>2 DEF Written
  <2>4. h[s] = h[s - 1] + Len(slot[s].data) /\ Len(slot[s].data) \in Nat /\ h[s - 1] \in Nat
    BY <1>3, <2>1 DEF Ends
  <2>5. j \in 1 .. Len(slot[s].data) /\ h[s - 1] + j = u
    <3>1. u <= h[s - 1] + Len(slot[s].data)
      BY <1>5, <2>4
    <3> DEFINE a == h[s - 1]
               l == Len(slot[s].data)
    <3>2. a < u /\ u <= a + l /\ a \in Nat /\ l \in Nat
      BY <1>5, <2>4, <3>1
    <3> HIDE DEF a, l
    <3>3. u - a \in 1 .. l /\ a + (u - a) = u
      BY <3>2
    <3> QED BY <3>3 DEF a, l
  <2>6. slot[s].data[j] = u
    BY <2>1, <2>5 DEF Ends
  <2>7. j \in DOMAIN slot[s].data
    BY <1>3, <2>1, <2>5
  <2> HIDE DEF i, j
  <2> QED BY <2>2, <2>3, <2>6, <2>7 DEF Delivered
<1> QED BY <1>4, <1>5

\* As long as there is no error, the units delivered are the first ones.
LEMMA DeliveredPrefix ==
  ASSUME TypeInv, OrderInv, StateInv, NEW h \in [Nat -> Nat], Ends(h), err = NoErr, NEW u \in Nat
  PROVE  Delivered(u) <=> u \in 1 .. h[N]
<1>0. Len(out[w]) \in Nat /\ first \in Nat /\ nslots \in Nat /\ N \in Nat /\ N <= nslots
  BY Types DEF StateInv
<1>t. /\ first \in Nat /\ nslots \in Nat /\ N \in Nat /\ N \in first .. nslots
  <2>1. \A a, b, c \in Nat : a + b <= c => a + b \in a .. c
    OBVIOUS
  <2> QED BY <1>0, <2>1, Zenon DEF N
<1>1. \A s \in first + 1 .. N : s \in Blocks /\ s <= N /\ s \in first .. nslots /\ s - 1 \in Nat /\ s \in Nat
  BY <1>t DEF Blocks
<1>2. \A s \in first + 1 .. N : slot[s].st = "ready"
  BY <1>1 DEF StateInv
<1>3. h[N] \in Nat
  BY <1>t
<1>4. ASSUME Delivered(u) PROVE u \in 1 .. h[N]
  <2>1. PICK s \in first + 1 .. N : h[s - 1] < u /\ u <= h[s]
    BY <1>4, DeliveredBlocks
  <2>2. h[s - 1] \in Nat /\ h[s] \in Nat /\ h[s] <= h[N]
    BY <1>1, <1>t DEF Ends
  <2> QED BY <1>3, <2>1, <2>2
<1>5. ASSUME u \in 1 .. h[N] PROVE Delivered(u)
  <2>1. PICK s \in first + 1 .. N : h[s - 1] < u /\ u <= h[s]
    BY <1>5, <1>t DEF Ends
  <2> QED BY <1>2, <2>1, DeliveredBlocks
<1> QED BY <1>4, <1>5

\* Indices of a sequence.
LEMMA SeqDomain == \A d \in Seq(Nat) : DOMAIN d = 1 .. Len(d) /\ Len(d) \in Nat
OBVIOUS

\* A delivered unit of block s, in the terms of StreamIntact.
LEMMA WrittenBlock ==
  ASSUME TypeInv, OrderInv, StateInv, NEW h \in [Nat -> Nat], Ends(h),
         NEW i \in Written, NEW j \in DOMAIN slot[out[w][i]].data
  PROVE  /\ i \in Nat /\ j \in Nat /\ first + i \in first + 1 .. N /\ j > 0
         /\ slot[out[w][i]].data[j] = h[first + i - 1] + j
         /\ h[first + i - 1] \in Nat /\ h[first + i] \in Nat
         /\ h[first + i - 1] + j <= h[first + i]
<1>t. /\ first \in Nat /\ nslots \in Nat /\ N \in Nat /\ Len(out[w]) \in Nat /\ N = first + Len(out[w])
      /\ first <= nslots /\ N <= nslots /\ Blocks \subseteq Slot
  BY Types DEF OrderInv, StateInv, N
<1>1. i \in 1 .. Len(out[w])
  BY DEF Written
<1>2. PICK s \in Nat : s = first + i /\ out[w][i] = s
  <2>1. first + i \in Nat
    BY <1>t, <1>1
  <2>2. out[w][i] = first + i
    BY <1>1 DEF OrderInv, InOrder
  <2> QED BY <2>1, <2>2
<1>3. s \in Blocks /\ s \in first + 1 .. N /\ s - 1 \in Nat /\ i \in Nat
  <2>1. i \in Nat /\ i >= 1 /\ i <= Len(out[w])
    BY <1>t, <1>1
  <2>2. s >= first + 1 /\ s <= N
    BY <1>t, <1>2, <2>1
  <2>3. \A a, n, m, x \in Nat : a + 1 <= x /\ x <= n /\ n <= m
                               => x \in a + 1 .. m /\ x \in a + 1 .. n /\ x - 1 \in Nat
    OBVIOUS
  <2>4. s \in first + 1 .. nslots /\ s \in first + 1 .. N /\ s - 1 \in Nat
    <3>1. s >= first + 1 <=> first + 1 <= s
      OBVIOUS
    <3> QED BY <1>t, <2>2, <2>3, <3>1, Zenon
  <2> QED BY <2>1, <2>4, Zenon DEF Blocks
<1>4. slot[s].data \in Seq(Nat)
  BY <1>t, <1>3, Types DEF SlotType
<1>5. j \in 1 .. Len(slot[s].data) /\ Len(slot[s].data) \in Nat
  <2>1. j \in DOMAIN slot[s].data
    BY <1>2
  <2>2. DOMAIN slot[s].data = 1 .. Len(slot[s].data) /\ Len(slot[s].data) \in Nat
    BY <1>4, SeqDomain, Zenon
  <2> QED BY <2>1, <2>2, Zenon
<1>6. slot[s].data[j] = h[s - 1] + j /\ h[s] = h[s - 1] + Len(slot[s].data)
  BY <1>3, <1>5 DEF Ends
<1>7. h[s - 1] \in Nat /\ h[s] \in Nat /\ j \in Nat /\ j > 0 /\ j <= Len(slot[s].data)
  <2>1. h[s - 1] \in Nat /\ h[s] \in Nat
    BY <1>3
  <2>2. \A l \in Nat : \A i1 \in 1 .. l : i1 \in Nat /\ i1 > 0 /\ i1 <= l
    OBVIOUS
  <2> QED BY <1>5, <2>1, <2>2, Zenon
<1>8. h[s - 1] + j <= h[s]
  <2>1. \A a, b, c \in Nat : b <= c => a + b <= a + c
    OBVIOUS
  <2>2. h[s - 1] + j <= h[s - 1] + Len(slot[s].data)
    BY <1>5, <1>7, <2>1, Zenon
  <2> QED BY <1>6, <2>2
<1>9. first + i - 1 = s - 1
  BY <1>t, <1>2, <1>3
<1> QED BY <1>2, <1>3, <1>6, <1>7, <1>8, <1>9

\* While there is no error, the sink holds a prefix of what the client wrote, in
\* order: whichever compressors finish first, and whatever Write, Flush and Close
\* the client has under way.
THEOREM PrefixDelivered == ASSUME ~ResetAnytime PROVE Spec => []StreamIntact
<1>1. StreamInv => StreamIntact
  <2> SUFFICES ASSUME StreamInv, err = NoErr
               PROVE  /\ \A u \in 1 .. sent : Delivered(u) => \A v \in 1 .. u : Delivered(v)
                      /\ \A i, i2 \in Written :
                           \A j \in DOMAIN slot[out[w][i]].data, j2 \in DOMAIN slot[out[w][i2]].data :
                             (i < i2 \/ (i = i2 /\ j < j2))
                               => slot[out[w][i]].data[j] < slot[out[w][i2]].data[j2]
    BY DEF StreamIntact
  <2> USE DEF StreamInv
  <2>1. PICK h \in [Nat -> Nat] : Ends(h) /\ Held(h)
    BY DEF UnitsInv
  <2>t. sent \in Nat /\ N \in Nat /\ first \in Nat /\ nslots \in Nat /\ N <= nslots /\ first <= nslots
    BY <2>1, HeldTypes, Types DEF StateInv, OrderInv
  <2>2. ASSUME NEW u \in 1 .. sent, Delivered(u), NEW v \in 1 .. u PROVE Delivered(v)
    <3>1. u \in Nat /\ v \in Nat /\ v >= 1 /\ v <= u /\ h[N] \in Nat
      BY <2>t
    <3>2. u \in 1 .. h[N]
      BY <2>1, <2>2, <3>1, DeliveredPrefix
    <3>3. v \in 1 .. h[N]
      BY <3>1, <3>2
    <3> QED BY <2>1, <3>1, <3>3, DeliveredPrefix
  <2>3. ASSUME NEW i \in Written, NEW i2 \in Written,
               NEW j \in DOMAIN slot[out[w][i]].data, NEW j2 \in DOMAIN slot[out[w][i2]].data,
               i < i2 \/ (i = i2 /\ j < j2)
        PROVE  slot[out[w][i]].data[j] < slot[out[w][i2]].data[j2]
    <3>1. /\ i \in Nat /\ j \in Nat /\ first + i \in first + 1 .. N
          /\ slot[out[w][i]].data[j] = h[first + i - 1] + j
          /\ h[first + i - 1] \in Nat /\ h[first + i] \in Nat
          /\ h[first + i - 1] + j <= h[first + i]
      BY <2>1, WrittenBlock
    <3>2. /\ i2 \in Nat /\ j2 \in Nat /\ first + i2 \in first + 1 .. N /\ j2 > 0
          /\ slot[out[w][i2]].data[j2] = h[first + i2 - 1] + j2
          /\ h[first + i2 - 1] \in Nat
      BY <2>1, WrittenBlock
    <3>3. CASE i < i2
      <4>1. first + i \in first .. nslots /\ first + i2 - 1 \in first .. nslots
            /\ first + i <= first + i2 - 1
        BY <2>t, <3>1, <3>2, <3>3
      <4>2. h[first + i] <= h[first + i2 - 1]
        BY <2>1, <4>1 DEF Ends
      <4>3. \A a, b, c, d \in Nat : (a <= b /\ b <= c /\ d > 0) => a < c + d
        OBVIOUS
      <4>4. h[first + i - 1] + j \in Nat
        BY <3>1
      <4>5. h[first + i - 1] + j < h[first + i2 - 1] + j2
        BY <3>1, <3>2, <4>2, <4>3, <4>4, Zenon
      <4> QED BY <3>1, <3>2, <4>5
    <3>4. CASE i = i2 /\ j < j2
      <4>1. \A a, b, c \in Nat : b < c => a + b < a + c
        OBVIOUS
      <4>2. h[first + i - 1] + j < h[first + i - 1] + j2
        BY <3>1, <3>2, <3>4, <4>1, Zenon
      <4> QED BY <3>1, <3>2, <3>4, <4>2
    <3> QED BY <2>3, <3>3, <3>4
  <2> QED BY <2>2, <2>3
<1> QED BY <1>1, InitStreamInv, NextStreamInv, PTL DEF Spec

\* What the invariants say of Flush and Close.
LEMMA StreamFlushSync == StreamInv => FlushSync
<1> SUFFICES ASSUME StreamInv, FlushedNil, NEW u \in 1 .. sent PROVE Delivered(u)
  BY DEF FlushSync, FlushedNil
<1> USE DEF StreamInv
<1>1. PICK h \in [Nat -> Nat] : Ends(h) /\ Held(h) /\ Synced(h)
  BY DEF UnitsInv
<1>2. N = nslots /\ h[nslots] = sent /\ \A s \in Blocks : slot[s].st = "ready"
  BY <1>1 DEF Synced
<1>3. sent \in Nat /\ first \in Nat /\ nslots \in Nat /\ first <= nslots
  BY <1>1, HeldTypes, Types DEF OrderInv
<1>4. nslots \in first .. nslots /\ u \in 1 .. h[nslots] /\ u \in Nat
  BY <1>2, <1>3
<1>5. PICK s \in first + 1 .. nslots : h[s - 1] < u /\ u <= h[s]
  BY <1>1, <1>4 DEF Ends
<1>6. slot[s].st = "ready"
  BY <1>2 DEF Blocks
<1> QED BY <1>1, <1>2, <1>4, <1>5, <1>6, DeliveredBlocks

\* "Flush does not return until the data has been written": once Flush or Close has
\* returned nil, every unit passed to Write before it is in the sink.
THEOREM FlushDelivers == ASSUME ~ResetAnytime PROVE Spec => []FlushSync
BY InitStreamInv, NextStreamInv, StreamFlushSync, PTL DEF Spec

\* Every block that is compressed with a dictionary has the one a reader rebuilds:
\* the tailSize units just before it, across short blocks, Flush and Reset.
THEOREM DictionariesMatch == ASSUME ~ResetAnytime PROVE Spec => []DictionaryMatches
<1>1. StreamInv => DictionaryMatches
  <2> SUFFICES ASSUME StreamInv, NEW s \in Blocks, slot[s].data # <<>>, slot[s].dict # <<>>
               PROVE  /\ Len(slot[s].dict) = tailSize
                      /\ \A i \in 1 .. tailSize :
                           slot[s].dict[i] = slot[s].data[1] - 1 - tailSize + i
    BY DEF DictionaryMatches, Blocks
  <2> USE DEF StreamInv
  <2>1. PICK h \in [Nat -> Nat] : Ends(h)
    BY DEF UnitsInv
  <2>t. /\ first \in Nat /\ nslots \in Nat /\ Blocks \subseteq Slot /\ s \in Nat /\ tailSize \in Nat
        /\ s \in Slot
    <3>1. first \in Nat /\ nslots \in Nat /\ Blocks \subseteq Slot /\ tailSize \in Nat
      BY Types, ConstantsAssumption
    <3>2. s \in Nat
      BY <3>1 DEF Blocks
    <3> QED BY <3>1, <3>2
  <2>2. s # first + 1 /\ slot[s].dict = TailOf(slot[s - 1].data)
    BY DEF DictInv
  <2>3. s - 1 \in Blocks /\ s - 1 \in Slot /\ s - 1 \in Nat /\ (s - 1) - 1 \in Nat
    BY <2>t, <2>2 DEF Blocks
  <2> DEFINE c == slot[s - 1].data
             d == slot[s].data
             a == h[(s - 1) - 1]
             b == h[s - 1]
  <2>4. c \in Seq(Nat) /\ d \in Seq(Nat) /\ a \in Nat /\ b \in Nat
    BY <2>t, <2>3, Types DEF SlotType
  <2>5. b = a + Len(c) /\ \A j \in 1 .. Len(c) : c[j] = a + j
    BY <2>1, <2>3 DEF Ends
  <2>6. \A j \in 1 .. Len(d) : d[j] = b + j
    BY <2>1 DEF Ends
  <2>7. d # <<>> /\ slot[s].dict = TailOf(c) /\ TailOf(c) # <<>>
    BY <2>2
  <2> HIDE DEF a, b, c, d
  <2>8. d[1] = b + 1
    <3>1. Len(d) \in Nat /\ Len(d) # 0
      BY <2>4, <2>7
    <3>2. 1 \in 1 .. Len(d)
      BY <3>1
    <3> QED BY <2>6, <3>2
  <2>9. Len(c) > tailSize /\ TailOf(c) = SubSeq(c, Len(c) - tailSize + 1, Len(c))
    BY <2>7 DEF TailOf
  <2>10. /\ Len(TailOf(c)) = tailSize
         /\ \A i \in 1 .. tailSize : TailOf(c)[i] = c[Len(c) - tailSize + i]
    <3>0. Len(c) \in Nat
      BY <2>4
    <3>1. Len(c) - tailSize + 1 \in 1 .. Len(c) + 1 /\ Len(c) \in Nat
      <4>1. \A l, t \in Nat : l > t => l - t + 1 \in 1 .. l + 1
        OBVIOUS
      <4> QED BY <2>t, <2>9, <3>0, <4>1, Zenon
    <3>2. Len(TailOf(c)) = tailSize
      BY <2>t, <2>4, <2>9, <3>1
    <3>3. \A i \in 1 .. tailSize : TailOf(c)[i] = c[Len(c) - tailSize + i]
      BY <2>t, <2>4, <2>9, <3>1
    <3> QED BY <3>2, <3>3
  <2>11. ASSUME NEW i \in 1 .. tailSize PROVE TailOf(c)[i] = d[1] - 1 - tailSize + i
    <3>1. Len(c) \in Nat
      BY <2>4
    <3>2. Len(c) - tailSize + i \in 1 .. Len(c)
      BY <2>t, <2>9, <3>1
    <3>3. TailOf(c)[i] = a + (Len(c) - tailSize + i)
      BY <2>5, <2>10, <3>2
    <3>4. a + (Len(c) - tailSize + i) = (a + Len(c) + 1) - 1 - tailSize + i
      BY <2>t, <2>4, <3>1
    <3> QED BY <2>5, <2>8, <3>3, <3>4
  <2> QED BY <2>7, <2>10, <2>11 DEF d
<1> QED BY <1>1, InitStreamInv, NextStreamInv, PTL DEF Spec

\* However many buffers the client fills, at most one block more than the channel
\* holds is being compressed: the writer's memory is bounded.
THEOREM CompressorsBounded == ASSUME ~ResetAnytime PROVE Spec => []Backpressure
<1>1. StreamInv => Backpressure
  <2> SUFFICES ASSUME StreamInv PROVE Backpressure
    OBVIOUS
  <2> USE DEF StreamInv
  <2> DEFINE Busy == {s \in Slot : slot[s].st \in {"busy", "failing"}}
  <2>t. /\ first \in Nat /\ nslots \in Nat /\ N \in Nat /\ N <= nslots /\ blocks \in Nat
        /\ Len(queue[results]) \in Nat
    BY Types DEF StateInv, TypeInv, TypeOK, ZTypeOK
  <2>1. Busy \subseteq N + 1 .. nslots
    <3> SUFFICES ASSUME NEW s \in Slot, slot[s].st \in {"busy", "failing"}
                 PROVE  s \in N + 1 .. nslots
      OBVIOUS
    <3>1. s \in Nat /\ s <= nslots /\ s > first
      BY <2>t DEF StateInv, Slot
    <3>2. s \in Blocks
      BY <2>t, <3>1 DEF Blocks
    <3>3. ~(s <= N)
      BY <3>2 DEF StateInv
    <3> QED BY <2>t, <3>1, <3>3
  <2>2. nslots - N <= blocks + 1
    <3>1. CASE pc = "reset"
      BY <2>t, <3>1 DEF OrderInv, ClosedComplete
    <3>2. CASE pc # "reset"
      BY <2>t, <3>2 DEF QueueInv
    <3> QED BY <3>1, <3>2
  <2>3. /\ IsFiniteSet(N + 1 .. nslots)
        /\ Cardinality(N + 1 .. nslots) = IF N + 1 > nslots THEN 0 ELSE nslots - (N + 1) + 1
    BY <2>t, FS_Interval
  <2>4. Cardinality(N + 1 .. nslots) = nslots - N
    BY <2>t, <2>3
  <2>5. IsFiniteSet(Busy) /\ Cardinality(Busy) <= Cardinality(N + 1 .. nslots)
    BY <2>1, <2>3, FS_Subset
  <2>6. Cardinality(Busy) \in Nat
    BY <2>5, FS_CardinalityType
  <2> HIDE DEF Busy
  <2>7. Cardinality(Busy) <= blocks + 1
    BY <2>t, <2>2, <2>4, <2>5, <2>6
  <2> QED BY <2>7 DEF Busy, Backpressure, Processing
<1> QED BY <1>1, InitStreamInv, NextStreamInv, PTL DEF Spec

-----------------------------------------------------------------------------
(***************************************************************************)
(* The writer implements DeflateStream                                     *)
(*                                                                         *)
(* What Stream substitutes for the variables of DeflateStream, by name; S  *)
(* is the same instance with these names.                                  *)
(***************************************************************************)

DeliveredUnits == {u \in 1 .. sent : Delivered(u)}
Ended == \E i \in Written : slot[out[w][i]].final
Call == CASE pc = "idle" -> "none" [] pc = "reset" -> "Reset"
          [] pc = "panic" -> "panic" [] OTHER -> op

S == INSTANCE DeflateStream WITH
  accepted <- sent, delivered <- DeliveredUnits, ended <- Ended, call <- Call

\* The call a client sees.
LEMMA CallState ==
  /\ pc = "idle" => Call = "none"
  /\ pc = "reset" => Call = "Reset"
  /\ pc = "panic" => Call = "panic"
  /\ pc \in {"fill", "send", "await", "check"} => Call = op
BY DEF Call

\* What is in the sink does not change as long as its blocks do not.
LEMMA SinkKept ==
  ASSUME UNCHANGED <<w, out>>,
         \A i \in 1 .. Len(out[w]) :
           /\ slot'[out[w][i]].data = slot[out[w][i]].data
           /\ slot'[out[w][i]].final = slot[out[w][i]].final
           /\ slot'[out[w][i]].st = "ready" <=> slot[out[w][i]].st = "ready"
  PROVE  /\ \A u : Delivered(u)' <=> Delivered(u)
         /\ Ended' = Ended
         /\ sent' = sent => DeliveredUnits' = DeliveredUnits
<1>1. Written' = Written
  BY DEF Written
<1>2. \A i \in Written : i \in 1 .. Len(out[w])
  BY DEF Written
<1>3. ASSUME NEW u PROVE Delivered(u)' <=> Delivered(u)
  BY <1>1, <1>2, ZenonT(60) DEF Delivered
<1>4. Ended' = Ended
  BY <1>1, <1>2 DEF Ended
<1>5. sent' = sent => DeliveredUnits' = DeliveredUnits
  BY <1>3 DEF DeliveredUnits
<1> QED BY <1>3, <1>4, <1>5

\* The blocks in the sink are those up to N.
LEMMA SinkBlocks ==
  ASSUME TypeInv, OrderInv, StateInv
  PROVE  \A i \in 1 .. Len(out[w]) : /\ out[w][i] \in Blocks /\ out[w][i] <= N /\ out[w][i] \in Slot
                                     /\ out[w][i] # nslots + 1 /\ out[w][i] = first + i
<1>t. /\ first \in Nat /\ nslots \in Nat /\ N \in Nat /\ Len(out[w]) \in Nat /\ N = first + Len(out[w])
      /\ N <= nslots /\ Blocks \subseteq Slot
  BY Types DEF StateInv, N
<1> SUFFICES ASSUME NEW i \in 1 .. Len(out[w])
             PROVE  /\ out[w][i] \in Blocks /\ out[w][i] <= N /\ out[w][i] \in Slot
                    /\ out[w][i] # nslots + 1 /\ out[w][i] = first + i
  OBVIOUS
<1>1. out[w][i] = first + i
  BY DEF OrderInv, InOrder
<1>2. i \in Nat /\ i >= 1 /\ i <= Len(out[w])
  BY <1>t
<1>3. first + i \in first + 1 .. nslots /\ first + i <= N /\ first + i # nslots + 1
  BY <1>t, <1>2
<1> QED BY <1>1, <1>3, <1>t DEF Blocks

\* The end of the stream is its last block, and it is written while Close waits.
LEMMA EndedFacts ==
  ASSUME StreamInv
  PROVE  /\ Ended => N = nslots /\ closed /\ slot[nslots].final /\ nslots \in Blocks
         /\ ~Open => Ended
         /\ (Ended /\ err = NoErr /\ pc = "idle") => ~Open
<1> USE DEF StreamInv
<1>t. /\ first \in Nat /\ nslots \in Nat /\ N \in Nat /\ N <= nslots /\ Len(out[w]) \in Nat
      /\ N = first + Len(out[w]) /\ out[w] \in Seq(Slot)
  BY Types DEF StateInv, N
<1>1. ASSUME Ended PROVE N = nslots /\ closed /\ slot[nslots].final /\ nslots \in Blocks
  <2>1. PICK i \in Written : slot[out[w][i]].final
    BY <1>1 DEF Ended
  <2>2. PICK s \in Blocks : s = out[w][i] /\ s <= N
    BY <2>1, SinkBlocks DEF Written
  <2>3. closed /\ s = nslots
    BY <2>1, <2>2 DEF FinalInv
  <2> QED BY <1>t, <2>1, <2>2, <2>3
<1>2. ASSUME ~Open PROVE Ended
  <2>1. nslots > first /\ slot[nslots].final /\ err = NoErr /\ N = nslots
    BY <1>2 DEF FinalInv, CloseInv, Open, OrderInv, ClosedComplete
  <2>2. nslots \in Blocks
    BY <1>t, <2>1 DEF Blocks
  <2>3. slot[nslots].st = "ready"
    BY <2>1, <2>2, AllReady
  <2>4. Len(out[w]) \in 1 .. Len(out[w]) /\ first + Len(out[w]) = nslots
    BY <1>t, <2>1
  <2>5. out[w][Len(out[w])] = nslots
    BY <2>4, SinkBlocks
  <2>6. Len(out[w]) \in Written
    BY <2>3, <2>4, <2>5 DEF Written
  <2> QED BY <2>1, <2>5, <2>6 DEF Ended
<1>3. (Ended /\ err = NoErr /\ pc = "idle") => ~Open
  BY <1>1 DEF CloseInv, Barriers
<1> QED BY <1>1, <1>2, <1>3

\* The same in the next state.
LEMMA EndedNext ==
  StreamInv' => /\ Ended' => (N = nslots /\ closed /\ slot[nslots].final /\ nslots \in Blocks)'
                /\ ~Open' => Ended'
<1>1. StreamInv => /\ Ended => N = nslots /\ closed /\ slot[nslots].final /\ nslots \in Blocks
                   /\ ~Open => Ended
  BY EndedFacts
<1> QED BY <1>1, PTL

\* Only units the client wrote are delivered; the first ones, if there is no
\* error, and all of them when all blocks are written and the buffer is empty.
LEMMA DeliveredFacts ==
  StreamInv => /\ \A u \in Nat : Delivered(u) => u \in 1 .. sent
               /\ err = NoErr => \E k \in 0 .. sent : DeliveredUnits = 1 .. k
               /\ (err = NoErr /\ N = nslots /\ pc = "await") => DeliveredUnits = 1 .. sent
<1> SUFFICES ASSUME StreamInv
             PROVE  /\ \A u \in Nat : Delivered(u) => u \in 1 .. sent
                    /\ err = NoErr => \E k \in 0 .. sent : DeliveredUnits = 1 .. k
                    /\ (err = NoErr /\ N = nslots /\ pc = "await") => DeliveredUnits = 1 .. sent
  OBVIOUS
<1> USE DEF StreamInv
<1>1. PICK h \in [Nat -> Nat] : Ends(h) /\ Held(h)
  BY DEF UnitsInv
<1>t. /\ sent \in Nat /\ first \in Nat /\ nslots \in Nat /\ N \in Nat /\ N <= nslots
      /\ h[nslots] \in Nat /\ h[nslots] <= sent /\ Len(out[w]) \in Nat
  BY <1>1, HeldTypes, Types DEF StateInv, Held
<1>n. N \in first .. nslots
  <2>1. \A a, b, c \in Nat : a + b <= c => a + b \in a .. c
    OBVIOUS
  <2> QED BY <1>t, <2>1, Zenon DEF N
<1>2. ASSUME NEW u \in Nat, Delivered(u) PROVE u \in 1 .. sent
  <2>1. PICK s \in first + 1 .. N : h[s - 1] < u /\ u <= h[s]
    BY <1>1, <1>2, DeliveredBlocks
  <2>2. s \in first .. nslots /\ nslots \in first .. nslots /\ s <= nslots /\ s \in Nat /\ s - 1 \in Nat
    BY <1>t
  <2>3. h[s] <= h[nslots] /\ h[s] \in Nat /\ h[s - 1] \in Nat
    BY <1>1, <2>2 DEF Ends
  <2>4. \A a, b, c, d \in Nat : (a < u /\ u <= b /\ b <= c /\ c <= d) => u \in 1 .. d
    OBVIOUS
  <2> QED BY <1>t, <2>1, <2>3, <2>4, Zenon
<1>3. ASSUME err = NoErr PROVE h[N] \in 0 .. sent /\ DeliveredUnits = 1 .. h[N]
  <2>0. nslots \in first .. nslots
    BY <1>n, <1>t
  <2>1. h[N] \in Nat /\ h[N] <= h[nslots]
    BY <1>1, <1>n, <1>t, <2>0 DEF Ends
  <2>2. h[N] <= sent
    <3>1. \A a, b, c \in Nat : (a <= b /\ b <= c) => a <= c
      OBVIOUS
    <3> QED BY <1>t, <2>1, <3>1, Zenon
  <2>3. \A u \in Nat : Delivered(u) <=> u \in 1 .. h[N]
    BY <1>1, <1>3, DeliveredPrefix
  <2>4. \A u \in 1 .. h[N] : u \in Nat /\ u \in 1 .. sent
    <3>1. \A a, c \in Nat : a <= c => \A u \in 1 .. a : u \in Nat /\ u \in 1 .. c
      OBVIOUS
    <3> QED BY <1>t, <2>1, <2>2, <3>1, Zenon
  <2>5. \A u \in 1 .. sent : u \in Nat
    BY <1>t
  <2>6. DeliveredUnits = 1 .. h[N]
    BY <2>3, <2>4, <2>5, Zenon DEF DeliveredUnits
  <2> QED BY <1>t, <2>1, <2>2, <2>6
<1>4. ASSUME err = NoErr, N = nslots, pc = "await" PROVE DeliveredUnits = 1 .. sent
  <2>1. currentBuffer = <<>>
    BY <1>4 DEF TypeInv, CallerRoom
  <2>2. Len(currentBuffer) = 0
    BY <2>1
  <2>3. ~InWrite
    BY <1>4 DEF InWrite
  <2>4. Open => h[nslots] + Len(currentBuffer) = sent
    BY <1>1, <1>4, <2>3 DEF Held
  <2>5. ~Open => h[nslots] = sent
    BY <1>1 DEF Held
  <2>6. h[nslots] = sent
    BY <1>t, <2>2, <2>4, <2>5
  <2> QED BY <1>3, <1>4, <2>6
<1> QED BY <1>2, <1>3, <1>4

\* The same in the next state.
LEMMA DeliveredNext ==
  StreamInv' => /\ (err = NoErr)' => (\E k \in 0 .. sent : DeliveredUnits = 1 .. k)'
                /\ (err = NoErr /\ N = nslots /\ pc = "await")' => (DeliveredUnits = 1 .. sent)'
<1>1. StreamInv => /\ err = NoErr => \E k \in 0 .. sent : DeliveredUnits = 1 .. k
                   /\ (err = NoErr /\ N = nslots /\ pc = "await") => DeliveredUnits = 1 .. sent
  BY DeliveredFacts
<1> QED BY <1>1, PTL

\* Steps of the caller but compressCurrent and the end of Reset: the sink stays.
LEMMA CallerSink ==
  ASSUME TypeInv, OrderInv, StateInv, ClientCall \/ CallerStep, ~CompressCurrent, ~ResetInit
  PROVE  /\ UNCHANGED <<err, w, out, slot>> /\ Ended' = Ended
         /\ \A u : Delivered(u)' <=> Delivered(u)
         /\ sent' = sent => DeliveredUnits' = DeliveredUnits
<1>1. UNCHANGED <<err, w, out, slot>>
  BY QuietCaller
<1> QED BY <1>1, SinkKept

\* Flush and Close that return nil have delivered everything.
LEMMA FlushedUnits ==
  StreamInv' => (FlushedNil => DeliveredUnits = 1 .. sent)'
<1>1. StreamInv => (FlushedNil => DeliveredUnits = 1 .. sent)
  BY StreamFlushSync DEF FlushSync, FlushedNil, DeliveredUnits
<1> QED BY <1>1, PTL

\* A client's call is a call of the abstract stream; SetConcurrency is none.
LEMMA ClientRefines ==
  ASSUME ~ResetAnytime, StreamInv, StreamInv', ClientCall
  PROVE  [S!Next]_S!vars
<1> USE DEF StreamInv
<1>0. ~CompressCurrent /\ ~ResetInit
  BY DEF ClientCall, SetConcurrency, Write, WriteRefused, Flush, Close, FlushRefused, Reset,
         CompressCurrent, ResetInit
<1>1. /\ UNCHANGED <<err, w, out, slot>> /\ Ended' = Ended
      /\ \A u : Delivered(u)' <=> Delivered(u)
      /\ sent' = sent => DeliveredUnits' = DeliveredUnits
  BY <1>0, CallerSink
<1>c. pc = "idle" /\ Call = "none"
  BY CallState DEF ClientCall, SetConcurrency, Write, WriteRefused, Flush, Close, FlushRefused, Reset
<1>d. /\ pc' = "idle" => Call' = "none"
      /\ pc' = "reset" => Call' = "Reset"
      /\ pc' \in {"fill", "send", "await", "check"} => Call' = op'
  BY DEF Call
<1>t. sent \in Nat
  BY DEF TypeInv, TypeOK, HistTypeOK
<1>2. ASSUME NEW c \in Settings, SetConcurrency(c[1], c[2]) PROVE UNCHANGED S!vars
  <2>1. UNCHANGED <<sent, ret>> /\ Call' = Call
    BY <1>2, <1>c, <1>d DEF SetConcurrency
  <2> QED BY <1>1, <2>1 DEF S!vars
<1>3. ASSUME NEW n \in 0 .. MaxWrite, Write(n) PROVE S!Write
  <2>0. n \in Nat
    BY ConstantsAssumption
  <2>1. /\ err = NoErr /\ Call' = "Write" /\ ret' = ret
        /\ sent' = IF closed THEN sent ELSE sent + n
    BY <1>3, <1>d DEF Write
  <2>2. sent' \in Nat /\ sent' >= sent
    BY <1>t, <2>0, <2>1
  <2>3. Ended => sent' = sent
    BY <2>1, EndedFacts
  <2>4. DeliveredUnits' = DeliveredUnits
    <3>1. \A u \in Nat : Delivered(u) => u \in 1 .. sent
      BY DeliveredFacts
    <3>2. \A u : u \in 1 .. sent => u \in Nat /\ u \in 1 .. sent'
      BY <1>t, <2>2
    <3>3. \A u : u \in 1 .. sent' => u \in Nat
      BY <2>2
    <3>4. DeliveredUnits = {u \in 1 .. sent' : Delivered(u)}
      BY <3>1, <3>2, <3>3, Zenon DEF DeliveredUnits
    <3>5. DeliveredUnits' = {u \in 1 .. sent' : Delivered(u)'}
      BY DEF DeliveredUnits
    <3> QED BY <1>1, <3>4, <3>5, Zenon
  <2> QED BY <1>1, <1>c, <2>1, <2>2, <2>3, <2>4 DEF S!Write
<1>4. ASSUME NEW m \in {"Flush", "Close"}, err = NoErr, ~closed, pc' = "send", op' = m,
             UNCHANGED <<sent, ret>>
      PROVE  S!Barrier(m)
  <2>1. ~Ended
    BY <1>4, EndedFacts
  <2>2. Call' = m
    BY <1>4, <1>d
  <2> QED BY <1>1, <1>4, <1>c, <2>1, <2>2 DEF S!Barrier
<1>5. CASE Flush
  BY <1>4, <1>5 DEF Flush, S!Next
<1>6. CASE Close
  BY <1>4, <1>6 DEF Close, S!Next
<1>7. CASE WriteRefused
  <2>1. /\ err # NoErr /\ Call' = "none" /\ ret' = [op |-> "Write", err |-> err] /\ sent' = sent
    BY <1>7, <1>d DEF WriteRefused
  <2>2. S!Refuse("Write")
    BY <1>1, <1>c, <2>1 DEF S!Refuse, S!Returns
  <2> QED BY <2>2 DEF S!Next
<1>8. CASE FlushRefused
  <2>1. PICK m \in {"Flush", "Close"} : ret' = [op |-> m, err |-> err]
    BY <1>8 DEF FlushRefused
  <2>2. /\ err # NoErr \/ closed
        /\ Call' = "none" /\ sent' = sent /\ pc' = "idle"
    BY <1>8, <1>d DEF FlushRefused
  <2>3. err = NoErr => Ended
    BY <1>c, <2>2, EndedFacts DEF CloseInv, Barriers
  <2>4. err = NoErr => DeliveredUnits = 1 .. sent
    <3>1. err = NoErr => FlushedNil'
      BY <2>1, <2>2 DEF FlushedNil
    <3>2. FlushedNil' => DeliveredUnits' = 1 .. sent'
      BY FlushedUnits
    <3> QED BY <1>1, <2>2, <3>1, <3>2
  <2>5. S!Returns(m)
    BY <1>1, <2>1, <2>2, <2>3, <2>4 DEF S!Returns
  <2>6. S!Refuse(m)
    BY <1>c, <2>3, <2>5 DEF S!Refuse
  <2> QED BY <2>6 DEF S!Next
<1>9. CASE Reset
  <2>1. chanClosed[results] /\ Call' = "Reset" /\ UNCHANGED <<sent, ret>>
    BY <1>9, <1>d DEF Reset
  <2>2. Ended /\ err = NoErr
    BY <2>1, EndedFacts DEF Open, CloseInv
  <2>3. S!Reset
    BY <1>1, <1>c, <2>1, <2>2 DEF S!Reset
  <2> QED BY <2>3 DEF S!Next
<1> QED BY <1>2, <1>3, <1>5, <1>6, <1>7, <1>8, <1>9 DEF ClientCall, S!Next

\* The caller goes on inside its call, returns, panics or finishes Reset.
LEMMA CallerRefines ==
  ASSUME ~ResetAnytime, StreamInv, StreamInv', CallerStep
  PROVE  [S!Next]_S!vars
<1> USE DEF StreamInv
<1>0. ~ClientCall
  BY DEF ClientCall, SetConcurrency, Write, WriteRefused, Flush, Close, FlushRefused, Reset,
         CallerStep, Fill, WriteReturn, CompressCurrent, CompressCurrentError, CompressCurrentPanic,
         AwaitWritten, WriteCheck, FlushCheck, CloseCheck, ResetInit
<1>1. ASSUME ~CompressCurrent, ~ResetInit
      PROVE  /\ UNCHANGED <<err, w, out, slot>> /\ Ended' = Ended
             /\ sent' = sent => DeliveredUnits' = DeliveredUnits
  BY <1>1, CallerSink
<1>d. /\ pc' = "idle" => Call' = "none"
      /\ pc' = "reset" => Call' = "Reset"
      /\ pc' = "panic" => Call' = "panic"
      /\ pc' \in {"fill", "send", "await", "check"} => Call' = op'
  BY DEF Call
<1>2. CASE Fill \/ CompressCurrentError \/ AwaitWritten \/ (WriteCheck /\ err = NoErr)
  <2>1. /\ UNCHANGED <<sent, ret, op>>
        /\ pc \in {"fill", "send", "await", "check"} /\ pc' \in {"fill", "send", "await", "check"}
        /\ ~CompressCurrent /\ ~ResetInit
    BY <1>2, Types DEF Fill, CompressCurrentError, AwaitWritten, WriteCheck, CompressCurrent, ResetInit
  <2>2. Call' = Call
    BY <1>d, <2>1, CallState
  <2> QED BY <1>1, <2>1, <2>2 DEF S!vars
<1>3. CASE CompressCurrent
  <2>1. /\ UNCHANGED <<sent, ret, op, w, out, err>>
        /\ pc = "send" /\ pc' \in {"await", "check"}
        /\ \A t \in Slot : t # nslots + 1 => slot'[t] = slot[t]
    BY <1>3, CompressCurrentEffect
  <2>2. Call' = Call
    BY <1>d, <2>1, CallState
  <2>3. \A i \in 1 .. Len(out[w]) : slot'[out[w][i]] = slot[out[w][i]]
    BY <2>1, SinkBlocks
  <2>4. Ended' = Ended /\ DeliveredUnits' = DeliveredUnits
    BY <2>1, <2>3, SinkKept
  <2> QED BY <2>1, <2>2, <2>4 DEF S!vars
<1>4. CASE WriteReturn \/ (WriteCheck /\ err # NoErr)
  <2>1. /\ sent' = sent /\ pc \in {"fill", "check"} /\ pc' = "idle" /\ op = "Write"
        /\ ret' = [op |-> "Write", err |-> err] /\ ~CompressCurrent /\ ~ResetInit
    BY <1>4 DEF WriteReturn, WriteCheck, CompressCurrent, ResetInit, TypeInv, CallerRoom
  <2>2. Call = "Write" /\ Call' = "none"
    BY <1>d, <2>1, CallState
  <2>3. S!Return
    BY <1>1, <2>1, <2>2 DEF S!Return, S!Returns
  <2> QED BY <2>3 DEF S!Next
<1>5. CASE FlushCheck \/ CloseCheck
  <2>1. /\ sent' = sent /\ pc = "check" /\ pc' = "idle" /\ op \in {"Flush", "Close"}
        /\ ret' = [op |-> op, err |-> err] /\ ~CompressCurrent /\ ~ResetInit
    BY <1>5 DEF FlushCheck, CloseCheck, CompressCurrent, ResetInit
  <2>2. Call = op /\ Call' = "none"
    BY <1>d, <2>1, CallState
  <2>3. err = NoErr => DeliveredUnits = 1 .. sent
    <3>1. err = NoErr => FlushedNil'
      BY <2>1 DEF FlushedNil
    <3>2. FlushedNil' => DeliveredUnits' = 1 .. sent'
      BY FlushedUnits
    <3> QED BY <1>1, <2>1, <3>1, <3>2
  <2>4. (op = "Close" /\ err = NoErr) => Ended
    <3> SUFFICES ASSUME op = "Close", err = NoErr PROVE Ended
      OBVIOUS
    <3>1. results \in Chan /\ chanClosed \in [Chan -> BOOLEAN]
      BY DEF TypeInv, TypeOK, ZTypeOK, ChanTypeOK
    <3>2. ~Open'
      BY <1>5, <3>1 DEF FlushCheck, CloseCheck, Open
    <3> QED BY <1>1, <2>1, <3>2, EndedNext
  <2>5. S!Return
    BY <1>1, <2>1, <2>2, <2>3, <2>4 DEF S!Return, S!Returns
  <2> QED BY <2>5 DEF S!Next
<1>6. CASE CompressCurrentPanic
  <2>1. /\ UNCHANGED <<sent, ret>> /\ pc = "send" /\ pc' = "panic" /\ chanClosed[results]
        /\ ~CompressCurrent /\ ~ResetInit
    BY <1>6 DEF CompressCurrentPanic, CompressCurrent, ResetInit
  <2>2. ~Open /\ op = "Write"
    BY <2>1 DEF Open, CloseInv, Barriers, TypeInv, TypeOK, CallTypeOK, Methods
  <2>3. Call = "Write" /\ Call' = "panic" /\ Ended
    BY <1>d, <2>1, <2>2, CallState, EndedFacts
  <2>4. S!Panic
    BY <1>1, <2>1, <2>3 DEF S!Panic
  <2> QED BY <2>4 DEF S!Next
<1>7. CASE ResetInit
  <2>1. /\ sent' = 0 /\ err' = NoErr /\ ret' = [op |-> "none", err |-> NoErr] /\ pc' = "idle"
        /\ out'[w'] = <<>> /\ pc = "reset"
    BY <1>7, ResetInitEffect DEF ResetInit
  <2>2. Call = "Reset" /\ Call' = "none"
    BY <1>d, <2>1, CallState
  <2>3. Written' = {}
    BY <2>1 DEF Written
  <2>4. Ended' = FALSE
    BY <2>3 DEF Ended
  <2>5. DeliveredUnits' = {}
    BY <2>1 DEF DeliveredUnits
  <2>6. S!ResetDone
    BY <2>1, <2>2, <2>4, <2>5 DEF S!ResetDone, S!Init
  <2> QED BY <2>6 DEF S!Next
<1> QED BY <1>2, <1>3, <1>4, <1>5, <1>6, <1>7 DEF CallerStep

\* Compressors and listeners deliver, fail, or do what no client sees.
LEMMA OthersRefine ==
  ASSUME StreamInv, StreamInv',
         \/ \E s \in Slot : CompressorStep(s)
         \/ \E k \in Sink : ListenerStep(k)
  PROVE  [S!Next]_S!vars
<1> USE DEF StreamInv
<1>1. /\ UNCHANGED <<pc, op, ret, sent, nslots, first, w, closed>>
      /\ err' # err => err' # NoErr /\ N < nslots
  BY OthersEffect
<1>t. /\ first \in Nat /\ nslots \in Nat /\ N \in Nat /\ Len(out[w]) \in Nat /\ N = first + Len(out[w])
      /\ err \in Errors \cup {NoErr} /\ err' \in Errors \cup {NoErr} /\ out[w] \in Seq(Slot)
  BY Types DEF N, TypeInv, TypeOK, ZTypeOK
<1>c. Call' = Call
  BY <1>1 DEF Call
<1>2. ASSUME UNCHANGED <<DeliveredUnits, Ended>>, err' = err \/ err = NoErr PROVE [S!Next]_S!vars
  <2>1. CASE err' = err
    BY <1>1, <1>2, <1>c, <2>1 DEF S!vars
  <2>2. CASE err' # err
    <3>1. ~Ended
      BY <1>1, <1>t, <2>2, EndedFacts
    <3>2. err = NoErr /\ err' \in Errors
      BY <1>1, <1>2, <1>t, <2>2
    <3>3. S!Fail
      BY <1>1, <1>2, <1>c, <3>1, <3>2 DEF S!Fail
    <3> QED BY <3>3 DEF S!Next
  <2> QED BY <2>1, <2>2
<1>3. ASSUME NEW s \in Slot, CompressorStep(s) PROVE [S!Next]_S!vars
  <2>1. /\ UNCHANGED out /\ \A t \in Slot : t # s => slot'[t] = slot[t]
        /\ slot[s].st \in {"busy", "failing"} /\ (err' = err \/ err = NoErr)
    BY <1>3, CompressorEffect
  <2>2. \A i \in 1 .. Len(out[w]) : out[w][i] \in Slot /\ out[w][i] # s
    <3>1. \A i \in 1 .. Len(out[w]) : slot[out[w][i]].st \in {"ready", "failed"}
      BY SinkBlocks DEF StateInv
    <3> QED BY <2>1, <3>1, SinkBlocks
  <2>3. \A i \in 1 .. Len(out[w]) : slot'[out[w][i]] = slot[out[w][i]]
    BY <2>1, <2>2
  <2>4. UNCHANGED <<DeliveredUnits, Ended>>
    BY <1>1, <2>1, <2>3, SinkKept
  <2> QED BY <1>2, <2>1, <2>4
<1>4. ASSUME UNCHANGED out, \/ UNCHANGED slot
                            \/ L.r \in Slot /\ slot' = [slot EXCEPT ![L.r].notified = TRUE],
             err' = err \/ err = NoErr
      PROVE  [S!Next]_S!vars
  <2>1. \A t \in Slot : slot'[t].data = slot[t].data /\ slot'[t].final = slot[t].final
                        /\ slot'[t].st = slot[t].st
    <3>1. slot \in [Slot -> SlotType]
      BY DEF TypeInv, TypeOK, SlotTypeOK
    <3>2. CASE UNCHANGED slot
      BY <3>2
    <3>3. CASE L.r \in Slot /\ slot' = [slot EXCEPT ![L.r].notified = TRUE]
      BY <3>1, <3>3 DEF SlotType
    <3> QED BY <1>4, <3>2, <3>3
  <2>2. \A i \in 1 .. Len(out[w]) : out[w][i] \in Slot
    BY SinkBlocks
  <2>3. UNCHANGED <<DeliveredUnits, Ended>>
    BY <1>1, <1>4, <2>1, <2>2, SinkKept
  <2> QED BY <1>2, <1>4, <2>3
<1>5. ASSUME UNCHANGED <<slot, err>>, out'[w] = Append(out[w], N + 1), N + 1 \in Slot,
             N + 1 <= nslots, L.pc = "result"
      PROVE  S!Deliver
  <2>1. /\ Len(out'[w]) = Len(out[w]) + 1
        /\ \A i \in 1 .. Len(out[w]) : i \in 1 .. Len(out'[w]) /\ out'[w][i] = out[w][i]
    BY <1>t, <1>5
  <2>2. N' = N + 1
    BY <1>1, <1>t, <2>1 DEF N
  <2>3. ~Ended
    BY <1>t, <1>5, EndedFacts
  <2>4. \A i \in Written : i \in Written' /\ out'[w'][i] = out[w][i]
    BY <1>1, <1>5, <2>1 DEF Written
  <2>5. ASSUME NEW u, Delivered(u) PROVE Delivered(u)'
    BY <1>5, <2>4, <2>5 DEF Delivered
  <2>6. DeliveredUnits \subseteq DeliveredUnits' /\ DeliveredUnits' \subseteq 1 .. sent
    BY <1>1, <2>5 DEF DeliveredUnits
  <2>7. err = NoErr => \E k \in 0 .. sent : DeliveredUnits' = 1 .. k
    BY <1>1, <1>5, DeliveredNext
  <2>8. ASSUME Ended' PROVE Call = "Close" /\ (err = NoErr => DeliveredUnits' = 1 .. sent)
    <3>1. N' = nslots' /\ slot'[nslots'].final /\ nslots' \in Blocks'
      BY <2>8, EndedNext
    <3>2. N + 1 = nslots /\ slot[nslots].final /\ nslots \in Blocks
      BY <1>1, <1>5, <2>2, <3>1 DEF Blocks
    <3>3. ~slot[nslots].notified
      BY <1>5, <1>t, <3>2 DEF StateInv
    <3>4. pc = "await" /\ op = "Close"
      BY <3>2, <3>3 DEF FinalInv
    <3>5. Call = "Close"
      BY <3>4, CallState
    <3>6. err = NoErr => DeliveredUnits' = 1 .. sent
      BY <1>1, <1>5, <3>1, <3>4, DeliveredNext
    <3> QED BY <3>5, <3>6
  <2>9. Ended' \in BOOLEAN
    BY DEF Ended
  <2> QED BY <1>1, <1>5, <1>c, <2>3, <2>6, <2>7, <2>8, <2>9 DEF S!Deliver
<1>6. ASSUME NEW k \in Sink, ListenerStep(k) PROVE [S!Next]_S!vars
  <2>1. S!Deliver => S!Next
    BY DEF S!Next
  <2> QED BY <1>4, <1>5, <1>6, <2>1, ListenerEffect
<1> QED BY <1>3, <1>6

\* The initial states correspond.
LEMMA InitRefines == Init => S!Init
<1> SUFFICES ASSUME Init PROVE S!Init
  OBVIOUS
<1>1. sent = 0 /\ err = NoErr /\ ret = [op |-> "none", err |-> NoErr] /\ pc = "idle" /\ out[w] = <<>>
  BY ConstantsAssumption DEF Init, Sink
<1>2. Written = {}
  BY <1>1 DEF Written
<1>3. Ended = FALSE /\ DeliveredUnits = {} /\ Call = "none"
  BY <1>1, <1>2, CallState DEF Ended, DeliveredUnits
<1> QED BY <1>1, <1>3 DEF S!Init

\* Every step corresponds to a step of the abstract stream, or to none.
LEMMA NextRefines ==
  ASSUME ~ResetAnytime, StreamInv, StreamInv', [Next]_vars
  PROVE  [S!Next]_S!vars
<1>1. CASE UNCHANGED vars
  <2>1. UNCHANGED <<DeliveredUnits, Ended, Call, sent, err, ret>>
    <3>1. UNCHANGED <<w, out, slot, sent, err, ret, pc, op>>
      BY <1>1 DEF vars
    <3> QED BY <3>1, SinkKept DEF Call
  <2> QED BY <2>1 DEF S!vars
<1> QED BY <1>1, ClientRefines, CallerRefines, OthersRefine DEF Next

\* The writer with all its goroutines implements the abstract stream: whatever the
\* order in which compressors and listener run and whichever of them fail, a client
\* and a reader of the sink see a single ordered stream with Flush and Close as
\* barriers, one lasting error, and an end that nothing follows.
THEOREM StreamRefinement == ASSUME ~ResetAnytime PROVE Spec => ImplementsStream
<1>1. Init => Stream!Init
  BY InitRefines DEF S!Init, Stream!Init, DeliveredUnits, Ended, Call
<1>2. StreamInv /\ StreamInv' /\ [Next]_vars => [Stream!Next]_Stream!vars
  <2>1. StreamInv /\ StreamInv' /\ [Next]_vars => [S!Next]_S!vars
    BY NextRefines
  <2>2. S!vars = Stream!vars /\ S!vars' = Stream!vars'
    BY DEF S!vars, Stream!vars, DeliveredUnits, Ended, Call
  <2>3. S!Next = Stream!Next
    BY DEF S!Next, Stream!Next, S!Write, Stream!Write, S!Barrier, Stream!Barrier,
           S!Deliver, Stream!Deliver, S!Fail, Stream!Fail, S!Return, Stream!Return,
           S!Returns, Stream!Returns, S!Panic, Stream!Panic, S!Refuse, Stream!Refuse,
           S!Reset, Stream!Reset, S!ResetDone, Stream!ResetDone, S!Init, Stream!Init,
           DeliveredUnits, Ended, Call
  <2> QED BY <2>1, <2>2, <2>3
<1> QED BY <1>1, <1>2, InitStreamInv, NextStreamInv, PTL DEF Spec, ImplementsStream, Stream!Spec
=============================================================================
