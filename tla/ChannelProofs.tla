--------------------------- MODULE ChannelProofs ---------------------------
(***************************************************************************)
(* Theorems about Channel, for any number of writers and closers, any      *)
(* window and any traffic. The inductive invariant is built from the parts *)
(* the runs check; each part is preserved by every step given the types,   *)
(* so each has a lemma of its own.                                         *)
(***************************************************************************)
EXTENDS Channel, TLAPS, FiniteSetTheorems, SequenceTheorems

\* A writer inside Write has a chunk left to write.
ChunksLeft == \A w \in Writers : writer[w] # "idle" => left[w] > 0

TypeInv == TypeOK /\ ChunksLeft

-----------------------------------------------------------------------------
(* Types.                                                                  *)

LEMMA TypeInit == Init => TypeInv
<1> SUFFICES ASSUME Init PROVE TypeInv
  OBVIOUS
<1> USE DEF Init
<1>1. FieldsOK
  BY WindowAssumption, ModulusAssumption DEF FieldsOK, Frame, NoFrame
<1>2. ThreadsOK
  BY DEF ThreadsOK
<1>3. WiresOK
  <2>1. InitialCredit \in Nat /\ <<>> \in Seq(Frame)
    BY WindowAssumption
  <2> QED BY <2>1 DEF WiresOK
<1>4. ChunksLeft
  BY DEF ChunksLeft
<1> QED BY <1>1, <1>2, <1>3, <1>4 DEF TypeInv, TypeOK

\* What a Read leaves of a frame is a frame.
LEMMA RestIsFrame ==
  ASSUME NEW f \in Frame, NEW k \in Nat,
         NEW n, n = IF f.hi - f.lo < k THEN f.hi - f.lo ELSE k
  PROVE  /\ n \in Nat
         /\ [f EXCEPT !.lo = @ + n] \in Frame
         /\ [f EXCEPT !.lo = @ + n].lo = f.lo + n
         /\ [f EXCEPT !.lo = @ + n].hi = f.hi
  BY DEF Frame

LEMMA SendingFinite == IsFiniteSet(Sending) /\ Cardinality(Sending) \in Nat
<1>1. IsFiniteSet(Sending)
  BY ThreadAssumption, FS_Subset DEF Sending
<1> QED BY <1>1, FS_CardinalityType

\* The credit left at the host, on the pipe and with the writers bounds a
\* grant, so the counter does not wrap.
LEMMA NoWrap ==
  ASSUME TypeOK, OutboundWindow, NEW n \in 1..creditIn
  PROVE  /\ credit + n <= InitialCredit
         /\ Wrap(credit + n) = credit + n
         /\ credit + n \in 0..(CreditModulus - 1)
BY SendingFinite, WindowAssumption, ModulusAssumption
   DEF TypeOK, FieldsOK, WiresOK, OutboundWindow, OutboundTotal, Wrap

\* A Broadcast moves parked goroutines to their loop test and no other.
LEMMA BroadcastTypes ==
  ASSUME TypeInv, Broadcast, UNCHANGED left
  PROVE  /\ reader' \in {"idle", "reading", "asleep", "grant"}
         /\ writer' \in [Writers -> {"idle", "writing", "asleep", "send"}]
         /\ ChunksLeft'
BY DEF TypeInv, TypeOK, ThreadsOK, Broadcast, ChunksLeft

LEMMA FrameReaderTypes ==
  ASSUME TypeInv, OutboundWindow, FrameReader
  PROVE  TypeInv'
<1> USE DEF TypeInv, TypeOK, FieldsOK, ThreadsOK, WiresOK
<1>1. CASE Deliver
  <2>1. Head(dataIn) \in Frame /\ Tail(dataIn) \in Seq(Frame)
    BY <1>1, HeadTailProperties DEF Deliver
  <2>2. inbound' \in Seq(Frame)
    <3>1. CASE closed
      BY <1>1, <3>1 DEF Deliver
    <3>2. CASE ~closed
      <4>1. inbound' = Append(inbound, Head(dataIn))
        BY <1>1, <3>2 DEF Deliver
      <4> QED BY <2>1, <4>1, AppendProperties
    <3> QED BY <3>1, <3>2
  <2>3. FieldsOK' /\ WiresOK'
    BY <1>1, <2>1, <2>2 DEF Deliver, outWire, stream
  <2>4. ThreadsOK' /\ ChunksLeft'
    BY <1>1 DEF Deliver, ChunksLeft
  <2> QED BY <2>3, <2>4
<1>2. CASE AddCredit
  <2>1. PICK n \in 1..creditIn : credit' = Wrap(credit + n) /\ creditIn' = creditIn - n
    BY <1>2 DEF AddCredit
  <2>2. credit' \in 0..(CreditModulus - 1)
    BY <2>1, NoWrap
  <2>3. creditIn' \in Nat
    BY <2>1
  <2>4. FieldsOK' /\ WiresOK'
    BY <1>2, <2>2, <2>3 DEF AddCredit, inWire, stream
  <2>5. ThreadsOK' /\ ChunksLeft'
    BY <1>2 DEF AddCredit, ChunksLeft
  <2> QED BY <2>4, <2>5
<1>3. CASE FrameBroadcast
  <2>1. FieldsOK' /\ WiresOK'
    BY <1>3 DEF FrameBroadcast, fields, inWire, outWire, stream
  <2>2. ThreadsOK' /\ ChunksLeft'
    BY <1>3, BroadcastTypes DEF FrameBroadcast
  <2> QED BY <2>1, <2>2
<1>4. CASE DispatchClose
  BY <1>4 DEF DispatchClose, ChunksLeft, fields, inWire, outWire, stream
<1> QED BY <1>1, <1>2, <1>3, <1>4 DEF FrameReader

LEMMA RemoteCloserTypes ==
  ASSUME TypeInv, RemoteCloser
  PROVE  TypeInv'
<1> USE DEF TypeInv, TypeOK, FieldsOK, ThreadsOK, WiresOK
<1>1. CASE CloseRemote
  BY <1>1 DEF CloseRemote, ChunksLeft, inWire, outWire, stream
<1>2. CASE RemoteBroadcast
  <2>1. FieldsOK' /\ WiresOK'
    BY <1>2 DEF RemoteBroadcast, fields, inWire, outWire, stream
  <2>2. ThreadsOK' /\ ChunksLeft'
    BY <1>2, BroadcastTypes DEF RemoteBroadcast
  <2> QED BY <2>1, <2>2
<1> QED BY <1>1, <1>2 DEF RemoteCloser

LEMMA ReadTypes ==
  ASSUME TypeInv, Read
  PROVE  TypeInv'
<1> USE DEF TypeInv, TypeOK, FieldsOK, ThreadsOK, WiresOK
<1>1. CASE ReadCall
  BY <1>1 DEF ReadCall, ChunksLeft, fields, inWire, outWire, stream
<1>2. CASE ReadWait
  BY <1>2 DEF ReadWait, ChunksLeft, fields, inWire, outWire, stream
<1>3. CASE ReadEnd
  BY <1>3 DEF ReadEnd, ChunksLeft, fields, inWire, outWire
<1>4. ASSUME NEW k \in BufferSizes, ReadTake(k) PROVE TypeInv'
  <2>1. NextFrame \in Frame /\ (IsEmpty(pending) => Tail(inbound) \in Seq(Frame))
    BY <1>4, HeadTailProperties DEF ReadTake, NextFrame, readable
  <2>2. pending' \in Frame /\ got' \in Nat
    <3> DEFINE size == NextFrame.hi - NextFrame.lo
               n == IF size < k THEN size ELSE k
    <3>1. n \in Nat /\ [NextFrame EXCEPT !.lo = @ + n] \in Frame
      <4>1. k \in Nat
        BY BoundAssumption
      <4> QED BY <2>1, <4>1, RestIsFrame
    <3>2. pending' = [NextFrame EXCEPT !.lo = @ + n] /\ got' = got + n
      BY <1>4 DEF ReadTake
    <3> QED BY <3>1, <3>2
  <2>3. inbound' \in Seq(Frame)
    BY <1>4, <2>1 DEF ReadTake
  <2>4. /\ consumed' \in Nat /\ grant' \in Nat
        /\ reader' \in {"idle", "reading", "asleep", "grant"}
    BY <1>4 DEF ReadTake, SettleCredit
  <2> QED BY <1>4, <2>2, <2>3, <2>4 DEF ReadTake, ChunksLeft, inWire, outWire
<1>5. CASE ReadGrant
  BY <1>5 DEF ReadGrant, ChunksLeft, fields, outWire, stream
<1> QED BY <1>1, <1>2, <1>3, <1>4, <1>5 DEF Read

LEMMA WriteTypes ==
  ASSUME TypeInv, NEW w \in Writers, Write(w)
  PROVE  TypeInv'
<1> USE DEF TypeInv, TypeOK, FieldsOK, ThreadsOK, WiresOK, ChunksLeft
<1>1. CASE WriteCall(w)
  <2>1. PICK n \in 1..MaxChunks : left' = [left EXCEPT ![w] = n]
    BY <1>1 DEF WriteCall
  <2> QED BY <1>1, <2>1, BoundAssumption DEF WriteCall, fields, inWire, outWire, stream
<1>2. CASE WriteWait(w)
  BY <1>2 DEF WriteWait, fields, inWire, outWire, stream
<1>3. CASE WriteFail(w)
  BY <1>3 DEF WriteFail, fields, inWire, outWire, stream
<1>4. CASE WriteSpend(w)
  <2>1. credit' \in 0..(CreditModulus - 1)
    BY <1>4, ModulusAssumption DEF WriteSpend, WindowOpen
  <2>2. FieldsOK' /\ WiresOK'
    BY <1>4, <2>1 DEF WriteSpend, inWire, outWire, stream
  <2>3. ThreadsOK' /\ ChunksLeft'
    BY <1>4 DEF WriteSpend
  <2> QED BY <2>2, <2>3
<1>5. CASE WriteSend(w)
  <2> DEFINE rest == IF up THEN left[w] - 1 ELSE 0
  <2>1. rest \in Nat
    BY <1>5 DEF WriteSend
  <2>2. /\ left' = [left EXCEPT ![w] = rest]
        /\ writer' = [writer EXCEPT ![w] = IF rest > 0 THEN "writing" ELSE "idle"]
    BY <1>5 DEF WriteSend
  <2> HIDE DEF rest
  <2>3. ThreadsOK' /\ ChunksLeft'
    BY <1>5, <2>1, <2>2 DEF WriteSend
  <2>4. FieldsOK' /\ WiresOK'
    BY <1>5 DEF WriteSend, fields, inWire, stream
  <2> QED BY <2>3, <2>4
<1> QED BY <1>1, <1>2, <1>3, <1>4, <1>5 DEF Write

LEMMA CloseTypes ==
  ASSUME TypeInv, NEW c \in Closers, CloseSteps(c)
  PROVE  TypeInv'
<1> USE DEF TypeInv, TypeOK, FieldsOK, ThreadsOK, WiresOK
<1>1. CASE Close(c)
  BY <1>1 DEF Close, ChunksLeft, inWire, outWire, stream
<1>2. CASE CloseBroadcast(c)
  <2>1. FieldsOK' /\ WiresOK'
    BY <1>2 DEF CloseBroadcast, fields, inWire, outWire, stream
  <2>2. UNCHANGED left
    BY <1>2 DEF CloseBroadcast
  <2>3. ThreadsOK' /\ ChunksLeft'
    BY <1>2, <2>2, BroadcastTypes DEF CloseBroadcast
  <2> QED BY <2>1, <2>3
<1>3. CASE CloseNotify(c)
  BY <1>3 DEF CloseNotify, ChunksLeft, fields, inWire, outWire, stream
<1> QED BY <1>1, <1>2, <1>3 DEF CloseSteps

LEMMA HostTypes ==
  ASSUME TypeInv, Host
  PROVE  TypeInv'
<1> USE DEF TypeInv, TypeOK, FieldsOK, ThreadsOK, WiresOK, ChunksLeft
<1>1. CASE HostSend
  <2>1. PICK n \in FrameSizes : /\ dataIn' = Append(dataIn, [lo |-> sent, hi |-> sent + n])
                                /\ sent' = sent + n
    BY <1>1 DEF HostSend
  <2>2. n \in Nat /\ [lo |-> sent, hi |-> sent + n] \in Frame
    BY BoundAssumption DEF Frame
  <2>3. dataIn' \in Seq(Frame) /\ sent' \in Nat
    BY <2>1, <2>2, AppendProperties
  <2> QED BY <1>1, <2>3 DEF HostSend, fields, threads, outWire, stream
<1>2. CASE HostCredited
  BY <1>2 DEF HostCredited, fields, threads, outWire, stream
<1>3. CASE HostTake
  BY <1>3 DEF HostTake, fields, threads, inWire, stream
<1>4. CASE HostReturn
  BY <1>4 DEF HostReturn, fields, threads, inWire, stream
<1>5. CASE HostClose
  BY <1>5 DEF HostClose, fields, threads, outWire, stream
<1> QED BY <1>1, <1>2, <1>3, <1>4, <1>5 DEF Host

LEMMA TypeStep ==
  ASSUME TypeInv, OutboundWindow, [Next]_vars
  PROVE  TypeInv'
<1>1. CASE Disconnect
  BY <1>1 DEF Disconnect, TypeInv, TypeOK, FieldsOK, ThreadsOK, WiresOK, ChunksLeft,
              fields, threads, inWire, outWire, stream
<1>2. CASE UNCHANGED vars
  BY <1>2 DEF vars, TypeInv, TypeOK, FieldsOK, ThreadsOK, WiresOK, ChunksLeft,
              fields, threads, inWire, outWire, stream
<1> QED
  BY <1>1, <1>2, FrameReaderTypes, RemoteCloserTypes, ReadTypes, WriteTypes, CloseTypes,
     HostTypes
     DEF Next

-----------------------------------------------------------------------------
(* The outbound window.                                                    *)

\* A step that moves no credit and no writer to or from its send keeps the
\* outbound window.
LEMMA OutboundKept ==
  ASSUME OutboundWindow, UNCHANGED <<credit, dataOut, hostHeld, creditIn, up>>,
         Sending' = Sending
  PROVE  OutboundWindow'
BY DEF OutboundWindow, OutboundTotal

LEMMA BroadcastKeepsSending ==
  ASSUME TypeInv, Broadcast
  PROVE  Sending' = Sending
BY DEF Sending, Broadcast, TypeInv, TypeOK, ThreadsOK

LEMMA OutboundWriteStep ==
  ASSUME TypeInv, OutboundWindow, NEW w \in Writers, Write(w)
  PROVE  OutboundWindow'
<1> USE DEF TypeInv, TypeOK, FieldsOK, ThreadsOK, WiresOK
<1>1. CASE WriteCall(w) \/ WriteWait(w) \/ WriteFail(w)
  <2>1. Sending' = Sending
    BY <1>1 DEF WriteCall, WriteWait, WriteFail, Sending
  <2> QED
    BY <1>1, <2>1, OutboundKept DEF WriteCall, WriteWait, WriteFail, fields, outWire
<1>2. CASE WriteSpend(w)
  <2>1. Sending' = Sending \cup {w} /\ w \notin Sending
    BY <1>2 DEF WriteSpend, Sending
  <2>2. Cardinality(Sending') = Cardinality(Sending) + 1
    BY <2>1, SendingFinite, FS_AddElement
  <2>3. credit' = credit - 1 /\ UNCHANGED <<dataOut, hostHeld, creditIn, up>>
    BY <1>2 DEF WriteSpend, outWire
  <2> QED BY <2>2, <2>3, SendingFinite, WindowAssumption DEF OutboundWindow, OutboundTotal
<1>3. CASE WriteSend(w)
  <2>1. Sending' = Sending \ {w} /\ w \in Sending
    BY <1>3 DEF WriteSend, Sending
  <2>2. Cardinality(Sending') = Cardinality(Sending) - 1
    BY <2>1, SendingFinite, FS_RemoveElement
  <2>3. /\ dataOut' = IF up THEN dataOut + 1 ELSE dataOut
        /\ UNCHANGED <<credit, hostHeld, creditIn, up>>
    BY <1>3 DEF WriteSend, fields
  <2> QED BY <2>2, <2>3, SendingFinite, WindowAssumption DEF OutboundWindow, OutboundTotal
<1> QED BY <1>1, <1>2, <1>3 DEF Write

LEMMA OutboundStep ==
  ASSUME TypeInv, OutboundWindow, [Next]_vars
  PROVE  OutboundWindow'
<1> USE DEF TypeInv, TypeOK, FieldsOK, ThreadsOK, WiresOK
<1>1. CASE AddCredit
  <2>1. PICK n \in 1..creditIn : credit' = Wrap(credit + n) /\ creditIn' = creditIn - n
    BY <1>1 DEF AddCredit
  <2>2. credit' = credit + n
    BY <2>1, NoWrap
  <2>3. Sending' = Sending /\ UNCHANGED <<dataOut, hostHeld, up>>
    BY <1>1 DEF AddCredit, Sending
  <2>4. creditIn' = creditIn - n /\ n \in Int
    BY <2>1
  <2>5. OutboundTotal' = OutboundTotal
    BY <2>2, <2>3, <2>4, SendingFinite DEF OutboundTotal
  <2> QED BY <2>3, <2>5 DEF OutboundWindow
<1>2. CASE Deliver \/ DispatchClose
  BY <1>2, OutboundKept DEF Deliver, DispatchClose, fields, outWire, Sending
<1>3. CASE FrameBroadcast \/ RemoteBroadcast
  BY <1>3, OutboundKept, BroadcastKeepsSending
     DEF FrameBroadcast, RemoteBroadcast, fields, outWire
<1>4. CASE CloseRemote
  BY <1>4, OutboundKept DEF CloseRemote, outWire, Sending
<1>5. CASE Read
  BY <1>5, OutboundKept
     DEF Read, ReadCall, ReadWait, ReadEnd, ReadTake, ReadGrant, fields, outWire, Sending
<1>6. ASSUME NEW c \in Closers, CloseSteps(c) PROVE OutboundWindow'
  <2>1. CASE CloseBroadcast(c)
    BY <2>1, OutboundKept, BroadcastKeepsSending DEF CloseBroadcast, fields, outWire
  <2>2. CASE Close(c) \/ CloseNotify(c)
    BY <2>2, OutboundKept DEF Close, CloseNotify, fields, outWire, Sending
  <2> QED BY <1>6, <2>1, <2>2 DEF CloseSteps
<1>7. CASE HostTake
  BY <1>7, SendingFinite
     DEF HostTake, fields, threads, Sending, OutboundWindow, OutboundTotal
<1>8. CASE HostReturn
  BY <1>8, SendingFinite
     DEF HostReturn, fields, threads, Sending, OutboundWindow, OutboundTotal
<1>9. CASE HostSend \/ HostCredited \/ HostClose
  BY <1>9, OutboundKept DEF HostSend, HostCredited, HostClose, fields, threads, outWire, Sending
<1>10. CASE Disconnect
  BY <1>10 DEF Disconnect, fields, threads, outWire, Sending, OutboundWindow, OutboundTotal
<1>11. CASE UNCHANGED vars
  BY <1>11, OutboundKept DEF vars, fields, threads, outWire, Sending
<1> QED
  BY <1>1, <1>2, <1>3, <1>4, <1>5, <1>6, <1>7, <1>8, <1>9, <1>10, <1>11, OutboundWriteStep
     DEF Next, FrameReader, RemoteCloser, Host

LEMMA OutboundInit == Init => OutboundWindow
<1> SUFFICES ASSUME Init PROVE OutboundWindow
  OBVIOUS
<1>1. Sending = {}
  BY DEF Init, Sending
<1> QED BY <1>1, FS_EmptySet, WindowAssumption DEF Init, OutboundWindow, OutboundTotal

-----------------------------------------------------------------------------
(* Every field, counter and program counter keeps its range on every       *)
(* reachable state; in particular the uint32 credit never wraps.           *)
THEOREM TypeCorrect == Spec => []TypeOK
<1> DEFINE I == TypeInv /\ OutboundWindow
<1>1. Init => I
  BY TypeInit, OutboundInit
<1>2. I /\ [Next]_vars => I'
  BY TypeStep, OutboundStep
<1>3. I => TypeOK
  BY DEF TypeInv
<1> QED BY <1>1, <1>2, <1>3, PTL DEF Spec

\* However many goroutines write at once, the frames written and not yet
\* credited never exceed the window the host granted (awaitCredit).
THEOREM OutboundConserved == Spec => []OutboundWindow
<1> DEFINE I == TypeInv /\ OutboundWindow
<1>1. Init => I
  BY TypeInit, OutboundInit
<1>2. I /\ [Next]_vars => I'
  BY TypeStep, OutboundStep
<1> QED BY <1>1, <1>2, PTL DEF Spec

-----------------------------------------------------------------------------
(* The inbound window. The grant is held only between the unlock and the   *)
(* GrantCredit, a parked reader left no frame half read, and fewer than    *)
(* half a window of frames wait for their grant.                           *)

GrantHeld == reader # "grant" => grant = 0
ParkedDrained == reader = "asleep" => IsEmpty(pending)
BatchBelowHalf == consumed = 0 \/ consumed < InitialCredit \div 2

InboundInv == InboundWindow /\ GrantHeld /\ ParkedDrained /\ BatchBelowHalf

\* A step that moves no frame, no grant and no inbound credit.
LEMMA InboundKept ==
  ASSUME InboundInv,
         UNCHANGED <<inbound, pending, consumed, grant, inWire>>,
         closed => closed', up' => up,
         reader' = reader \/ (reader # "grant" /\ reader' # "grant" /\ reader' # "asleep")
  PROVE  InboundInv'
BY DEF InboundInv, InboundWindow, InboundTotal, FramesBuffered, GrantHeld, ParkedDrained,
       BatchBelowHalf, inWire

LEMMA InboundInit == Init => InboundInv
BY WindowAssumption
   DEF Init, InboundInv, InboundWindow, InboundTotal, FramesBuffered, GrantHeld,
       ParkedDrained, BatchBelowHalf, IsEmpty, NoFrame

LEMMA InboundTypes ==
  ASSUME TypeInv
  PROVE  /\ Len(inbound) \in Nat /\ Len(dataIn) \in Nat /\ FramesBuffered \in Nat
         /\ InboundTotal \in Nat
         /\ consumed \in Nat /\ grant \in Nat /\ creditOut \in Nat /\ hostWindow \in Nat
<1>1. Len(inbound) \in Nat /\ Len(dataIn) \in Nat
  BY DEF TypeInv, TypeOK, FieldsOK, WiresOK
<1>2. FramesBuffered \in Nat
  BY <1>1 DEF FramesBuffered
<1>3. /\ consumed \in Nat /\ grant \in Nat /\ creditOut \in Nat /\ hostWindow \in Nat
  BY DEF TypeInv, TypeOK, FieldsOK, ThreadsOK, WiresOK
<1>4. InboundTotal \in Nat
  BY <1>1, <1>2, <1>3 DEF InboundTotal
<1> QED BY <1>1, <1>2, <1>3, <1>4

LEMMA InboundReadStep ==
  ASSUME TypeInv, InboundInv, Read
  PROVE  InboundInv'
<1>1. CASE ReadCall \/ ReadEnd
  BY <1>1, InboundKept DEF ReadCall, ReadEnd, fields, closed
<1>2. CASE ReadWait
  BY <1>2 DEF ReadWait, readable, fields, inWire, InboundInv, InboundWindow, InboundTotal,
              FramesBuffered, GrantHeld, ParkedDrained, BatchBelowHalf, closed
<1>3. ASSUME NEW k \in BufferSizes, ReadTake(k) PROVE InboundInv'
  <2> DEFINE size == NextFrame.hi - NextFrame.lo
             n == IF size < k THEN size ELSE k
             rest == [NextFrame EXCEPT !.lo = @ + n]
             half == InitialCredit \div 2
  <2>1. /\ pending' = rest /\ SettleCredit(rest)
        /\ inbound' = IF IsEmpty(pending) THEN Tail(inbound) ELSE inbound
        /\ reader = "reading" /\ readable
        /\ UNCHANGED <<closeErr, up, hostWindow, dataIn, creditOut>>
    BY <1>3 DEF ReadTake, inWire
  <2>2. half \in Int /\ grant = 0
    BY <2>1, WindowAssumption DEF InboundInv, GrantHeld
  <2>3. Len(inbound') = IF IsEmpty(pending) THEN Len(inbound) - 1 ELSE Len(inbound)
    BY <2>1, HeadTailProperties DEF readable, TypeInv, TypeOK, FieldsOK
  <2> HIDE DEF rest, half
  <2>4. PICK held \in {0, 1} : held = IF IsEmpty(rest) THEN 0 ELSE 1
    OBVIOUS
  <2>5. /\ consumed' \in Nat /\ grant' \in Nat
        /\ \/ held = 1 /\ consumed' = consumed /\ grant' = 0
           \/ held = 0 /\ consumed' = consumed + 1 /\ grant' = 0
           \/ held = 0 /\ consumed' = 0 /\ grant' = consumed + 1
        /\ reader' \in {"idle", "grant"}
        /\ reader' # "grant" => grant' = 0
        /\ consumed' = consumed \/ consumed' = 0 \/ consumed' < half
    BY <2>1, <2>2, <2>4, InboundTypes DEF SettleCredit, half
  <2>6. InboundTotal' = InboundTotal
    <3>1. FramesBuffered' = Len(inbound') + held
      <4>1. IsEmpty(pending') <=> IsEmpty(rest)
        BY <2>1
      <4> QED BY <2>4, <4>1 DEF FramesBuffered
    <3>2. FramesBuffered' = FramesBuffered - 1 + held
      <4>1. CASE IsEmpty(pending)
        BY <2>3, <3>1, <4>1, InboundTypes DEF FramesBuffered
      <4>2. CASE ~IsEmpty(pending)
        BY <2>3, <3>1, <4>2, InboundTypes DEF FramesBuffered
      <4> QED BY <4>1, <4>2
    <3>3. InboundTotal = hostWindow + Len(dataIn) + FramesBuffered + consumed + creditOut
      BY <2>2, InboundTypes DEF InboundTotal
    <3>4. InboundTotal' = hostWindow + Len(dataIn) + FramesBuffered' + consumed' + grant'
                            + creditOut
      BY <2>1 DEF InboundTotal
    <3>5. CASE held = 1 /\ consumed' = consumed /\ grant' = 0
      BY <3>2, <3>3, <3>4, <3>5, InboundTypes
    <3>6. CASE held = 0 /\ consumed' = consumed + 1 /\ grant' = 0
      BY <3>2, <3>3, <3>4, <3>6, InboundTypes
    <3>7. CASE held = 0 /\ consumed' = 0 /\ grant' = consumed + 1
      BY <3>2, <3>3, <3>4, <3>7, InboundTypes
    <3> QED BY <2>5, <3>5, <3>6, <3>7
  <2>7. InboundWindow'
    BY <2>1, <2>6 DEF InboundInv, InboundWindow, closed
  <2>8. GrantHeld' /\ ParkedDrained' /\ BatchBelowHalf'
    BY <2>5 DEF InboundInv, GrantHeld, ParkedDrained, BatchBelowHalf, half
  <2> QED BY <2>7, <2>8 DEF InboundInv
<1>4. CASE ReadGrant
  <2>1. /\ creditOut' = IF up THEN creditOut + grant ELSE creditOut
        /\ grant' = 0 /\ reader' = "idle"
        /\ UNCHANGED <<inbound, pending, consumed, closeErr, up, hostWindow, dataIn>>
    BY <1>4 DEF ReadGrant, fields
  <2>2. FramesBuffered' = FramesBuffered
    BY <2>1 DEF FramesBuffered
  <2>3. /\ InboundTotal' \in Nat /\ InboundTotal' <= InboundTotal
        /\ up => InboundTotal' = InboundTotal
    BY <2>1, <2>2, InboundTypes DEF InboundTotal
  <2> QED
    BY <2>1, <2>3, InboundTypes, WindowAssumption
       DEF InboundInv, InboundWindow, GrantHeld, ParkedDrained, BatchBelowHalf, closed
<1> QED BY <1>1, <1>2, <1>3, <1>4 DEF Read

LEMMA InboundStep ==
  ASSUME TypeInv, InboundInv, [Next]_vars
  PROVE  InboundInv'
<1> USE DEF fields, threads
<1>1. CASE Deliver
  <2>1. /\ Len(dataIn') = Len(dataIn) - 1
        /\ UNCHANGED <<pending, consumed, reader, grant, closeErr, up, hostWindow, creditOut>>
    BY <1>1, HeadTailProperties DEF Deliver, TypeInv, TypeOK, WiresOK
  <2>2. CASE closed
    <3>1. FramesBuffered' = FramesBuffered
      BY <1>1, <2>1, <2>2 DEF Deliver, FramesBuffered
    <3>2. InboundTotal' = InboundTotal - 1
      BY <2>1, <3>1, InboundTypes DEF InboundTotal
    <3> QED
      BY <2>1, <2>2, <3>2, InboundTypes, WindowAssumption
         DEF InboundInv, InboundWindow, GrantHeld, ParkedDrained, BatchBelowHalf, closed
  <2>3. CASE ~closed
    <3>1. Len(inbound') = Len(inbound) + 1
      <4>1. inbound' = Append(inbound, Head(dataIn)) /\ Head(dataIn) \in Frame
        BY <1>1, <2>3, HeadTailProperties DEF Deliver, TypeInv, TypeOK, WiresOK
      <4> QED BY <4>1, AppendProperties DEF TypeInv, TypeOK, FieldsOK
    <3>2. FramesBuffered' = FramesBuffered + 1
      BY <2>1, <3>1, InboundTypes DEF FramesBuffered
    <3>3. InboundTotal' = InboundTotal
      BY <2>1, <3>2, InboundTypes DEF InboundTotal
    <3> QED
      BY <2>1, <3>3 DEF InboundInv, InboundWindow, GrantHeld, ParkedDrained, BatchBelowHalf,
                        closed
  <2> QED BY <2>2, <2>3
<1>2. CASE AddCredit \/ DispatchClose
  BY <1>2, InboundKept DEF AddCredit, DispatchClose, closed
<1>3. CASE FrameBroadcast \/ RemoteBroadcast
  BY <1>3, InboundKept DEF FrameBroadcast, RemoteBroadcast, Broadcast, closed
<1>4. CASE CloseRemote
  BY <1>4, InboundKept DEF CloseRemote, closed
<1>5. ASSUME NEW w \in Writers, Write(w) PROVE InboundInv'
  BY <1>5, InboundKept
     DEF Write, WriteCall, WriteWait, WriteFail, WriteSpend, WriteSend, closed
<1>6. ASSUME NEW c \in Closers, CloseSteps(c) PROVE InboundInv'
  BY <1>6, InboundKept DEF CloseSteps, Close, CloseBroadcast, CloseNotify, Broadcast, closed
<1>7. CASE HostSend
  <2>1. PICK n \in FrameSizes : dataIn' = Append(dataIn, [lo |-> sent, hi |-> sent + n])
    BY <1>7 DEF HostSend
  <2>2. Len(dataIn') = Len(dataIn) + 1
    BY <2>1 DEF TypeInv, TypeOK, WiresOK
  <2>3. hostWindow' = hostWindow - 1 /\ UNCHANGED <<fields, threads, creditOut, up>>
    BY <1>7 DEF HostSend
  <2>4. FramesBuffered' = FramesBuffered
    BY <2>3 DEF FramesBuffered
  <2>5. InboundTotal' = InboundTotal
    BY <2>2, <2>3, <2>4, InboundTypes DEF InboundTotal
  <2> QED
    BY <2>3, <2>5 DEF InboundInv, InboundWindow, GrantHeld, ParkedDrained, BatchBelowHalf, closed
<1>8. CASE HostCredited
  <2>1. /\ creditOut' = 0 /\ hostWindow' = hostWindow + creditOut
        /\ UNCHANGED <<fields, threads, dataIn, up>>
    BY <1>8 DEF HostCredited
  <2>2. FramesBuffered' = FramesBuffered
    BY <2>1 DEF FramesBuffered
  <2>3. InboundTotal' = InboundTotal
    BY <2>1, <2>2, InboundTypes DEF InboundTotal
  <2> QED
    BY <2>1, <2>3 DEF InboundInv, InboundWindow, GrantHeld, ParkedDrained, BatchBelowHalf, closed
<1>9. CASE HostTake \/ HostReturn \/ Disconnect
  BY <1>9, InboundKept DEF HostTake, HostReturn, Disconnect, closed
<1>10. CASE HostClose
  BY <1>10 DEF HostClose, InboundInv, InboundWindow, InboundTotal, FramesBuffered, GrantHeld,
               ParkedDrained, BatchBelowHalf, closed
<1>11. CASE UNCHANGED vars
  BY <1>11, InboundKept DEF vars, closed
<1> QED
  BY <1>1, <1>2, <1>3, <1>4, <1>5, <1>6, <1>7, <1>8, <1>9, <1>10, <1>11, InboundReadStep
     DEF Next, FrameReader, RemoteCloser, Host

-----------------------------------------------------------------------------
(* Wakeups.                                                                *)

\* A Broadcast leaves nobody parked.
LEMMA BroadcastWakesAll ==
  ASSUME TypeInv, Broadcast
  PROVE  reader' # "asleep" /\ \A w \in Writers : writer'[w] # "asleep"
BY DEF Broadcast, TypeInv, TypeOK, ThreadsOK

\* A step that parks nobody, keeps every Broadcast due, and makes no loop test
\* true keeps the wakeups.
LEMMA WakeupKept ==
  ASSUME NoLostWakeup,
         UNCHANGED <<inbound, pending, closeErr>>,
         credit' > 0 => credit > 0,
         reader' = "asleep" => reader = "asleep",
         \A w \in Writers : writer'[w] = "asleep" => writer[w] = "asleep",
         BroadcastDue => BroadcastDue'
  PROVE  NoLostWakeup'
BY DEF NoLostWakeup, readable, closed

LEMMA WakeupStep ==
  ASSUME TypeInv, InboundInv, NoLostWakeup, [Next]_vars
  PROVE  NoLostWakeup'
<1> USE DEF fields, threads
<1>1. CASE Deliver
  <2>1. CASE closed
    BY <1>1, <2>1, WakeupKept DEF Deliver, BroadcastDue
  <2>2. CASE ~closed
    BY <1>1, <2>2 DEF Deliver, NoLostWakeup, BroadcastDue
  <2> QED BY <2>1, <2>2
<1>2. CASE AddCredit
  BY <1>2 DEF AddCredit, NoLostWakeup, BroadcastDue
<1>3. CASE FrameBroadcast \/ RemoteBroadcast \/ \E c \in Closers : CloseBroadcast(c)
  BY <1>3, BroadcastWakesAll DEF FrameBroadcast, RemoteBroadcast, CloseBroadcast, NoLostWakeup
<1>4. CASE DispatchClose
  BY <1>4, WakeupKept DEF DispatchClose, BroadcastDue
<1>5. CASE CloseRemote
  <2>1. CASE closed
    BY <1>5, <2>1, WakeupKept DEF CloseRemote, BroadcastDue
  <2>2. CASE ~closed
    BY <1>5, <2>2 DEF CloseRemote, NoLostWakeup, BroadcastDue
  <2> QED BY <2>1, <2>2
<1>6. CASE Read
  <2>1. CASE ReadCall \/ ReadEnd \/ ReadGrant
    BY <1>6, <2>1, WakeupKept DEF ReadCall, ReadEnd, ReadGrant, BroadcastDue
  <2>2. CASE ReadWait
    BY <2>2 DEF ReadWait, NoLostWakeup, BroadcastDue, readable, closed, IsEmpty
  <2>3. ASSUME NEW k \in BufferSizes, ReadTake(k) PROVE NoLostWakeup'
    <3>1. reader' # "asleep"
      BY <2>3 DEF ReadTake, SettleCredit
    <3> QED BY <2>3, <3>1 DEF ReadTake, NoLostWakeup, BroadcastDue, closed
  <2> QED BY <1>6, <2>1, <2>2, <2>3 DEF Read
<1>7. ASSUME NEW w \in Writers, Write(w) PROVE NoLostWakeup'
  <2> USE DEF TypeInv, TypeOK, ThreadsOK, FieldsOK
  <2>1. CASE WriteCall(w) \/ WriteFail(w) \/ WriteSend(w)
    BY <2>1, WakeupKept DEF WriteCall, WriteFail, WriteSend, BroadcastDue
  <2>2. CASE WriteWait(w)
    BY <2>2 DEF WriteWait, NoLostWakeup, BroadcastDue, readable, closed
  <2>3. CASE WriteSpend(w)
    BY <2>3, WakeupKept DEF WriteSpend, WindowOpen, BroadcastDue
  <2> QED BY <1>7, <2>1, <2>2, <2>3 DEF Write
<1>8. ASSUME NEW c \in Closers, Close(c) PROVE NoLostWakeup'
  <2>1. CASE closed
    <3>1. BroadcastDue => BroadcastDue'
      BY <1>8, <2>1 DEF Close, BroadcastDue, TypeInv, TypeOK, ThreadsOK
    <3> QED BY <1>8, <2>1, <3>1, WakeupKept DEF Close
  <2>2. CASE ~closed
    <3>1. BroadcastDue'
      BY <1>8, <2>2 DEF Close, BroadcastDue, TypeInv, TypeOK, ThreadsOK
    <3> QED BY <3>1 DEF NoLostWakeup
  <2> QED BY <2>1, <2>2
<1>9. ASSUME NEW c \in Closers, CloseNotify(c) PROVE NoLostWakeup'
  <2>1. BroadcastDue => BroadcastDue'
    BY <1>9 DEF CloseNotify, BroadcastDue, TypeInv, TypeOK, ThreadsOK
  <2> QED BY <1>9, <2>1, WakeupKept DEF CloseNotify
<1>10. CASE Host \/ Disconnect
  BY <1>10, WakeupKept
     DEF Host, HostSend, HostCredited, HostTake, HostReturn, HostClose, Disconnect, BroadcastDue
<1>11. CASE UNCHANGED vars
  BY <1>11, WakeupKept DEF vars, BroadcastDue
<1> QED
  BY <1>1, <1>2, <1>3, <1>4, <1>5, <1>6, <1>7, <1>8, <1>9, <1>10, <1>11
     DEF Next, FrameReader, RemoteCloser, CloseSteps

-----------------------------------------------------------------------------
(* The close notification.                                                 *)

LEMMA ClosingFinite == IsFiniteSet(Closing) /\ Cardinality(Closing) \in Nat
<1>1. IsFiniteSet(Closing)
  BY ThreadAssumption, FS_Subset DEF Closing
<1> QED BY <1>1, FS_CardinalityType

LEMMA CloseKept ==
  ASSUME CloseToldOnce, UNCHANGED <<closer, closeNotes, closeErr>>
  PROVE  CloseToldOnce'
BY DEF CloseToldOnce, Closing

LEMMA CloseStep ==
  ASSUME TypeInv, CloseToldOnce, [Next]_vars
  PROVE  CloseToldOnce'
<1> USE DEF fields, threads
<1>1. ASSUME NEW c \in Closers, Close(c) PROVE CloseToldOnce'
  <2> USE DEF TypeInv, TypeOK, ThreadsOK, WiresOK
  <2>1. CASE closed
    <3>1. Closing' = Closing
      BY <1>1, <2>1 DEF Close, Closing
    <3> QED BY <1>1, <2>1, <3>1 DEF Close, CloseToldOnce
  <2>2. CASE ~closed
    <3>1. Cardinality(Closing) = 0 /\ closeNotes = 0
      BY <2>2, ClosingFinite DEF CloseToldOnce, closed
    <3>2. Closing' = Closing \cup {c} /\ c \notin Closing
      BY <1>1, <2>2 DEF Close, Closing
    <3>3. Cardinality(Closing') = 1
      <4>1. Cardinality(Closing') = Cardinality(Closing) + 1
        BY <3>2, ClosingFinite, FS_AddElement
      <4> QED BY <3>1, <4>1
    <3> QED BY <1>1, <2>2, <3>1, <3>3 DEF Close, CloseToldOnce
  <2> QED BY <2>1, <2>2
<1>2. ASSUME NEW c \in Closers, CloseBroadcast(c) PROVE CloseToldOnce'
  <2>1. Closing' = Closing
    BY <1>2 DEF CloseBroadcast, Closing, TypeInv, TypeOK, ThreadsOK
  <2> QED BY <1>2, <2>1 DEF CloseBroadcast, CloseToldOnce
<1>3. ASSUME NEW c \in Closers, CloseNotify(c) PROVE CloseToldOnce'
  <2> USE DEF TypeInv, TypeOK, ThreadsOK, WiresOK
  <2>1. Closing' = Closing \ {c} /\ c \in Closing
    BY <1>3 DEF CloseNotify, Closing
  <2>2. Cardinality(Closing') = Cardinality(Closing) - 1
    BY <2>1, ClosingFinite, FS_RemoveElement
  <2>3. closeNotes' \in {closeNotes, closeNotes + 1} /\ UNCHANGED closeErr
    BY <1>3 DEF CloseNotify
  <2> QED BY <2>2, <2>3, ClosingFinite DEF CloseToldOnce
<1>4. CASE CloseRemote
  <2>1. CASE closed
    BY <1>4, <2>1, CloseKept DEF CloseRemote
  <2>2. CASE ~closed
    <3>1. closeErr # "done" /\ closeErr' # "done" /\ UNCHANGED <<closer, closeNotes>>
      BY <1>4, <2>2 DEF CloseRemote, closed
    <3> QED BY <3>1 DEF CloseToldOnce, Closing
  <2> QED BY <2>1, <2>2
<1>5. CASE FrameReader \/ RemoteBroadcast \/ Read
  BY <1>5, CloseKept
     DEF FrameReader, Deliver, AddCredit, FrameBroadcast, DispatchClose, RemoteBroadcast,
         Read, ReadCall, ReadWait, ReadEnd, ReadTake, ReadGrant
<1>6. ASSUME NEW w \in Writers, Write(w) PROVE CloseToldOnce'
  BY <1>6, CloseKept DEF Write, WriteCall, WriteWait, WriteFail, WriteSpend, WriteSend
<1>7. CASE Host \/ Disconnect
  BY <1>7, CloseKept
     DEF Host, HostSend, HostCredited, HostTake, HostReturn, HostClose, Disconnect
<1>8. CASE UNCHANGED vars
  BY <1>8, CloseKept DEF vars
<1> QED
  BY <1>1, <1>2, <1>3, <1>4, <1>5, <1>6, <1>7, <1>8
     DEF Next, RemoteCloser, CloseSteps

-----------------------------------------------------------------------------
(* The inductive invariant, and what follows from it.                      *)

ChannelInv == TypeInv /\ OutboundWindow /\ InboundInv /\ NoLostWakeup /\ CloseToldOnce

LEMMA ChannelInvInit == Init => ChannelInv
<1> SUFFICES ASSUME Init PROVE ChannelInv
  OBVIOUS
<1>1. NoLostWakeup
  BY DEF Init, NoLostWakeup
<1>2. CloseToldOnce
  <2>1. Closing = {}
    BY DEF Init, Closing
  <2> QED BY <2>1, FS_EmptySet DEF Init, CloseToldOnce
<1> QED BY <1>1, <1>2, TypeInit, OutboundInit, InboundInit DEF ChannelInv

LEMMA ChannelInvStep == ChannelInv /\ [Next]_vars => ChannelInv'
BY TypeStep, OutboundStep, InboundStep, WakeupStep, CloseStep DEF ChannelInv

LEMMA ChannelInvariant == Spec => []ChannelInv
BY ChannelInvInit, ChannelInvStep, PTL DEF Spec

\* However slow its reader, the plugin never holds, and never invites, more
\* frames than the window; no grant is lost or made twice (Read, Deliver).
THEOREM InboundConserved == Spec => []InboundWindow
<1>1. ChannelInv => InboundWindow
  BY DEF ChannelInv, InboundInv
<1> QED BY <1>1, ChannelInvariant, PTL

\* Returning credit by half windows cannot leave both sides waiting: fewer
\* than half a window of frames is ever withheld.
THEOREM NeverStalls == Spec => []WindowReopens
<1>1. ChannelInv => WindowReopens
  <2> SUFFICES ASSUME ChannelInv, reader = "asleep", up, ~closed, dataIn = <<>>,
                      inbound = <<>>, creditOut = 0
               PROVE  hostWindow > 0
    BY DEF WindowReopens
  <2>1. FramesBuffered = 0 /\ grant = 0
    BY DEF ChannelInv, InboundInv, ParkedDrained, GrantHeld, FramesBuffered
  <2>2. hostWindow + consumed = InitialCredit
    <3>1. InboundTotal = InitialCredit
      BY DEF ChannelInv, InboundInv, InboundWindow
    <3> QED BY <2>1, <3>1, InboundTypes DEF ChannelInv, InboundTotal
  <2>3. consumed < InitialCredit
    <3>1. InitialCredit \in Nat /\ InitialCredit > 0 /\ InitialCredit \div 2 <= InitialCredit
      BY WindowAssumption
    <3>2. consumed = 0 \/ consumed < InitialCredit \div 2
      BY DEF ChannelInv, InboundInv, BatchBelowHalf
    <3>3. consumed \in Nat /\ InitialCredit \div 2 \in Int
      BY <3>1, InboundTypes DEF ChannelInv
    <3> QED BY <3>1, <3>2, <3>3
  <2> QED BY <2>2, <2>3, InboundTypes, WindowAssumption DEF ChannelInv
<1> QED BY <1>1, ChannelInvariant, PTL

\* One condition variable for readers and writers, signalled after the
\* unlock, loses no wakeup, whatever the interleaving.
THEOREM WakeupsKept == Spec => []NoLostWakeup
<1>1. ChannelInv => NoLostWakeup
  BY DEF ChannelInv
<1> QED BY <1>1, ChannelInvariant, PTL

\* Any number of closers racing the host's close tell the host at most once.
THEOREM ClosedOnce == Spec => []CloseToldOnce
<1>1. ChannelInv => CloseToldOnce
  BY DEF ChannelInv
<1> QED BY <1>1, ChannelInvariant, PTL

-----------------------------------------------------------------------------
(* The stream. Channel implements ByteStream, for any traffic, any buffers *)
(* and any interleaving of closes, reads and breaks of the pipe: what Read *)
(* returns is the stream of the host in order and without a gap, and its   *)
(* end is told when everything was delivered or this side cut it short.    *)

\* Nothing lies beyond what the host sent.
WithinSent ==
  /\ pending.hi <= sent
  /\ \A i \in DOMAIN inbound : inbound[i].hi <= sent
  /\ \A i \in DOMAIN dataIn : dataIn[i].hi <= sent

\* The host's close is handled behind its last frame.
RemoteIsLast ==
  remotePC # "none" \/ closeErr = "remote" => hostClosed /\ dataIn = <<>>

\* The reader that was told of the end has everything it will ever get.
EndIsLast == failed => closed /\ ~readable

StreamInv == InOrder /\ WithinSent /\ RemoteIsLast /\ EndIsLast

-----------------------------------------------------------------------------
(* Contiguous sequences of frames.                                         *)

LEMMA ContiguousAppend ==
  ASSUME NEW q \in Seq(Frame), NEW x \in Frame, NEW from, Contiguous(from, q),
         x.lo = EndOf(from, q)
  PROVE  Contiguous(from, Append(q, x)) /\ EndOf(from, Append(q, x)) = x.hi
<1> DEFINE r == Append(q, x)
<1>1. /\ Len(q) \in Nat /\ DOMAIN q = 1..Len(q)
      /\ r \in Seq(Frame) /\ r # <<>> /\ Len(r) = Len(q) + 1 /\ DOMAIN r = 1..Len(r)
      /\ \A i \in 1..Len(q) : r[i] = q[i]
      /\ r[Len(q) + 1] = x
  BY AppendProperties, LenProperties
<1>2. q = <<>> <=> Len(q) = 0
  BY <1>1, EmptySeq
<1> HIDE DEF r
<1>3. EndOf(from, r) = x.hi
  BY <1>1 DEF EndOf
<1>4. Contiguous(from, r)
  <2> SUFFICES ASSUME NEW i \in DOMAIN r
               PROVE  r[i].lo = IF i = 1 THEN from ELSE r[i - 1].hi
    BY DEF Contiguous
  <2>1. CASE i \in 1..Len(q)
    BY <1>1, <2>1 DEF Contiguous
  <2>2. CASE i = Len(q) + 1
    BY <1>1, <1>2, <2>2 DEF EndOf
  <2> QED BY <1>1, <2>1, <2>2
<1> QED BY <1>3, <1>4 DEF r

LEMMA ContiguousTail ==
  ASSUME NEW q \in Seq(Frame), q # <<>>, NEW from, Contiguous(from, q)
  PROVE  /\ Head(q) \in Frame /\ Head(q).lo = from
         /\ Contiguous(Head(q).hi, Tail(q)) /\ EndOf(Head(q).hi, Tail(q)) = EndOf(from, q)
<1> DEFINE r == Tail(q)
<1>1. /\ Len(q) \in Nat \ {0} /\ DOMAIN q = 1..Len(q) /\ Head(q) = q[1]
      /\ r \in Seq(Frame) /\ Len(r) = Len(q) - 1 /\ DOMAIN r = 1..Len(r)
      /\ \A i \in 1..Len(r) : r[i] = q[i + 1]
      /\ Head(q) \in Frame
  BY HeadTailProperties, LenProperties, EmptySeq
<1>2. r = <<>> <=> Len(r) = 0
  BY <1>1, EmptySeq
<1> HIDE DEF r
<1>3. Head(q).lo = from
  BY <1>1 DEF Contiguous
<1>4. EndOf(Head(q).hi, r) = EndOf(from, q)
  BY <1>1, <1>2 DEF EndOf
<1>5. Contiguous(Head(q).hi, r)
  <2> SUFFICES ASSUME NEW i \in DOMAIN r
               PROVE  r[i].lo = IF i = 1 THEN Head(q).hi ELSE r[i - 1].hi
    BY DEF Contiguous
  <2>1. r[i] = q[i + 1] /\ i + 1 \in DOMAIN q /\ i + 1 # 1 /\ i \in Nat
    BY <1>1
  <2>2. r[i].lo = q[i].hi
    BY <1>1, <2>1 DEF Contiguous
  <2>3. CASE i = 1
    BY <1>1, <2>2, <2>3
  <2>4. CASE i # 1
    BY <1>1, <2>1, <2>2, <2>4
  <2> QED BY <2>3, <2>4
<1> QED BY <1>1, <1>3, <1>4, <1>5 DEF r

-----------------------------------------------------------------------------
(* The invariant.                                                          *)

LEMMA StreamInit == Init => StreamInv
<1> SUFFICES ASSUME Init PROVE StreamInv
  OBVIOUS
<1>1. DOMAIN inbound = {} /\ DOMAIN dataIn = {}
  BY DEF Init
<1> QED BY <1>1 DEF Init, StreamInv, InOrder, WithinSent, RemoteIsLast, EndIsLast,
                   Contiguous, EndOf, NoFrame, readable, IsEmpty, closed

\* A step that moves no byte, closes nothing and tells of no end.
LEMMA StreamKept ==
  ASSUME StreamInv,
         UNCHANGED <<inbound, pending, dataIn, sent, got, closeErr, failed>>,
         hostClosed => hostClosed', remotePC' # "none" => remotePC # "none"
  PROVE  StreamInv'
BY DEF StreamInv, InOrder, WithinSent, RemoteIsLast, EndIsLast, Contiguous, EndOf, readable,
       IsEmpty, closed

LEMMA DeliverStream == ASSUME TypeInv, StreamInv, Deliver PROVE StreamInv'
<1>1. /\ inbound \in Seq(Frame) /\ dataIn \in Seq(Frame) /\ pending \in Frame
      /\ dataIn # <<>> /\ dataIn' = Tail(dataIn)
      /\ UNCHANGED <<pending, closeErr, sent, got, failed, hostClosed, remotePC>>
  BY DEF Deliver, TypeInv, TypeOK, FieldsOK, WiresOK, inWire, outWire, stream
<1>2. closeErr # "remote" /\ remotePC = "none"
  BY <1>1 DEF StreamInv, RemoteIsLast
<1>3. /\ Head(dataIn) \in Frame /\ Head(dataIn) = dataIn[1] /\ 1 \in DOMAIN dataIn
      /\ \A i \in DOMAIN Tail(dataIn) : i + 1 \in DOMAIN dataIn /\ Tail(dataIn)[i] = dataIn[i + 1]
  BY <1>1, HeadTailProperties, LenProperties, EmptySeq
<1>4. CASE closed
  <2>1. closeErr' = "done" /\ inbound' = inbound
    BY <1>1, <1>2, <1>4 DEF Deliver, closed, TypeInv, TypeOK, FieldsOK
  <2>2. InOrder'
    BY <1>1, <2>1 DEF StreamInv, InOrder, Contiguous, EndOf
  <2>3. WithinSent'
    BY <1>1, <1>3, <2>1 DEF StreamInv, WithinSent
  <2> QED BY <1>1, <1>2, <2>1, <2>2, <2>3
             DEF StreamInv, RemoteIsLast, EndIsLast, closed, readable, IsEmpty
<1>5. CASE ~closed
  <2> DEFINE delivered == EndOf(pending.hi, inbound)
  <2>1. inbound' = Append(inbound, Head(dataIn)) /\ closeErr = "nil"
    BY <1>5 DEF Deliver, closed
  <2>2. /\ Contiguous(pending.hi, inbound) /\ Contiguous(delivered, dataIn)
        /\ EndOf(delivered, dataIn) = sent /\ pending.lo = got
    BY <2>1 DEF StreamInv, InOrder
  <2> HIDE DEF delivered
  <2>3. /\ Head(dataIn).lo = delivered /\ Contiguous(Head(dataIn).hi, Tail(dataIn))
        /\ EndOf(Head(dataIn).hi, Tail(dataIn)) = sent
    BY <1>1, <2>2, ContiguousTail
  <2>4. /\ Contiguous(pending.hi, Append(inbound, Head(dataIn)))
        /\ EndOf(pending.hi, Append(inbound, Head(dataIn))) = Head(dataIn).hi
    BY <1>1, <1>3, <2>2, <2>3, ContiguousAppend DEF delivered
  <2>5. InOrder'
    <3>1. /\ Contiguous(pending'.hi, inbound') /\ EndOf(pending'.hi, inbound') = Head(dataIn).hi
          /\ dataIn' = Tail(dataIn) /\ sent' = sent /\ pending'.lo = got'
      BY <1>1, <2>1, <2>2, <2>4
    <3>2. Contiguous(EndOf(pending'.hi, inbound'), dataIn') /\ EndOf(EndOf(pending'.hi, inbound'), dataIn') = sent'
      BY <2>3, <3>1
    <3> QED BY <3>1, <3>2 DEF InOrder, Contiguous, EndOf
  <2>6. WithinSent'
    <3>1. \A i \in DOMAIN inbound' :
             (i \in DOMAIN inbound /\ inbound'[i] = inbound[i]) \/ inbound'[i] = Head(dataIn)
      BY <1>1, <1>3, <2>1, AppendProperties, LenProperties
    <3> QED BY <1>1, <1>3, <3>1 DEF StreamInv, WithinSent
  <2>7. ~failed
    BY <1>5 DEF StreamInv, EndIsLast
  <2> QED BY <1>1, <1>2, <2>1, <2>5, <2>6, <2>7 DEF StreamInv, RemoteIsLast, EndIsLast
<1> QED BY <1>4, <1>5

LEMMA ReadTakeStream ==
  ASSUME TypeInv, StreamInv, NEW k \in BufferSizes, ReadTake(k)
  PROVE  /\ StreamInv' /\ ~failed /\ got' <= sent /\ got <= got' /\ got' \in Nat
         /\ UNCHANGED <<sent, hostClosed, closeErr, up, failed>>
<1> DEFINE size == NextFrame.hi - NextFrame.lo
           n == IF size < k THEN size ELSE k
           rest == [NextFrame EXCEPT !.lo = @ + n]
<1>1. /\ inbound \in Seq(Frame) /\ dataIn \in Seq(Frame) /\ pending \in Frame /\ got \in Nat
      /\ sent \in Nat
  BY DEF TypeInv, TypeOK, FieldsOK, WiresOK
<1>2. /\ readable /\ pending' = rest /\ got' = got + n
      /\ inbound' = IF IsEmpty(pending) THEN Tail(inbound) ELSE inbound
      /\ UNCHANGED <<closeErr, sent, dataIn, failed, hostClosed, remotePC, up>>
  BY DEF ReadTake, inWire
<1>3. Contiguous(pending.hi, inbound) /\ pending.lo = got
  BY DEF StreamInv, InOrder
<1>4. IsEmpty(pending) =>
        /\ inbound # <<>> /\ Head(inbound) \in Frame /\ Head(inbound).lo = pending.hi
        /\ Contiguous(Head(inbound).hi, Tail(inbound))
        /\ EndOf(Head(inbound).hi, Tail(inbound)) = EndOf(pending.hi, inbound)
        /\ 1 \in DOMAIN inbound /\ Head(inbound) = inbound[1]
        /\ \A i \in DOMAIN Tail(inbound) :
              i + 1 \in DOMAIN inbound /\ Tail(inbound)[i] = inbound[i + 1]
  <2> SUFFICES ASSUME IsEmpty(pending), inbound # <<>>
               PROVE  /\ Head(inbound) \in Frame /\ Head(inbound).lo = pending.hi
                      /\ Contiguous(Head(inbound).hi, Tail(inbound))
                      /\ EndOf(Head(inbound).hi, Tail(inbound)) = EndOf(pending.hi, inbound)
                      /\ 1 \in DOMAIN inbound /\ Head(inbound) = inbound[1]
                      /\ \A i \in DOMAIN Tail(inbound) :
                            i + 1 \in DOMAIN inbound /\ Tail(inbound)[i] = inbound[i + 1]
    BY <1>2 DEF readable
  <2>1. /\ 1 \in DOMAIN inbound /\ Head(inbound) = inbound[1]
        /\ \A i \in DOMAIN Tail(inbound) :
              i + 1 \in DOMAIN inbound /\ Tail(inbound)[i] = inbound[i + 1]
    BY <1>1, HeadTailProperties, LenProperties, EmptySeq
  <2> QED BY <1>1, <1>3, <2>1, ContiguousTail
<1>5. NextFrame \in Frame /\ NextFrame.lo = got /\ NextFrame.hi <= sent
  BY <1>1, <1>3, <1>4 DEF NextFrame, IsEmpty, StreamInv, WithinSent
<1>6. k \in Nat
  BY BoundAssumption
<1>7. n \in Nat /\ rest \in Frame /\ rest.lo = NextFrame.lo + n /\ rest.hi = NextFrame.hi
  BY <1>5, <1>6, RestIsFrame
<1> HIDE DEF rest, n
<1>8. got' = rest.lo /\ got' \in Nat /\ got <= got' /\ got' <= sent
  BY <1>1, <1>2, <1>5, <1>7 DEF Frame
<1>9. Contiguous(rest.hi, inbound') /\ EndOf(rest.hi, inbound') = EndOf(pending.hi, inbound)
  BY <1>2, <1>3, <1>4, <1>7 DEF NextFrame
<1>10. InOrder'
  <2>1. /\ Contiguous(pending'.hi, inbound') /\ EndOf(pending'.hi, inbound') = EndOf(pending.hi, inbound)
        /\ pending'.lo = got'
    BY <1>2, <1>8, <1>9
  <2> QED BY <1>2, <2>1 DEF StreamInv, InOrder, Contiguous, EndOf
<1>11. WithinSent'
  <2>1. pending'.hi <= sent'
    BY <1>2, <1>5, <1>7
  <2>2. \A i \in DOMAIN inbound' : inbound'[i].hi <= sent'
    BY <1>2, <1>4 DEF StreamInv, WithinSent
  <2> QED BY <1>2, <2>1, <2>2 DEF StreamInv, WithinSent
<1>12. ~failed
  BY <1>2 DEF StreamInv, EndIsLast
<1> QED BY <1>2, <1>8, <1>10, <1>11, <1>12 DEF StreamInv, RemoteIsLast, EndIsLast

LEMMA HostSendStream ==
  ASSUME TypeInv, StreamInv, HostSend
  PROVE  /\ StreamInv' /\ sent' \in Nat /\ sent' >= sent /\ ~hostClosed
         /\ UNCHANGED <<got, failed, hostClosed, closeErr, up>>
<1>1. /\ dataIn \in Seq(Frame) /\ sent \in Nat /\ pending \in Frame /\ inbound \in Seq(Frame)
      /\ ~hostClosed
      /\ UNCHANGED <<inbound, pending, closeErr, got, failed, hostClosed, remotePC, up>>
  BY DEF HostSend, TypeInv, TypeOK, FieldsOK, WiresOK, fields, threads, stream
<1>2. PICK n \in FrameSizes : /\ dataIn' = Append(dataIn, [lo |-> sent, hi |-> sent + n])
                              /\ sent' = sent + n
  BY DEF HostSend
<1> DEFINE x == [lo |-> sent, hi |-> sent + n]
<1>3. n \in Nat /\ sent' \in Nat /\ sent' >= sent
  BY <1>1, <1>2, BoundAssumption
<1>4. x \in Frame /\ x.lo = sent /\ x.hi = sent'
  BY <1>1, <1>2, <1>3 DEF Frame
<1>5. dataIn' = Append(dataIn, x)
  BY <1>2
<1> HIDE DEF x
<1>6. remotePC = "none" /\ closeErr # "remote"
  BY <1>1 DEF StreamInv, RemoteIsLast
<1> DEFINE delivered == EndOf(pending.hi, inbound)
<1>8. InOrder'
  <2>1. /\ pending.lo = got /\ Contiguous(pending.hi, inbound)
        /\ closeErr # "done" => Contiguous(delivered, Append(dataIn, x))
                               /\ EndOf(delivered, Append(dataIn, x)) = sent'
    <3>1. pending.lo = got /\ Contiguous(pending.hi, inbound)
      BY DEF StreamInv, InOrder
    <3>2. CASE closeErr # "done"
      <4>1. Contiguous(delivered, dataIn) /\ EndOf(delivered, dataIn) = sent
        BY <3>2 DEF StreamInv, InOrder
      <4> HIDE DEF delivered
      <4>2. Contiguous(delivered, Append(dataIn, x)) /\ EndOf(delivered, Append(dataIn, x)) = sent'
        BY <1>1, <1>4, <4>1, ContiguousAppend
      <4> QED BY <3>1, <4>2
    <3> QED BY <3>1, <3>2
  <2> QED BY <1>1, <1>5, <2>1 DEF InOrder, Contiguous, EndOf
<1>9. WithinSent'
  <2>1. \A i \in DOMAIN dataIn' :
           (i \in DOMAIN dataIn /\ dataIn'[i] = dataIn[i]) \/ dataIn'[i] = x
    BY <1>1, <1>4, <1>5, AppendProperties, LenProperties
  <2>2. \A i \in DOMAIN inbound : inbound[i].hi \in Nat
    BY <1>1, LenProperties, ElementOfSeq DEF Frame
  <2>3. \A i \in DOMAIN dataIn : dataIn[i].hi \in Nat
    BY <1>1, LenProperties, ElementOfSeq DEF Frame
  <2>4. pending'.hi <= sent'
    BY <1>1, <1>3 DEF StreamInv, WithinSent, Frame
  <2>5. \A i \in DOMAIN inbound' : inbound'[i].hi <= sent'
    BY <1>1, <1>3, <2>2 DEF StreamInv, WithinSent
  <2>6. \A i \in DOMAIN dataIn' : dataIn'[i].hi <= sent'
    BY <1>1, <1>3, <1>4, <2>1, <2>3 DEF StreamInv, WithinSent
  <2> QED BY <2>4, <2>5, <2>6 DEF WithinSent
<1> QED BY <1>1, <1>3, <1>6, <1>8, <1>9
           DEF StreamInv, RemoteIsLast, EndIsLast, readable, IsEmpty, closed

\* What the reader is told of, and when.
LEMMA ReadEndStream ==
  ASSUME TypeInv, StreamInv, ReadEnd
  PROVE  /\ StreamInv' /\ (closeErr = "done" \/ (hostClosed /\ got = sent))
         /\ failed' = TRUE /\ UNCHANGED <<sent, got, hostClosed, closeErr, up>>
<1>1. /\ ~readable /\ closed /\ failed' = TRUE
      /\ UNCHANGED <<inbound, pending, dataIn, sent, got, closeErr, hostClosed, remotePC, up>>
  BY DEF ReadEnd, fields, inWire
<1>2. StreamInv'
  BY <1>1 DEF StreamInv, InOrder, WithinSent, RemoteIsLast, EndIsLast, Contiguous, EndOf,
              readable, IsEmpty, closed
<1>3. closeErr = "remote" => hostClosed /\ got = sent
  BY <1>1 DEF StreamInv, InOrder, RemoteIsLast, readable, IsEmpty, EndOf
<1> QED BY <1>1, <1>2, <1>3 DEF closed, TypeInv, TypeOK, FieldsOK

LEMMA CloseStream ==
  ASSUME TypeInv, StreamInv, NEW c \in Closers, Close(c)
  PROVE  /\ StreamInv' /\ (closeErr' = closeErr \/ closeErr' = "done")
         /\ UNCHANGED <<sent, got, failed, hostClosed, up>>
<1>1. /\ closeErr' = closeErr \/ (closeErr' = "done" /\ closeErr = "nil")
      /\ UNCHANGED <<inbound, pending, dataIn, sent, got, failed, hostClosed, remotePC, up>>
  BY DEF Close, inWire, stream, closed
<1> QED BY <1>1 DEF StreamInv, InOrder, WithinSent, RemoteIsLast, EndIsLast, Contiguous, EndOf,
                    readable, IsEmpty, closed

LEMMA RemoteStream ==
  ASSUME TypeInv, StreamInv, CloseRemote \/ DispatchClose
  PROVE  /\ StreamInv' /\ (closeErr' = "done" <=> closeErr = "done")
         /\ UNCHANGED <<sent, got, failed, hostClosed, up>>
<1>1. CASE CloseRemote
  <2>1. /\ remotePC = "spawned"
        /\ closeErr' = closeErr \/ (closeErr' = "remote" /\ closeErr = "nil")
        /\ UNCHANGED <<inbound, pending, dataIn, sent, got, failed, hostClosed, up>>
    BY <1>1 DEF CloseRemote, inWire, stream, closed
  <2> QED BY <2>1 DEF StreamInv, InOrder, WithinSent, RemoteIsLast, EndIsLast, Contiguous, EndOf,
                      readable, IsEmpty, closed
<1>2. CASE DispatchClose
  <2>1. /\ hostClosed /\ dataIn = <<>>
        /\ UNCHANGED <<inbound, pending, dataIn, sent, got, failed, hostClosed, closeErr, up>>
    BY <1>2 DEF DispatchClose, fields, inWire, stream
  <2> QED BY <2>1 DEF StreamInv, InOrder, WithinSent, RemoteIsLast, EndIsLast, Contiguous, EndOf,
                      readable, IsEmpty, closed
<1> QED BY <1>1, <1>2

\* The steps that the stream does not see.
LEMMA SilentStream ==
  ASSUME StreamInv,
         \/ AddCredit \/ FrameBroadcast \/ RemoteBroadcast \/ ReadCall \/ ReadWait \/ ReadGrant
         \/ \E w \in Writers : Write(w)
         \/ \E c \in Closers : CloseBroadcast(c) \/ CloseNotify(c)
         \/ HostCredited \/ HostTake \/ HostReturn \/ UNCHANGED vars
  PROVE  /\ StreamInv' /\ UNCHANGED <<sent, hostClosed, closeErr, up, got, failed>>
<1>1. /\ UNCHANGED <<inbound, pending, dataIn, sent, got, closeErr, failed, hostClosed, up>>
      /\ remotePC' # "none" => remotePC # "none"
  BY DEF AddCredit, FrameBroadcast, RemoteBroadcast, ReadCall, ReadWait, ReadGrant,
         Write, WriteCall, WriteWait, WriteFail, WriteSpend, WriteSend, CloseBroadcast,
         CloseNotify, HostCredited, HostTake, HostReturn, fields, threads, inWire, outWire,
         stream, vars
<1> QED BY <1>1, StreamKept

LEMMA DeliverUnseen ==
  ASSUME Deliver PROVE UNCHANGED <<sent, hostClosed, closeErr, up, got, failed>>
BY DEF Deliver, stream

LEMMA HostCloseStream ==
  ASSUME StreamInv, HostClose
  PROVE  /\ StreamInv' /\ hostClosed' = TRUE /\ UNCHANGED <<sent, closeErr, up, got, failed>>
BY StreamKept DEF HostClose, fields, threads, stream

LEMMA DisconnectStream ==
  ASSUME StreamInv, Disconnect
  PROVE  /\ StreamInv' /\ up' = FALSE /\ UNCHANGED <<sent, hostClosed, closeErr, got, failed>>
BY StreamKept DEF Disconnect, fields, threads, inWire, stream

-----------------------------------------------------------------------------
(* Each step is a step of ByteStream, or none.                             *)

LEMMA StreamStep ==
  ASSUME TypeInv, StreamInv, [Next]_vars
  PROVE  StreamInv' /\ [Stream!Next]_(Stream!vars)
<1> USE DEF Stream!vars
<1>1. CASE Deliver
  BY <1>1, DeliverStream, DeliverUnseen
<1>2. ASSUME NEW k \in BufferSizes, ReadTake(k) PROVE StreamInv' /\ [Stream!Next]_(Stream!vars)
  <2>1. /\ StreamInv' /\ ~failed /\ got' <= sent /\ got <= got' /\ got' \in Nat
        /\ UNCHANGED <<sent, hostClosed, closeErr, up, failed>>
    BY <1>2, ReadTakeStream
  <2>2. got \in Nat /\ sent \in Nat
    BY DEF TypeInv, TypeOK, WiresOK
  <2>3. got' = got \/ got' \in (got + 1)..sent
    BY <2>1, <2>2
  <2> QED BY <2>1, <2>3 DEF Stream!Next, Stream!Receive
<1>3. CASE HostSend
  <2>1. /\ StreamInv' /\ sent' \in Nat /\ sent' >= sent /\ ~hostClosed
        /\ UNCHANGED <<got, failed, hostClosed, closeErr, up>>
    BY <1>3, HostSendStream
  <2>2. sent' = sent \/ sent' > sent
    BY <2>1 DEF TypeInv, TypeOK, WiresOK
  <2> QED BY <2>1, <2>2 DEF Stream!Next, Stream!Send
<1>4. CASE ReadEnd
  <2>1. /\ StreamInv' /\ (closeErr = "done" \/ (hostClosed /\ got = sent))
        /\ failed' = TRUE /\ UNCHANGED <<sent, got, hostClosed, closeErr, up>>
    BY <1>4, ReadEndStream
  <2>2. Stream!Fail
    BY <2>1 DEF Stream!Fail
  <2> QED BY <2>1, <2>2 DEF Stream!Next
<1>5. ASSUME NEW c \in Closers, Close(c) PROVE StreamInv' /\ [Stream!Next]_(Stream!vars)
  BY <1>5, CloseStream DEF Stream!Next, Stream!Cut
<1>6. CASE CloseRemote \/ DispatchClose
  BY <1>6, RemoteStream
<1>7. CASE HostClose
  BY <1>7, HostCloseStream DEF Stream!Next, Stream!Finish
<1>8. CASE Disconnect
  BY <1>8, DisconnectStream DEF Stream!Next, Stream!Cut
<1>9. CASE \/ AddCredit \/ FrameBroadcast \/ RemoteBroadcast \/ ReadCall \/ ReadWait \/ ReadGrant
           \/ \E w \in Writers : Write(w)
           \/ \E c \in Closers : CloseBroadcast(c) \/ CloseNotify(c)
           \/ HostCredited \/ HostTake \/ HostReturn \/ UNCHANGED vars
  BY <1>9, SilentStream
<1> QED BY <1>1, <1>2, <1>3, <1>4, <1>5, <1>6, <1>7, <1>8, <1>9
           DEF Next, FrameReader, RemoteCloser, Read, CloseSteps, Host

LEMMA StreamInvariant == Spec => [](TypeInv /\ StreamInv)
<1>1. StreamInv /\ ChannelInv /\ [Next]_vars => StreamInv'
  BY StreamStep DEF ChannelInv
<1>2. ChannelInv => TypeInv
  BY DEF ChannelInv
<1> QED BY <1>1, <1>2, StreamInit, ChannelInvariant, PTL DEF Spec

\* What is pending, queued and on the pipe is the rest of the stream, in order
\* (Deliver, Read).
THEOREM StreamInOrder == Spec => []InOrder
<1>1. StreamInv => InOrder
  BY DEF StreamInv
<1> QED BY <1>1, StreamInvariant, PTL

\* Channel implements ByteStream: bytes once and in order, and an end that is
\* told after the last of them unless this side cut the stream (Deliver, Read,
\* CloseRemote, Close).
THEOREM ChannelImplementsByteStream == Spec => ImplementsByteStream
<1>1. Init => Stream!Init
  BY DEF Init, Stream!Init
<1>2. TypeInv /\ StreamInv /\ [Next]_vars => [Stream!Next]_(Stream!vars)
  BY StreamStep
<1> QED BY <1>1, <1>2, StreamInvariant, PTL DEF Spec, ImplementsByteStream, Stream!Spec
=============================================================================
