------------------------------ MODULE Channel ------------------------------
(***************************************************************************)
(* internal/infra/chanbus/channel.go: one binary channel, presented as a   *)
(* stream, with credit flow control in both directions.                    *)
(*                                                                         *)
(* A critical section under Channel.mu is one step. What the code does     *)
(* after the unlock (the Broadcast, the credit grant, the frame write, the *)
(* close notification) is a step of its own, so the other goroutines run   *)
(* between the two. sync.Cond.Wait joins the waiters and unlocks in one    *)
(* step; a woken goroutine takes the lock again and re-tests its loop.     *)
(*                                                                         *)
(* The goroutines: one reader; any number of writers (every keystroke      *)
(* event is handled on a goroutine of its own); any number of closers; the *)
(* frame reader of the IPC client, which calls Deliver and AddCredit; and  *)
(* the goroutine that handles the host's channel.close.                    *)
(*                                                                         *)
(* A data frame is the interval of stream positions it carries, so order,  *)
(* loss and duplication are visible and the bytes themselves are not.      *)
(***************************************************************************)
EXTENDS Integers, Sequences, FiniteSets

CONSTANTS Writers,        \* goroutines that call Write
          Closers,        \* goroutines that call Close
          InitialCredit,  \* initialCredit
          CreditModulus,  \* 2^32, at which the uint32 credit wraps
          FrameSizes,     \* sizes of the frames the host sends
          BufferSizes,    \* sizes of the buffers Read is called with
          MaxChunks,      \* bound: frames one Write call is split into
          MaxBytes        \* bound: bytes the host sends

ASSUME WindowAssumption == InitialCredit \in Nat \ {0}
ASSUME ModulusAssumption == CreditModulus \in Nat /\ CreditModulus > InitialCredit
ASSUME ThreadAssumption == IsFiniteSet(Writers) /\ IsFiniteSet(Closers)
ASSUME BoundAssumption ==
  /\ FrameSizes \subseteq Nat /\ BufferSizes \subseteq Nat \ {0}
  /\ MaxChunks \in Nat /\ MaxBytes \in Nat

VARIABLES
  \* fields of Channel
  inbound,     \* frames delivered and not yet taken by Read
  pending,     \* what is left of the frame Read is handing out
  credit,      \* frames this side may still write
  closeErr,    \* "nil" while open, else which side closed first
  consumed,    \* frames read whose credit is not yet returned
  \* goroutines
  reader,      \* where the reader is in Read
  grant,       \* the local grant of Read
  writer,      \* where each writer is in Write
  left,        \* chunks each writer still has to write
  closer,      \* where each closer is in Close
  framePC,     \* the frame reader, in Deliver or AddCredit
  remotePC,    \* the goroutine handling channel.close, in CloseRemote
  \* the pipe and the host's end
  up,          \* the pipe to the host works
  dataIn,      \* data frames on their way to the plugin
  creditIn,    \* credit on its way to the plugin
  dataOut,     \* data frames on their way to the host
  creditOut,   \* credit on its way to the host
  hostWindow,  \* frames the host may still send
  hostHeld,    \* frames the host took whose credit it has not returned
  hostClosed,  \* the host closed the channel
  closeNotes,  \* channel.close notifications this side sent
  \* the stream as its reader sees it
  sent, got, failed

fields == <<inbound, pending, credit, closeErr, consumed>>
threads == <<reader, grant, writer, left, closer, framePC, remotePC>>
inWire == <<dataIn, creditOut, hostWindow, hostClosed, sent>>
outWire == <<creditIn, dataOut, hostHeld>>
stream == <<got, failed>>
vars == <<fields, threads, inWire, outWire, up, closeNotes, stream>>

Frame == {f \in [lo : Nat, hi : Nat] : f.lo <= f.hi}
IsEmpty(f) == f.lo = f.hi
NoFrame == [lo |-> 0, hi |-> 0]

\* Mutant: only the host's close counts, so a second Close notifies again.
closed_RemoteOnly == closeErr = "remote"
closed == closeErr # "nil"

FieldsOK ==
  /\ inbound \in Seq(Frame) /\ pending \in Frame
  /\ credit \in 0..(CreditModulus - 1)
  /\ closeErr \in {"nil", "remote", "done"}
  /\ consumed \in Nat

ThreadsOK ==
  /\ reader \in {"idle", "reading", "asleep", "grant"} /\ grant \in Nat
  /\ writer \in [Writers -> {"idle", "writing", "asleep", "send"}]
  /\ left \in [Writers -> Nat]
  /\ closer \in [Closers -> {"idle", "broadcast", "notify", "done"}]
  /\ framePC \in {"idle", "broadcast"}
  /\ remotePC \in {"none", "spawned", "broadcast", "done"}

WiresOK ==
  /\ up \in BOOLEAN /\ hostClosed \in BOOLEAN /\ failed \in BOOLEAN
  /\ dataIn \in Seq(Frame)
  /\ creditIn \in Nat /\ dataOut \in Nat /\ creditOut \in Nat
  /\ hostWindow \in Nat /\ hostHeld \in Nat /\ closeNotes \in Nat
  /\ sent \in Nat /\ got \in Nat

\* Every variable has its type; in particular the uint32 credit stays below the
\* modulus (Channel.credit) and no counter is negative.
TypeOK == FieldsOK /\ ThreadsOK /\ WiresOK

Init ==
  /\ inbound = <<>> /\ pending = NoFrame /\ credit = InitialCredit
  /\ closeErr = "nil" /\ consumed = 0
  /\ reader = "idle" /\ grant = 0
  /\ writer = [w \in Writers |-> "idle"] /\ left = [w \in Writers |-> 0]
  /\ closer = [c \in Closers |-> "idle"]
  /\ framePC = "idle" /\ remotePC = "none"
  /\ up = TRUE /\ dataIn = <<>> /\ creditIn = 0 /\ dataOut = 0 /\ creditOut = 0
  /\ hostWindow = InitialCredit /\ hostHeld = 0 /\ hostClosed = FALSE
  /\ closeNotes = 0 /\ sent = 0 /\ got = 0 /\ failed = FALSE

-----------------------------------------------------------------------------
(* sync.Cond.Broadcast: every parked goroutine goes back to its loop test. *)

\* Mutant: Signal instead, which wakes one waiter.
Broadcast_Signal ==
  \/ reader = "asleep" /\ reader' = "reading" /\ UNCHANGED writer
  \/ \E w \in Writers : /\ writer[w] = "asleep" /\ UNCHANGED reader
                        /\ writer' = [writer EXCEPT ![w] = "writing"]
  \/ /\ reader # "asleep" /\ \A w \in Writers : writer[w] # "asleep"
     /\ UNCHANGED <<reader, writer>>
Broadcast ==
  /\ reader' = IF reader = "asleep" THEN "reading" ELSE reader
  /\ writer' = [w \in Writers |-> IF writer[w] = "asleep" THEN "writing" ELSE writer[w]]

-----------------------------------------------------------------------------
(* The frame reader.                                                       *)

\* Deliver. A frame for a closed channel is dropped and wakes nobody.
Deliver ==
  /\ up /\ framePC = "idle" /\ dataIn # <<>>
  /\ dataIn' = Tail(dataIn)
  /\ IF closed
       THEN UNCHANGED <<inbound, framePC>>
       ELSE inbound' = Append(inbound, Head(dataIn)) /\ framePC' = "broadcast"
  /\ UNCHANGED <<pending, credit, closeErr, consumed, reader, grant, writer, left, closer,
                 remotePC, creditOut, hostWindow, hostClosed, sent, outWire, up,
                 closeNotes, stream>>

\* Mutant: AddCredit sets the window to the grant instead of adding it.
Wrap_Overwrites(n) == n - credit
\* uint32 addition.
Wrap(n) == IF n < CreditModulus THEN n ELSE n - CreditModulus

\* AddCredit. The grant may cover any part of the credit the host returned.
AddCredit ==
  /\ up /\ framePC = "idle"
  /\ \E n \in 1..creditIn :
       credit' = Wrap(credit + n) /\ creditIn' = creditIn - n
  /\ framePC' = "broadcast"
  /\ UNCHANGED <<inbound, pending, closeErr, consumed, reader, grant, writer, left, closer,
                 remotePC, inWire, dataOut, hostHeld, up, closeNotes, stream>>

\* The Broadcast that ends Deliver and AddCredit.
FrameBroadcast ==
  /\ framePC = "broadcast" /\ framePC' = "idle"
  /\ Broadcast
  /\ UNCHANGED <<fields, grant, left, closer, remotePC, inWire, outWire, up, closeNotes, stream>>

\* The reader hands channel.close to a goroutine of its own; it handles
\* frames in wire order, so every earlier data frame was delivered.
DispatchClose ==
  /\ up /\ framePC = "idle" /\ hostClosed /\ dataIn = <<>>
  /\ remotePC = "none" /\ remotePC' = "spawned"
  /\ UNCHANGED <<fields, reader, grant, writer, left, closer, framePC, inWire, outWire, up,
                 closeNotes, stream>>

\* Mutant: CloseRemote without its Broadcast.
CloseRemote_Silent ==
  /\ remotePC = "spawned" /\ remotePC' = "done"
  /\ closeErr' = IF closed THEN closeErr ELSE "remote"
  /\ UNCHANGED <<inbound, pending, credit, consumed, reader, grant, writer, left, closer,
                 framePC, inWire, outWire, up, closeNotes, stream>>
\* CloseRemote, on that goroutine.
CloseRemote ==
  /\ remotePC = "spawned"
  /\ IF closed
       THEN remotePC' = "done" /\ UNCHANGED closeErr
       ELSE remotePC' = "broadcast" /\ closeErr' = "remote"
  /\ UNCHANGED <<inbound, pending, credit, consumed, reader, grant, writer, left, closer,
                 framePC, inWire, outWire, up, closeNotes, stream>>

RemoteBroadcast ==
  /\ remotePC = "broadcast" /\ remotePC' = "done"
  /\ Broadcast
  /\ UNCHANGED <<fields, grant, left, closer, framePC, inWire, outWire, up, closeNotes, stream>>

-----------------------------------------------------------------------------
(* Read.                                                                   *)

\* Mutant: a closed channel is not drained.
readable_UnlessClosed == ~closed /\ (~IsEmpty(pending) \/ inbound # <<>>)
readable == ~IsEmpty(pending) \/ inbound # <<>>

\* Mutant: Read takes the newest frame.
NextFrame_Newest == IF IsEmpty(pending) THEN inbound[Len(inbound)] ELSE pending
\* The frame Read copies from.
NextFrame == IF IsEmpty(pending) THEN Head(inbound) ELSE pending

ReadCall ==
  /\ reader = "idle" /\ reader' = "reading"
  /\ UNCHANGED <<fields, grant, writer, left, closer, framePC, remotePC, inWire, outWire, up,
                 closeNotes, stream>>

\* The loop test fails: park.
ReadWait ==
  /\ reader = "reading" /\ ~readable /\ ~closed
  /\ reader' = "asleep"
  /\ UNCHANGED <<fields, grant, writer, left, closer, framePC, remotePC, inWire, outWire, up,
                 closeNotes, stream>>

\* The queue is drained and the channel closed: return closeErr.
ReadEnd ==
  /\ reader = "reading" /\ ~readable /\ closed
  /\ reader' = "idle" /\ failed' = TRUE
  /\ UNCHANGED <<fields, grant, writer, left, closer, framePC, remotePC, inWire, outWire, up,
                 closeNotes, got>>

\* Mutant: the batch is granted but not reset.
SettleCredit_NoReset(rest) ==
  IF IsEmpty(rest) /\ consumed + 1 >= InitialCredit \div 2
    THEN /\ reader' = "grant" /\ grant' = consumed + 1 /\ consumed' = consumed + 1
    ELSE /\ reader' = "idle" /\ UNCHANGED grant
         /\ consumed' = IF IsEmpty(rest) THEN consumed + 1 ELSE consumed
\* Mutant: credit is granted only beyond a whole window.
SettleCredit_TooLate(rest) ==
  IF IsEmpty(rest) /\ consumed + 1 > InitialCredit
    THEN /\ reader' = "grant" /\ grant' = consumed + 1 /\ consumed' = 0
    ELSE /\ reader' = "idle" /\ UNCHANGED grant
         /\ consumed' = IF IsEmpty(rest) THEN consumed + 1 ELSE consumed
\* The end of Read's critical section: what becomes of the credit of a frame
\* of which "rest" is left.
SettleCredit(rest) ==
  LET count == consumed + 1 IN
  \/ /\ ~IsEmpty(rest)
     /\ reader' = "idle" /\ UNCHANGED <<consumed, grant>>
  \/ /\ IsEmpty(rest) /\ count < InitialCredit \div 2
     /\ reader' = "idle" /\ consumed' = count /\ UNCHANGED grant
  \/ /\ IsEmpty(rest) /\ count >= InitialCredit \div 2
     /\ reader' = "grant" /\ consumed' = 0 /\ grant' = count

\* Copy up to k bytes out of the frame being read, or of the next one.
ReadTake(k) ==
  /\ reader = "reading" /\ readable
  /\ LET size == NextFrame.hi - NextFrame.lo
         n == IF size < k THEN size ELSE k
         rest == [NextFrame EXCEPT !.lo = @ + n]
     IN /\ pending' = rest
        /\ inbound' = IF IsEmpty(pending) THEN Tail(inbound) ELSE inbound
        /\ got' = got + n
        /\ SettleCredit(rest)
  /\ UNCHANGED <<credit, closeErr, writer, left, closer, framePC, remotePC, inWire, outWire,
                 up, closeNotes, failed>>

\* GrantCredit, outside the lock; its error is ignored.
ReadGrant ==
  /\ reader = "grant" /\ reader' = "idle"
  /\ creditOut' = IF up THEN creditOut + grant ELSE creditOut
  /\ grant' = 0
  /\ UNCHANGED <<fields, writer, left, closer, framePC, remotePC, dataIn, hostWindow,
                 hostClosed, sent, outWire, up, closeNotes, stream>>

-----------------------------------------------------------------------------
(* Write, and awaitCredit inside it.                                       *)

WriteCall(w) ==
  /\ writer[w] = "idle"
  /\ \E n \in 1..MaxChunks : left' = [left EXCEPT ![w] = n]
  /\ writer' = [writer EXCEPT ![w] = "writing"]
  /\ UNCHANGED <<fields, reader, grant, closer, framePC, remotePC, inWire, outWire, up,
                 closeNotes, stream>>

WriteWait(w) ==
  /\ writer[w] = "writing" /\ credit = 0 /\ ~closed
  /\ writer' = [writer EXCEPT ![w] = "asleep"]
  /\ UNCHANGED <<fields, reader, grant, left, closer, framePC, remotePC, inWire, outWire, up,
                 closeNotes, stream>>

\* awaitCredit returns closeErr.
WriteFail(w) ==
  /\ writer[w] = "writing" /\ closed
  /\ writer' = [writer EXCEPT ![w] = "idle"] /\ left' = [left EXCEPT ![w] = 0]
  /\ UNCHANGED <<fields, reader, grant, closer, framePC, remotePC, inWire, outWire, up,
                 closeNotes, stream>>

\* Mutant: the window is not tested.
WindowOpen_Always == ~closed
WindowOpen == credit > 0 /\ ~closed

WriteSpend(w) ==
  /\ writer[w] = "writing" /\ WindowOpen
  /\ credit' = credit - 1
  /\ writer' = [writer EXCEPT ![w] = "send"]
  /\ UNCHANGED <<inbound, pending, closeErr, consumed, reader, grant, left, closer, framePC,
                 remotePC, inWire, outWire, up, closeNotes, stream>>

\* WriteChannel: the next chunk, the end of the call, or the pipe's error.
WriteSend(w) ==
  /\ writer[w] = "send"
  /\ dataOut' = IF up THEN dataOut + 1 ELSE dataOut
  /\ LET rest == IF up THEN left[w] - 1 ELSE 0 IN
       /\ left' = [left EXCEPT ![w] = rest]
       /\ writer' = [writer EXCEPT ![w] = IF rest > 0 THEN "writing" ELSE "idle"]
  /\ UNCHANGED <<fields, reader, grant, closer, framePC, remotePC, inWire, creditIn, hostHeld,
                 up, closeNotes, stream>>

-----------------------------------------------------------------------------
(* Close.                                                                  *)

Close(c) ==
  /\ closer[c] = "idle"
  /\ IF closed
       THEN closer' = [closer EXCEPT ![c] = "done"] /\ UNCHANGED closeErr
       ELSE closer' = [closer EXCEPT ![c] = "broadcast"] /\ closeErr' = "done"
  /\ UNCHANGED <<inbound, pending, credit, consumed, reader, grant, writer, left, framePC,
                 remotePC, inWire, outWire, up, closeNotes, stream>>

CloseBroadcast(c) ==
  /\ closer[c] = "broadcast" /\ closer' = [closer EXCEPT ![c] = "notify"]
  /\ Broadcast
  /\ UNCHANGED <<fields, grant, left, framePC, remotePC, inWire, outWire, up, closeNotes, stream>>

\* transport.CloseChannel.
CloseNotify(c) ==
  /\ closer[c] = "notify" /\ closer' = [closer EXCEPT ![c] = "done"]
  /\ closeNotes' = IF up THEN closeNotes + 1 ELSE closeNotes
  /\ UNCHANGED <<fields, reader, grant, writer, left, framePC, remotePC, inWire, outWire, up,
                 stream>>

-----------------------------------------------------------------------------
(* The host's end of the channel, external: it keeps to the credit it was  *)
(* granted, returns credit for the frames it took, and may close.          *)

HostSend ==
  /\ up /\ ~hostClosed /\ hostWindow > 0
  /\ \E n \in FrameSizes :
       /\ sent + n <= MaxBytes
       /\ dataIn' = Append(dataIn, [lo |-> sent, hi |-> sent + n])
       /\ sent' = sent + n
  /\ hostWindow' = hostWindow - 1
  /\ UNCHANGED <<fields, threads, creditOut, hostClosed, outWire, up, closeNotes, stream>>

HostCredited ==
  /\ up /\ creditOut > 0
  /\ creditOut' = 0 /\ hostWindow' = hostWindow + creditOut
  /\ UNCHANGED <<fields, threads, dataIn, hostClosed, sent, outWire, up, closeNotes, stream>>

HostTake ==
  /\ up /\ dataOut > 0
  /\ dataOut' = dataOut - 1 /\ hostHeld' = hostHeld + 1
  /\ UNCHANGED <<fields, threads, inWire, creditIn, up, closeNotes, stream>>

HostReturn ==
  /\ up /\ hostHeld > 0
  /\ creditIn' = creditIn + hostHeld /\ hostHeld' = 0
  /\ UNCHANGED <<fields, threads, inWire, dataOut, up, closeNotes, stream>>

HostClose ==
  /\ up /\ ~hostClosed /\ hostClosed' = TRUE
  /\ UNCHANGED <<fields, threads, dataIn, creditOut, hostWindow, sent, outWire, up, closeNotes,
                 stream>>

\* The read loop of the IPC client returns and the client refuses to write.
Disconnect ==
  /\ up /\ framePC = "idle" /\ up' = FALSE
  /\ UNCHANGED <<fields, threads, inWire, outWire, closeNotes, stream>>

-----------------------------------------------------------------------------
FrameReader == Deliver \/ AddCredit \/ FrameBroadcast \/ DispatchClose
RemoteCloser == CloseRemote \/ RemoteBroadcast
Read == ReadCall \/ ReadWait \/ ReadEnd \/ (\E k \in BufferSizes : ReadTake(k)) \/ ReadGrant
Write(w) == WriteCall(w) \/ WriteWait(w) \/ WriteFail(w) \/ WriteSpend(w) \/ WriteSend(w)
CloseSteps(c) == Close(c) \/ CloseBroadcast(c) \/ CloseNotify(c)
Host == HostSend \/ HostCredited \/ HostTake \/ HostReturn \/ HostClose

Next == \/ FrameReader \/ RemoteCloser \/ Read
        \/ \E w \in Writers : Write(w)
        \/ \E c \in Closers : CloseSteps(c)
        \/ Host \/ Disconnect

Spec == Init /\ [][Next]_vars

-----------------------------------------------------------------------------
(* Fairness. A goroutine that can run does, and the frame reader handles   *)
(* every message on the pipe after the finitely many before it (strong     *)
(* fairness: another message may be handled in between). Nobody has to     *)
(* call Read, Write or Close, send a frame or close; the host takes what   *)
(* it is sent and returns the credit.                                      *)

Fairness ==
  /\ SF_vars(Deliver) /\ SF_vars(AddCredit) /\ SF_vars(DispatchClose)
  /\ WF_vars(FrameBroadcast) /\ WF_vars(RemoteCloser)
  /\ WF_vars(ReadWait \/ ReadEnd \/ ReadGrant \/ \E k \in BufferSizes : ReadTake(k))
  /\ \A w \in Writers :
       WF_vars(WriteWait(w) \/ WriteFail(w) \/ WriteSpend(w) \/ WriteSend(w))
  /\ \A c \in Closers : WF_vars(CloseBroadcast(c) \/ CloseNotify(c))
  /\ WF_vars(HostCredited) /\ WF_vars(HostTake) /\ WF_vars(HostReturn)

FairSpec == Spec /\ Fairness

-----------------------------------------------------------------------------
(* Safety.                                                                 *)

\* Frames from the host that this side holds in whole or in part.
FramesBuffered == Len(inbound) + (IF IsEmpty(pending) THEN 0 ELSE 1)

InboundTotal == hostWindow + Len(dataIn) + FramesBuffered + consumed + grant + creditOut

\* Inbound credit is neither minted nor lost: while the channel and the pipe
\* are open, every frame of the initial window is at the host, on the pipe,
\* buffered, or counted as consumed (Read, "only once a frame has actually
\* been consumed"); after the end it can only shrink. So the host is never
\* invited to send more than a slow consumer can hold.
InboundWindow ==
  /\ InboundTotal <= InitialCredit
  /\ ~closed /\ up => InboundTotal = InitialCredit

\* Batching the grants cannot stall the stream: a reader that is parked with
\* nothing on its way to it, and no grant on its way to the host, has left
\* the host room to send (initialCredit/2 in Read).
WindowReopens ==
  (reader = "asleep" /\ up /\ ~closed /\ dataIn = <<>> /\ inbound = <<>> /\ creditOut = 0)
     => hostWindow > 0

Sending == {w \in Writers : writer[w] = "send"}
OutboundTotal == credit + Cardinality(Sending) + dataOut + hostHeld + creditIn

\* Outbound credit is conserved over any number of concurrent writers, so no
\* write passes the window the host granted and the uint32 never wraps
\* (awaitCredit, AddCredit).
OutboundWindow ==
  /\ OutboundTotal <= InitialCredit
  /\ up => OutboundTotal = InitialCredit

\* No goroutine sleeps through its wakeup: one that is parked although its
\* loop test would let it through has a Broadcast still to come. One
\* condition variable serves readers and writers, and every Broadcast comes
\* after the unlock.
BroadcastDue ==
  \/ framePC = "broadcast" \/ remotePC = "broadcast"
  \/ \E c \in Closers : closer[c] = "broadcast"
NoLostWakeup ==
  /\ reader = "asleep" /\ (readable \/ closed) => BroadcastDue
  /\ \A w \in Writers : writer[w] = "asleep" /\ (credit > 0 \/ closed) => BroadcastDue

\* q carries on where position "from" stops, without a gap or an overlap.
Contiguous(from, q) ==
  \A i \in DOMAIN q : q[i].lo = IF i = 1 THEN from ELSE q[i - 1].hi
EndOf(from, q) == IF q = <<>> THEN from ELSE q[Len(q)].hi

\* What is pending, queued and (until this side closes) on the pipe is
\* exactly the rest of the stream, in order.
InOrder ==
  LET delivered == EndOf(pending.hi, inbound) IN
  /\ pending.lo = got
  /\ Contiguous(pending.hi, inbound)
  /\ closeErr # "done" => /\ Contiguous(delivered, dataIn)
                          /\ EndOf(delivered, dataIn) = sent

\* However many goroutines close the channel, and even if the host closes it
\* meanwhile, the host is told at most once, and never when it closed first
\* (Close, "idempotent"; CloseRemote, "the transport is not told").
Closing == {c \in Closers : closer[c] \in {"broadcast", "notify"}}
CloseToldOnce ==
  Cardinality(Closing) + closeNotes <= (IF closeErr = "done" THEN 1 ELSE 0)

\* The channel implements the byte stream the layers above assume: in order,
\* complete, and ended only after its last byte unless this side cut it.
Stream == INSTANCE ByteStream
            WITH finished <- hostClosed, cut <- (closeErr = "done" \/ ~up)
ImplementsByteStream == Stream!Spec

-----------------------------------------------------------------------------
(* Liveness.                                                               *)

\* A parked reader wakes once the host closes the channel, unless the pipe
\* breaks first (channel_test.go: "or every consumer of a finished stream
\* hangs forever").
ReaderWakes == (hostClosed /\ reader = "asleep") ~> (reader # "asleep" \/ ~up)

\* A writer parked on a shut window wakes: all the credit is somewhere on its
\* way around, and comes back.
WriterWakes == \A w \in Writers : writer[w] = "asleep" ~> (writer[w] # "asleep" \/ ~up)
=============================================================================
