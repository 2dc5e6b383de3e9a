------------------------------- MODULE Codec -------------------------------
(***************************************************************************)
(* The two readers of framed streams: infra/ipc/codec.go, by which the     *)
(* host and the plugin talk, and Demux of infra/dockerapi/stream.go, by    *)
(* which the daemon sends a container's output. A frame is a header of     *)
(* HeaderLen bytes, which tells its kind and its length, and a payload.    *)
(* Bytes arrive one after the other, and may end anywhere.                 *)
(*                                                                         *)
(* A byte is the frame it belongs to and its place in it. A credit frame   *)
(* carries the channel's id again and a count.                             *)
(***************************************************************************)
EXTENDS Naturals, Sequences, SequencesExt

CONSTANTS HeaderLen, MaxFrameLength, CreditPayloadLen,
          MaxFrames   \* bound: frames that are written

\* What is assumed of the constants; an instance checks it.
LengthAssumption ==
  /\ HeaderLen \in Nat \ {0} /\ MaxFrameLength \in Nat /\ CreditPayloadLen \in 1..MaxFrameLength

Known == {"jsonrpc", "data", "credit"}
\* What is said in a frame; of credit, whether it names its own channel, and how much.
Frames ==
  {f \in [kind : Known \cup {"reserved"}, length : 0..MaxFrameLength + 1,
          same : BOOLEAN, credit : {0, 1}] : f.kind # "credit" => f.same /\ f.credit = 1}

VARIABLES
  wire,    \* the bytes written and not read
  written, \* the frames written
  ended,   \* the writer is gone, maybe within a frame
  read,     \* the frames read
  result   \* how the last read ended: "ok", or an error, after which none follows

vars == <<wire, written, ended, read, result>>

Init == wire = <<>> /\ written = <<>> /\ ended = FALSE /\ read = <<>> /\ result = "ok"

\* ValidKind and the limits, the same for WriteFrame and ReadFrame. Demux has no
\* credit: its kinds are the three streams.
Allowed(f) ==
  /\ f.kind \in Known /\ f.length <= MaxFrameLength
  /\ f.kind = "credit" => f.length = CreditPayloadLen
Bytes(f) == [i \in 1..HeaderLen + f.length |-> [of |-> f, place |-> i]]

\* WriteFrame by the plugin's peer, which may not keep to the rules: one Write.
WriteFrame(f) ==
  /\ ~ended /\ Len(written) < MaxFrames
  /\ wire' = wire \o Bytes(f) /\ written' = Append(written, f)
  /\ UNCHANGED <<ended, read, result>>
\* The stream ends after n of the bytes that are on their way.
End(n) ==
  /\ ~ended /\ ended' = TRUE /\ n <= Len(wire) /\ wire' = SubSeq(wire, 1, n)
  /\ UNCHANGED <<written, read, result>>

\* io.ReadFull: all n bytes, EOF before the first and UnexpectedEOF after it.
ReadFull(bytes, n) ==
  IF Len(bytes) >= n THEN "ok" ELSE IF bytes = <<>> THEN "EOF" ELSE "UnexpectedEOF"

\* Mutant: the end before a payload is a clean one.
Payload_Plain(bytes, n) == ReadFull(bytes, n)
\* The payload: an end before it is not a clean one. A payload of 0 is there.
Payload(bytes, n) ==
  IF n > 0 /\ ReadFull(bytes, n) = "EOF" THEN "UnexpectedEOF" ELSE ReadFull(bytes, n)

\* DecodeCredit, by the reader.
GrantOK(f) == f.kind = "credit" => f.same /\ f.credit # 0

\* ReadFrame, once all the bytes that it will get are there.
ReadFrame ==
  LET f == Head(wire).of
      rest == SubSeq(wire, HeaderLen + 1, Len(wire))
      ends(how) == result' = how /\ UNCHANGED <<wire, read>> IN
  /\ result = "ok" /\ (ended \/ wire # <<>>)
  /\ IF ReadFull(wire, HeaderLen) # "ok" THEN ended /\ ends(ReadFull(wire, HeaderLen))
     ELSE IF ~Allowed(f) THEN ends("violation")
     ELSE IF Payload(rest, f.length) # "ok" THEN ended /\ ends(Payload(rest, f.length))
     ELSE /\ wire' = SubSeq(rest, f.length + 1, Len(rest))
          /\ result' = IF GrantOK(f) THEN "ok" ELSE "violation"
          /\ read' = IF GrantOK(f) THEN Append(read, f) ELSE read
  /\ UNCHANGED <<written, ended>>

Next ==
  \/ \E f \in Frames : WriteFrame(f)
  \/ \E n \in 0..Len(wire) : End(n)
  \/ ReadFrame

Spec == Init /\ [][Next]_vars

-----------------------------------------------------------------------------
\* Every variable has its type (ReadFrame).
TypeOK ==
  /\ written \in Seq(Frames) /\ read \in Seq(Frames) /\ ended \in BOOLEAN
  /\ \A i \in DOMAIN wire : wire[i].of \in Frames /\ wire[i].place \in 1..HeaderLen + wire[i].of.length
  /\ result \in {"ok", "EOF", "UnexpectedEOF", "violation"}

\* What is read is what was written, from the first frame on and none in part,
\* whatever kinds and lengths precede it; a read ends cleanly only where a frame
\* does, and a frame that breaks the rules is the last thing read (ReadFrame,
\* "io.EOF only when the stream ended cleanly at a frame boundary").
FramesWhole ==
  /\ IsPrefix(read, written)
  /\ wire # <<>> => wire[1].place = 1
  /\ \A i \in DOMAIN read : Allowed(read[i]) /\ GrantOK(read[i])
  /\ result = "EOF" => wire = <<>>
=============================================================================
