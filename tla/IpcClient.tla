----------------------------- MODULE IpcClient -----------------------------
(***************************************************************************)
(* internal/infra/ipc/client.go: JSON-RPC in both directions over one pipe *)
(* pair. One goroutine (Serve) reads; every inbound request and            *)
(* notification is handled on a goroutine of its own, which may call the   *)
(* host back; any goroutine may call, and its context may end at any time. *)
(*                                                                         *)
(* The steps are those the locks and the channel operations delimit: the   *)
(* registration, the test of done under the write lock, the write that     *)
(* holds the lock while the pipe is full, the select and the deferred      *)
(* forgetPending of a Call; the same test and write of an answer; the      *)
(* lookup and the send of resume; the two halves of close.                 *)
(*                                                                         *)
(* The host is external. It is modelled at its most awkward: one loop that *)
(* takes a frame only when it has written its answer to the last one, and  *)
(* bounded pipes, so that a plugin that stops reading stops the host too.  *)
(***************************************************************************)
EXTENDS Naturals, Sequences, FiniteSets

CONSTANTS Callers,    \* goroutines of the service that call the host
          Inbound,    \* messages the host sends, each with its goroutine
          Requests,   \* those of them that expect a response
          Nested,     \* those whose handler calls the host back, once
          MaxCalls,   \* bound: calls a caller makes
          MaxRepeats, \* bound: answers the host repeats
          PipeSize    \* bound: frames either pipe holds

ASSUME InboundAssumption == Requests \cup Nested \subseteq Inbound /\ Callers \cap Inbound = {}
ASSUME BoundAssumption == MaxCalls \in Nat /\ MaxRepeats \in Nat /\ PipeSize \in Nat \ {0}

Threads == Callers \cup Inbound
Budget(t) == IF t \in Callers THEN MaxCalls ELSE IF t \in Nested THEN 1 ELSE 0

VARIABLES
  nextID,    \* the last id used
  pending,   \* ids that have an entry
  slot,      \* the one-message channel of each id so far
  closed, done,
  reader,    \* where Serve is
  resuming,  \* the response resume holds between its lookup and its send
  thread,    \* where each goroutine is
  callID,    \* the id of its call
  calls,     \* how many calls it has made
  result,    \* what its last call returned
  toHost, fromHost,
  hostHolds, \* the request the host is answering
  repeats,   \* answers it has repeated
  hostDone   \* the host closed the pipe

client == <<nextID, pending, slot, closed, done>>
serve == <<reader, resuming>>
callers == <<thread, callID, calls, result>>
host == <<hostHolds, repeats, hostDone>>
vars == <<client, serve, callers, toHost, fromHost, host>>

Empty == [kind |-> "none"]
IDs == 1..nextID

\* A call is told apart by who made it and which of its calls it is; the
\* answer to it carries the same.
Request(id, t, n) == [kind |-> "request", id |-> id, by |-> t, n |-> n]
Response(r) == [kind |-> "response", id |-> r.id, by |-> r.by, n |-> r.n]

OfKind(kind) == [kind : {kind}, id : IDs, by : Threads, n : Nat]
Messages == [kind : {"message"}, m : Inbound]
Replies == [kind : {"reply"}, m : Inbound]

\* Where a goroutine can be, and how its call can return without an answer.
Standing == {"unborn", "running", "registered", "writing", "waiting", "returning",
           "answering", "replying", "finished"}
Outcomes == {"none", "ErrClosed", "broken", "ctx"}

\* Every variable has its type, done is closed by close alone, after it has set
\* closed (Client.close), and neither pipe holds more than it can.
TypeOK ==
  /\ nextID \in Nat /\ pending \subseteq IDs
  /\ slot \in [IDs -> {Empty} \cup OfKind("response")]
  /\ closed \in BOOLEAN /\ done \in BOOLEAN /\ (done => closed)
  /\ reader \in {"read", "resume", "close", "signal", "ended"}
  /\ resuming \in {Empty} \cup OfKind("response")
  /\ thread \in [Threads -> Standing]
  /\ callID \in [Threads -> {0} \cup IDs] /\ calls \in [Threads -> Nat]
  /\ result \in [Threads -> [kind : Outcomes] \cup OfKind("response")]
  /\ toHost \in Seq(OfKind("request") \cup Replies) /\ Len(toHost) <= PipeSize
  /\ fromHost \in Seq(OfKind("response") \cup Messages \cup [kind : {"end"}])
  /\ Len(fromHost) <= PipeSize
  /\ hostHolds \in {Empty} \cup OfKind("request") /\ repeats \in 0..MaxRepeats
  /\ hostDone \in BOOLEAN

Init ==
  /\ nextID = 0 /\ pending = {} /\ slot = <<>>
  /\ closed = FALSE /\ done = FALSE
  /\ reader = "read" /\ resuming = Empty
  /\ thread = [t \in Threads |-> IF t \in Callers THEN "running" ELSE "unborn"]
  /\ callID = [t \in Threads |-> 0] /\ calls = [t \in Threads |-> 0]
  /\ result = [t \in Threads |-> Empty]
  /\ toHost = <<>> /\ fromHost = <<>>
  /\ hostHolds = Empty /\ repeats = 0 /\ hostDone = FALSE

-----------------------------------------------------------------------------
(* Serve.                                                                  *)

\* Mutant: the handler runs on the reader.
ReaderFree_Inline ==
  reader = "read" /\ \A m \in Inbound : thread[m] \in {"unborn", "finished"}
ReaderFree == reader = "read"

\* dispatchJSONRPC of a response: resume looks the caller up.
ReadResponse ==
  /\ ReaderFree /\ fromHost # <<>> /\ Head(fromHost).kind = "response"
  /\ IF Head(fromHost).id \in pending
       THEN reader' = "resume" /\ resuming' = Head(fromHost)
       ELSE UNCHANGED serve
  /\ fromHost' = Tail(fromHost)
  /\ UNCHANGED <<client, callers, toHost, host>>

\* Mutant: the send waits for room.
ResumeEnabled_Blocking == reader = "resume" /\ slot[resuming.id] = Empty
ResumeEnabled == reader = "resume"

\* The send into the buffered channel, or its default.
Resume ==
  /\ ResumeEnabled
  /\ slot' = [slot EXCEPT ![resuming.id] = IF @ = Empty THEN resuming ELSE @]
  /\ reader' = "read" /\ resuming' = Empty
  /\ UNCHANGED <<nextID, pending, closed, done, callers, toHost, fromHost, host>>

\* dispatchJSONRPC of anything else: go serveInbound.
Spawn ==
  /\ ReaderFree /\ fromHost # <<>> /\ Head(fromHost).kind = "message"
  /\ thread' = [thread EXCEPT ![Head(fromHost).m] = "running"]
  /\ fromHost' = Tail(fromHost)
  /\ UNCHANGED <<client, serve, callID, calls, result, toHost, host>>

\* The pipe ended or broke the protocol: Serve returns through close.
ReadEnd ==
  /\ ReaderFree /\ fromHost # <<>> /\ Head(fromHost).kind = "end"
  /\ reader' = "close" /\ fromHost' = Tail(fromHost)
  /\ UNCHANGED <<client, resuming, callers, toHost, host>>

\* Mutant: close wakes the callers without refusing later calls.
CloseMark_Unmarked ==
  /\ reader = "close" /\ reader' = "signal"
  /\ UNCHANGED <<client, resuming, callers, toHost, fromHost, host>>
CloseMark ==
  /\ reader = "close" /\ reader' = "signal" /\ closed' = TRUE
  /\ UNCHANGED <<nextID, pending, slot, done, resuming, callers, toHost, fromHost, host>>

CloseSignal ==
  /\ reader = "signal" /\ reader' = "ended" /\ done' = TRUE
  /\ UNCHANGED <<nextID, pending, slot, closed, resuming, callers, toHost, fromHost, host>>

Serve == ReadResponse \/ Resume \/ Spawn \/ ReadEnd \/ CloseMark \/ CloseSignal

-----------------------------------------------------------------------------
(* Call.                                                                   *)

Return(t, r) ==
  /\ thread' = [thread EXCEPT ![t] = "returning"]
  /\ result' = [result EXCEPT ![t] = r]

\* Mutant: an id is free again once its call has returned.
NewID_Reused == CHOOSE i \in 1..(Cardinality(pending) + 1) : i \notin pending
NewID == nextID + 1

\* registerPending.
Register(t) ==
  /\ thread[t] = "running" /\ calls[t] < Budget(t)
  /\ calls' = [calls EXCEPT ![t] = @ + 1]
  /\ IF closed
       THEN UNCHANGED <<nextID, pending, slot, thread, callID>>  \* ErrClosed
       ELSE /\ nextID' = NewID /\ pending' = pending \cup {NewID}
            /\ slot' = [i \in DOMAIN slot \cup {NewID} |-> IF i = NewID THEN Empty ELSE slot[i]]
            /\ callID' = [callID EXCEPT ![t] = NewID]
            /\ thread' = [thread EXCEPT ![t] = "registered"]
  /\ UNCHANGED <<closed, done, serve, result, toHost, fromHost, host>>

\* writeFrame holds the write lock from its test of done to the end of its write.
WriteLocked == \E u \in Threads : thread[u] \in {"writing", "replying"}

\* writeFrame of the request: the lock, and the test of done.
StartRequest(t) ==
  /\ thread[t] = "registered" /\ ~WriteLocked
  /\ \/ done /\ Return(t, [kind |-> "ErrClosed"])
     \/ ~done /\ thread' = [thread EXCEPT ![t] = "writing"] /\ UNCHANGED result
  /\ UNCHANGED <<client, serve, callID, calls, toHost, fromHost, host>>

\* Its write, which waits for room and does not look at done again. It fails only
\* when the host is gone.
SendRequest(t) ==
  /\ thread[t] = "writing"
  /\ \/ /\ hostDone /\ Return(t, [kind |-> "broken"]) /\ UNCHANGED toHost
     \/ /\ Len(toHost) < PipeSize
        /\ toHost' = Append(toHost, Request(callID[t], t, calls[t]))
        /\ thread' = [thread EXCEPT ![t] = "waiting"] /\ UNCHANGED result
  /\ UNCHANGED <<client, serve, callID, calls, fromHost, host>>

\* The select: any ready case may be taken.
Receive(t) ==
  /\ thread[t] = "waiting" /\ slot[callID[t]] # Empty
  /\ Return(t, slot[callID[t]])
  /\ slot' = [slot EXCEPT ![callID[t]] = Empty]
  /\ UNCHANGED <<nextID, pending, closed, done, serve, callID, calls, toHost, fromHost, host>>

SeeDone(t) ==
  /\ thread[t] = "waiting" /\ done
  /\ Return(t, [kind |-> "ErrClosed"])
  /\ UNCHANGED <<client, serve, callID, calls, toHost, fromHost, host>>

ContextDone(t) ==
  /\ thread[t] = "waiting"
  /\ Return(t, [kind |-> "ctx"])
  /\ UNCHANGED <<client, serve, callID, calls, toHost, fromHost, host>>

\* Mutant: only an answered call removes its entry.
Forgotten_IfAnswered(t) == IF result[t].kind = "response" THEN {callID[t]} ELSE {}
Forgotten(t) == {callID[t]}

\* The deferred forgetPending.
Forget(t) ==
  /\ thread[t] = "returning"
  /\ pending' = pending \ Forgotten(t)
  /\ thread' = [thread EXCEPT ![t] = "running"]
  /\ callID' = [callID EXCEPT ![t] = 0] /\ result' = [result EXCEPT ![t] = Empty]
  /\ UNCHANGED <<nextID, slot, closed, done, serve, calls, toHost, fromHost, host>>

Call(t) ==
  \/ Register(t) \/ StartRequest(t) \/ SendRequest(t)
  \/ Receive(t) \/ SeeDone(t) \/ ContextDone(t) \/ Forget(t)

-----------------------------------------------------------------------------
(* serveInbound.                                                           *)

\* The handler is over: a request is answered, a notification not.
Handled(m) ==
  /\ thread[m] = "running"
  /\ thread' = [thread EXCEPT ![m] = IF m \in Requests THEN "answering" ELSE "finished"]
  /\ UNCHANGED <<client, serve, callID, calls, result, toHost, fromHost, host>>

\* writeFrame of the answer: the lock, and the test of done.
StartReply(m) ==
  /\ thread[m] = "answering" /\ ~WriteLocked
  /\ thread' = [thread EXCEPT ![m] = IF done THEN "finished" ELSE "replying"]
  /\ UNCHANGED <<client, serve, callID, calls, result, toHost, fromHost, host>>

\* Its write.
Reply(m) ==
  /\ thread[m] = "replying" /\ thread' = [thread EXCEPT ![m] = "finished"]
  /\ \/ hostDone /\ UNCHANGED toHost
     \/ Len(toHost) < PipeSize /\ toHost' = Append(toHost, [kind |-> "reply", m |-> m])
  /\ UNCHANGED <<client, serve, callID, calls, result, fromHost, host>>

Respond(m) == Handled(m) \/ StartReply(m) \/ Reply(m)

-----------------------------------------------------------------------------
(* The host.                                                               *)

HostTake ==
  /\ hostHolds = Empty /\ toHost # <<>>
  /\ toHost' = Tail(toHost)
  /\ hostHolds' = IF Head(toHost).kind = "request" THEN Head(toHost) ELSE Empty
  /\ UNCHANGED <<client, serve, callers, fromHost, repeats, hostDone>>

HostAnswer ==
  /\ hostHolds # Empty /\ ~hostDone /\ Len(fromHost) < PipeSize
  /\ fromHost' = Append(fromHost, Response(hostHolds))
  /\ \/ hostHolds' = Empty /\ UNCHANGED repeats
     \/ repeats < MaxRepeats /\ repeats' = repeats + 1 /\ UNCHANGED hostHolds
  /\ UNCHANGED <<client, serve, callers, toHost, hostDone>>

HostSays(m) ==
  /\ thread[m] = "unborn" /\ ~hostDone /\ Len(fromHost) < PipeSize
  /\ \A i \in DOMAIN fromHost : fromHost[i] # [kind |-> "message", m |-> m]
  /\ fromHost' = Append(fromHost, [kind |-> "message", m |-> m])
  /\ UNCHANGED <<client, serve, callers, toHost, host>>

HostEnds ==
  /\ ~hostDone /\ Len(fromHost) < PipeSize
  /\ fromHost' = Append(fromHost, [kind |-> "end"]) /\ hostDone' = TRUE
  /\ UNCHANGED <<client, serve, callers, toHost, hostHolds, repeats>>

-----------------------------------------------------------------------------
Next == \/ Serve
        \/ \E t \in Threads : Call(t)
        \/ \E m \in Inbound : Respond(m) \/ HostSays(m)
        \/ HostTake \/ HostAnswer \/ HostEnds

Spec == Init /\ [][Next]_vars

\* Every goroutine that can go on does, a handler comes to its end, and the
\* host answers what it takes. Nobody's context need end, and nobody has to
\* call, to send a message or to close.
Continue(t) == StartRequest(t) \/ SendRequest(t) \/ Receive(t) \/ SeeDone(t) \/ Forget(t)
Fairness ==
  /\ WF_vars(Serve)
  /\ \A t \in Callers : WF_vars(Continue(t))
  /\ \A m \in Inbound : WF_vars(Continue(m) \/ Respond(m))
  /\ WF_vars(HostTake) /\ WF_vars(HostAnswer)

FairSpec == Spec /\ Fairness

-----------------------------------------------------------------------------
InCall(t) == thread[t] \in {"registered", "writing", "waiting", "returning"}

\* A call returns its own answer or none: not another goroutine's, and not
\* the late answer to a call that was given up (Call, "its late response is
\* then dropped").
OwnAnswer ==
  \A t \in Threads : thread[t] = "returning" /\ result[t].kind = "response" =>
    result[t].by = t /\ result[t].n = calls[t]

\* The table holds exactly the calls under way, each under an id of its own:
\* no call leaks its entry however it ends. And every variable has its type.
PendingExact ==
  /\ TypeOK
  /\ pending = {callID[t] : t \in {u \in Threads : InCall(u)}}
  /\ \A t, u \in Threads : t # u /\ InCall(t) /\ InCall(u) => callID[t] # callID[u]

\* Every call that is made returns, even one made by a handler while the host
\* is busy: the reader that brings the answer is never the one that waits for
\* it (dispatchJSONRPC, "cannot deadlock against the reader"; registerPending,
\* "must never be parked by one abandoned call").
CallsReturn == \A t \in Threads : InCall(t) ~> ~InCall(t)

\* Every request the host makes is answered, unless the pipe ends first.
RequestsAnswered == \A m \in Requests : thread[m] = "running" ~> (thread[m] = "finished" \/ done)
=============================================================================
