--------------------------- MODULE IpcClientProofs ---------------------------
(***************************************************************************)
(* Theorems about IpcClient, for any number of callers and of messages of  *)
(* the host, any number of calls and repeated answers, and pipes of any    *)
(* length. Whatever carries an id (a request on its way, an answer on its  *)
(* way back, in resume's hands or in a slot) belongs to the call that has  *)
(* the id, if that call is still under way, because ids are never reused.  *)
(***************************************************************************)
EXTENDS IpcClient, SequenceLemmas, TLAPS, SequenceTheorems

\* Serve signals what it has marked (the two halves of close).
Marked == reader = "signal" => closed

\* resume has a response in its hands between its lookup and its send alone.
Resuming == reader = "resume" <=> resuming # Empty

\* A goroutine has an id exactly while it is in a call.
IDWhileInCall == \A t \in Threads : InCall(t) <=> callID[t] # 0

\* A message is on the pipe once, before its handler starts.
MessagesOnce ==
  \A i \in DOMAIN fromHost : fromHost[i].kind = "message" =>
    /\ thread[fromHost[i].m] = "unborn"
    /\ \A j \in DOMAIN fromHost : fromHost[j] = fromHost[i] => i = j

\* A slot holds an answer to its own id.
SlotOwnID == \A i \in IDs : slot[i] # Empty => slot[i].id = i

\* r belongs to the call that has its id, if there is still one.
Belongs(r) ==
  \A t \in Threads : InCall(t) /\ callID[t] = r.id => r.by = t /\ r.n = calls[t]

\* Everything that carries an id belongs to its call.
Carried ==
  /\ \A i \in DOMAIN toHost : toHost[i].kind = "request" => Belongs(toHost[i])
  /\ hostHolds # Empty => Belongs(hostHolds)
  /\ \A i \in DOMAIN fromHost : fromHost[i].kind = "response" => Belongs(fromHost[i])
  /\ resuming # Empty => Belongs(resuming)
  /\ \A i \in IDs : slot[i] # Empty => Belongs(slot[i])

IInv ==
  /\ PendingExact /\ OwnAnswer
  /\ Marked /\ Resuming /\ IDWhileInCall /\ MessagesOnce /\ SlotOwnID /\ Carried

-----------------------------------------------------------------------------
(* Types.                                                                  *)

LEMMA EmptyKinds ==
  /\ \A k \in {"request", "response"} : Empty \notin OfKind(k)
  /\ \A r \in OfKind("response") : r.kind = "response" /\ r.id \in IDs /\ r.by \in Threads /\ r.n \in Nat
  /\ \A r \in OfKind("request") : r.kind = "request" /\ r.id \in IDs /\ r.by \in Threads /\ r.n \in Nat
  /\ Empty.kind = "none"
<1>1. Empty.kind = "none"
  BY DEF Empty
<1>2. \A r \in OfKind("response") : r.kind = "response" /\ r.id \in IDs /\ r.by \in Threads /\ r.n \in Nat
  BY DEF OfKind
<1>3. \A r \in OfKind("request") : r.kind = "request" /\ r.id \in IDs /\ r.by \in Threads /\ r.n \in Nat
  BY DEF OfKind
<1> QED BY <1>1, <1>2, <1>3

LEMMA TypeInit == Init => TypeOK
<1> SUFFICES ASSUME Init PROVE TypeOK
  OBVIOUS
<1>1. <<>> \in [IDs -> {Empty} \cup OfKind("response")]
  BY DEF Init, IDs
<1>2. /\ <<>> \in Seq(OfKind("request") \cup Replies)
      /\ <<>> \in Seq(OfKind("response") \cup Messages \cup [kind : {"end"}])
  OBVIOUS
<1>3. Empty \in [kind : Outcomes]
  BY DEF Empty, Outcomes
<1>4. Len(<<>>) <= PipeSize /\ 0 \in 0..MaxRepeats
  BY BoundAssumption
<1>5. slot \in [IDs -> {Empty} \cup OfKind("response")]
  BY <1>1 DEF Init
<1>6. /\ toHost \in Seq(OfKind("request") \cup Replies)
      /\ fromHost \in Seq(OfKind("response") \cup Messages \cup [kind : {"end"}])
  BY <1>2 DEF Init
<1>7. result \in [Threads -> [kind : Outcomes] \cup OfKind("response")]
  BY <1>3 DEF Init
<1>8. thread \in [Threads -> Standing]
  BY DEF Init, Standing
<1> QED BY <1>4, <1>5, <1>6, <1>7, <1>8 DEF Init, TypeOK

\* The types of a step that makes no call.
LEMMA TypeServe == ASSUME TypeOK, Marked, Resuming, Serve PROVE TypeOK'
<1> DEFINE From == OfKind("response") \cup Messages \cup [kind : {"end"}]
<1>1. nextID' = nextID
  BY DEF Serve, ReadResponse, Resume, Spawn, ReadEnd, CloseMark, CloseSignal, client
<1>2. IDs' = IDs /\ \A k : OfKind(k)' = OfKind(k)
  BY <1>1 DEF IDs, OfKind
<1>3. ASSUME fromHost # <<>>
      PROVE  /\ Head(fromHost) \in From /\ Tail(fromHost) \in Seq(From)
             /\ Len(Tail(fromHost)) <= PipeSize
  BY <1>3, AfterTail, LenProperties, BoundAssumption DEF TypeOK
<1>4. CASE ReadResponse
  <2>1. Head(fromHost) \in OfKind("response")
    BY <1>3, <1>4, SMT DEF ReadResponse, Messages
  <2> QED BY <1>2, <1>3, <1>4, <2>1 DEF TypeOK, ReadResponse, client, serve, callers, host
<1>5. CASE Resume
  <2>1. resuming \in OfKind("response") /\ resuming.id \in IDs
    BY <1>5, EmptyKinds DEF Resume, ResumeEnabled, Resuming, TypeOK
  <2>2. slot' \in [IDs -> {Empty} \cup OfKind("response")]
    BY <1>5, <2>1 DEF Resume, TypeOK
  <2> QED BY <1>2, <1>5, <2>2 DEF TypeOK, Resume, callers, host
<1>6. CASE Spawn
  <2>1. Head(fromHost).m \in Inbound
    BY <1>3, <1>6, EmptyKinds, SMT DEF Spawn, Messages, OfKind
  <2> QED BY <1>2, <1>3, <1>6, <2>1 DEF TypeOK, Spawn, Standing, client, serve, host
<1>7. CASE ReadEnd
  BY <1>2, <1>3, <1>7 DEF TypeOK, ReadEnd, client, callers, host
<1>8. CASE CloseMark
  BY <1>2, <1>8 DEF TypeOK, CloseMark, callers, host
<1>9. CASE CloseSignal
  BY <1>2, <1>9 DEF TypeOK, CloseSignal, Marked, callers, host
<1> QED BY <1>4, <1>5, <1>6, <1>7, <1>8, <1>9 DEF Serve

\* The types of a step of a call or of a handler.
LEMMA TypeCall ==
  ASSUME TypeOK, IDWhileInCall, NEW t \in Threads, Call(t)
  PROVE  TypeOK'
<1>1. CASE Register(t)
  <2>1. CASE closed
    <3>1. nextID' = nextID /\ IDs' = IDs /\ \A k : OfKind(k)' = OfKind(k)
      BY <1>1, <2>1 DEF Register, IDs, OfKind
    <3> QED BY <1>1, <2>1, <3>1 DEF TypeOK, Register, serve, host
  <2>2. CASE ~closed
    <3>1. /\ nextID' = nextID + 1 /\ nextID' \in Nat /\ IDs \subseteq IDs' /\ nextID' \in IDs'
          /\ IDs' = IDs \cup {nextID + 1}
      BY <1>1, <2>2 DEF TypeOK, Register, NewID, IDs
    <3>2. \A k : OfKind(k) \subseteq OfKind(k)'
      BY <3>1 DEF OfKind
    <3>3. slot' \in [IDs' -> {Empty} \cup OfKind("response")']
      BY <1>1, <2>2, <3>1, <3>2 DEF TypeOK, Register, NewID
    <3>4. /\ toHost' \in Seq((OfKind("request") \cup Replies)')
          /\ fromHost' \in Seq((OfKind("response") \cup Messages \cup [kind : {"end"}])')
      <4>1. toHost' = toHost /\ fromHost' = fromHost
        BY <1>1 DEF Register
      <4>2. /\ OfKind("request") \cup Replies \subseteq (OfKind("request") \cup Replies)'
            /\ OfKind("response") \cup Messages \cup [kind : {"end"}]
                 \subseteq (OfKind("response") \cup Messages \cup [kind : {"end"}])'
        BY <3>2 DEF Replies, Messages
      <4> QED BY <4>1, <4>2, SeqMonotonic DEF TypeOK
    <3>5. /\ pending' \subseteq IDs' /\ callID' \in [Threads -> {0} \cup IDs']
          /\ thread' \in [Threads -> Standing]
      BY <1>1, <2>2, <3>1 DEF TypeOK, Register, NewID, Standing
    <3>6. calls' \in [Threads -> Nat]
      BY <1>1 DEF TypeOK, Register
    <3>7. /\ result' \in [Threads -> [kind : Outcomes] \cup OfKind("response")']
          /\ resuming' \in {Empty} \cup OfKind("response")'
          /\ hostHolds' \in {Empty} \cup OfKind("request")'
      BY <1>1, <3>2 DEF TypeOK, Register, serve, host
    <3> QED BY <1>1, <3>1, <3>3, <3>4, <3>5, <3>6, <3>7 DEF TypeOK, Register, serve, host
  <2> QED BY <2>1, <2>2
<1>2. CASE ~Register(t)
  <2>1. nextID' = nextID /\ IDs' = IDs /\ \A k : OfKind(k)' = OfKind(k)
    BY <1>2 DEF Call, StartRequest, SendRequest, Receive, SeeDone, ContextDone, Forget,
                client, IDs, OfKind
  <2>2. CASE SendRequest(t)
    <3>1. CASE hostDone /\ Return(t, [kind |-> "broken"]) /\ UNCHANGED toHost
      BY <2>1, <2>2, <3>1
         DEF TypeOK, SendRequest, Return, Standing, Outcomes, client, serve, host
    <3>2. CASE /\ Len(toHost) < PipeSize
               /\ toHost' = Append(toHost, Request(callID[t], t, calls[t]))
               /\ thread' = [thread EXCEPT ![t] = "waiting"] /\ UNCHANGED result
      <4>1. callID[t] \in IDs
        BY <2>2 DEF TypeOK, SendRequest, IDWhileInCall, InCall
      <4>2. Request(callID[t], t, calls[t]) \in OfKind("request")
        BY <4>1 DEF TypeOK, Request, OfKind
      <4>3. toHost' \in Seq(OfKind("request") \cup Replies) /\ Len(toHost') <= PipeSize
        BY <3>2, <4>2, AppendProperties, LenProperties, BoundAssumption DEF TypeOK
      <4> QED BY <2>1, <2>2, <3>2, <4>3 DEF TypeOK, SendRequest, Standing, client, serve, host
    <3> QED BY <2>2, <3>1, <3>2 DEF SendRequest
  <2>3. CASE Receive(t)
    <3>1. slot[callID[t]] \in OfKind("response")
      BY <2>3 DEF TypeOK, Receive, IDWhileInCall, InCall
    <3>2. slot' \in [IDs -> {Empty} \cup OfKind("response")]
      BY <2>3 DEF TypeOK, Receive
    <3> QED BY <2>1, <2>3, <3>1, <3>2 DEF TypeOK, Receive, Return, Standing, serve, host
  <2>4. CASE SeeDone(t)
    BY <2>1, <2>4 DEF TypeOK, SeeDone, Return, Standing, Outcomes, client, serve, host
  <2>5. CASE ContextDone(t)
    BY <2>1, <2>5 DEF TypeOK, ContextDone, Return, Standing, Outcomes, client, serve, host
  <2>6. CASE Forget(t)
    <3>1. Empty \in [kind : Outcomes]
      BY DEF Empty, Outcomes
    <3> QED BY <2>1, <2>6, <3>1 DEF TypeOK, Forget, Forgotten, Standing, serve, host
  <2>7. CASE StartRequest(t)
    <3>1. thread' \in [Threads -> Standing]
      BY <2>7 DEF TypeOK, StartRequest, Return, Standing
    <3>2. [kind |-> "ErrClosed"] \in [kind : Outcomes]
      BY DEF Outcomes
    <3>3. result' = result \/ result' = [result EXCEPT ![t] = [kind |-> "ErrClosed"]]
      BY <2>7 DEF StartRequest, Return
    <3>4. result' \in [Threads -> [kind : Outcomes] \cup OfKind("response")]
      BY <3>2, <3>3 DEF TypeOK
    <3> QED BY <2>1, <2>7, <3>1, <3>4 DEF TypeOK, StartRequest, client, serve, host
  <2> QED BY <1>2, <2>2, <2>3, <2>4, <2>5, <2>6, <2>7 DEF Call
<1> QED BY <1>1, <1>2

LEMMA TypeReply == ASSUME TypeOK, NEW m \in Inbound, Respond(m) PROVE TypeOK'
<1>1. nextID' = nextID /\ IDs' = IDs /\ \A k : OfKind(k)' = OfKind(k)
  BY DEF Respond, Handled, StartReply, Reply, client, IDs, OfKind
<1>2. thread' \in [Threads -> Standing]
  BY DEF TypeOK, Respond, Handled, StartReply, Reply, Standing, Threads
<1>3. toHost' \in Seq(OfKind("request") \cup Replies) /\ Len(toHost') <= PipeSize
  <2>1. [kind |-> "reply", m |-> m] \in Replies
    BY DEF Replies
  <2>2. CASE UNCHANGED toHost
    BY <2>2 DEF TypeOK
  <2>3. CASE Len(toHost) < PipeSize /\ toHost' = Append(toHost, [kind |-> "reply", m |-> m])
    BY <2>1, <2>3, AppendProperties, LenProperties, BoundAssumption DEF TypeOK
  <2> QED BY <2>2, <2>3 DEF Respond, Handled, StartReply, Reply
<1> QED BY <1>1, <1>2, <1>3
        DEF TypeOK, Respond, Handled, StartReply, Reply, client, serve, host

LEMMA TypeHost ==
  ASSUME TypeOK, HostTake \/ HostAnswer \/ (\E m \in Inbound : HostSays(m)) \/ HostEnds
  PROVE  TypeOK'
<1> DEFINE From == OfKind("response") \cup Messages \cup [kind : {"end"}]
<1>1. nextID' = nextID /\ IDs' = IDs /\ \A k : OfKind(k)' = OfKind(k)
  BY DEF HostTake, HostAnswer, HostSays, HostEnds, client, IDs, OfKind
<1>2. ASSUME NEW x \in From, Len(fromHost) < PipeSize
      PROVE  Append(fromHost, x) \in Seq(From) /\ Len(Append(fromHost, x)) <= PipeSize
  BY <1>2, AppendProperties, LenProperties, BoundAssumption DEF TypeOK
<1>3. CASE HostTake
  <2>1. /\ Head(toHost) \in OfKind("request") \cup Replies
        /\ Tail(toHost) \in Seq(OfKind("request") \cup Replies) /\ Len(Tail(toHost)) <= PipeSize
    BY <1>3, AfterTail, LenProperties, BoundAssumption DEF TypeOK, HostTake
  <2>2. hostHolds' \in {Empty} \cup OfKind("request")
    BY <1>3, <2>1, SMT DEF HostTake, Replies
  <2> QED BY <1>1, <1>3, <2>1, <2>2 DEF TypeOK, HostTake, client, serve, callers
<1>4. CASE HostAnswer
  <2>1. Response(hostHolds) \in OfKind("response")
    BY <1>4 DEF HostAnswer, TypeOK, Response, OfKind
  <2>2. fromHost' \in Seq(From) /\ Len(fromHost') <= PipeSize
    BY <1>2, <1>4, <2>1 DEF HostAnswer
  <2>3. repeats' \in 0..MaxRepeats
    BY <1>4, BoundAssumption DEF TypeOK, HostAnswer
  <2> QED BY <1>1, <1>4, <2>2, <2>3 DEF TypeOK, HostAnswer, client, serve, callers
<1>5. ASSUME NEW m \in Inbound, HostSays(m) PROVE TypeOK'
  <2>1. [kind |-> "message", m |-> m] \in From
    BY DEF Messages
  <2> QED BY <1>1, <1>2, <1>5, <2>1 DEF TypeOK, HostSays, client, serve, callers, host
<1>6. CASE HostEnds
  <2>1. [kind |-> "end"] \in From
    OBVIOUS
  <2> QED BY <1>1, <1>2, <1>6, <2>1 DEF TypeOK, HostEnds, client, serve, callers
<1> QED BY <1>3, <1>4, <1>5, <1>6

-----------------------------------------------------------------------------
(* The table of pending calls.                                             *)

\* A step that leaves the calls under way alone.
SameCalls ==
  /\ pending' = pending /\ callID' = callID
  /\ \A t \in Threads : InCall(t)' <=> InCall(t)

\* Who is in which call: what a step may do to it.
CallsKept == SameCalls /\ calls' = calls

LEMMA OthersKeepCalls ==
  ASSUME TypeOK, MessagesOnce, Next, \A t \in Threads : ~Register(t) /\ ~Forget(t)
  PROVE  CallsKept
<1> USE DEF CallsKept, SameCalls, InCall
<1>1. CASE Serve
  <2>1. CASE Spawn
    <3>1. /\ Head(fromHost) = fromHost[1] /\ 1 \in DOMAIN fromHost
          /\ fromHost[1] \in OfKind("response") \cup Messages \cup [kind : {"end"}]
      BY <2>1, AfterTail DEF Spawn, TypeOK
    <3>2. thread[Head(fromHost).m] = "unborn" /\ Head(fromHost).m \in Threads
      BY <2>1, <3>1, SMT DEF MessagesOnce, Spawn, Messages, OfKind, Threads
    <3> QED BY <2>1, <3>2 DEF TypeOK, Spawn, client
  <2>2. CASE ~Spawn
    BY <1>1, <2>2
       DEF Serve, ReadResponse, Resume, ReadEnd, CloseMark, CloseSignal, client, callers
  <2> QED BY <2>1, <2>2
<1>2. ASSUME NEW t \in Threads, Call(t) PROVE CallsKept
  <2>1. CASE StartRequest(t) \/ SendRequest(t)
    BY <2>1 DEF TypeOK, StartRequest, SendRequest, Return, client
  <2>2. CASE Receive(t)
    BY <2>2 DEF TypeOK, Receive, Return
  <2>3. CASE SeeDone(t)
    BY <2>3 DEF TypeOK, SeeDone, Return, client
  <2>4. CASE ContextDone(t)
    BY <2>4 DEF TypeOK, ContextDone, Return, client
  <2> QED BY <1>2, <2>1, <2>2, <2>3, <2>4 DEF Call
<1>3. ASSUME NEW m \in Inbound, Respond(m) PROVE CallsKept
  BY <1>3 DEF TypeOK, Respond, Handled, StartReply, Reply, Threads, client
<1>4. CASE HostTake \/ HostAnswer \/ (\E m \in Inbound : HostSays(m)) \/ HostEnds
  BY <1>4 DEF HostTake, HostAnswer, HostSays, HostEnds, client, callers
<1> QED BY <1>1, <1>2, <1>3, <1>4 DEF Next

\* registerPending either refuses or starts a call under an id never used.
LEMMA RegisterEffect ==
  ASSUME IInv, NEW t \in Threads, Register(t)
  PROVE  /\ ~InCall(t) /\ \A u \in Threads \ {t} : calls'[u] = calls[u]
         /\ \A u \in Threads \ {t} : (InCall(u)' <=> InCall(u)) /\ callID'[u] = callID[u]
         /\ \/ closed /\ SameCalls
            \/ /\ InCall(t)' /\ callID'[t] = nextID + 1 /\ nextID + 1 \notin IDs /\ nextID + 1 # 0
               /\ pending' = pending \cup {nextID + 1}
<1> USE DEF IInv, PendingExact, TypeOK, InCall
<1>1. /\ ~InCall(t) /\ \A u \in Threads \ {t} : calls'[u] = calls[u]
  BY DEF Register
<1>2. CASE closed
  BY <1>1, <1>2 DEF Register, SameCalls
<1>3. CASE ~closed
  <2>1. nextID + 1 \notin IDs /\ nextID + 1 # 0
    BY DEF IDs
  <2> QED BY <1>1, <1>3, <2>1 DEF Register, NewID
<1> QED BY <1>2, <1>3

LEMMA ForgetEffect ==
  ASSUME IInv, NEW t \in Threads, Forget(t)
  PROVE  /\ InCall(t) /\ ~InCall(t)' /\ calls' = calls /\ callID'[t] = 0
         /\ \A u \in Threads \ {t} : (InCall(u)' <=> InCall(u)) /\ callID'[u] = callID[u]
         /\ pending' = pending \ {callID[t]}
BY DEF IInv, PendingExact, TypeOK, InCall, Forget, Forgotten

\* The second and third conjunct of PendingExact, and IDWhileInCall.
Table ==
  /\ pending = {callID[t] : t \in {u \in Threads : InCall(u)}}
  /\ \A t, u \in Threads : t # u /\ InCall(t) /\ InCall(u) => callID[t] # callID[u]
  /\ IDWhileInCall

LEMMA TableStep == ASSUME IInv, Next PROVE Table'
<1>1. Table
  BY DEF IInv, PendingExact, Table
<1>2. CASE SameCalls
  BY <1>1, <1>2, Zenon DEF Table, SameCalls, IDWhileInCall
<1>3. ASSUME NEW t \in Threads, Register(t), ~SameCalls PROVE Table'
  <2>1. /\ ~InCall(t) /\ InCall(t)' /\ callID'[t] = nextID + 1 /\ nextID + 1 \notin IDs
        /\ nextID + 1 # 0 /\ pending' = pending \cup {nextID + 1}
        /\ \A u \in Threads \ {t} : (InCall(u)' <=> InCall(u)) /\ callID'[u] = callID[u]
    BY <1>3, RegisterEffect
  <2>2. pending' = {callID'[v] : v \in {u \in Threads : InCall(u)'}}
    <3>1. ASSUME NEW i PROVE i \in pending' <=> \E u \in Threads : InCall(u)' /\ i = callID'[u]
      BY <1>1, <2>1 DEF Table
    <3> QED BY <3>1
  <2>3. \A u \in Threads : InCall(u) => callID[u] \in IDs
    BY DEF IInv, PendingExact, TypeOK, IDWhileInCall
  <2>4. IDWhileInCall'
    BY <1>1, <2>1 DEF Table, IDWhileInCall
  <2>5. \A v, u \in Threads : v # u /\ InCall(v)' /\ InCall(u)' => callID'[v] # callID'[u]
    BY <1>1, <2>1, <2>3 DEF Table
  <2> QED BY <2>2, <2>4, <2>5 DEF Table
<1>4. ASSUME NEW t \in Threads, Forget(t) PROVE Table'
  <2>1. /\ InCall(t) /\ ~InCall(t)' /\ callID'[t] = 0
        /\ \A u \in Threads \ {t} : (InCall(u)' <=> InCall(u)) /\ callID'[u] = callID[u]
        /\ pending' = pending \ {callID[t]}
    BY <1>4, ForgetEffect
  <2>2. pending' = {callID'[v] : v \in {u \in Threads : InCall(u)'}}
    <3>1. ASSUME NEW i PROVE i \in pending' <=> \E u \in Threads : InCall(u)' /\ i = callID'[u]
      BY <1>1, <2>1 DEF Table
    <3> QED BY <3>1
  <2>3. IDWhileInCall'
    BY <1>1, <2>1 DEF Table, IDWhileInCall
  <2>4. \A v, u \in Threads : v # u /\ InCall(v)' /\ InCall(u)' => callID'[v] # callID'[u]
    BY <1>1, <2>1 DEF Table
  <2> QED BY <2>2, <2>3, <2>4 DEF Table
<1>5. CASE \A t \in Threads : ~Register(t) /\ ~Forget(t)
  BY <1>2, <1>5, OthersKeepCalls DEF IInv, PendingExact, CallsKept
<1> QED BY <1>2, <1>3, <1>4, <1>5

-----------------------------------------------------------------------------
(* What carries an id belongs to its call.                                 *)

\* The same after a step, of what r was before it.
StillBelongs(r) ==
  \A t \in Threads : InCall(t)' /\ callID'[t] = r.id => r.by = t /\ r.n = calls'[t]

\* No step hands an id in use to another call.
LEMMA BelongsKept ==
  ASSUME IInv, Next
  PROVE  \A r : r.id \in IDs /\ Belongs(r) => StillBelongs(r)
<1> SUFFICES ASSUME NEW r, r.id \in IDs, Belongs(r),
                    NEW u \in Threads, InCall(u)', callID'[u] = r.id
             PROVE  r.by = u /\ r.n = calls'[u]
  BY DEF StillBelongs
<1>1. ASSUME InCall(u), callID'[u] = callID[u], calls'[u] = calls[u]
      PROVE  r.by = u /\ r.n = calls'[u]
  BY <1>1 DEF Belongs
<1>2. ASSUME NEW t \in Threads, Register(t) PROVE r.by = u /\ r.n = calls'[u]
  <2>1. CASE u = t
    BY <1>2, <2>1, RegisterEffect, Zenon DEF SameCalls
  <2>2. CASE u # t
    BY <1>1, <1>2, <2>2, RegisterEffect
  <2> QED BY <2>1, <2>2
<1>3. ASSUME NEW t \in Threads, Forget(t) PROVE r.by = u /\ r.n = calls'[u]
  BY <1>1, <1>3, ForgetEffect
<1>4. CASE \A t \in Threads : ~Register(t) /\ ~Forget(t)
  BY <1>1, <1>4, OthersKeepCalls, Zenon DEF IInv, PendingExact, CallsKept, SameCalls
<1> QED BY <1>2, <1>3, <1>4

\* The pipe to the host: a new request carries the id of its call.
LEMMA ToHostBelongs ==
  ASSUME IInv, Next
  PROVE  \A i \in DOMAIN toHost' : toHost'[i].kind = "request" => StillBelongs(toHost'[i])
<1> DEFINE To == OfKind("request") \cup Replies
<1>1. TypeOK /\ toHost \in Seq(To) /\ DOMAIN toHost = 1..Len(toHost)
  BY LenProperties DEF IInv, PendingExact, TypeOK
<1>2. ASSUME NEW i \in DOMAIN toHost, toHost[i].kind = "request"
      PROVE  toHost[i].id \in IDs /\ Belongs(toHost[i]) /\ StillBelongs(toHost[i])
  <2>1. toHost[i] \in To
    BY <1>1, ElementOfSeq
  <2>2. toHost[i].id \in IDs
    BY <1>2, <2>1 DEF OfKind, Replies
  <2> QED BY <1>2, <2>2, BelongsKept DEF IInv, Carried
<1>3. CASE toHost' = toHost
  BY <1>2, <1>3
<1>4. CASE HostTake
  <2>1. toHost' = Tail(toHost) /\ \A i \in DOMAIN Tail(toHost) :
          i + 1 \in DOMAIN toHost /\ Tail(toHost)[i] = toHost[i + 1]
    BY <1>1, <1>4, AfterTail DEF HostTake
  <2> QED BY <1>2, <2>1
<1>5. ASSUME NEW x \in To, toHost' = Append(toHost, x), x.kind = "request" => StillBelongs(x)
      PROVE  \A i \in DOMAIN toHost' : toHost'[i].kind = "request" => StillBelongs(toHost'[i])
  BY <1>1, <1>2, <1>5, AfterAppend
<1>6. ASSUME NEW t \in Threads, SendRequest(t), toHost' # toHost
      PROVE  \A i \in DOMAIN toHost' : toHost'[i].kind = "request" => StillBelongs(toHost'[i])
  <2> DEFINE r == Request(callID[t], t, calls[t])
  <2>1. toHost' = Append(toHost, r)
    BY <1>6 DEF SendRequest
  <2>2. callID[t] \in IDs
    BY <1>1, <1>6 DEF IInv, IDWhileInCall, SendRequest, InCall, TypeOK
  <2>3. r \in To /\ r.id \in IDs
    BY <1>1, <2>2 DEF Request, OfKind, TypeOK
  <2>4. Belongs(r)
    BY <1>6 DEF IInv, PendingExact, Belongs, Request, SendRequest, InCall
  <2>5. StillBelongs(r)
    BY <2>3, <2>4, BelongsKept
  <2> QED BY <1>5, <2>1, <2>3, <2>5
<1>7. ASSUME NEW m \in Inbound, Respond(m), toHost' # toHost
      PROVE  \A i \in DOMAIN toHost' : toHost'[i].kind = "request" => StillBelongs(toHost'[i])
  <2>1. [kind |-> "reply", m |-> m] \in To
    BY DEF Replies
  <2> QED BY <1>5, <1>7, <2>1 DEF Respond, Handled, StartReply, Reply
<1>8. CASE Serve \/ HostAnswer \/ (\E m \in Inbound : HostSays(m)) \/ HostEnds
  BY <1>3, <1>8 DEF Serve, ReadResponse, Resume, Spawn, ReadEnd, CloseMark, CloseSignal,
                    HostAnswer, HostSays, HostEnds
<1>9. ASSUME NEW t \in Threads, Call(t), ~SendRequest(t) PROVE toHost' = toHost
  BY <1>9 DEF Call, Register, StartRequest, Receive, SeeDone, ContextDone, Forget
<1> QED BY <1>3, <1>4, <1>6, <1>7, <1>8, <1>9 DEF Next

\* The request the host is answering.
LEMMA HostBelongs ==
  ASSUME IInv, Next
  PROVE  hostHolds' # Empty => StillBelongs(hostHolds')
<1>1. hostHolds # Empty => hostHolds.id \in IDs /\ StillBelongs(hostHolds)
  BY BelongsKept, EmptyKinds DEF IInv, Carried, PendingExact, TypeOK
<1>2. CASE HostTake
  <2> DEFINE To == OfKind("request") \cup Replies
  <2>1. Head(toHost) \in To /\ 1 \in DOMAIN toHost /\ Head(toHost) = toHost[1]
    BY <1>2, AfterTail DEF HostTake, IInv, PendingExact, TypeOK
  <2>2. Head(toHost).kind = "request" => Head(toHost).id \in IDs
    BY <2>1 DEF OfKind, Replies
  <2>3. Head(toHost).kind = "request" => StillBelongs(Head(toHost))
    BY <2>1, <2>2, BelongsKept DEF IInv, Carried
  <2> QED BY <1>2, <2>3 DEF HostTake
<1>3. CASE ~HostTake
  <2>1. hostHolds' = hostHolds \/ hostHolds' = Empty
    BY <1>3 DEF Next, Serve, ReadResponse, Resume, Spawn, ReadEnd, CloseMark, CloseSignal,
                Call, Register, StartRequest, SendRequest, Receive, SeeDone, ContextDone,
                Forget, Respond, Handled, StartReply, Reply,
                HostAnswer, HostSays, HostEnds, host
  <2> QED BY <1>1, <2>1
<1> QED BY <1>2, <1>3

\* The pipe from the host: the answer carries the id of the request.
LEMMA FromHostBelongs ==
  ASSUME IInv, Next
  PROVE  \A i \in DOMAIN fromHost' : fromHost'[i].kind = "response" => StillBelongs(fromHost'[i])
<1> DEFINE From == OfKind("response") \cup Messages \cup [kind : {"end"}]
           Goal == \A i \in DOMAIN fromHost' :
                     fromHost'[i].kind = "response" => StillBelongs(fromHost'[i])
<1>1. TypeOK /\ fromHost \in Seq(From) /\ DOMAIN fromHost = 1..Len(fromHost)
  BY LenProperties DEF IInv, PendingExact, TypeOK
<1>2. ASSUME NEW i \in DOMAIN fromHost, fromHost[i].kind = "response"
      PROVE  StillBelongs(fromHost[i])
  <2>1. fromHost[i] \in From
    BY <1>1, ElementOfSeq
  <2>2. fromHost[i].id \in IDs
    BY <1>2, <2>1 DEF OfKind, Messages
  <2> QED BY <1>2, <2>2, BelongsKept DEF IInv, Carried
<1>3. CASE fromHost' = fromHost
  BY <1>2, <1>3
<1>4. CASE ReadResponse \/ Spawn \/ ReadEnd
  <2>1. fromHost' = Tail(fromHost) /\ \A i \in DOMAIN Tail(fromHost) :
          i + 1 \in DOMAIN fromHost /\ Tail(fromHost)[i] = fromHost[i + 1]
    BY <1>1, <1>4, AfterTail DEF ReadResponse, Spawn, ReadEnd
  <2> QED BY <1>2, <2>1
<1>5. ASSUME NEW x \in From, fromHost' = Append(fromHost, x),
             x.kind = "response" => StillBelongs(x)
      PROVE  Goal
  BY <1>1, <1>2, <1>5, AfterAppend
<1>6. CASE HostAnswer
  <2>1. hostHolds \in OfKind("request") /\ StillBelongs(hostHolds)
    BY <1>6, BelongsKept, EmptyKinds DEF HostAnswer, IInv, Carried, PendingExact, TypeOK
  <2>2. Response(hostHolds) \in From /\ StillBelongs(Response(hostHolds))
    BY <2>1 DEF Response, OfKind, StillBelongs
  <2> QED BY <1>5, <1>6, <2>2 DEF HostAnswer
<1>7. ASSUME NEW m \in Inbound, HostSays(m) PROVE Goal
  <2>1. [kind |-> "message", m |-> m] \in From
    BY DEF Messages
  <2> QED BY <1>5, <1>7, <2>1 DEF HostSays
<1>8. CASE HostEnds
  <2>1. [kind |-> "end"] \in From
    OBVIOUS
  <2> QED BY <1>5, <1>8, <2>1 DEF HostEnds
<1>9. CASE Resume \/ CloseMark \/ CloseSignal \/ HostTake \/ (\E m \in Inbound : Respond(m))
  BY <1>3, <1>9
     DEF Resume, CloseMark, CloseSignal, HostTake, Respond, Handled, StartReply, Reply
<1>10. ASSUME NEW t \in Threads, Call(t) PROVE Goal
  BY <1>3, <1>10 DEF Call, Register, StartRequest, SendRequest, Receive, SeeDone,
                     ContextDone, Forget
<1> QED BY <1>4, <1>6, <1>7, <1>8, <1>9, <1>10 DEF Next, Serve

\* What resume holds is an answer that was on the pipe.
LEMMA ResumingBelongs ==
  ASSUME IInv, Next
  PROVE  (resuming' # Empty => StillBelongs(resuming')) /\ Resuming'
<1>1. resuming # Empty => resuming.id \in IDs /\ StillBelongs(resuming)
  BY BelongsKept, EmptyKinds DEF IInv, Carried, PendingExact, TypeOK
<1>2. CASE ReadResponse
  <2> DEFINE From == OfKind("response") \cup Messages \cup [kind : {"end"}]
  <2>1. /\ Head(fromHost) \in From /\ 1 \in DOMAIN fromHost /\ Head(fromHost) = fromHost[1]
        /\ Head(fromHost).kind = "response"
    BY <1>2, AfterTail DEF ReadResponse, IInv, PendingExact, TypeOK
  <2>2. Head(fromHost).id \in IDs /\ Head(fromHost) # Empty
    BY <2>1, EmptyKinds DEF OfKind, Messages
  <2>3. StillBelongs(Head(fromHost))
    BY <2>1, <2>2, BelongsKept DEF IInv, Carried
  <2> QED BY <1>1, <1>2, <2>2, <2>3 DEF ReadResponse, ReaderFree, IInv, Resuming, serve
<1>3. CASE Resume
  BY <1>3 DEF Resume, Resuming
<1>4. CASE ~ReadResponse /\ ~Resume
  <2>1. resuming' = resuming /\ (reader' = "resume" <=> reader = "resume")
    BY <1>4 DEF Next, Serve, Spawn, ReadEnd, CloseMark, CloseSignal, ReaderFree,
                Call, Register, StartRequest, SendRequest, Receive, SeeDone, ContextDone,
                Forget, Respond, Handled, StartReply, Reply,
                HostTake, HostAnswer, HostSays, HostEnds, serve
  <2> QED BY <1>1, <2>1 DEF IInv, Resuming
<1> QED BY <1>2, <1>3, <1>4

\* A slot holds what resume put there: an answer to its own id.
LEMMA SlotBelongs ==
  ASSUME IInv, Next
  PROVE  \A i \in IDs' : slot'[i] # Empty => slot'[i].id = i /\ StillBelongs(slot'[i])
<1>0. TypeOK /\ SlotOwnID
  BY DEF IInv, PendingExact
<1>1. \A i \in IDs : slot[i] # Empty => slot[i].id = i /\ StillBelongs(slot[i])
  BY <1>0, BelongsKept DEF IInv, Carried, SlotOwnID
<1>2. CASE Resume
  <2>1. resuming # Empty /\ resuming.id \in IDs /\ StillBelongs(resuming) /\ IDs' = IDs
    BY <1>0, <1>2, BelongsKept, EmptyKinds
       DEF IInv, Carried, Resuming, Resume, ResumeEnabled, TypeOK, IDs
  <2> QED BY <1>0, <1>1, <1>2, <2>1 DEF Resume, TypeOK
<1>3. ASSUME NEW t \in Threads, Register(t)
      PROVE  \A i \in IDs' : slot'[i] # Empty => slot'[i].id = i /\ StillBelongs(slot'[i])
  <2>1. CASE closed
    BY <1>1, <1>3, <2>1 DEF Register, IDs
  <2>2. CASE ~closed
    <3>1. IDs' = IDs \cup {nextID + 1} /\ DOMAIN slot = IDs
      BY <1>0, <1>3, <2>2 DEF Register, NewID, IDs, TypeOK
    <3> QED BY <1>1, <1>3, <2>2, <3>1 DEF Register, NewID
  <2> QED BY <2>1, <2>2
<1>4. ASSUME NEW t \in Threads, Receive(t)
      PROVE  \A i \in IDs' : slot'[i] # Empty => slot'[i].id = i /\ StillBelongs(slot'[i])
  <2>1. IDs' = IDs
    BY <1>4 DEF Receive, IDs
  <2> QED BY <1>0, <1>1, <1>4, <2>1 DEF Receive, TypeOK
<1>5. CASE ~Resume /\ \A t \in Threads : ~Register(t) /\ ~Receive(t)
  <2>1. slot' = slot /\ IDs' = IDs
    BY <1>5 DEF Next, Serve, ReadResponse, Spawn, ReadEnd, CloseMark, CloseSignal,
                Call, StartRequest, SendRequest, SeeDone, ContextDone, Forget, Respond,
                Handled, StartReply, Reply,
                HostTake, HostAnswer, HostSays, HostEnds, client, IDs
  <2> QED BY <1>1, <2>1
<1> QED BY <1>2, <1>3, <1>4, <1>5

LEMMA CarriedStep == ASSUME IInv, Next PROVE Carried' /\ Resuming' /\ SlotOwnID'
BY ToHostBelongs, HostBelongs, FromHostBelongs, ResumingBelongs, SlotBelongs
   DEF Carried, Belongs, StillBelongs, SlotOwnID

-----------------------------------------------------------------------------
(* The rest of the invariant.                                              *)

LEMMA MessagesStep == ASSUME IInv, Next PROVE MessagesOnce'
<1> DEFINE From == OfKind("response") \cup Messages \cup [kind : {"end"}]
<1>1. TypeOK /\ fromHost \in Seq(From) /\ DOMAIN fromHost = 1..Len(fromHost)
  BY LenProperties DEF IInv, PendingExact, TypeOK
<1>2. \A i \in DOMAIN fromHost : fromHost[i].kind = "message" => fromHost[i].m \in Inbound
  <2>1. \A i \in DOMAIN fromHost : fromHost[i] \in From
    BY <1>1, ElementOfSeq
  <2> QED BY <2>1, SMT DEF OfKind, Messages
<1>3. ASSUME \A m \in Inbound : thread[m] = "unborn" => thread'[m] = "unborn",
fromHost' = fromHost
      PROVE  MessagesOnce'
  BY <1>2, <1>3 DEF IInv, MessagesOnce
<1>4. ASSUME NEW x \in From, fromHost' = Append(fromHost, x), thread' = thread,
             x.kind = "message" => /\ thread[x.m] = "unborn"
                                   /\ \A i \in DOMAIN fromHost : fromHost[i] # x
      PROVE  MessagesOnce'
  <2>1. ASSUME NEW i \in DOMAIN fromHost'
        PROVE  \/ i \in DOMAIN fromHost /\ fromHost'[i] = fromHost[i]
               \/ i = Len(fromHost) + 1 /\ fromHost'[i] = x
    <3>1. i \in DOMAIN Append(fromHost, x)
      BY <1>4, <2>1
    <3> HIDE DEF From
    <3> QED BY <1>1, <1>4, <3>1, AfterAppend, Zenon
  <2> QED BY <1>4, <2>1 DEF IInv, MessagesOnce
<1>5. ASSUME fromHost # <<>>, fromHost' = Tail(fromHost)
      PROVE  /\ 1 \in DOMAIN fromHost /\ Head(fromHost) = fromHost[1]
             /\ \A i \in DOMAIN fromHost' :
                  /\ i \in Nat \ {0} /\ i + 1 \in DOMAIN fromHost
                  /\ fromHost'[i] = fromHost[i + 1]
  <2>1. \A i \in DOMAIN Tail(fromHost) : i \in Nat \ {0}
    BY <1>1, <1>5, AfterTail, LenProperties
  <2> QED BY <1>1, <1>5, <2>1, AfterTail
<1>6. CASE ReadResponse \/ ReadEnd
  <2>1. fromHost # <<>> /\ fromHost' = Tail(fromHost) /\ thread' = thread
    BY <1>6 DEF ReadResponse, ReadEnd, callers
  <2> QED BY <1>5, <2>1 DEF IInv, MessagesOnce
<1>7. CASE Spawn
  <2>1. /\ fromHost # <<>> /\ fromHost' = Tail(fromHost) /\ Head(fromHost).kind = "message"
        /\ thread' = [thread EXCEPT ![Head(fromHost).m] = "running"]
    BY <1>7 DEF Spawn
  <2>2. \A i \in DOMAIN fromHost : fromHost[i].kind = "message" =>
           fromHost[i] = [kind |-> "message", m |-> fromHost[i].m]
    <3>1. \A i \in DOMAIN fromHost : fromHost[i] \in From
      BY <1>1, ElementOfSeq
    <3> QED BY <3>1, SMT DEF OfKind, Messages
  <2>3. \A i \in DOMAIN fromHost' :
           fromHost'[i].kind = "message" => fromHost'[i].m # Head(fromHost).m
    BY <1>5, <2>1, <2>2 DEF IInv, MessagesOnce
  <2>4. \A i \in DOMAIN fromHost' :
           fromHost'[i].kind = "message" => thread'[fromHost'[i].m] = "unborn"
    BY <1>1, <1>5, <2>1, <2>3 DEF IInv, MessagesOnce, TypeOK
  <2> QED BY <1>5, <2>1, <2>4 DEF IInv, MessagesOnce
<1>8. CASE HostAnswer
  <2>1. Response(hostHolds) \in From /\ Response(hostHolds).kind = "response"
    BY <1>1, <1>8 DEF HostAnswer, TypeOK, Response, OfKind
  <2> QED BY <1>4, <1>8, <2>1 DEF HostAnswer, callers
<1>9. ASSUME NEW m \in Inbound, HostSays(m) PROVE MessagesOnce'
  <2>1. [kind |-> "message", m |-> m] \in From
    BY DEF Messages
  <2> QED BY <1>4, <1>9, <2>1 DEF HostSays, callers
<1>10. CASE HostEnds
  <2>1. [kind |-> "end"] \in From
    OBVIOUS
  <2> QED BY <1>4, <1>10, <2>1 DEF HostEnds, callers
<1>11. CASE Resume \/ CloseMark \/ CloseSignal \/ HostTake
  BY <1>3, <1>11 DEF Resume, CloseMark, CloseSignal, HostTake, callers
<1>12. ASSUME NEW t \in Threads, Call(t) PROVE MessagesOnce'
  <2>1. fromHost' = fromHost
    BY <1>12 DEF Call, Register, StartRequest, SendRequest, Receive, SeeDone, ContextDone,
                 Forget
  <2>2. thread[t] # "unborn" /\ \A u \in Threads \ {t} : thread'[u] = thread[u]
    BY <1>1, <1>12 DEF Call, Register, StartRequest, SendRequest, Receive, SeeDone,
                       ContextDone, Forget, Return, TypeOK
  <2> QED BY <1>3, <2>1, <2>2 DEF Threads
<1>13. ASSUME NEW m \in Inbound, Respond(m) PROVE MessagesOnce'
  <2>1. fromHost' = fromHost
    BY <1>13 DEF Respond, Handled, StartReply, Reply
  <2>2. thread[m] # "unborn" /\ \A u \in Threads \ {m} : thread'[u] = thread[u]
    BY <1>1, <1>13 DEF Respond, Handled, StartReply, Reply, TypeOK
  <2> QED BY <1>3, <2>1, <2>2 DEF Threads
<1> QED BY <1>6, <1>7, <1>8, <1>9, <1>10, <1>11, <1>12, <1>13 DEF Next, Serve

LEMMA MarkedStep == ASSUME IInv, Next PROVE Marked'
BY DEF IInv, Marked, Next, Serve, ReadResponse, Resume, Spawn, ReadEnd, CloseMark, CloseSignal,
       ReaderFree, ResumeEnabled, Call, Register, StartRequest, SendRequest, Receive,
       SeeDone, ContextDone,
       Forget, Respond, Handled, StartReply, Reply, HostTake, HostAnswer, HostSays, HostEnds,
       client, serve

LEMMA OwnAnswerStep == ASSUME IInv, Next PROVE OwnAnswer'
<1>0. TypeOK
  BY DEF IInv, PendingExact
<1> SUFFICES ASSUME NEW u \in Threads, thread'[u] = "returning", result'[u].kind = "response"
             PROVE  result'[u].by = u /\ result'[u].n = calls'[u]
  BY DEF OwnAnswer
<1>1. ASSUME result'[u] = result[u], thread[u] = thread'[u], calls'[u] = calls[u]
      PROVE  result'[u].by = u /\ result'[u].n = calls'[u]
  BY <1>1 DEF IInv, OwnAnswer
<1>2. CASE Receive(u)
  <2>1. slot[callID[u]] # Empty /\ callID[u] \in IDs /\ InCall(u)
    BY <1>0, <1>2 DEF Receive, InCall, IInv, IDWhileInCall, TypeOK
  <2>2. slot[callID[u]].id = callID[u] /\ Belongs(slot[callID[u]])
    BY <2>1 DEF IInv, SlotOwnID, Carried
  <2> QED BY <1>0, <1>2, <2>1, <2>2 DEF Receive, Return, Belongs, TypeOK
<1>3. ASSUME NEW t \in Threads, Call(t), ~(t = u /\ Receive(u))
      PROVE  result'[u].by = u /\ result'[u].n = calls'[u]
  <2>1. CASE t = u
    BY <1>0, <1>3, <2>1 DEF Call, Register, StartRequest, SendRequest, SeeDone, ContextDone,
                            Forget, Return, TypeOK
  <2>2. CASE t # u
    BY <1>0, <1>1, <1>3, <2>2 DEF Call, Register, StartRequest, SendRequest, Receive,
                                  SeeDone, ContextDone,
                                 Forget, Return, TypeOK
  <2> QED BY <2>1, <2>2
<1>4. CASE Serve \/ HostTake \/ HostAnswer \/ HostEnds
             \/ (\E m \in Inbound : Respond(m) \/ HostSays(m))
  BY <1>0, <1>1, <1>4 DEF Serve, ReadResponse, Resume, Spawn, ReadEnd, CloseMark, CloseSignal,
                          HostTake, HostAnswer, HostEnds, Respond, Handled, StartReply,
                          Reply, HostSays, callers, TypeOK
<1> QED BY <1>2, <1>3, <1>4 DEF Next

-----------------------------------------------------------------------------
LEMMA IInvInit == Init => IInv
<1> SUFFICES ASSUME Init PROVE IInv
  OBVIOUS
<1>1. TypeOK
  BY TypeInit
<1>2. \A t \in Threads : ~InCall(t) /\ callID[t] = 0
  BY DEF Init, InCall
<1>3. PendingExact /\ IDWhileInCall
  BY <1>1, <1>2 DEF PendingExact, IDWhileInCall, Init
<1>4. OwnAnswer /\ Marked /\ Resuming
  BY DEF Init, OwnAnswer, Marked, Resuming
<1>5. IDs = {} /\ DOMAIN toHost = {} /\ DOMAIN fromHost = {}
  BY DEF Init, IDs
<1>6. MessagesOnce /\ SlotOwnID /\ Carried
  BY <1>5 DEF Init, MessagesOnce, SlotOwnID, Carried
<1> QED BY <1>3, <1>4, <1>6 DEF IInv

LEMMA IInvStep == IInv /\ [Next]_vars => IInv'
<1> SUFFICES ASSUME IInv, [Next]_vars PROVE IInv'
  OBVIOUS
<1>1. CASE Next
  <2>1. TypeOK'
    BY <1>1, TypeServe, TypeCall, TypeReply, TypeHost DEF IInv, PendingExact, Next
  <2>2. PendingExact' /\ IDWhileInCall'
    BY <1>1, <2>1, TableStep DEF Table, PendingExact
  <2> QED BY <1>1, <2>2, CarriedStep, MessagesStep, MarkedStep, OwnAnswerStep DEF IInv
<1>2. CASE UNCHANGED vars
  BY <1>2 DEF vars, client, serve, callers, host, IInv, PendingExact, TypeOK, OwnAnswer, Marked,
              Resuming, IDWhileInCall, MessagesOnce, SlotOwnID, Carried, Belongs, InCall,
              IDs, OfKind, Messages, Replies
<1> QED BY <1>1, <1>2

\* The inductive invariant holds in every state (registerPending, resume,
\* forgetPending and the write lock in between).
THEOREM Inductive == Spec => []IInv
BY IInvInit, IInvStep, PTL DEF Spec

\* No call leaks its entry and no two share an id (registerPending, forgetPending).
THEOREM TableIsExact == Spec => []PendingExact
<1>1. IInv => PendingExact
  BY DEF IInv
<1> QED BY <1>1, Inductive, PTL

\* A call returns its own answer or none (Call, resume).
THEOREM AnswersAreOwn == Spec => []OwnAnswer
<1>1. IInv => OwnAnswer
  BY DEF IInv
<1> QED BY <1>1, Inductive, PTL
=============================================================================
