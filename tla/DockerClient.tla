---------------------------- MODULE DockerClient ----------------------------
(***************************************************************************)
(* internal/infra/dockerapi: HTTP/1.1 exchanges over one Channel. There    *)
(* are no request ids, so a response belongs to a request only by its      *)
(* place on the wire; Client.mu, held from before the request is written   *)
(* until the response body is closed, is what keeps them together.         *)
(*                                                                         *)
(* A client is put to one of three uses. "control" (shared by every        *)
(* refresh and action): short requests, and Negotiate again for the root.  *)
(* "stream": Negotiate, then one response that never ends by itself        *)
(* (/events, a followed log). "console": Negotiate, CreateExec, then       *)
(* StartExec, after which the connection is the shell's stdio.             *)
(*                                                                         *)
(* A response is its head, its data and its end; a shell's output is a     *)
(* numbered sequence of pieces. bufio may read ahead as far as it likes.   *)
(* Contexts are left out because do looks at none: once it has the lock,   *)
(* only the daemon or the end of the channel lets it go on.                *)
(***************************************************************************)
EXTENDS Naturals, Sequences

CONSTANTS Callers,   \* goroutines that share a control client
          Opener,    \* the one that uses a stream or console client
          Free,      \* nobody holds the lock
          MaxCalls,  \* bound: exchanges of a goroutine on a control client
          MaxData    \* bound: data pieces in a body, output pieces of a shell

ASSUME OpenerAssumption == Opener \in Callers /\ Free \notin Callers
ASSUME BoundAssumption == MaxCalls \in Nat /\ MaxData \in Nat

VARIABLES
  use,       \* what the client is for
  mu,        \* Client.mu: its holder
  open,      \* the channel is open
  pc, kind, calls,  \* each goroutine: where it is, in which exchange, the how manieth
  toDaemon,  \* requests on their way
  wire,      \* what the channel has received and bufio has not read
  buffered,  \* what bufio has read ahead
  foreign,   \* a goroutine was handed something of another's response
  output,    \* pieces of shell output handed on
  serving,   \* the request the daemon is answering
  told       \* pieces of it sent

lock == <<mu, foreign>>
caller == <<pc, kind, calls>>
input == <<wire, buffered>>
daemon == <<serving, told>>
vars == <<use, lock, open, caller, toDaemon, input, output, daemon>>

Idle == [by |-> Free, n |-> 0, kind |-> "none"]
RequestOf(c) == [by |-> c, n |-> calls[c], kind |-> kind[c]]
Piece(r, part, i) == [of |-> r, part |-> part, i |-> i]

Kinds == {"none", "get", "negotiate", "stream", "exec"}
Requests == [by : Callers, n : Nat, kind : Kinds]
Pieces == [of : Requests, part : {"head", "error", "upgrade", "data", "end", "raw"}, i : 0..MaxData]

\* The goroutines between Lock and Unlock.
Locked == {"write", "head", "body", "drain", "refused"}

\* Every variable has its type, and the lock is held by the goroutine between its
\* Lock and Unlock, of which there is one at most (do, lockedBody.Close).
TypeOK ==
  /\ use \in {"control", "stream", "console"}
  /\ mu \in Callers \cup {Free} /\ open \in BOOLEAN /\ foreign \in BOOLEAN
  /\ pc \in [Callers -> Locked \cup {"idle", "version", "lock", "restore", "raw", "spent"}]
  /\ kind \in [Callers -> Kinds]
  /\ calls \in [Callers -> Nat]
  /\ \A c \in Callers : mu = c <=> pc[c] \in Locked
  /\ toDaemon \in Seq(Requests) /\ wire \in Seq(Pieces) /\ buffered \in Seq(Pieces)
  /\ output \in 0..MaxData /\ serving \in Requests \cup {Idle} /\ told \in 0..MaxData

Init ==
  /\ use \in {"control", "stream", "console"}
  /\ mu = Free /\ open = TRUE /\ foreign = FALSE
  /\ pc = [c \in Callers |-> "idle"] /\ kind = [c \in Callers |-> "none"]
  /\ calls = [c \in Callers |-> 0]
  /\ toDaemon = <<>> /\ wire = <<>> /\ buffered = <<>> /\ output = 0
  /\ serving = Idle /\ told = 0

-----------------------------------------------------------------------------
(* One exchange.                                                           *)

Goto(c, label) == pc' = [pc EXCEPT ![c] = label]

\* What a goroutine may ask for next.
NextKinds(c) ==
  CASE use = "control" -> IF calls[c] < MaxCalls THEN {"get", "negotiate"} ELSE {}
    [] use = "stream" /\ c = Opener -> {k \in {"negotiate", "stream"} :
                                          calls[c] = IF k = "negotiate" THEN 0 ELSE 1}
    [] use = "console" /\ c = Opener -> {k \in {"negotiate", "get", "exec"} :
           calls[c] = CASE k = "negotiate" -> 0 [] k = "get" -> 1 [] k = "exec" -> 2}
    [] OTHER -> {}

\* Only /version is asked without the version in its path.
Begin(c, k) ==
  /\ pc[c] = "idle" /\ k \in NextKinds(c)
  /\ kind' = [kind EXCEPT ![c] = k] /\ calls' = [calls EXCEPT ![c] = @ + 1]
  /\ Goto(c, IF k = "negotiate" THEN "lock" ELSE "version")
  /\ UNCHANGED <<use, lock, open, toDaemon, input, output, daemon>>

\* Version takes the lock and gives it back.
Version(c) ==
  /\ pc[c] = "version" /\ mu = Free /\ Goto(c, "lock")
  /\ UNCHANGED <<use, lock, open, kind, calls, toDaemon, input, output, daemon>>

Lock(c) ==
  /\ pc[c] = "lock" /\ mu = Free
  /\ mu' = c /\ Goto(c, "write")
  /\ UNCHANGED <<use, foreign, open, kind, calls, toDaemon, input, output, daemon>>

Leave(c) == mu' = Free /\ Goto(c, "idle")

Write(c) ==
  /\ pc[c] = "write"
  /\ IF open THEN toDaemon' = Append(toDaemon, RequestOf(c)) /\ Goto(c, "head") /\ UNCHANGED mu
             ELSE Leave(c) /\ UNCHANGED toDaemon
  /\ UNCHANGED <<use, foreign, open, kind, calls, input, output, daemon>>

\* bufio reads ahead when it is empty and more is asked of it.
ReadsHTTP(c) == pc[c] \in {"head", "body", "drain", "refused"}
Fill(c) ==
  /\ ReadsHTTP(c) /\ buffered = <<>>
  /\ \E n \in 1..Len(wire) :
       buffered' = SubSeq(wire, 1, n) /\ wire' = SubSeq(wire, n + 1, Len(wire))
  /\ UNCHANGED <<use, lock, open, caller, toDaemon, output, daemon>>

\* Take what comes next, whosesoever it is.
Take(c) ==
  /\ buffered' = Tail(buffered)
  /\ foreign' = (foreign \/ Head(buffered).of # RequestOf(c))

\* Mutant: the lock goes when the headers are read.
AfterHead_Unlocks(c) == mu' = Free /\ Goto(c, "body")
\* A body that will be closed by the caller keeps the lock.
AfterHead(c) == Goto(c, "body") /\ UNCHANGED mu

\* http.ReadResponse. An error response is read and closed at once; an
\* upgrade ends StartExec, whose deferred Unlock gives the lock back; anything
\* but a head is a malformed response.
ReadHead(c) ==
  /\ pc[c] = "head" /\ buffered # <<>> /\ Take(c)
  /\ LET part == Head(buffered).part IN
       IF part = "head" THEN AfterHead(c)
       ELSE IF part = "error" THEN Goto(c, "refused") /\ UNCHANGED mu
       ELSE mu' = Free /\ Goto(c, IF part = "upgrade" THEN "raw" ELSE "idle")
  /\ UNCHANGED <<use, open, kind, calls, toDaemon, wire, output, daemon>>

\* The caller reads its body, up to its end or not.
ReadBody(c) ==
  /\ pc[c] = "body" /\ buffered # <<>>
  /\ Head(buffered).part = "data" /\ Take(c)
  /\ UNCHANGED <<use, mu, open, caller, toDaemon, wire, output, daemon>>

\* Mutant: Negotiate takes the lock before it has closed the body.
AfterBody_Stores(c) == IF kind[c] = "negotiate" THEN "restore" ELSE "drain"
AfterBody(c) == "drain"

\* lockedBody.Close begins, wherever the caller stops reading.
CloseBody(c) ==
  /\ pc[c] = "body"
  /\ Goto(c, AfterBody(c))
  /\ UNCHANGED <<use, lock, open, kind, calls, toDaemon, input, output, daemon>>

\* Mutant: a body that was not read to its end is left on the wire.
Drained_Never(c) == TRUE
\* The body's Close reads what the caller left.
Drained(c) == buffered # <<>> /\ Head(buffered).part = "end"

Drains(c) == pc[c] \in {"drain", "refused"}
DrainMore(c) ==
  /\ Drains(c) /\ buffered # <<>> /\ Head(buffered).part = "data" /\ Take(c)
  /\ UNCHANGED <<use, mu, open, caller, toDaemon, wire, output, daemon>>

\* Negotiate goes on to store a version it could decode, under the lock.
Afterwards(c) ==
  IF kind[c] = "negotiate" /\ pc[c] = "drain" THEN {"restore", "idle"} ELSE {"idle"}

\* The end of the body: the lock is released with it.
DrainEnd(c) ==
  /\ Drains(c) /\ Drained(c)
  /\ IF buffered # <<>> /\ Head(buffered).part = "end" THEN Take(c)
                                                       ELSE UNCHANGED <<buffered, foreign>>
  /\ mu' = IF mu = c THEN Free ELSE mu
  /\ \E next \in Afterwards(c) : Goto(c, next)
  /\ UNCHANGED <<use, open, kind, calls, toDaemon, wire, output, daemon>>

Restore(c) ==
  /\ pc[c] = "restore" /\ mu = Free /\ Goto(c, "idle")
  /\ UNCHANGED <<use, lock, open, kind, calls, toDaemon, input, output, daemon>>

\* The channel has ended and everything in it is read.
ReadFails(c) ==
  /\ ReadsHTTP(c) /\ ~open /\ wire = <<>> /\ buffered = <<>>
  /\ mu' = IF mu = c THEN Free ELSE mu
  /\ \E next \in Afterwards(c) : Goto(c, next)
  /\ UNCHANGED <<use, foreign, open, kind, calls, toDaemon, input, output, daemon>>

-----------------------------------------------------------------------------
(* The hijacked connection.                                                *)

\* Mutant: the shell's stream is the connection alone.
Rest_Unbuffered == wire
\* What hijackedStream.Read reads from: the rest of the buffer, then the
\* connection.
Rest == IF buffered # <<>> THEN buffered ELSE wire

ReadRaw(c) ==
  /\ pc[c] = "raw" /\ Rest # <<>>
  /\ output' = Head(Rest).i
  /\ IF Rest = buffered THEN buffered' = Tail(buffered) /\ UNCHANGED wire
                        ELSE wire' = Tail(wire) /\ UNCHANGED buffered
  /\ UNCHANGED <<use, lock, open, caller, toDaemon, daemon>>

RawEnds(c) ==
  /\ pc[c] = "raw" /\ ~open /\ Rest = <<>> /\ Goto(c, "spent")
  /\ UNCHANGED <<use, lock, open, kind, calls, toDaemon, input, output, daemon>>

-----------------------------------------------------------------------------
(* The daemon: it answers requests in order, and refuses any it likes.     *)

Send(p) == wire' = Append(wire, p)

DaemonTakes ==
  /\ open /\ serving = Idle /\ toDaemon # <<>>
  /\ serving' = Head(toDaemon) /\ toDaemon' = Tail(toDaemon) /\ told' = 0
  /\ Send(Piece(serving', IF serving'.kind = "exec" THEN "upgrade" ELSE "head", 0))
  /\ UNCHANGED <<use, lock, open, caller, buffered, output>>

DaemonRefuses ==
  /\ open /\ serving = Idle /\ toDaemon # <<>>
  /\ toDaemon' = Tail(toDaemon)
  /\ wire' = wire \o <<Piece(Head(toDaemon), "error", 0), Piece(Head(toDaemon), "end", 0)>>
  /\ UNCHANGED <<use, lock, open, caller, buffered, output, daemon>>

DaemonSends ==
  /\ open /\ serving # Idle /\ told < MaxData
  /\ told' = told + 1
  /\ Send(Piece(serving, IF serving.kind = "exec" THEN "raw" ELSE "data", told'))
  /\ UNCHANGED <<use, lock, open, caller, toDaemon, buffered, output, serving>>

DaemonEnds ==
  /\ open /\ serving # Idle /\ serving.kind # "exec"
  /\ Send(Piece(serving, "end", 0)) /\ serving' = Idle /\ told' = 0
  /\ UNCHANGED <<use, lock, open, caller, toDaemon, buffered, output>>

\* Client.Close, or the host's close of the channel.
Ends ==
  /\ open /\ open' = FALSE
  /\ UNCHANGED <<use, lock, caller, toDaemon, input, output, daemon>>

-----------------------------------------------------------------------------
Exchange(c) ==
  \/ Version(c) \/ Lock(c) \/ Write(c) \/ Fill(c) \/ ReadHead(c) \/ ReadBody(c) \/ CloseBody(c)
  \/ DrainMore(c) \/ DrainEnd(c) \/ Restore(c) \/ ReadFails(c) \/ ReadRaw(c) \/ RawEnds(c)

Next ==
  \/ \E c \in Callers : Exchange(c) \/ \E k \in NextKinds(c) : Begin(c, k)
  \/ DaemonTakes \/ DaemonRefuses \/ DaemonSends \/ DaemonEnds \/ Ends

Spec == Init /\ [][Next]_vars

\* The lock goes to every goroutine that waits for it long enough (a Go mutex
\* starves nobody); a daemon answers and ends what is not a stream.
Fairness ==
  /\ \A c \in Callers : /\ SF_vars(Version(c)) /\ SF_vars(Lock(c)) /\ SF_vars(Restore(c))
                        /\ WF_vars(Exchange(c))
  /\ WF_vars(DaemonTakes \/ DaemonRefuses)
  /\ WF_vars(serving.kind \in {"get", "negotiate"} /\ DaemonEnds)
FairSpec == Spec /\ Fairness

-----------------------------------------------------------------------------
\* No goroutine is ever handed a byte of another's response, however the
\* callers interleave and wherever they stop reading (do, "a pipelining
\* hazard"); between two exchanges nothing is left for the next to find,
\* and the lock is held throughout each (TypeOK).
OwnResponse ==
  /\ TypeOK
  /\ ~foreign
  /\ mu = Free /\ open /\ (\A c \in Callers : pc[c] \notin {"raw", "spent"})
       => toDaemon = <<>> /\ wire = <<>> /\ buffered = <<>>

\* The shell's output reaches the tab from its first byte, in order: what the
\* header reader had buffered comes first (hijackedStream, "the first line of
\* a shell prompt, most often").
ShellComplete ==
  \A c \in Callers : pc[c] = "raw" =>
    LET rest == buffered \o wire IN
    /\ \A i \in DOMAIN rest : rest[i].part = "raw" /\ rest[i].i = output + i
    /\ told = output + Len(rest)

\* An exchange ends, and its lock with it, as long as the daemon ends what it
\* answers: no order of callers deadlocks on the lock that a body holds (do,
\* Negotiate).
ExchangesEnd ==
  \A c \in Callers :
    (pc[c] # "idle" /\ kind[c] \in {"get", "negotiate"}) ~> pc[c] = "idle"
=============================================================================
