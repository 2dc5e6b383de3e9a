------------------------- MODULE DockerClientProofs -------------------------
(***************************************************************************)
(* Theorems about DockerClient, for any number of goroutines and of        *)
(* exchanges, and bodies and shell output of any length.                   *)
(***************************************************************************)
EXTENDS DockerClient, SequenceLemmas, TLAPS, SequenceTheorems

\* What was received and has not been read.
Pending == buffered \o wire

\* The rest of a body: data, and the end last.
BodyPiece(P, i) == P[i].part = "data" \/ (P[i].part = "end" /\ i = Len(P))

\* Only a console's client starts a shell, and only its goroutine uses it.
Alone ==
  /\ \A c \in Callers : kind[c] = "exec" => use = "console"
  /\ use # "control" => \A c \in Callers \ {Opener} : pc[c] = "idle"
  /\ \A c \in Callers : pc[c] \in {"raw", "spent"} => kind[c] = "exec"

Shell == \E c \in Callers : pc[c] \in {"raw", "spent"}

\* Everything received belongs to the exchange that holds the lock.
OwnPieces == \A c \in Callers : mu = c => \A i \in DOMAIN Pending : Pending[i].of = RequestOf(c)

\* What is received has the shape the goroutine expects where it is.
ShapeOf(c) ==
  /\ pc[c] = "write" => Pending = <<>>
  /\ pc[c] \in {"body", "drain", "refused"} => \A i \in DOMAIN Pending : BodyPiece(Pending, i)
  /\ pc[c] = "head" => \A i \in DOMAIN Pending :
       /\ i = 1 => Pending[i].part \in {"head", "error", "upgrade"}
       /\ i # 1 /\ Pending[1].part # "upgrade" => BodyPiece(Pending, i)
       /\ Pending[1].part = "upgrade" =>
            /\ kind[c] = "exec" /\ told = Len(Pending) - 1
            /\ i # 1 => Pending[i].part = "raw" /\ Pending[i].i = i - 1
Shape ==
  /\ mu = Free /\ (\A c \in Callers : pc[c] # "raw") => Pending = <<>>
  /\ \A c \in Callers : ShapeOf(c)

NoOutput == ~Shell => output = 0

\* Where the request of the exchange is, as long as the channel is open: on its
\* way, being answered, or answered to the end.
Asked(c) == pc[c] = "head" /\ toDaemon = <<RequestOf(c)>> /\ serving = Idle /\ Pending = <<>>
Answering(c) ==
  /\ toDaemon = <<>> /\ serving = RequestOf(c)
  /\ \A i \in DOMAIN Pending : Pending[i].part # "end"
  /\ pc[c] = "head" => /\ Pending # <<>>
                       /\ Pending[1].part = IF kind[c] = "exec" THEN "upgrade" ELSE "head"
  /\ kind[c] = "exec" => pc[c] = "head"
Answered == toDaemon = <<>> /\ serving = Idle /\ Pending # <<>> /\ Pending[Len(Pending)].part = "end"
Stage(c) == Asked(c) \/ Answering(c) \/ Answered
DaemonOf(c) ==
  /\ pc[c] = "write" => toDaemon = <<>> /\ serving = Idle
  /\ pc[c] = "raw" => toDaemon = <<>> /\ serving = RequestOf(c)
  /\ pc[c] \in {"head", "body", "drain", "refused"} => Stage(c)
  /\ pc[c] # "spent"
Daemon ==
  open => /\ mu = Free /\ ~Shell => toDaemon = <<>> /\ serving = Idle
          /\ \A c \in Callers : DaemonOf(c)

\* What is pending for a shell is its output, from the piece after the last read.
ShellRest ==
  \A c \in Callers : pc[c] = "raw" =>
    /\ \A i \in DOMAIN Pending : Pending[i].part = "raw" /\ Pending[i].i = output + i
    /\ told = output + Len(Pending)

DInv == TypeOK /\ ~foreign /\ ShellRest /\ Alone /\ OwnPieces /\ Shape /\ NoOutput /\ Daemon

-----------------------------------------------------------------------------
(* What each way of moving the input does to what is pending.              *)

LEMMA PendingType ==
  ASSUME TypeOK
  PROVE  /\ Pending \in Seq(Pieces) /\ Len(Pending) \in Nat /\ DOMAIN Pending = 1..Len(Pending)
         /\ Pending = <<>> <=> (buffered = <<>> /\ wire = <<>>)
         /\ Pending = <<>> <=> Len(Pending) = 0
<1>1. buffered \in Seq(Pieces) /\ wire \in Seq(Pieces)
  BY DEF TypeOK
<1>2. Pending \in Seq(Pieces) /\ Len(Pending) = Len(buffered) + Len(wire)
  BY <1>1, ConcatProperties DEF Pending
<1> HIDE DEF Pending
<1> QED BY <1>1, <1>2, LenProperties, EmptySeq

\* A goroutine takes what comes next from the buffer.
LEMMA PendingTaken ==
  ASSUME TypeOK, buffered # <<>>, buffered' = Tail(buffered), wire' = wire
  PROVE  /\ Pending # <<>> /\ Pending' = Tail(Pending) /\ Head(buffered) = Pending[1]
         /\ buffered' \in Seq(Pieces)
<1>1. buffered \in Seq(Pieces) /\ wire \in Seq(Pieces)
  BY DEF TypeOK
<1> QED BY <1>1, TailConcat, AfterTail DEF Pending

\* The shell's reader, which goes on with the channel when the buffer is empty.
LEMMA PendingTakenRaw ==
  ASSUME TypeOK, NEW c \in Callers, ReadRaw(c)
  PROVE  /\ Pending # <<>> /\ Pending' = Tail(Pending) /\ output' = Pending[1].i
         /\ buffered' \in Seq(Pieces) /\ wire' \in Seq(Pieces)
<1>1. buffered \in Seq(Pieces) /\ wire \in Seq(Pieces)
  BY DEF TypeOK
<1>2. CASE buffered # <<>>
  <2>1. buffered' = Tail(buffered) /\ wire' = wire /\ output' = Head(buffered).i
    BY <1>2 DEF ReadRaw, Rest
  <2> QED BY <1>1, <1>2, <2>1, PendingTaken
<1>3. CASE buffered = <<>>
  <2>1. wire' = Tail(wire) /\ buffered' = buffered /\ output' = Head(wire).i /\ wire # <<>>
    BY <1>3 DEF ReadRaw, Rest
  <2>2. Tail(wire) \in Seq(Pieces) /\ Head(wire) = wire[1]
    BY <1>1, <2>1, AfterTail
  <2>3. Pending = wire /\ Pending' = Tail(wire)
    BY <1>1, <1>3, <2>1, <2>2, ConcatEmptySeq DEF Pending
  <2> QED BY <1>1, <2>1, <2>2, <2>3
<1> QED BY <1>2, <1>3

\* The daemon sends a piece.
LEMMA PendingSent ==
  ASSUME TypeOK, NEW p \in Pieces, Send(p), buffered' = buffered
  PROVE  Pending' = Append(Pending, p) /\ wire' \in Seq(Pieces)
<1>1. buffered \in Seq(Pieces) /\ wire \in Seq(Pieces)
  BY DEF TypeOK
<1> QED BY <1>1, AppendConcat, AppendProperties DEF Pending, Send

\* What a piece after the front was, and what one before the new end is.
LEMMA Taken ==
  ASSUME TypeOK, Pending # <<>>, Pending' = Tail(Pending)
  PROVE  /\ Len(Pending) \in Nat \ {0} /\ Len(Pending') = Len(Pending) - 1
         /\ 1 \in DOMAIN Pending /\ DOMAIN Pending = 1..Len(Pending)
         /\ DOMAIN Pending' = 1..(Len(Pending) - 1)
         /\ \A i \in DOMAIN Pending' : i + 1 \in DOMAIN Pending /\ Pending'[i] = Pending[i + 1]
         /\ Pending' = <<>> <=> Len(Pending) = 1
<1>1. Pending \in Seq(Pieces) /\ Len(Pending) \in Nat \ {0} /\ DOMAIN Pending = 1..Len(Pending)
  BY PendingType
<1>2. /\ Tail(Pending) \in Seq(Pieces) /\ Len(Tail(Pending)) = Len(Pending) - 1
      /\ \A i \in DOMAIN Tail(Pending) : i + 1 \in DOMAIN Pending /\ Tail(Pending)[i] = Pending[i + 1]
  BY <1>1, AfterTail
<1> QED BY <1>1, <1>2, LenProperties, EmptySeq

LEMMA Sent ==
  ASSUME TypeOK, NEW p \in Pieces, Pending' = Append(Pending, p)
  PROVE  /\ Len(Pending) \in Nat /\ Len(Pending') = Len(Pending) + 1
         /\ DOMAIN Pending = 1..Len(Pending) /\ DOMAIN Pending' = 1..(Len(Pending) + 1)
         /\ \A i \in DOMAIN Pending : Pending'[i] = Pending[i]
         /\ Pending'[Len(Pending) + 1] = p /\ Pending' # <<>>
<1>1. Pending \in Seq(Pieces) /\ Len(Pending) \in Nat /\ DOMAIN Pending = 1..Len(Pending)
  BY PendingType
<1> QED BY <1>1, AppendProperties, LenProperties, EmptySeq

-----------------------------------------------------------------------------
(* Who can be where.                                                       *)

\* One goroutine holds the lock, and while it does there is no shell.
LEMMA Holder ==
  ASSUME DInv, NEW c \in Callers, pc[c] \in Locked
  PROVE  /\ mu = c /\ mu # Free /\ ~Shell /\ output = 0
         /\ \A d \in Callers \ {c} : pc[d] \notin Locked \cup {"raw", "spent"}
<1>1. mu = c /\ \A d \in Callers \ {c} : pc[d] \notin Locked
  BY DEF DInv, TypeOK
<1>2. \A d \in Callers : pc[d] \notin {"raw", "spent"}
  <2> SUFFICES ASSUME NEW d \in Callers, pc[d] \in {"raw", "spent"} PROVE FALSE
    OBVIOUS
  <2>1. use = "console"
    BY DEF DInv, Alone
  <2>2. pc[c] # "idle" /\ pc[d] # "idle" /\ pc[c] # pc[d]
    BY DEF Locked
  <2> QED BY <2>1, <2>2, Zenon DEF DInv, Alone
<1>3. c # Free
  BY OpenerAssumption
<1> QED BY <1>1, <1>2, <1>3 DEF Shell, DInv, NoOutput

\* A goroutine on its way into an exchange means that there is no shell.
LEMMA Coming ==
  ASSUME DInv, NEW c \in Callers, pc[c] \notin {"idle", "raw", "spent"}
  PROVE  ~Shell
<1> SUFFICES ASSUME NEW d \in Callers, pc[d] \in {"raw", "spent"} PROVE FALSE
  BY DEF Shell
<1>1. use = "console"
  BY DEF DInv, Alone
<1>2. pc[d] # "idle" /\ pc[c] # pc[d]
  OBVIOUS
<1> QED BY <1>1, <1>2, Zenon DEF DInv, Alone

\* The shell's goroutine is alone.
LEMMA ShellAlone ==
  ASSUME DInv, NEW c \in Callers, pc[c] \in {"raw", "spent"}
  PROVE  /\ mu = Free /\ Shell /\ kind[c] = "exec" /\ use = "console" /\ c = Opener
         /\ \A d \in Callers \ {c} : pc[d] = "idle"
<1>1. kind[c] = "exec" /\ use = "console" /\ Shell
  BY DEF DInv, Alone, Shell
<1>2. c = Opener /\ \A d \in Callers \ {c} : pc[d] = "idle"
  BY <1>1 DEF DInv, Alone
<1>3. \A d \in Callers : pc[d] \notin Locked
  BY <1>2 DEF Locked
<1>4. mu = Free
  BY <1>3 DEF DInv, TypeOK
<1> QED BY <1>1, <1>2, <1>4

\* What a goroutine may ask for.
LEMMA NextKindsFacts ==
  ASSUME NEW c \in Callers, NEW k \in NextKinds(c), use \in {"control", "stream", "console"}
  PROVE  k \in Kinds /\ (k = "exec" => use = "console") /\ (use # "control" => c = Opener)
<1>1. CASE use = "control"
  <2>1. k \in {"get", "negotiate"}
    BY <1>1 DEF NextKinds
  <2> QED BY <1>1, <2>1 DEF Kinds
<1>2. CASE use = "stream"
  <2>1. c = Opener
    BY <1>2 DEF NextKinds
  <2>2. k \in {"negotiate", "stream"}
    BY <1>2, <2>1 DEF NextKinds
  <2> QED BY <2>1, <2>2, <1>2 DEF Kinds
<1>3. CASE use = "console"
  <2>1. c = Opener
    BY <1>3 DEF NextKinds
  <2>2. k \in {"negotiate", "get", "exec"}
    BY <1>3, <2>1 DEF NextKinds
  <2> QED BY <2>1, <2>2, <1>3 DEF Kinds
<1> QED BY <1>1, <1>2, <1>3

\* A goroutine in an exchange moves on: only the one of a console uses it still.
LEMMA AloneKept ==
  ASSUME DInv, NEW c \in Callers, NEW l, pc[c] # "idle", pc' = [pc EXCEPT ![c] = l],
         l \in {"raw", "spent"} => kind[c] = "exec", use' = use, kind' = kind
  PROVE  Alone'
<1>1. /\ pc'[c] = l
      /\ \A d \in Callers \ {c} : pc'[d] = pc[d]
  BY DEF DInv, TypeOK
<1>2. \A d \in Callers : kind'[d] = "exec" => use' = "console"
  BY DEF DInv, Alone
<1>3. use' # "control" => \A d \in Callers \ {Opener} : pc'[d] = "idle"
  <2> SUFFICES ASSUME use # "control", NEW d \in Callers \ {Opener} PROVE pc'[d] = "idle"
    OBVIOUS
  <2>1. pc[d] = "idle"
    BY DEF DInv, Alone
  <2> QED BY <1>1, <2>1
<1>4. \A d \in Callers : pc'[d] \in {"raw", "spent"} => kind'[d] = "exec"
  BY <1>1 DEF DInv, Alone
<1> QED BY <1>2, <1>3, <1>4 DEF Alone

-----------------------------------------------------------------------------
(* Three ways to be in the invariant after a step: an exchange holds the    *)
(* lock, nothing goes on, or the shell has the connection.                  *)

LEMMA ThenHeld ==
  ASSUME TypeOK', ~foreign', Alone', NEW c \in Callers, pc'[c] \in Locked,
         \A d \in Callers \ {c} : pc'[d] \notin {"raw", "spent"},
         \A i \in DOMAIN Pending' : Pending'[i].of = RequestOf(c)',
         ShapeOf(c)', open' => DaemonOf(c)', output' = 0
  PROVE  DInv'
<1>1. mu' = c /\ mu' # Free /\ \A d \in Callers \ {c} : pc'[d] \notin Locked
  BY OpenerAssumption DEF TypeOK
<1>2. \A d \in Callers : pc'[d] \notin {"raw", "spent"}
  BY DEF Locked
<1>3. ShellRest' /\ NoOutput'
  BY <1>2 DEF ShellRest, NoOutput
<1>4. OwnPieces'
  BY <1>1 DEF OwnPieces
<1>5. \A d \in Callers \ {c} : ShapeOf(d)' /\ DaemonOf(d)'
  BY <1>1, <1>2 DEF ShapeOf, DaemonOf, Locked
<1>6. Shape' /\ Daemon'
  BY <1>1, <1>5 DEF Shape, Daemon
<1> QED BY <1>3, <1>4, <1>6 DEF DInv

LEMMA ThenQuiet ==
  ASSUME TypeOK', ~foreign', Alone', mu' = Free, Pending' = <<>>, output' = 0,
         \A d \in Callers : pc'[d] \notin {"raw", "spent"},
         open' => toDaemon' = <<>> /\ serving' = Idle
  PROVE  DInv'
<1>1. \A d \in Callers : pc'[d] \notin Locked /\ d # mu'
  BY OpenerAssumption DEF TypeOK
<1>2. ShellRest' /\ NoOutput' /\ OwnPieces'
  BY <1>1 DEF ShellRest, NoOutput, OwnPieces
<1>3. \A d \in Callers : ShapeOf(d)' /\ DaemonOf(d)'
  BY <1>1 DEF ShapeOf, DaemonOf, Locked
<1>4. Shape' /\ Daemon'
  BY <1>3 DEF Shape, Daemon
<1> QED BY <1>2, <1>4 DEF DInv

LEMMA ThenShell ==
  ASSUME TypeOK', ~foreign', Alone', NEW c \in Callers, pc'[c] \in {"raw", "spent"},
         \A d \in Callers \ {c} : pc'[d] = "idle",
         pc'[c] = "spent" => Pending' = <<>> /\ ~open',
         pc'[c] = "raw" =>
           /\ \A i \in DOMAIN Pending' : Pending'[i].part = "raw" /\ Pending'[i].i = output' + i
           /\ told' = output' + Len(Pending'),
         open' => toDaemon' = <<>> /\ serving' = RequestOf(c)'
  PROVE  DInv'
<1>1. \A d \in Callers : pc'[d] \notin Locked
  BY DEF Locked
<1>2. mu' = Free /\ (\A d \in Callers : d # mu') /\ Shell'
  BY <1>1, OpenerAssumption DEF TypeOK, Shell
<1>3. ShellRest'
  BY DEF ShellRest
<1>4. NoOutput' /\ OwnPieces'
  BY <1>2 DEF NoOutput, OwnPieces
<1>5. \A d \in Callers : ShapeOf(d)'
  BY <1>1 DEF ShapeOf, Locked
<1>6. open' => \A d \in Callers : DaemonOf(d)'
  BY <1>1 DEF DaemonOf, Locked
<1>7. Shape' /\ Daemon'
  BY <1>2, <1>5, <1>6 DEF Shape, Daemon
<1> QED BY <1>3, <1>4, <1>7 DEF DInv

\* And a fourth: a goroutine outside of every exchange moves, and nothing else.
LEMMA ThenSame ==
  ASSUME DInv, TypeOK', Alone', NEW c \in Callers, NEW l,
         pc[c] \notin Locked \cup {"raw", "spent"}, l \notin Locked \cup {"raw", "spent"},
         pc' = [pc EXCEPT ![c] = l],
         \A d \in Callers \ {c} : RequestOf(d)' = RequestOf(d) /\ kind'[d] = kind[d],
         UNCHANGED <<mu, foreign, open, toDaemon, wire, buffered, output, serving, told>>
  PROVE  DInv'
<1>0. pc'[c] = l /\ \A d \in Callers \ {c} : pc'[d] = pc[d]
  BY DEF DInv, TypeOK
<1>1. Pending' = Pending /\ mu # c
  BY DEF Pending, DInv, TypeOK
<1>2. Shell' <=> Shell
  BY <1>0 DEF Shell
<1>3. ShellRest' /\ NoOutput'
  BY <1>0, <1>1, <1>2 DEF DInv, ShellRest, NoOutput
<1>4. OwnPieces'
  BY <1>1 DEF DInv, OwnPieces
<1>5. ASSUME NEW d \in Callers PROVE ShapeOf(d)' /\ (open' => DaemonOf(d)')
  <2>1. CASE d = c
    BY <1>0, <2>1 DEF ShapeOf, DaemonOf, Locked
  <2>2. CASE d # c
    <3>1. pc'[d] = pc[d] /\ kind'[d] = kind[d] /\ RequestOf(d)' = RequestOf(d)
      BY <1>0, <2>2
    <3>2. ShapeOf(d) /\ (open => DaemonOf(d))
      BY DEF DInv, Shape, Daemon
    <3>3. ShapeOf(d)'
      BY <1>1, <3>1, <3>2 DEF ShapeOf, BodyPiece
    <3>4. Stage(d)' <=> Stage(d)
      BY <1>1, <3>1, Zenon DEF Stage, Asked, Answering, Answered, Idle
    <3>5. open' => DaemonOf(d)'
      BY <3>1, <3>2, <3>4 DEF DaemonOf, Idle
    <3> QED BY <3>3, <3>5
  <2> QED BY <2>1, <2>2
<1>6. Shape'
  BY <1>0, <1>1, <1>5 DEF DInv, Shape
<1>7. Daemon'
  BY <1>2, <1>5 DEF DInv, Daemon, Idle
<1> QED BY <1>3, <1>4, <1>6, <1>7 DEF DInv

\* And a fifth: nothing that the invariant speaks of moves, or the channel ends.
LEMMA ThenUnmoved ==
  ASSUME DInv, TypeOK', Pending' = Pending, open' => open,
         UNCHANGED <<use, mu, foreign, pc, kind, calls, toDaemon, output, serving, told>>
  PROVE  DInv'
<1>1. ShellRest' /\ Alone' /\ NoOutput' /\ (Shell' <=> Shell)
  BY DEF DInv, ShellRest, Alone, NoOutput, Shell
<1>2. \A d \in Callers : RequestOf(d)' = RequestOf(d)
  BY DEF RequestOf
<1>3. OwnPieces'
  BY <1>2 DEF DInv, OwnPieces
<1>4. \A d \in Callers : ShapeOf(d)' <=> ShapeOf(d)
  BY DEF ShapeOf, BodyPiece
<1>5. \A d \in Callers : Stage(d)' <=> Stage(d)
  BY <1>2, Zenon DEF Stage, Asked, Answering, Answered, Idle
<1>6. \A d \in Callers : DaemonOf(d)' <=> DaemonOf(d)
  BY <1>2, <1>5 DEF DaemonOf, Idle
<1>7. Shape' /\ Daemon'
  BY <1>1, <1>4, <1>6 DEF DInv, Shape, Daemon, Idle
<1> QED BY <1>1, <1>3, <1>7 DEF DInv

-----------------------------------------------------------------------------
(* Types.                                                                  *)

Positions == Locked \cup {"idle", "version", "lock", "restore", "raw", "spent"}

\* A step of c that takes or leaves the lock as its new place says keeps the types.
LEMMA TypeMove ==
  ASSUME TypeOK, NEW c \in Callers, NEW l \in Positions, pc' = [pc EXCEPT ![c] = l],
         mu' = IF l \in Locked THEN c ELSE IF pc[c] \in Locked THEN Free ELSE mu,
         l \in Locked => mu \in {c, Free},
         foreign' \in BOOLEAN, UNCHANGED <<use, open, serving, told>>,
         kind' \in [Callers -> Kinds], calls' \in [Callers -> Nat], output' \in 0..MaxData,
         toDaemon' \in Seq(Requests), wire' \in Seq(Pieces), buffered' \in Seq(Pieces)
  PROVE  TypeOK'
<1>0. pc'[c] = l /\ \A d \in Callers \ {c} : pc'[d] = pc[d]
  BY DEF TypeOK
<1>1. pc' \in [Callers -> Positions] /\ mu' \in Callers \cup {Free}
  BY DEF TypeOK, Positions
<1>2. ASSUME NEW d \in Callers PROVE mu' = d <=> pc'[d] \in Locked
  BY <1>0, OpenerAssumption DEF TypeOK
<1> QED BY <1>1, <1>2 DEF TypeOK, Positions, Idle

\* A step that leaves every goroutine where it is.
LEMMA TypeStay ==
  ASSUME TypeOK, foreign' \in BOOLEAN, open' \in BOOLEAN, UNCHANGED <<use, mu, caller, output>>,
         told' \in 0..MaxData, serving' \in Requests \cup {Idle},
         toDaemon' \in Seq(Requests), wire' \in Seq(Pieces), buffered' \in Seq(Pieces)
  PROVE  TypeOK'
BY DEF TypeOK, caller, Idle

LEMMA RequestType ==
  ASSUME TypeOK, NEW c \in Callers
  PROVE  RequestOf(c) \in Requests /\ RequestOf(c) # Idle
BY OpenerAssumption DEF TypeOK, RequestOf, Requests, Idle

-----------------------------------------------------------------------------
(* One lemma for each action.                                              *)

LEMMA BeginStep ==
  ASSUME DInv, NEW c \in Callers, NEW k \in NextKinds(c), Begin(c, k)
  PROVE  DInv'
<1> DEFINE l == IF k = "negotiate" THEN "lock" ELSE "version"
<1>1. /\ pc[c] = "idle" /\ pc' = [pc EXCEPT ![c] = l]
      /\ kind' = [kind EXCEPT ![c] = k] /\ calls' = [calls EXCEPT ![c] = @ + 1]
      /\ UNCHANGED <<use, mu, foreign, open, toDaemon, wire, buffered, output, serving, told>>
  BY DEF Begin, Goto, lock, input, daemon
<1>2. k \in Kinds /\ (k = "exec" => use = "console") /\ (use # "control" => c = Opener)
  BY NextKindsFacts DEF DInv, TypeOK
<1>3. l \in Positions /\ l \notin Locked \cup {"raw", "spent"} /\ pc[c] \notin Locked \cup {"raw", "spent"}
  BY <1>1 DEF Positions, Locked
<1>4. kind' \in [Callers -> Kinds] /\ calls' \in [Callers -> Nat]
  BY <1>1, <1>2 DEF DInv, TypeOK
<1> HIDE DEF l
<1>5. TypeOK'
  <2>1. TypeOK /\ mu' = mu
    BY <1>1 DEF DInv
  <2> QED BY <1>1, <1>3, <1>4, <2>1, TypeMove DEF TypeOK
<1>6. Alone'
  <2>1. /\ pc'[c] = l /\ kind'[c] = k
        /\ \A d \in Callers \ {c} : pc'[d] = pc[d] /\ kind'[d] = kind[d]
    BY <1>1 DEF DInv, TypeOK
  <2>2. \A d \in Callers : kind'[d] = "exec" => use' = "console"
    BY <1>1, <1>2, <2>1 DEF DInv, Alone
  <2>3. use' # "control" => \A d \in Callers \ {Opener} : pc'[d] = "idle"
    BY <1>1, <1>2, <2>1 DEF DInv, Alone
  <2>4. \A d \in Callers : pc'[d] \in {"raw", "spent"} => kind'[d] = "exec"
    BY <1>3, <2>1 DEF DInv, Alone
  <2> QED BY <2>2, <2>3, <2>4 DEF Alone
<1>7. \A d \in Callers \ {c} : RequestOf(d)' = RequestOf(d) /\ kind'[d] = kind[d]
  BY <1>1 DEF DInv, TypeOK, RequestOf
<1> QED BY <1>1, <1>3, <1>5, <1>6, <1>7, ThenSame

\* Version and Restore take the lock and give it back.
LEMMA PassStep ==
  ASSUME DInv, NEW c \in Callers, Version(c) \/ Restore(c)
  PROVE  DInv'
<1>1. PICK l \in {"lock", "idle"} : pc' = [pc EXCEPT ![c] = l]
  BY DEF Version, Restore, Goto
<1>2. /\ pc[c] \in {"version", "restore"}
      /\ UNCHANGED <<use, mu, foreign, open, kind, calls, toDaemon, wire, buffered, output,
                     serving, told>>
  BY DEF Version, Restore, lock, input, daemon
<1>3. /\ l \in Positions /\ l \notin Locked \cup {"raw", "spent"}
      /\ pc[c] \notin Locked \cup {"raw", "spent"}
  BY <1>1, <1>2 DEF Positions, Locked
<1>4. TypeOK'
  <2>1. TypeOK
    BY DEF DInv
  <2> QED BY <1>1, <1>2, <1>3, <2>1, TypeMove DEF TypeOK
<1>5. Alone'
  BY <1>1, <1>2, <1>3, AloneKept
<1>6. \A d \in Callers \ {c} : RequestOf(d)' = RequestOf(d) /\ kind'[d] = kind[d]
  BY <1>2 DEF RequestOf
<1> QED BY <1>1, <1>2, <1>3, <1>4, <1>5, <1>6, ThenSame

LEMMA LockStep ==
  ASSUME DInv, NEW c \in Callers, Lock(c)
  PROVE  DInv'
<1>1. /\ pc[c] = "lock" /\ mu = Free /\ mu' = c /\ pc' = [pc EXCEPT ![c] = "write"]
      /\ UNCHANGED <<use, foreign, open, kind, calls, toDaemon, wire, buffered, output,
                     serving, told>>
  BY DEF Lock, Goto, input, daemon
<1>2. TypeOK /\ "write" \in Locked /\ "write" \in Positions
  BY DEF DInv, Locked, Positions
<1>3. TypeOK'
  BY <1>1, <1>2, TypeMove DEF TypeOK
<1>4. Alone'
  BY <1>1, AloneKept
<1>5. ~Shell
  BY <1>1, Coming
<1>6. Pending = <<>> /\ Pending' = Pending
  BY <1>1, <1>5 DEF DInv, Shape, Shell, Pending
<1>7. pc'[c] = "write" /\ \A d \in Callers \ {c} : pc'[d] = pc[d]
  BY <1>1, <1>2 DEF TypeOK
<1>8. \A d \in Callers \ {c} : pc'[d] \notin {"raw", "spent"}
  BY <1>5, <1>7 DEF Shell
<1>9. ShapeOf(c)' /\ (open' => DaemonOf(c)')
  BY <1>1, <1>5, <1>6, <1>7 DEF ShapeOf, DaemonOf, DInv, Daemon, Idle
<1>10. ~foreign' /\ output' = 0
  BY <1>1, <1>5 DEF DInv, NoOutput
<1>11. \A i \in DOMAIN Pending' : Pending'[i].of = RequestOf(c)'
  BY <1>6
<1> QED BY <1>2, <1>3, <1>4, <1>7, <1>8, <1>9, <1>10, <1>11, ThenHeld

LEMMA WriteStep ==
  ASSUME DInv, NEW c \in Callers, Write(c)
  PROVE  DInv'
<1>0. TypeOK /\ pc[c] = "write" /\ "write" \in Locked /\ "head" \in Locked
  BY DEF DInv, Write, Locked
<1>1. UNCHANGED <<use, foreign, open, kind, calls, wire, buffered, output, serving, told>>
  BY DEF Write, input, daemon
<1>2. /\ mu = c /\ ~Shell /\ output = 0
      /\ \A d \in Callers \ {c} : pc[d] \notin Locked \cup {"raw", "spent"}
  BY <1>0, Holder
<1>3. Pending = <<>> /\ Pending' = Pending /\ RequestOf(c)' = RequestOf(c)
  BY <1>0, <1>1 DEF DInv, Shape, ShapeOf, Pending, RequestOf
<1>4. CASE open
  <2>1. /\ toDaemon' = Append(toDaemon, RequestOf(c)) /\ mu' = mu
        /\ pc' = [pc EXCEPT ![c] = "head"]
    BY <1>4 DEF Write, Goto
  <2>2. toDaemon = <<>> /\ serving = Idle
    BY <1>0, <1>4 DEF DInv, Daemon, DaemonOf
  <2>3. toDaemon' = <<RequestOf(c)>> /\ toDaemon' \in Seq(Requests)
    BY <1>0, <2>1, <2>2, RequestType, AppendProperties
  <2>4. TypeOK' /\ Alone'
    <3>1. "head" \in Positions
      BY DEF Positions, Locked
    <3> QED BY <1>0, <1>1, <1>2, <2>1, <2>3, <3>1, TypeMove, AloneKept DEF TypeOK
  <2>5. pc'[c] = "head" /\ \A d \in Callers \ {c} : pc'[d] = pc[d]
    BY <1>0, <2>1 DEF TypeOK
  <2>6. Asked(c)'
    BY <1>1, <1>3, <2>2, <2>3, <2>5 DEF Asked, Idle
  <2>7. ShapeOf(c)' /\ DaemonOf(c)'
    BY <1>3, <2>5, <2>6 DEF ShapeOf, DaemonOf, Stage
  <2>8. \A i \in DOMAIN Pending' : Pending'[i].of = RequestOf(c)'
    BY <1>3
  <2>9. ~foreign' /\ output' = 0 /\ \A d \in Callers \ {c} : pc'[d] \notin {"raw", "spent"}
    BY <1>1, <1>2, <2>5 DEF DInv
  <2> QED BY <1>0, <2>4, <2>5, <2>7, <2>8, <2>9, ThenHeld
<1>5. CASE ~open
  <2>1. toDaemon' = toDaemon /\ mu' = Free /\ pc' = [pc EXCEPT ![c] = "idle"]
    BY <1>5 DEF Write, Goto, Leave
  <2>2. TypeOK' /\ Alone'
    <3>1. "idle" \in Positions /\ "idle" \notin Locked
      BY DEF Positions, Locked
    <3> QED BY <1>0, <1>1, <1>2, <2>1, <3>1, TypeMove, AloneKept DEF TypeOK
  <2>3. \A d \in Callers : pc'[d] \notin {"raw", "spent"}
    BY <1>0, <1>2, <2>1 DEF TypeOK
  <2> QED BY <1>1, <1>2, <1>3, <1>5, <2>1, <2>2, <2>3, ThenQuiet DEF DInv
<1> QED BY <1>4, <1>5

LEMMA FillStep ==
  ASSUME DInv, NEW c \in Callers, Fill(c)
  PROVE  DInv'
<1>0. TypeOK /\ pc[c] \in Locked
  BY DEF DInv, Fill, ReadsHTTP, Locked
<1>1. /\ buffered = <<>>
      /\ UNCHANGED <<use, mu, foreign, open, caller, pc, kind, calls, toDaemon, output, serving,
                     told>>
  BY DEF Fill, lock, daemon, caller
<1>2. PICK n \in 1..Len(wire) :
        buffered' = SubSeq(wire, 1, n) /\ wire' = SubSeq(wire, n + 1, Len(wire))
  BY DEF Fill
<1>3. wire \in Seq(Pieces)
  BY <1>0 DEF TypeOK
<1>4. /\ buffered' \in Seq(Pieces) /\ wire' \in Seq(Pieces)
      /\ buffered' \o wire' = wire
  BY <1>2, <1>3, SplitSeq
<1>5. Pending' = Pending
  BY <1>1, <1>3, <1>4, ConcatEmptySeq DEF Pending
<1>6. TypeOK'
  BY <1>0, <1>1, <1>4, TypeStay DEF TypeOK
<1> QED BY <1>1, <1>5, <1>6, ThenUnmoved

\* What holds for every goroutine that takes the next piece: it is its own.
LEMMA TakeFacts ==
  ASSUME DInv, NEW c \in Callers, pc[c] \in Locked, buffered # <<>>, Take(c), wire' = wire,
         UNCHANGED <<kind, calls>>
  PROVE  /\ Pending # <<>> /\ Pending' = Tail(Pending) /\ Head(buffered) = Pending[1]
         /\ buffered' \in Seq(Pieces) /\ ~foreign' /\ RequestOf(c)' = RequestOf(c)
         /\ \A i \in DOMAIN Pending' : Pending'[i].of = RequestOf(c)
<1>0. TypeOK /\ buffered' = Tail(buffered)
  BY DEF DInv, Take
<1>1. /\ Pending # <<>> /\ Pending' = Tail(Pending) /\ Head(buffered) = Pending[1]
      /\ buffered' \in Seq(Pieces)
  BY <1>0, PendingTaken
<1>2. /\ 1 \in DOMAIN Pending
      /\ \A i \in DOMAIN Pending' : i + 1 \in DOMAIN Pending /\ Pending'[i] = Pending[i + 1]
  BY <1>0, <1>1, Taken
<1>3. \A i \in DOMAIN Pending : Pending[i].of = RequestOf(c)
  BY Holder DEF DInv, OwnPieces
<1>4. RequestOf(c)' = RequestOf(c)
  BY DEF RequestOf
<1>5. Head(buffered).of = RequestOf(c) /\ ~foreign
  BY <1>1, <1>2, <1>3 DEF DInv
<1>6. ~foreign'
  BY <1>5 DEF Take
<1> QED BY <1>1, <1>2, <1>3, <1>4, <1>6

LEMMA ReadHeadStep ==
  ASSUME DInv, NEW c \in Callers, ReadHead(c)
  PROVE  DInv'
<1>0. TypeOK /\ pc[c] = "head" /\ pc[c] \in Locked /\ buffered # <<>> /\ Take(c)
  BY DEF DInv, ReadHead, Locked
<1>1. UNCHANGED <<use, open, kind, calls, toDaemon, wire, output, serving, told>>
  BY DEF ReadHead, daemon
<1>2. /\ mu = c /\ ~Shell /\ output = 0
      /\ \A d \in Callers \ {c} : pc[d] \notin Locked \cup {"raw", "spent"}
  BY <1>0, Holder
<1>3. /\ Pending # <<>> /\ Pending' = Tail(Pending) /\ Head(buffered) = Pending[1]
      /\ buffered' \in Seq(Pieces) /\ ~foreign' /\ RequestOf(c)' = RequestOf(c)
      /\ \A i \in DOMAIN Pending' : Pending'[i].of = RequestOf(c)
  BY <1>0, <1>1, TakeFacts
<1>4. /\ Len(Pending) \in Nat \ {0} /\ Len(Pending') = Len(Pending) - 1
      /\ 1 \in DOMAIN Pending /\ DOMAIN Pending = 1..Len(Pending)
      /\ DOMAIN Pending' = 1..(Len(Pending) - 1)
      /\ \A i \in DOMAIN Pending' : i + 1 \in DOMAIN Pending /\ Pending'[i] = Pending[i + 1]
      /\ Pending' = <<>> <=> Len(Pending) = 1
  BY <1>0, <1>3, Taken
<1>5. ShapeOf(c) /\ (open => Answering(c) \/ Answered)
  BY <1>0, <1>3 DEF DInv, Shape, Daemon, DaemonOf, Stage, Asked
<1>6. Pending[1].part \in {"head", "error", "upgrade"}
  BY <1>0, <1>4, <1>5 DEF ShapeOf
<1>7. wire' \in Seq(Pieces) /\ foreign' \in BOOLEAN
  BY <1>0, <1>1 DEF TypeOK, Take
<1>8. CASE Pending[1].part \in {"head", "error"}
  <2>1. PICK l \in {"body", "refused"} :
          /\ pc' = [pc EXCEPT ![c] = l] /\ mu' = mu /\ (Pending[1].part = "error" => l = "refused")
    BY <1>3, <1>8 DEF ReadHead, AfterHead, Goto
  <2>2. l \in Locked /\ l \in Positions
    BY DEF Locked, Positions
  <2>3. TypeOK' /\ Alone'
    BY <1>0, <1>1, <1>2, <1>3, <1>7, <2>1, <2>2, TypeMove, AloneKept DEF TypeOK
  <2>4. pc'[c] = l /\ \A d \in Callers \ {c} : pc'[d] = pc[d]
    BY <1>0, <2>1 DEF TypeOK
  <2>5. \A i \in DOMAIN Pending' : BodyPiece(Pending', i)
    <3> SUFFICES ASSUME NEW i \in DOMAIN Pending' PROVE BodyPiece(Pending', i)
      OBVIOUS
    <3>1. i + 1 \in DOMAIN Pending /\ i + 1 # 1 /\ Pending'[i] = Pending[i + 1] /\ i \in Nat
      BY <1>4
    <3>2. BodyPiece(Pending, i + 1)
      BY <1>0, <1>5, <1>8, <3>1 DEF ShapeOf
    <3> QED BY <1>4, <3>1, <3>2 DEF BodyPiece
  <2>6. ShapeOf(c)'
    BY <2>4, <2>5 DEF ShapeOf
  <2>7. open' => Stage(c)'
    <3> SUFFICES ASSUME open PROVE Stage(c)'
      BY <1>1
    <3>1. CASE Answering(c)
      <4>1. kind[c] # "exec"
        BY <1>0, <1>8, <3>1 DEF Answering
      <4>2. \A i \in DOMAIN Pending' : Pending'[i].part # "end"
        BY <1>4, <3>1 DEF Answering
      <4>3. toDaemon' = <<>> /\ serving' = RequestOf(c)' /\ pc'[c] # "head" /\ kind'[c] # "exec"
        BY <1>1, <1>3, <2>4, <3>1, <4>1 DEF Answering
      <4> QED BY <4>2, <4>3 DEF Stage, Answering
    <3>2. CASE Answered
      <4>1. Len(Pending) # 1
        BY <1>8, <3>2 DEF Answered
      <4>2. Pending' # <<>> /\ Pending'[Len(Pending')] = Pending[Len(Pending)]
        BY <1>4, <4>1
      <4>3. Answered'
        BY <1>1, <3>2, <4>2 DEF Answered, Idle
      <4> QED BY <4>3 DEF Stage
    <3> QED BY <1>5, <3>1, <3>2
  <2>8. open' => DaemonOf(c)'
    BY <2>4, <2>7 DEF DaemonOf
  <2>9. output' = 0 /\ \A d \in Callers \ {c} : pc'[d] \notin {"raw", "spent"}
    BY <1>1, <1>2, <2>4
  <2>10. pc'[c] \in Locked /\ \A i \in DOMAIN Pending' : Pending'[i].of = RequestOf(c)'
    BY <1>3, <2>2, <2>4
  <2> QED BY <1>3, <2>3, <2>6, <2>8, <2>9, <2>10, ThenHeld
<1>9. CASE Pending[1].part = "upgrade"
  <2>1. pc' = [pc EXCEPT ![c] = "raw"] /\ mu' = Free
    BY <1>3, <1>9 DEF ReadHead, Goto
  <2>2. "raw" \notin Locked /\ "raw" \in Positions
    BY DEF Locked, Positions
  <2>3. kind[c] = "exec" /\ told = Len(Pending) - 1 /\ use = "console"
    BY <1>0, <1>4, <1>5, <1>9 DEF ShapeOf, DInv, Alone
  <2>4. TypeOK' /\ Alone'
    BY <1>0, <1>1, <1>2, <1>3, <1>7, <2>1, <2>2, <2>3, TypeMove, AloneKept DEF TypeOK
  <2>5. pc'[c] = "raw" /\ \A d \in Callers \ {c} : pc'[d] = pc[d]
    BY <1>0, <2>1 DEF TypeOK
  <2>6. \A d \in Callers \ {c} : pc'[d] = "idle"
    BY <1>0, <2>3, <2>5, Zenon DEF DInv, Alone
  <2>7. \A i \in DOMAIN Pending' : Pending'[i].part = "raw" /\ Pending'[i].i = output' + i
    <3> SUFFICES ASSUME NEW i \in DOMAIN Pending'
                 PROVE  Pending'[i].part = "raw" /\ Pending'[i].i = output' + i
      OBVIOUS
    <3>1. i + 1 \in DOMAIN Pending /\ i + 1 # 1 /\ Pending'[i] = Pending[i + 1] /\ i \in Nat
      BY <1>4
    <3>2. Pending[i + 1].part = "raw" /\ Pending[i + 1].i = (i + 1) - 1
      BY <1>0, <1>5, <1>9, <3>1 DEF ShapeOf
    <3> QED BY <1>1, <1>2, <3>1, <3>2
  <2>8. told' = output' + Len(Pending')
    BY <1>1, <1>2, <1>4, <2>3
  <2>9. ~Answered
    <3> SUFFICES ASSUME Pending[Len(Pending)].part = "end" PROVE FALSE
      BY DEF Answered
    <3>1. Len(Pending) \in DOMAIN Pending /\ Len(Pending) # 1
      BY <1>4, <1>9
    <3> QED BY <1>0, <1>5, <1>9, <3>1 DEF ShapeOf
  <2>10. open' => toDaemon' = <<>> /\ serving' = RequestOf(c)'
    BY <1>1, <1>3, <1>5, <2>9 DEF Answering
  <2> QED BY <1>3, <2>4, <2>5, <2>6, <2>7, <2>8, <2>10, ThenShell
<1> QED BY <1>6, <1>8, <1>9

\* ReadBody and DrainMore take data and stay where they are.
LEMMA DataStep ==
  ASSUME DInv, NEW c \in Callers, ReadBody(c) \/ DrainMore(c)
  PROVE  DInv'
<1>0. /\ TypeOK /\ pc[c] \in {"body", "drain", "refused"} /\ pc[c] \in Locked
      /\ buffered # <<>> /\ Take(c) /\ Head(buffered).part = "data"
  BY DEF DInv, ReadBody, DrainMore, Drains, Locked
<1>1. UNCHANGED <<use, mu, open, caller, pc, kind, calls, toDaemon, wire, output, serving, told>>
  BY DEF ReadBody, DrainMore, daemon, caller
<1>2. /\ mu = c /\ ~Shell /\ output = 0
      /\ \A d \in Callers \ {c} : pc[d] \notin Locked \cup {"raw", "spent"}
  BY <1>0, Holder
<1>3. /\ Pending # <<>> /\ Pending' = Tail(Pending) /\ Head(buffered) = Pending[1]
      /\ buffered' \in Seq(Pieces) /\ ~foreign' /\ RequestOf(c)' = RequestOf(c)
      /\ \A i \in DOMAIN Pending' : Pending'[i].of = RequestOf(c)
  BY <1>0, <1>1, TakeFacts
<1>4. /\ Len(Pending) \in Nat \ {0} /\ Len(Pending') = Len(Pending) - 1
      /\ 1 \in DOMAIN Pending /\ DOMAIN Pending = 1..Len(Pending)
      /\ DOMAIN Pending' = 1..(Len(Pending) - 1)
      /\ \A i \in DOMAIN Pending' : i + 1 \in DOMAIN Pending /\ Pending'[i] = Pending[i + 1]
      /\ Pending' = <<>> <=> Len(Pending) = 1
  BY <1>0, <1>3, Taken
<1>5. ShapeOf(c) /\ (open => Answering(c) \/ Answered)
  BY <1>0, <1>3 DEF DInv, Shape, Daemon, DaemonOf, Stage, Asked
<1>6. wire' \in Seq(Pieces) /\ foreign' \in BOOLEAN
  BY <1>0, <1>1 DEF TypeOK, Take
<1>7. TypeOK' /\ Alone'
  BY <1>0, <1>1, <1>3, <1>6, TypeStay DEF TypeOK, DInv, Alone
<1>8. \A i \in DOMAIN Pending' : BodyPiece(Pending', i)
  <2> SUFFICES ASSUME NEW i \in DOMAIN Pending' PROVE BodyPiece(Pending', i)
    OBVIOUS
  <2>1. i + 1 \in DOMAIN Pending /\ Pending'[i] = Pending[i + 1] /\ i \in Nat
    BY <1>4
  <2>2. BodyPiece(Pending, i + 1)
    BY <1>0, <1>5, <2>1 DEF ShapeOf
  <2> QED BY <1>4, <2>1, <2>2 DEF BodyPiece
<1>9. ShapeOf(c)'
  BY <1>0, <1>1, <1>8 DEF ShapeOf
<1>10. open' => Stage(c)'
  <2> SUFFICES ASSUME open PROVE Stage(c)'
    BY <1>1
  <2>1. CASE Answering(c)
    <3>1. \A i \in DOMAIN Pending' : Pending'[i].part # "end"
      BY <1>4, <2>1 DEF Answering
    <3> QED BY <1>0, <1>1, <1>3, <2>1, <3>1 DEF Stage, Answering
  <2>2. CASE Answered
    <3>1. Len(Pending) # 1
      BY <1>0, <1>3, <2>2 DEF Answered
    <3>2. Pending' # <<>> /\ Pending'[Len(Pending')] = Pending[Len(Pending)]
      BY <1>4, <3>1
    <3>3. Answered'
      BY <1>1, <2>2, <3>2 DEF Answered, Idle
    <3> QED BY <3>3 DEF Stage
  <2> QED BY <1>5, <2>1, <2>2
<1>11. open' => DaemonOf(c)'
  BY <1>0, <1>1, <1>10 DEF DaemonOf
<1>12. output' = 0 /\ \A d \in Callers \ {c} : pc'[d] \notin {"raw", "spent"}
  BY <1>1, <1>2
<1>13. pc'[c] \in Locked /\ \A i \in DOMAIN Pending' : Pending'[i].of = RequestOf(c)'
  BY <1>0, <1>1, <1>3
<1> QED BY <1>3, <1>7, <1>9, <1>11, <1>12, <1>13, ThenHeld

LEMMA CloseBodyStep ==
  ASSUME DInv, NEW c \in Callers, CloseBody(c)
  PROVE  DInv'
<1>0. TypeOK /\ pc[c] = "body" /\ pc[c] \in Locked /\ "drain" \in Locked /\ "drain" \in Positions
  BY DEF DInv, CloseBody, Locked, Positions
<1>1. /\ pc' = [pc EXCEPT ![c] = "drain"]
      /\ UNCHANGED <<use, mu, foreign, open, kind, calls, toDaemon, wire, buffered, output,
                     serving, told>>
  BY DEF CloseBody, AfterBody, Goto, lock, input, daemon
<1>2. /\ mu = c /\ ~Shell /\ output = 0
      /\ \A d \in Callers \ {c} : pc[d] \notin Locked \cup {"raw", "spent"}
  BY <1>0, Holder
<1>3. TypeOK' /\ Alone'
  BY <1>0, <1>1, <1>2, TypeMove, AloneKept DEF TypeOK
<1>4. Pending' = Pending /\ RequestOf(c)' = RequestOf(c)
  BY <1>1 DEF Pending, RequestOf
<1>5. pc'[c] = "drain" /\ \A d \in Callers \ {c} : pc'[d] = pc[d]
  BY <1>0, <1>1 DEF TypeOK
<1>6. ShapeOf(c) /\ (open => Answering(c) \/ Answered)
  BY <1>0 DEF DInv, Shape, Daemon, DaemonOf, Stage, Asked
<1>7. ShapeOf(c)'
  BY <1>0, <1>4, <1>5, <1>6 DEF ShapeOf, BodyPiece
<1>8. Answering(c) => Answering(c)'
  BY <1>0, <1>1, <1>4, <1>5 DEF Answering
<1>9. Answered => Answered'
  BY <1>1, <1>4 DEF Answered, Idle
<1>10. open' => DaemonOf(c)'
  BY <1>1, <1>5, <1>6, <1>8, <1>9 DEF DaemonOf, Stage
<1>11. /\ ~foreign' /\ output' = 0 /\ pc'[c] \in Locked
       /\ \A d \in Callers \ {c} : pc'[d] \notin {"raw", "spent"}
  BY <1>0, <1>1, <1>2, <1>5 DEF DInv
<1>12. \A i \in DOMAIN Pending' : Pending'[i].of = RequestOf(c)'
  BY <1>2, <1>4 DEF DInv, OwnPieces
<1> QED BY <1>3, <1>7, <1>10, <1>11, <1>12, ThenHeld

\* The end of a body is the last thing pending: nothing is left behind.
LEMMA DrainEndStep ==
  ASSUME DInv, NEW c \in Callers, DrainEnd(c)
  PROVE  DInv'
<1>0. /\ TypeOK /\ pc[c] \in {"body", "drain", "refused"} /\ pc[c] \in Locked
      /\ buffered # <<>> /\ Take(c) /\ Head(buffered).part = "end"
  BY DEF DInv, DrainEnd, Drains, Drained, Locked
<1>1. UNCHANGED <<use, open, kind, calls, toDaemon, wire, output, serving, told>>
  BY DEF DrainEnd, daemon
<1>2. /\ mu = c /\ ~Shell /\ output = 0
      /\ \A d \in Callers \ {c} : pc[d] \notin Locked \cup {"raw", "spent"}
  BY <1>0, Holder
<1>3. /\ Pending # <<>> /\ Pending' = Tail(Pending) /\ Head(buffered) = Pending[1]
      /\ buffered' \in Seq(Pieces) /\ ~foreign'
  BY <1>0, <1>1, TakeFacts
<1>4. /\ 1 \in DOMAIN Pending /\ (Pending' = <<>> <=> Len(Pending) = 1)
  BY <1>0, <1>3, Taken
<1>5. PICK l \in {"restore", "idle"} : pc' = [pc EXCEPT ![c] = l]
  BY DEF DrainEnd, Afterwards, Goto
<1>6. mu' = Free /\ l \in Positions /\ l \notin Locked
  BY <1>2 DEF DrainEnd, Positions, Locked
<1>7. wire' \in Seq(Pieces) /\ foreign' \in BOOLEAN
  BY <1>0, <1>1 DEF TypeOK, Take
<1>8. TypeOK' /\ Alone'
  BY <1>0, <1>1, <1>2, <1>3, <1>5, <1>6, <1>7, TypeMove, AloneKept DEF TypeOK
<1>9. Pending' = <<>>
  <2>1. BodyPiece(Pending, 1)
    BY <1>0, <1>4 DEF DInv, Shape, ShapeOf
  <2> QED BY <1>0, <1>3, <1>4, <2>1 DEF BodyPiece
<1>10. open' => toDaemon' = <<>> /\ serving' = Idle
  <2> SUFFICES ASSUME open PROVE toDaemon = <<>> /\ serving = Idle
    BY <1>1 DEF Idle
  <2>1. Answering(c) \/ Answered
    BY <1>0, <1>3 DEF DInv, Daemon, DaemonOf, Stage, Asked
  <2>2. ~Answering(c)
    BY <1>0, <1>3, <1>4 DEF Answering
  <2> QED BY <2>1, <2>2 DEF Answered
<1>11. \A d \in Callers : pc'[d] \notin {"raw", "spent"}
  BY <1>0, <1>2, <1>5 DEF TypeOK
<1> QED BY <1>1, <1>2, <1>3, <1>6, <1>8, <1>9, <1>10, <1>11, ThenQuiet

LEMMA ReadFailsStep ==
  ASSUME DInv, NEW c \in Callers, ReadFails(c)
  PROVE  DInv'
<1>0. TypeOK /\ pc[c] \in Locked /\ pc[c] # "idle" /\ wire = <<>> /\ buffered = <<>> /\ ~open
  BY DEF DInv, ReadFails, ReadsHTTP, Locked
<1>1. UNCHANGED <<use, foreign, open, kind, calls, toDaemon, wire, buffered, output, serving, told>>
  BY DEF ReadFails, input, daemon
<1>2. /\ mu = c /\ ~Shell /\ output = 0
      /\ \A d \in Callers \ {c} : pc[d] \notin Locked \cup {"raw", "spent"}
  BY <1>0, Holder
<1>3. PICK l \in {"restore", "idle"} : pc' = [pc EXCEPT ![c] = l]
  BY DEF ReadFails, Afterwards, Goto
<1>4. mu' = Free /\ l \in Positions /\ l \notin Locked
  BY <1>2 DEF ReadFails, Positions, Locked
<1>5. TypeOK' /\ Alone'
  BY <1>0, <1>1, <1>2, <1>3, <1>4, TypeMove, AloneKept DEF TypeOK
<1>6. Pending = <<>> /\ Pending' = Pending
  <2>1. Pending = <<>>
    BY <1>0, PendingType
  <2> QED BY <1>1, <2>1 DEF Pending
<1>7. \A d \in Callers : pc'[d] \notin {"raw", "spent"}
  BY <1>0, <1>2, <1>3 DEF TypeOK
<1> QED BY <1>0, <1>1, <1>2, <1>4, <1>5, <1>6, <1>7, ThenQuiet DEF DInv

LEMMA ReadRawStep ==
  ASSUME DInv, NEW c \in Callers, ReadRaw(c)
  PROVE  DInv'
<1>0. TypeOK /\ pc[c] = "raw"
  BY DEF DInv, ReadRaw
<1>1. UNCHANGED <<use, mu, foreign, open, caller, pc, kind, calls, toDaemon, serving, told>>
  BY DEF ReadRaw, lock, caller, daemon
<1>2. /\ Pending # <<>> /\ Pending' = Tail(Pending) /\ output' = Pending[1].i
      /\ buffered' \in Seq(Pieces) /\ wire' \in Seq(Pieces)
  BY <1>0, PendingTakenRaw
<1>3. \A d \in Callers \ {c} : pc[d] = "idle"
  BY <1>0, ShellAlone
<1>4. /\ Len(Pending) \in Nat \ {0} /\ Len(Pending') = Len(Pending) - 1
      /\ 1 \in DOMAIN Pending /\ DOMAIN Pending' = 1..(Len(Pending) - 1)
      /\ \A i \in DOMAIN Pending' : i + 1 \in DOMAIN Pending /\ Pending'[i] = Pending[i + 1]
  BY <1>0, <1>2, Taken
<1>5. /\ \A i \in DOMAIN Pending : Pending[i].part = "raw" /\ Pending[i].i = output + i
      /\ told = output + Len(Pending)
  BY <1>0 DEF DInv, ShellRest
<1>6. output \in Nat /\ output' = output + 1 /\ output' \in 0..MaxData
  <2>1. output \in Nat /\ told \in 0..MaxData /\ MaxData \in Nat
    BY <1>0, BoundAssumption DEF TypeOK
  <2>2. output' = output + 1
    BY <1>2, <1>4, <1>5
  <2> QED BY <1>4, <1>5, <2>1, <2>2
<1>7. TypeOK' /\ Alone'
  BY <1>0, <1>1, <1>2, <1>6 DEF TypeOK, DInv, Alone, Idle
<1>8. \A i \in DOMAIN Pending' : Pending'[i].part = "raw" /\ Pending'[i].i = output' + i
  BY <1>4, <1>5, <1>6
<1>9. told' = output' + Len(Pending')
  BY <1>1, <1>4, <1>5, <1>6
<1>10. open' => toDaemon' = <<>> /\ serving' = RequestOf(c)'
  BY <1>0, <1>1 DEF DInv, Daemon, DaemonOf, RequestOf
<1>11. ~foreign' /\ pc'[c] = "raw" /\ \A d \in Callers \ {c} : pc'[d] = "idle"
  BY <1>0, <1>1, <1>3 DEF DInv
<1> QED BY <1>7, <1>8, <1>9, <1>10, <1>11, ThenShell

LEMMA RawEndsStep ==
  ASSUME DInv, NEW c \in Callers, RawEnds(c)
  PROVE  DInv'
<1>0. /\ TypeOK /\ pc[c] = "raw" /\ ~open /\ pc' = [pc EXCEPT ![c] = "spent"]
      /\ buffered = <<>> /\ wire = <<>>
  BY DEF DInv, RawEnds, Goto, Rest
<1>1. UNCHANGED <<use, mu, foreign, open, kind, calls, toDaemon, wire, buffered, output,
                  serving, told>>
  BY DEF RawEnds, lock, input, daemon
<1>2. kind[c] = "exec" /\ \A d \in Callers \ {c} : pc[d] = "idle"
  BY <1>0, ShellAlone
<1>3. "spent" \in Positions /\ "spent" \notin Locked /\ "raw" \notin Locked
  BY DEF Positions, Locked
<1>4. TypeOK' /\ Alone'
  BY <1>0, <1>1, <1>2, <1>3, TypeMove, AloneKept DEF TypeOK
<1>5. Pending' = <<>>
  <2>1. Pending = <<>>
    BY <1>0, PendingType
  <2> QED BY <1>1, <2>1 DEF Pending
<1>6. pc'[c] = "spent" /\ \A d \in Callers \ {c} : pc'[d] = "idle"
  BY <1>0, <1>2 DEF TypeOK
<1> QED BY <1>0, <1>1, <1>4, <1>5, <1>6, ThenShell DEF DInv

-----------------------------------------------------------------------------
(* The daemon.                                                             *)

\* A request on its way is the one of the exchange that holds the lock.
LEMMA Requested ==
  ASSUME DInv, open, toDaemon # <<>>
  PROVE  \E c \in Callers : pc[c] = "head" /\ pc[c] \in Locked /\ Asked(c)
<1>1. ~Shell
  <2> SUFFICES ASSUME NEW d \in Callers, pc[d] \in {"raw", "spent"} PROVE FALSE
    BY DEF Shell
  <2> QED BY DEF DInv, Daemon, DaemonOf
<1>2. mu # Free
  BY <1>1 DEF DInv, Daemon
<1>3. mu \in Callers /\ pc[mu] \in Locked
  BY <1>2 DEF DInv, TypeOK
<1>4. PICK c \in Callers : c = mu
  BY <1>3
<1>5. DaemonOf(c)
  BY DEF DInv, Daemon
<1>6. Asked(c)
  BY <1>3, <1>4, <1>5 DEF DaemonOf, Stage, Answering, Answered, Locked
<1> QED BY <1>3, <1>4, <1>6 DEF Asked

\* What the daemon is answering is the request of that exchange, or the shell.
LEMMA Served ==
  ASSUME DInv, open, serving # Idle
  PROVE  \E c \in Callers :
           /\ toDaemon = <<>> /\ serving = RequestOf(c)
           /\ pc[c] = "raw" \/ (pc[c] \in Locked /\ pc[c] # "write" /\ Answering(c))
<1>1. CASE Shell
  <2>1. PICK c \in Callers : pc[c] \in {"raw", "spent"}
    BY <1>1 DEF Shell
  <2>2. DaemonOf(c)
    BY DEF DInv, Daemon
  <2> QED BY <2>1, <2>2 DEF DaemonOf
<1>2. CASE ~Shell
  <2>1. mu \in Callers /\ pc[mu] \in Locked
    BY <1>2 DEF DInv, Daemon, TypeOK
  <2>2. PICK c \in Callers : c = mu
    BY <2>1
  <2>3. DaemonOf(c)
    BY DEF DInv, Daemon
  <2>4. Answering(c) /\ pc[c] # "write"
    BY <2>1, <2>2, <2>3 DEF DaemonOf, Stage, Asked, Answered, Locked
  <2> QED BY <2>1, <2>2, <2>4 DEF Answering
<1> QED BY <1>1, <1>2

LEMMA DaemonTakesStep ==
  ASSUME DInv, DaemonTakes
  PROVE  DInv'
<1>0. TypeOK /\ open /\ toDaemon # <<>>
  BY DEF DInv, DaemonTakes
<1>1. UNCHANGED <<use, mu, foreign, open, caller, pc, kind, calls, buffered, output>>
  BY DEF DaemonTakes, lock, caller
<1>2. PICK c \in Callers : pc[c] = "head" /\ pc[c] \in Locked /\ Asked(c)
  BY <1>0, Requested
<1>3. toDaemon = <<RequestOf(c)>> /\ Pending = <<>> /\ RequestOf(c) \in Requests
  BY <1>0, <1>2, RequestType DEF Asked
<1>4. serving' = RequestOf(c) /\ toDaemon' = <<>> /\ told' = 0
  BY <1>3 DEF DaemonTakes
<1> DEFINE part == IF kind[c] = "exec" THEN "upgrade" ELSE "head"
           p == Piece(RequestOf(c), part, 0)
<1>5. p \in Pieces /\ p.of = RequestOf(c) /\ p.part = part
  BY <1>3, BoundAssumption DEF Piece, Pieces
<1>6. Send(p)
  BY <1>4 DEF DaemonTakes, RequestOf
<1> HIDE DEF p
<1>7. Pending' = Append(Pending, p) /\ wire' \in Seq(Pieces)
  BY <1>0, <1>1, <1>5, <1>6, PendingSent
<1>8. /\ Len(Pending') = 1 /\ DOMAIN Pending' = 1..1 /\ Pending'[1] = p /\ Pending' # <<>>
  BY <1>0, <1>3, <1>5, <1>7, Sent
<1>9. /\ mu = c /\ ~Shell /\ output = 0
      /\ \A d \in Callers \ {c} : pc[d] \notin Locked \cup {"raw", "spent"}
  BY <1>2, Holder
<1>10. TypeOK' /\ Alone'
  <2>1. told' \in 0..MaxData /\ toDaemon' \in Seq(Requests)
    BY <1>4, BoundAssumption
  <2> QED BY <1>0, <1>1, <1>3, <1>4, <1>7, <2>1, TypeStay DEF TypeOK, DInv, Alone
<1>11. RequestOf(c)' = RequestOf(c) /\ pc'[c] = "head" /\ kind'[c] = kind[c]
  BY <1>1, <1>2 DEF RequestOf
<1>12. ShapeOf(c)'
  BY <1>4, <1>5, <1>8, <1>11 DEF ShapeOf
<1>13. Answering(c)'
  BY <1>4, <1>5, <1>8, <1>11 DEF Answering
<1>14. DaemonOf(c)'
  BY <1>11, <1>13 DEF DaemonOf, Stage
<1>15. \A i \in DOMAIN Pending' : Pending'[i].of = RequestOf(c)'
  BY <1>5, <1>8, <1>11
<1> QED BY <1>1, <1>2, <1>9, <1>10, <1>12, <1>14, <1>15, ThenHeld DEF DInv

LEMMA DaemonRefusesStep ==
  ASSUME DInv, DaemonRefuses
  PROVE  DInv'
<1>0. TypeOK /\ open /\ toDaemon # <<>> /\ serving = Idle
  BY DEF DInv, DaemonRefuses
<1>1. UNCHANGED <<use, mu, foreign, open, caller, pc, kind, calls, buffered, output, serving, told>>
  BY DEF DaemonRefuses, lock, caller, daemon
<1>2. PICK c \in Callers : pc[c] = "head" /\ pc[c] \in Locked /\ Asked(c)
  BY <1>0, Requested
<1>3. toDaemon = <<RequestOf(c)>> /\ Pending = <<>> /\ RequestOf(c) \in Requests
  BY <1>0, <1>2, RequestType DEF Asked
<1>4. wire = <<>> /\ buffered = <<>>
  BY <1>0, <1>3, PendingType
<1> DEFINE p == Piece(RequestOf(c), "error", 0)
           q == Piece(RequestOf(c), "end", 0)
<1>5. /\ p \in Pieces /\ p.of = RequestOf(c) /\ p.part = "error"
      /\ q \in Pieces /\ q.of = RequestOf(c) /\ q.part = "end"
  BY <1>3, BoundAssumption DEF Piece, Pieces
<1>6. toDaemon' = <<>> /\ wire' = <<>> \o <<p, q>>
  BY <1>3, <1>4 DEF DaemonRefuses
<1> HIDE DEF p, q
<1>7. wire' = <<p, q>> /\ wire' \in Seq(Pieces) /\ Pending' = <<p, q>>
  BY <1>1, <1>4, <1>5, <1>6 DEF Pending
<1>8. /\ Len(Pending') = 2 /\ DOMAIN Pending' = 1..2 /\ Pending'[1] = p /\ Pending'[2] = q
      /\ Pending' # <<>>
  BY <1>7
<1>9. /\ mu = c /\ ~Shell /\ output = 0
      /\ \A d \in Callers \ {c} : pc[d] \notin Locked \cup {"raw", "spent"}
  BY <1>2, Holder
<1>10. TypeOK' /\ Alone'
  BY <1>0, <1>1, <1>6, <1>7, TypeStay DEF TypeOK, DInv, Alone
<1>11. RequestOf(c)' = RequestOf(c) /\ pc'[c] = "head"
  BY <1>1, <1>2 DEF RequestOf
<1>12. ShapeOf(c)'
  BY <1>5, <1>8, <1>11 DEF ShapeOf, BodyPiece
<1>13. Answered'
  BY <1>0, <1>1, <1>5, <1>6, <1>8 DEF Answered, Idle
<1>14. DaemonOf(c)'
  BY <1>11, <1>13 DEF DaemonOf, Stage
<1>15. \A i \in DOMAIN Pending' : Pending'[i].of = RequestOf(c)'
  BY <1>5, <1>8, <1>11
<1> QED BY <1>1, <1>2, <1>9, <1>10, <1>12, <1>14, <1>15, ThenHeld DEF DInv

LEMMA DaemonSendsStep ==
  ASSUME DInv, DaemonSends
  PROVE  DInv'
<1>0. TypeOK /\ open /\ serving # Idle /\ told' = told + 1 /\ told < MaxData
  BY DEF DInv, DaemonSends
<1>1. UNCHANGED <<use, mu, foreign, open, caller, pc, kind, calls, toDaemon, buffered, output,
                  serving>>
  BY DEF DaemonSends, lock, caller
<1>2. PICK c \in Callers :
        /\ toDaemon = <<>> /\ serving = RequestOf(c)
        /\ pc[c] = "raw" \/ (pc[c] \in Locked /\ pc[c] # "write" /\ Answering(c))
  BY <1>0, Served
<1> DEFINE part == IF kind[c] = "exec" THEN "raw" ELSE "data"
           p == Piece(RequestOf(c), part, told + 1)
<1>3. told \in Nat /\ told' \in 0..MaxData /\ RequestOf(c) \in Requests /\ serving.kind = kind[c]
  BY <1>0, <1>2, BoundAssumption, RequestType DEF TypeOK, RequestOf
<1>4. p \in Pieces /\ p.of = RequestOf(c) /\ p.part = part /\ p.i = told + 1
  BY <1>0, <1>3 DEF Piece, Pieces
<1>5. Send(p)
  BY <1>0, <1>2, <1>3 DEF DaemonSends
<1> HIDE DEF p
<1>6. Pending' = Append(Pending, p) /\ wire' \in Seq(Pieces)
  BY <1>0, <1>1, <1>4, <1>5, PendingSent
<1>7. /\ Len(Pending) \in Nat /\ Len(Pending') = Len(Pending) + 1
      /\ DOMAIN Pending = 1..Len(Pending) /\ DOMAIN Pending' = 1..(Len(Pending) + 1)
      /\ \A i \in DOMAIN Pending : Pending'[i] = Pending[i]
      /\ Pending'[Len(Pending) + 1] = p /\ Pending' # <<>>
  BY <1>0, <1>4, <1>6, Sent
<1>8. TypeOK' /\ Alone'
  BY <1>0, <1>1, <1>3, <1>6, TypeStay DEF TypeOK, DInv, Alone, Idle
<1>9. RequestOf(c)' = RequestOf(c) /\ pc'[c] = pc[c] /\ kind'[c] = kind[c] /\ ~foreign'
  BY <1>1 DEF RequestOf, DInv
<1>10. CASE pc[c] = "raw"
  <2>1. kind[c] = "exec" /\ \A d \in Callers \ {c} : pc'[d] = "idle"
    BY <1>1, <1>10, ShellAlone
  <2>2. /\ \A i \in DOMAIN Pending : Pending[i].part = "raw" /\ Pending[i].i = output + i
        /\ told = output + Len(Pending)
    BY <1>10 DEF DInv, ShellRest
  <2>3. output \in Nat /\ output' = output
    BY <1>0, <1>1, BoundAssumption DEF TypeOK
  <2>4. \A i \in DOMAIN Pending' : Pending'[i].part = "raw" /\ Pending'[i].i = output' + i
    <3> SUFFICES ASSUME NEW i \in DOMAIN Pending'
                 PROVE  Pending'[i].part = "raw" /\ Pending'[i].i = output' + i
      OBVIOUS
    <3>1. CASE i \in DOMAIN Pending
      BY <1>7, <2>2, <2>3, <3>1
    <3>2. CASE i = Len(Pending) + 1
      BY <1>4, <1>7, <2>1, <2>2, <2>3, <3>2
    <3> QED BY <1>7, <3>1, <3>2
  <2>5. told' = output' + Len(Pending')
    BY <1>0, <1>7, <2>2, <2>3
  <2> QED BY <1>1, <1>2, <1>8, <1>9, <1>10, <2>1, <2>4, <2>5, ThenShell
<1>11. CASE pc[c] \in Locked /\ pc[c] # "write" /\ Answering(c)
  <2>1. /\ mu = c /\ ~Shell /\ output = 0
        /\ \A d \in Callers \ {c} : pc[d] \notin Locked \cup {"raw", "spent"}
    BY <1>11, Holder
  <2>2. ShapeOf(c) /\ pc[c] \in {"head", "body", "drain", "refused"}
    BY <1>11 DEF DInv, Shape, Locked
  <2>3. \A i \in DOMAIN Pending' : Pending'[i].of = RequestOf(c)'
    <3>1. \A i \in DOMAIN Pending : Pending[i].of = RequestOf(c)
      BY <2>1 DEF DInv, OwnPieces
    <3> QED BY <1>4, <1>7, <1>9, <3>1
  <2>4. \A i \in DOMAIN Pending' : Pending'[i].part # "end"
    BY <1>4, <1>7, <1>11 DEF Answering
  <2>5. Pending # <<>> => 1 \in DOMAIN Pending /\ Pending'[1] = Pending[1] /\ Len(Pending) # 0
    BY <1>0, <1>7, PendingType
  <2>6. Answering(c)'
    BY <1>1, <1>2, <1>7, <1>9, <1>11, <2>4, <2>5 DEF Answering
  <2>7. ShapeOf(c)'
    <3>1. CASE pc[c] # "head"
      <4>1. kind[c] # "exec"
        BY <1>11, <3>1 DEF Answering
      <4>2. \A i \in DOMAIN Pending : Pending[i].part = "data"
        BY <1>11, <2>2, <3>1 DEF ShapeOf, BodyPiece, Answering
      <4>3. \A i \in DOMAIN Pending' : Pending'[i].part = "data"
        BY <1>4, <1>7, <4>1, <4>2
      <4> QED BY <1>9, <2>2, <3>1, <4>3 DEF ShapeOf, BodyPiece
    <3>2. CASE pc[c] = "head" /\ kind[c] # "exec"
      <4>1. 1 \in DOMAIN Pending /\ Pending[1].part = "head" /\ Pending'[1].part = "head"
        BY <1>11, <2>5, <3>2 DEF Answering
      <4>2. \A i \in DOMAIN Pending : i # 1 => Pending[i].part = "data"
        BY <1>11, <2>2, <3>2, <4>1 DEF ShapeOf, BodyPiece, Answering
      <4>3. \A i \in DOMAIN Pending' : i # 1 => Pending'[i].part = "data"
        BY <1>4, <1>7, <3>2, <4>2
      <4> QED BY <1>9, <3>2, <4>1, <4>3 DEF ShapeOf, BodyPiece
    <3>3. CASE pc[c] = "head" /\ kind[c] = "exec"
      <4>1. /\ 1 \in DOMAIN Pending /\ Pending[1].part = "upgrade" /\ Pending'[1].part = "upgrade"
            /\ Len(Pending) # 0
        BY <1>11, <2>5, <3>3 DEF Answering
      <4>2. told = Len(Pending) - 1
        BY <2>2, <3>3, <4>1 DEF ShapeOf
      <4>3. \A i \in DOMAIN Pending : i # 1 => Pending[i].part = "raw" /\ Pending[i].i = i - 1
        BY <2>2, <3>3, <4>1 DEF ShapeOf
      <4>4. told' = Len(Pending') - 1
        BY <1>0, <1>7, <4>2
      <4>5. \A i \in DOMAIN Pending' : i # 1 => Pending'[i].part = "raw" /\ Pending'[i].i = i - 1
        <5> SUFFICES ASSUME NEW i \in DOMAIN Pending', i # 1
                     PROVE  Pending'[i].part = "raw" /\ Pending'[i].i = i - 1
          OBVIOUS
        <5>1. CASE i \in DOMAIN Pending
          BY <1>7, <4>3, <5>1
        <5>2. CASE i = Len(Pending) + 1
          BY <1>4, <1>7, <3>3, <4>2, <5>2
        <5> QED BY <1>7, <5>1, <5>2
      <4> QED BY <1>9, <3>3, <4>1, <4>4, <4>5 DEF ShapeOf
    <3> QED BY <3>1, <3>2, <3>3
  <2>8. DaemonOf(c)'
    BY <1>9, <2>2, <2>6 DEF DaemonOf, Stage
  <2>9. output' = 0 /\ pc'[c] \in Locked /\ \A d \in Callers \ {c} : pc'[d] \notin {"raw", "spent"}
    BY <1>1, <1>11, <2>1
  <2> QED BY <1>8, <1>9, <2>3, <2>7, <2>8, <2>9, ThenHeld
<1> QED BY <1>2, <1>10, <1>11

LEMMA DaemonEndsStep ==
  ASSUME DInv, DaemonEnds
  PROVE  DInv'
<1>0. TypeOK /\ open /\ serving # Idle /\ told' = 0 /\ serving' = Idle /\ serving.kind # "exec"
  BY DEF DInv, DaemonEnds
<1>1. UNCHANGED <<use, mu, foreign, open, caller, pc, kind, calls, toDaemon, buffered, output>>
  BY DEF DaemonEnds, lock, caller
<1>2. PICK c \in Callers :
        /\ toDaemon = <<>> /\ serving = RequestOf(c)
        /\ pc[c] = "raw" \/ (pc[c] \in Locked /\ pc[c] # "write" /\ Answering(c))
  BY <1>0, Served
<1> DEFINE p == Piece(RequestOf(c), "end", 0)
<1>3. RequestOf(c) \in Requests /\ kind[c] # "exec"
  BY <1>0, <1>2, RequestType DEF RequestOf
<1>4. p \in Pieces /\ p.of = RequestOf(c) /\ p.part = "end"
  BY <1>3, BoundAssumption DEF Piece, Pieces
<1>5. Send(p)
  BY <1>2 DEF DaemonEnds
<1> HIDE DEF p
<1>6. Pending' = Append(Pending, p) /\ wire' \in Seq(Pieces)
  BY <1>0, <1>1, <1>4, <1>5, PendingSent
<1>7. /\ Len(Pending) \in Nat /\ Len(Pending') = Len(Pending) + 1
      /\ DOMAIN Pending = 1..Len(Pending) /\ DOMAIN Pending' = 1..(Len(Pending) + 1)
      /\ \A i \in DOMAIN Pending : Pending'[i] = Pending[i]
      /\ Pending'[Len(Pending) + 1] = p /\ Pending' # <<>>
  BY <1>0, <1>4, <1>6, Sent
<1>8. TypeOK' /\ Alone'
  <2>1. told' \in 0..MaxData
    BY <1>0, BoundAssumption
  <2> QED BY <1>0, <1>1, <1>6, <2>1, TypeStay DEF TypeOK, DInv, Alone, Idle
<1>9. RequestOf(c)' = RequestOf(c) /\ pc'[c] = pc[c] /\ ~foreign'
  BY <1>1 DEF RequestOf, DInv
<1>10. pc[c] \in Locked /\ pc[c] # "write" /\ Answering(c)
  BY <1>2, <1>3 DEF DInv, Alone
<1>11. /\ mu = c /\ ~Shell /\ output = 0
       /\ \A d \in Callers \ {c} : pc[d] \notin Locked \cup {"raw", "spent"}
  BY <1>10, Holder
<1>12. ShapeOf(c) /\ pc[c] \in {"head", "body", "drain", "refused"}
  BY <1>10 DEF DInv, Shape, Locked
<1>13. \A i \in DOMAIN Pending' : Pending'[i].of = RequestOf(c)'
  <2>1. \A i \in DOMAIN Pending : Pending[i].of = RequestOf(c)
    BY <1>11 DEF DInv, OwnPieces
  <2> QED BY <1>4, <1>7, <1>9, <2>1
<1>14. Answered'
  BY <1>0, <1>1, <1>2, <1>4, <1>7 DEF Answered, Idle
<1>15. ShapeOf(c)'
  <2>1. CASE pc[c] # "head"
    <3>1. \A i \in DOMAIN Pending : Pending[i].part = "data"
      BY <1>10, <1>12, <2>1 DEF ShapeOf, BodyPiece, Answering
    <3>2. \A i \in DOMAIN Pending' : BodyPiece(Pending', i)
      BY <1>4, <1>7, <3>1 DEF BodyPiece
    <3> QED BY <1>9, <1>12, <2>1, <3>2 DEF ShapeOf
  <2>2. CASE pc[c] = "head"
    <3>1. 1 \in DOMAIN Pending /\ Pending[1].part = "head" /\ Pending'[1].part = "head"
      BY <1>0, <1>3, <1>7, <1>10, <2>2, PendingType DEF Answering
    <3>2. \A i \in DOMAIN Pending : i # 1 => Pending[i].part = "data"
      BY <1>10, <1>12, <2>2, <3>1 DEF ShapeOf, BodyPiece, Answering
    <3>3. \A i \in DOMAIN Pending' : i # 1 => BodyPiece(Pending', i)
      BY <1>4, <1>7, <3>2 DEF BodyPiece
    <3> QED BY <1>9, <2>2, <3>1, <3>3 DEF ShapeOf
  <2> QED BY <2>1, <2>2
<1>16. DaemonOf(c)'
  BY <1>9, <1>12, <1>14 DEF DaemonOf, Stage
<1>17. output' = 0 /\ pc'[c] \in Locked /\ \A d \in Callers \ {c} : pc'[d] \notin {"raw", "spent"}
  BY <1>1, <1>10, <1>11
<1> QED BY <1>8, <1>9, <1>13, <1>15, <1>16, <1>17, ThenHeld

LEMMA EndsStep ==
  ASSUME DInv, Ends
  PROVE  DInv'
<1>1. /\ open' = FALSE
      /\ UNCHANGED <<use, mu, foreign, caller, pc, kind, calls, toDaemon, wire, buffered, output,
                     serving, told>>
  BY DEF Ends, lock, caller, input, daemon
<1>2. TypeOK'
  BY <1>1, TypeStay DEF DInv, TypeOK
<1>3. Pending' = Pending
  BY <1>1 DEF Pending
<1> QED BY <1>1, <1>2, <1>3, ThenUnmoved

-----------------------------------------------------------------------------
LEMMA InitDInv == Init => DInv
<1> SUFFICES ASSUME Init PROVE DInv
  OBVIOUS
<1>1. TypeOK
  <2>1. \A c \in Callers : mu = c <=> pc[c] \in Locked
    BY OpenerAssumption DEF Init, Locked
  <2>2. <<>> \in Seq(Requests) /\ <<>> \in Seq(Pieces) /\ 0 \in 0..MaxData
    BY BoundAssumption
  <2>3. "none" \in Kinds
    BY DEF Kinds
  <2> QED BY <2>1, <2>2, <2>3 DEF Init, TypeOK
<1>2. Pending = <<>>
  BY <1>1, PendingType DEF Init
<1>3. \A c \in Callers : pc[c] = "idle" /\ kind[c] = "none"
  BY DEF Init
<1>4. ~foreign /\ ShellRest /\ Alone /\ NoOutput /\ ~Shell
  BY <1>3 DEF Init, ShellRest, Alone, NoOutput, Shell
<1>5. OwnPieces
  BY <1>2 DEF OwnPieces
<1>6. Shape
  BY <1>2, <1>3 DEF Shape, ShapeOf
<1>7. Daemon
  BY <1>3 DEF Init, Daemon, DaemonOf
<1> QED BY <1>1, <1>4, <1>5, <1>6, <1>7 DEF DInv

LEMMA NextDInv == DInv /\ [Next]_vars => DInv'
<1> SUFFICES ASSUME DInv, [Next]_vars PROVE DInv'
  OBVIOUS
<1>1. ASSUME NEW c \in Callers, Exchange(c) PROVE DInv'
  BY <1>1, PassStep, LockStep, WriteStep, FillStep, ReadHeadStep, DataStep, CloseBodyStep,
     DrainEndStep, ReadFailsStep, ReadRawStep, RawEndsStep DEF Exchange
<1>2. ASSUME NEW c \in Callers, NEW k \in NextKinds(c), Begin(c, k) PROVE DInv'
  BY <1>2, BeginStep
<1>3. CASE DaemonTakes
  BY <1>3, DaemonTakesStep
<1>4. CASE DaemonRefuses
  BY <1>4, DaemonRefusesStep
<1>5. CASE DaemonSends
  BY <1>5, DaemonSendsStep
<1>6. CASE DaemonEnds
  BY <1>6, DaemonEndsStep
<1>7. CASE Ends
  BY <1>7, EndsStep
<1>8. CASE UNCHANGED vars
  <2>1. UNCHANGED <<use, mu, foreign, open, caller, pc, kind, calls, toDaemon, wire, buffered,
                    output, serving, told>>
    BY <1>8 DEF vars, lock, caller, input, daemon
  <2>2. TypeOK'
    BY <2>1, TypeStay DEF DInv, TypeOK
  <2>3. Pending' = Pending
    BY <2>1 DEF Pending
  <2> QED BY <2>1, <2>2, <2>3, ThenUnmoved
<1> QED BY <1>1, <1>2, <1>3, <1>4, <1>5, <1>6, <1>7, <1>8 DEF Next

\* What the two properties say is part of the invariant.
LEMMA OwnResponseFromDInv == DInv => OwnResponse /\ ShellComplete
<1> SUFFICES ASSUME DInv PROVE OwnResponse /\ ShellComplete
  OBVIOUS
<1>1. OwnResponse
  <2>1. TypeOK /\ ~foreign
    BY DEF DInv
  <2>2. ASSUME mu = Free, open, \A c \in Callers : pc[c] \notin {"raw", "spent"}
        PROVE  toDaemon = <<>> /\ wire = <<>> /\ buffered = <<>>
    <3>1. Pending = <<>>
      BY <2>2 DEF DInv, Shape
    <3>2. toDaemon = <<>>
      BY <2>2 DEF DInv, Daemon, Shell
    <3> QED BY <2>1, <3>1, <3>2, PendingType
  <2> QED BY <2>1, <2>2 DEF OwnResponse
<1>2. ShellComplete
  BY DEF DInv, ShellRest, ShellComplete, Pending
<1> QED BY <1>1, <1>2

\* The invariant that carries the two results below: it ties what is on the wire to
\* the goroutine that holds Client.mu and to how far the daemon has answered.
THEOREM Inductive == Spec => []DInv
BY InitDInv, NextDInv, PTL DEF Spec

\* Over one connection without request ids, no goroutine of any number is handed a
\* byte of another's response, wherever callers stop reading and however far bufio
\* reads ahead; and between two exchanges nothing is left to be read (client.go, do
\* and lockedBody.Close).
THEOREM ResponsesAreOwn == Spec => []OwnResponse
BY Inductive, OwnResponseFromDInv, PTL

\* A shell's output of any length reaches the tab from its first piece and in order,
\* whatever of it was read ahead with the headers of the upgrade (hijackedStream).
THEOREM ShellFromFirstByte == Spec => []ShellComplete
BY Inductive, OwnResponseFromDInv, PTL
=============================================================================
