--------------------------- MODULE ChannelManager ---------------------------
(***************************************************************************)
(* internal/infra/chanbus/manager.go: opening channels, routing what the   *)
(* host sends to them, and ending them from either side.                   *)
(*                                                                         *)
(* The frame reader takes messages off the pipe in order. It resumes the   *)
(* goroutine waiting in OpenExec and delivers data itself, but hands every *)
(* channel.close to a new goroutine (ipc/client.go, dispatchJSONRPC), so   *)
(* three things race for a new channel's entry in the map: OpenExec, which *)
(* makes it, the reader, which looks it up, and HostClosed, which deletes  *)
(* it. Credit frames are routed as data frames are and are left out.       *)
(*                                                                         *)
(* A Channel is here what its own module shows it to be: open or closed,   *)
(* the first close from either side being the one that counts.             *)
(***************************************************************************)
EXTENDS Naturals, Sequences, FiniteSets

CONSTANTS Openers,    \* goroutines that open a channel, one each
          MaxFrames,  \* bound: data frames the host sends on a channel
          EarlyClose  \* the host may close a channel before anything was written to it

ASSUME OpenersAssumption == IsFiniteSet(Openers)
ASSUME BoundAssumption == MaxFrames \in Nat /\ EarlyClose \in BOOLEAN

VARIABLES
  channels,  \* the map: ids that have an entry
  object,    \* the Channel of each id: "none", "open", "closed"
  opener,    \* where each goroutine is between OpenExec and Close
  id,        \* the channel id the host gave it, 0 before
  hostClosing, \* where the goroutine of each channel.close is
  closeAll,  \* where CloseAll is
  snapshot,  \* channels CloseAll has still to close
  fromHost,  \* the pipe: opened, data and close messages in order
  asked,     \* goroutines whose channel.open the host has not answered
  hostEnd,   \* the host's end of each id
  hostSent, received, \* frames the host sent, and that reached the Channel
  notified   \* channel.close notifications sent for each id

pipe == <<fromHost, asked, hostEnd, hostSent>>
vars == <<channels, object, opener, id, hostClosing, closeAll, snapshot, pipe, received, notified>>

IDs == 1..Cardinality(Openers)
Messages == [kind : {"opened"}, to : Openers, id : IDs] \cup [kind : {"data", "close"}, id : IDs]

\* Every variable has its type, and no channel receives more frames than the
\* host sent it (Manager.Deliver).
TypeOK ==
  /\ channels \subseteq IDs /\ object \in [IDs -> {"none", "open", "closed"}]
  /\ opener \in [Openers -> {"idle", "calling", "named", "open", "using", "closing", "done",
                             "failed"}]
  /\ id \in [Openers -> {0} \cup IDs]
  /\ hostClosing \in [IDs -> {"none", "spawned", "found", "done"}]
  /\ closeAll \in {"idle", "closing", "done"} /\ snapshot \subseteq IDs
  /\ fromHost \in Seq(Messages)
  /\ asked \subseteq Openers /\ hostEnd \in [IDs -> {"unused", "open", "closed"}]
  /\ hostSent \in [IDs -> 0..MaxFrames] /\ received \in [IDs -> 0..MaxFrames]
  /\ notified \in [IDs -> Nat]

Init ==
  /\ channels = {} /\ object = [i \in IDs |-> "none"]
  /\ opener = [o \in Openers |-> "idle"] /\ id = [o \in Openers |-> 0]
  /\ hostClosing = [i \in IDs |-> "none"]
  /\ closeAll = "idle" /\ snapshot = {}
  /\ fromHost = <<>> /\ asked = {} /\ hostEnd = [i \in IDs |-> "unused"]
  /\ hostSent = [i \in IDs |-> 0] /\ received = [i \in IDs |-> 0]
  /\ notified = [i \in IDs |-> 0]

-----------------------------------------------------------------------------
(* OpenExec, in two steps: what the reader does in between, it does before *)
(* the channel has an entry.                                               *)

OpenCall(o) ==
  /\ opener[o] = "idle"
  /\ opener' = [opener EXCEPT ![o] = "calling"] /\ asked' = asked \cup {o}
  /\ UNCHANGED <<channels, object, id, hostClosing, closeAll, snapshot, fromHost, hostEnd,
                 hostSent, received, notified>>

\* The context of the call ended; the answer will find nobody.
OpenGiveUp(o) ==
  /\ opener[o] = "calling" /\ opener' = [opener EXCEPT ![o] = "failed"]
  /\ UNCHANGED <<channels, object, id, hostClosing, closeAll, snapshot, pipe, received, notified>>

Register(o) ==
  /\ opener[o] = "named" /\ opener' = [opener EXCEPT ![o] = "open"]
  /\ object' = [object EXCEPT ![id[o]] = "open"]
  /\ channels' = channels \cup {id[o]}
  /\ UNCHANGED <<id, hostClosing, closeAll, snapshot, pipe, received, notified>>

\* The first write: the peer answers only what it is asked (the Docker API).
FirstWrite(o) ==
  /\ opener[o] = "open" /\ opener' = [opener EXCEPT ![o] = "using"]
  /\ UNCHANGED <<channels, object, id, hostClosing, closeAll, snapshot, pipe, received, notified>>

-----------------------------------------------------------------------------
(* Close of a channel, and the CloseChannel it ends in.                    *)

\* Channel.Close: idempotent, and silent when the host closed first.
CloseObject(i) == object' = [object EXCEPT ![i] = "closed"]

\* Mutant: a Close that does not look whether the channel is closed already.
Closable_Always(i) == object[i] # "none"
Closable(i) == object[i] = "open"

Close(o) ==
  /\ opener[o] \in {"open", "using"}
  /\ IF Closable(id[o])
       THEN CloseObject(id[o]) /\ opener' = [opener EXCEPT ![o] = "closing"]
       ELSE UNCHANGED object /\ opener' = [opener EXCEPT ![o] = "done"]
  /\ UNCHANGED <<channels, id, hostClosing, closeAll, snapshot, pipe, received, notified>>

\* Mutant: CloseChannel tells the host and keeps the entry.
Remaining_Kept(i) == channels
Remaining(i) == channels \ {i}

\* CloseChannel: forget the channel, then tell the host.
CloseChannel(i) ==
  /\ channels' = Remaining(i)
  /\ notified' = [notified EXCEPT ![i] = @ + 1]

CloseEnd(o) ==
  /\ opener[o] = "closing" /\ opener' = [opener EXCEPT ![o] = "done"]
  /\ CloseChannel(id[o])
  /\ UNCHANGED <<object, id, hostClosing, closeAll, snapshot, pipe, received>>

\* CloseAll: take the map and leave an empty one, then close what it held.
CloseAll ==
  /\ closeAll = "idle" /\ closeAll' = "closing"
  /\ snapshot' = channels /\ channels' = {}
  /\ UNCHANGED <<object, opener, id, hostClosing, pipe, received, notified>>

CloseNext ==
  /\ closeAll = "closing"
  /\ \/ \E i \in snapshot :
          /\ snapshot' = snapshot \ {i} /\ UNCHANGED closeAll
          /\ IF Closable(i) THEN CloseObject(i) /\ CloseChannel(i)
                            ELSE UNCHANGED <<object, channels, notified>>
     \/ /\ snapshot = {} /\ closeAll' = "done"
        /\ UNCHANGED <<snapshot, object, channels, notified>>
  /\ UNCHANGED <<opener, id, hostClosing, pipe, received>>

-----------------------------------------------------------------------------
(* The frame reader.                                                       *)

\* resume: the answer of channel.open.
ReadOpened ==
  /\ fromHost # <<>> /\ Head(fromHost).kind = "opened"
  /\ fromHost' = Tail(fromHost)
  /\ LET o == Head(fromHost).to IN
       IF opener[o] = "calling"
         THEN /\ opener' = [opener EXCEPT ![o] = "named"]
              /\ id' = [id EXCEPT ![o] = Head(fromHost).id]
         ELSE UNCHANGED <<opener, id>>
  /\ UNCHANGED <<channels, object, hostClosing, closeAll, snapshot, asked, hostEnd, hostSent,
                 received, notified>>

\* Mutant: a frame is handed on twice.
Accepted_Twice(i) == IF i \in channels /\ object[i] = "open" THEN 2 ELSE 0
\* Mutant: a full queue drops what comes next.
Accepted_Bounded(i) == IF i \in channels /\ object[i] = "open" /\ received[i] = 0 THEN 1 ELSE 0
\* Deliver: a frame for an id that has no entry is dropped.
Accepted(i) == IF i \in channels /\ object[i] = "open" THEN 1 ELSE 0

ReadData ==
  /\ fromHost # <<>> /\ Head(fromHost).kind = "data"
  /\ fromHost' = Tail(fromHost)
  /\ LET i == Head(fromHost).id IN
       received' = [received EXCEPT ![i] = @ + Accepted(i)]
  /\ UNCHANGED <<channels, object, opener, id, hostClosing, closeAll, snapshot, asked, hostEnd,
                 hostSent, notified>>

ReadClose ==
  /\ fromHost # <<>> /\ Head(fromHost).kind = "close"
  /\ fromHost' = Tail(fromHost)
  /\ hostClosing' = [hostClosing EXCEPT ![Head(fromHost).id] = "spawned"]
  /\ UNCHANGED <<channels, object, opener, id, closeAll, snapshot, asked, hostEnd, hostSent,
                 received, notified>>

\* Mutant: HostClosed forgets the channel without closing it.
HostClosed_OnlyForgets(i) ==
  /\ hostClosing[i] = "spawned" /\ hostClosing' = [hostClosing EXCEPT ![i] = "done"]
  /\ channels' = channels \ {i}
  /\ UNCHANGED <<object, opener, id, closeAll, snapshot, pipe, received, notified>>
\* HostClosed: take the entry out; an id without one is somebody else's.
HostClosed(i) ==
  /\ hostClosing[i] = "spawned"
  /\ hostClosing' = [hostClosing EXCEPT ![i] = IF i \in channels THEN "found" ELSE "done"]
  /\ channels' = Remaining(i)
  /\ UNCHANGED <<object, opener, id, closeAll, snapshot, pipe, received, notified>>

\* CloseRemote: idempotent, and the host is not told.
CloseRemote(i) ==
  /\ hostClosing[i] = "found" /\ hostClosing' = [hostClosing EXCEPT ![i] = "done"]
  /\ CloseObject(i)
  /\ UNCHANGED <<channels, opener, id, closeAll, snapshot, pipe, received, notified>>

-----------------------------------------------------------------------------
(* The host: ids are its to give, one per request and never twice; it ends *)
(* a channel when the command behind it exits, which a command that cannot *)
(* start does at once.                                                     *)

HostOpens(o) ==
  /\ o \in asked /\ asked' = asked \ {o}
  /\ \E i \in IDs :
       /\ hostEnd[i] = "unused" /\ \A j \in 1..(i - 1) : hostEnd[j] # "unused"
       /\ hostEnd' = [hostEnd EXCEPT ![i] = "open"]
       /\ fromHost' = Append(fromHost, [kind |-> "opened", to |-> o, id |-> i])
  /\ UNCHANGED <<channels, object, opener, id, hostClosing, closeAll, snapshot, hostSent,
                 received, notified>>

Written(i) == \E o \in Openers : id[o] = i /\ opener[o] = "using"

HostSends(i) ==
  /\ hostEnd[i] = "open" /\ hostSent[i] < MaxFrames /\ (hostSent[i] > 0 \/ Written(i))
  /\ hostSent' = [hostSent EXCEPT ![i] = @ + 1]
  /\ fromHost' = Append(fromHost, [kind |-> "data", id |-> i])
  /\ UNCHANGED <<channels, object, opener, id, hostClosing, closeAll, snapshot, asked, hostEnd,
                 received, notified>>

HostCloses(i) ==
  /\ hostEnd[i] = "open" /\ (EarlyClose \/ hostSent[i] > 0 \/ Written(i))
  /\ hostEnd' = [hostEnd EXCEPT ![i] = "closed"]
  /\ fromHost' = Append(fromHost, [kind |-> "close", id |-> i])
  /\ UNCHANGED <<channels, object, opener, id, hostClosing, closeAll, snapshot, asked, hostSent,
                 received, notified>>

-----------------------------------------------------------------------------
Reader == ReadOpened \/ ReadData \/ ReadClose
Use(o) == OpenCall(o) \/ OpenGiveUp(o) \/ Register(o) \/ FirstWrite(o) \/ Close(o) \/ CloseEnd(o)
Next == \/ Reader \/ CloseAll \/ CloseNext
        \/ \E o \in Openers : Use(o) \/ HostOpens(o)
        \/ \E i \in IDs : HostClosed(i) \/ CloseRemote(i) \/ HostSends(i) \/ HostCloses(i)

Spec == Init /\ [][Next]_vars

\* Goroutines that can run do; nobody has to open, write, give up or close.
Fairness ==
  /\ WF_vars(Reader) /\ WF_vars(CloseNext)
  /\ \A o \in Openers : WF_vars(Register(o)) /\ WF_vars(CloseEnd(o))
  /\ \A i \in IDs : WF_vars(HostClosed(i)) /\ WF_vars(CloseRemote(i))
FairSpec == Spec /\ Fairness

-----------------------------------------------------------------------------
\* The Close of channel i has marked it and is on its way to CloseChannel.
BeingClosed(i) == \E o \in Openers : id[o] = i /\ opener[o] = "closing"

\* The map holds no closed channel: whoever closes one takes its entry out,
\* whichever of Close, CloseAll and HostClosed gets there first (Manager, "it
\* owns the id->channel map"). And every variable has its type.
MapHoldsOpenChannels ==
  TypeOK /\ \A i \in channels : object[i] = "open" \/ BeingClosed(i)

\* However Close, CloseAll and the host's close race, the host is told of an
\* end at most once (CloseChannel).
ToldOnce == \A i \in IDs : notified[i] <= 1

InFlight(i) == Cardinality({k \in DOMAIN fromHost : fromHost[k] = [kind |-> "data", id |-> i]})

\* An open channel that is still in the map has received every frame the host
\* sent on it and the reader has taken: the gap between channel.open's answer
\* and the entry loses no data, because the peer is silent until written to.
NoFrameLost ==
  \A i \in channels : object[i] = "open" => received[i] + InFlight(i) = hostSent[i]

\* A reader of a channel that the host has closed is woken: the channel is
\* closed on this side too (channel_test.go, "or every consumer of a finished
\* stream hangs forever").
HostCloseArrives ==
  \A i \in IDs : (hostEnd[i] = "closed" /\ object[i] = "open") ~> object[i] = "closed"
=============================================================================
