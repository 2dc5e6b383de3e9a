------------------------ MODULE ChannelManagerProofs ------------------------
(***************************************************************************)
(* Theorems about ChannelManager, for any number of goroutines that open   *)
(* channels and of frames, whether or not the host closes early.           *)
(***************************************************************************)
EXTENDS ChannelManager, SequenceLemmas, TLAPS, FiniteSetTheorems

Data(i) == [kind |-> "data", id |-> i]

\* An id belongs to one goroutine, from the answer of channel.open on, and has
\* a Channel from the time that goroutine registers it.
Named ==
  /\ \A o, p \in Openers : id[o] = id[p] /\ id[o] # 0 => o = p
  /\ \A o \in Openers :
       /\ opener[o] \in {"idle", "calling", "failed"} <=> id[o] = 0
       /\ opener[o] = "named" => object[id[o]] = "none"
       /\ opener[o] \in {"open", "using", "closing", "done"} => object[id[o]] # "none"
       /\ opener[o] = "closing" => object[id[o]] = "closed"

\* The host gives an id once; until its answer is read nobody has the id.
GivenOnce ==
  /\ \A o \in Openers : id[o] # 0 => hostEnd[id[o]] # "unused"
  /\ \A i \in IDs : hostEnd[i] = "unused" => object[i] = "none"
  /\ \A k \in DOMAIN fromHost : fromHost[k].kind = "opened" =>
       /\ hostEnd[fromHost[k].id] # "unused" /\ object[fromHost[k].id] = "none"
       /\ \A o \in Openers : id[o] # fromHost[k].id
       /\ \A j \in DOMAIN fromHost :
            fromHost[j].kind = "opened" /\ fromHost[j].id = fromHost[k].id => j = k

\* What CloseAll and HostClosed took out of the map was registered, and what
\* HostClosed took out is not there any more.
TakenOut ==
  /\ \A i \in snapshot : object[i] # "none"
  /\ \A i \in IDs : hostClosing[i] = "found" => object[i] # "none" /\ i \notin channels

\* The host has been told of a closed channel, by a Close that is over.
Told == \A i \in IDs : notified[i] # 0 => notified[i] = 1 /\ object[i] = "closed" /\ ~BeingClosed(i)

\* A channel gets no more than was sent on it, and the host sends nothing on
\* one that is not registered yet.
Sent == \A i \in IDs : /\ received[i] + InFlight(i) <= hostSent[i]
                       /\ object[i] = "none" => hostSent[i] = 0

MInv == MapHoldsOpenChannels /\ NoFrameLost /\ Named /\ GivenOnce /\ TakenOut /\ Told /\ Sent

-----------------------------------------------------------------------------
(* Facts the steps share.                                                  *)

LEMMA MessageFacts ==
  /\ \A i \in IDs : Data(i) \in Messages /\ [kind |-> "close", id |-> i] \in Messages
  /\ \A o \in Openers, i \in IDs : [kind |-> "opened", to |-> o, id |-> i] \in Messages
  /\ \A m \in Messages : m.id \in IDs /\ (m.kind = "opened" => m.to \in Openers)
  /\ \A m \in Messages, i \in IDs : m = Data(i) => m.kind = "data" /\ m.id = i
  /\ \A m \in Messages : m.kind = "data" => m = Data(m.id)
<1>1. \A i \in IDs : Data(i) \in Messages /\ [kind |-> "close", id |-> i] \in Messages
  BY DEF Messages, Data
<1>2. \A o \in Openers, i \in IDs : [kind |-> "opened", to |-> o, id |-> i] \in Messages
  BY DEF Messages
<1>3. \A m \in Messages : m.id \in IDs /\ (m.kind = "opened" => m.to \in Openers)
  BY DEF Messages
<1>4. \A m \in Messages, i \in IDs : m = Data(i) => m.kind = "data" /\ m.id = i
  BY DEF Data
<1>5. \A m \in Messages : m.kind = "data" => m = Data(m.id)
  BY DEF Messages, Data
<1> QED BY <1>1, <1>2, <1>3, <1>4, <1>5

LEMMA InFlightIsCount == \A i : InFlight(i) = Count(fromHost, Data(i))
BY DEF InFlight, Count, Places, Data

\* Every step that writes to the pipe appends one message to it.
LEMMA InFlightAppend ==
  ASSUME fromHost \in Seq(Messages), NEW m \in Messages, fromHost' = Append(fromHost, m),
         NEW i \in IDs
  PROVE  InFlight(i)' = InFlight(i) + (IF m = Data(i) THEN 1 ELSE 0)
<1>1. InFlight(i)' = Count(fromHost', Data(i))
  BY DEF InFlight, Count, Places, Data
<1> QED BY <1>1, InFlightIsCount, CountAppend

\* Every step that reads takes one message from it.
LEMMA InFlightTail ==
  ASSUME fromHost \in Seq(Messages), fromHost # <<>>, fromHost' = Tail(fromHost), NEW i \in IDs
  PROVE  /\ Head(fromHost) = Data(i) => InFlight(i)' = InFlight(i) - 1
         /\ Head(fromHost) # Data(i) => InFlight(i)' = InFlight(i)
<1> DEFINE n == Count(Tail(fromHost), Data(i))
<1>1. InFlight(i)' = n
  BY DEF InFlight, Count, Places, Data
<1>2. n \in Nat
  BY AfterTail, CountType
<1>3. InFlight(i) = n + (IF Head(fromHost) = Data(i) THEN 1 ELSE 0)
  BY InFlightIsCount, CountTail
<1> HIDE DEF n
<1> QED BY <1>1, <1>2, <1>3

LEMMA InFlightType ==
  ASSUME fromHost \in Seq(Messages), NEW i \in IDs
  PROVE  InFlight(i) \in Nat
BY InFlightIsCount, CountType

\* The steps that leave the pipe alone.
LEMMA InFlightSame == UNCHANGED fromHost => \A i : InFlight(i)' = InFlight(i)
BY DEF InFlight

-----------------------------------------------------------------------------
LEMMA MInit == Init => MInv
<1> SUFFICES ASSUME Init PROVE MInv
  OBVIOUS
<1>0. Cardinality(Openers) \in Nat
  BY OpenersAssumption, FS_CardinalityType
<1>1. TypeOK
  BY <1>0, BoundAssumption DEF Init, TypeOK, IDs
<1>2. \A i \in IDs : InFlight(i) = 0
  <2>1. \A i : {k \in DOMAIN fromHost : fromHost[k] = [kind |-> "data", id |-> i]} = {}
    BY DEF Init
  <2> QED BY <2>1, FS_EmptySet DEF InFlight
<1>3. MapHoldsOpenChannels /\ NoFrameLost /\ Named /\ GivenOnce /\ TakenOut
  BY <1>1 DEF Init, MapHoldsOpenChannels, NoFrameLost, Named, GivenOnce, TakenOut
<1>4. Told
  BY DEF Init, Told
<1>5. Sent
  BY <1>2 DEF Init, Sent
<1> QED BY <1>3, <1>4, <1>5 DEF MInv

-----------------------------------------------------------------------------
(* The reader.                                                             *)

LEMMA StepReadOpened == MInv /\ ReadOpened => MInv'
<1> SUFFICES ASSUME MInv, ReadOpened PROVE MInv'
  OBVIOUS
<1> DEFINE m == Head(fromHost)  o == m.to  i == m.id
<1>0. /\ fromHost \in Seq(Messages) /\ fromHost # <<>> /\ m \in Messages /\ m.kind = "opened"
      /\ m = fromHost[1] /\ 1 \in DOMAIN fromHost
      /\ fromHost' = Tail(fromHost) /\ fromHost' \in Seq(Messages)
      /\ \A k \in DOMAIN fromHost' : k + 1 \in DOMAIN fromHost /\ fromHost'[k] = fromHost[k + 1]
  BY AfterTail DEF MInv, MapHoldsOpenChannels, TypeOK, ReadOpened
<1>1. o \in Openers /\ i \in IDs
  BY <1>0, MessageFacts
<1>2. \A j \in IDs : InFlight(j)' = InFlight(j)
  <2> SUFFICES ASSUME NEW j \in IDs PROVE InFlight(j)' = InFlight(j)
    OBVIOUS
  <2>1. m # Data(j)
    BY <1>0, MessageFacts
  <2> QED BY <1>0, <2>1, InFlightTail
<1>3. /\ opener[o] = "calling" => /\ opener' = [opener EXCEPT ![o] = "named"]
                                  /\ id' = [id EXCEPT ![o] = i]
      /\ opener[o] # "calling" => opener' = opener /\ id' = id
      /\ UNCHANGED <<channels, object, hostClosing, closeAll, snapshot, asked, hostEnd, hostSent,
                     received, notified>>
  BY DEF ReadOpened
<1> HIDE DEF m, o, i
<1>4. TypeOK'
  BY <1>0, <1>1, <1>3 DEF MInv, MapHoldsOpenChannels, TypeOK
<1>5. \A j \in IDs : BeingClosed(j)' <=> BeingClosed(j)
  BY <1>1, <1>3 DEF MInv, MapHoldsOpenChannels, TypeOK, BeingClosed, Named, IDs
<1>6. MapHoldsOpenChannels'
  BY <1>3, <1>4, <1>5 DEF MInv, MapHoldsOpenChannels, TypeOK
<1>7. NoFrameLost' /\ Sent'
  BY <1>2, <1>3, <1>4 DEF MInv, NoFrameLost, Sent, TypeOK
<1>7a. /\ hostEnd[i] # "unused" /\ object[i] = "none" /\ i # 0
       /\ \A p \in Openers : id[p] # i
       /\ \A k \in DOMAIN fromHost : fromHost[k].kind = "opened" /\ fromHost[k].id = i => k = 1
  BY <1>0, <1>1 DEF MInv, GivenOnce, IDs, i
<1>8. Named'
  <2>1. \A p \in Openers : id'[p] = id[p] \/ (p = o /\ id'[p] = i /\ opener'[p] = "named")
    BY <1>1, <1>3 DEF MInv, MapHoldsOpenChannels, TypeOK
  <2>2. \A p \in Openers : id'[p] = id[p] => opener'[p] = opener[p]
    BY <1>1, <1>3, <1>7a DEF MInv, MapHoldsOpenChannels, TypeOK
  <2> QED BY <1>3, <1>7a, <2>1, <2>2 DEF MInv, MapHoldsOpenChannels, TypeOK, Named
<1>9. GivenOnce'
  <2>1. \A p \in Openers : id'[p] # 0 => hostEnd[id'[p]] # "unused"
    BY <1>1, <1>3, <1>7a DEF MInv, MapHoldsOpenChannels, TypeOK, GivenOnce
  <2>2. \A k \in DOMAIN fromHost' : fromHost'[k].kind = "opened" =>
          \A p \in Openers : id'[p] # fromHost'[k].id
    BY <1>0, <1>1, <1>3, <1>7a DEF MInv, MapHoldsOpenChannels, TypeOK, GivenOnce
  <2>3. \A k \in DOMAIN fromHost' : fromHost'[k].kind = "opened" =>
          /\ hostEnd[fromHost'[k].id] # "unused" /\ object[fromHost'[k].id] = "none"
          /\ \A j \in DOMAIN fromHost' :
               fromHost'[j].kind = "opened" /\ fromHost'[j].id = fromHost'[k].id => j = k
    BY <1>0 DEF MInv, GivenOnce
  <2> QED BY <1>3, <2>1, <2>2, <2>3 DEF MInv, GivenOnce
<1>10. TakenOut' /\ Told'
  BY <1>3, <1>5 DEF MInv, TakenOut, Told
<1> QED BY <1>6, <1>7, <1>8, <1>9, <1>10 DEF MInv

\* The reader takes a message that is no answer: ids and objects stay.
LEMMA GivenOnceTail ==
  ASSUME MInv, fromHost # <<>>, fromHost' = Tail(fromHost), UNCHANGED <<object, id, hostEnd>>
  PROVE  GivenOnce'
<1>1. \A k \in DOMAIN fromHost' : k + 1 \in DOMAIN fromHost /\ fromHost'[k] = fromHost[k + 1]
  BY AfterTail DEF MInv, MapHoldsOpenChannels, TypeOK
<1>2. \A k \in DOMAIN fromHost' : fromHost'[k].kind = "opened" =>
        /\ hostEnd[fromHost'[k].id] # "unused" /\ object[fromHost'[k].id] = "none"
        /\ \A o \in Openers : id[o] # fromHost'[k].id
    BY <1>1 DEF MInv, GivenOnce
<1>3. DOMAIN fromHost' \subseteq Nat
  BY AfterTail, LenProperties DEF MInv, MapHoldsOpenChannels, TypeOK
<1>4. \A k \in DOMAIN fromHost' : fromHost'[k].kind = "opened" =>
        \A j \in DOMAIN fromHost' :
          fromHost'[j].kind = "opened" /\ fromHost'[j].id = fromHost'[k].id => j = k
    BY <1>1, <1>3 DEF MInv, GivenOnce
<1> QED BY <1>2, <1>4 DEF MInv, GivenOnce

LEMMA StepReadData == MInv /\ ReadData => MInv'
<1> SUFFICES ASSUME MInv, ReadData PROVE MInv'
  OBVIOUS
<1> DEFINE m == Head(fromHost)
<1>a. m \in Messages /\ m.kind = "data"
  BY AfterTail DEF MInv, MapHoldsOpenChannels, TypeOK, ReadData
<1>b. PICK i \in IDs : i = m.id
  BY <1>a, MessageFacts
<1>0. /\ fromHost \in Seq(Messages) /\ fromHost # <<>> /\ m \in Messages /\ m.kind = "data"
      /\ fromHost' = Tail(fromHost) /\ fromHost' \in Seq(Messages)
      /\ received' = [received EXCEPT ![i] = @ + Accepted(i)]
      /\ UNCHANGED <<channels, object, opener, id, hostClosing, closeAll, snapshot, asked, hostEnd,
                     hostSent, notified>>
  BY <1>b, AfterTail DEF MInv, MapHoldsOpenChannels, TypeOK, ReadData
<1> HIDE DEF m
<1>1. i \in IDs /\ m = Data(i) /\ \A j \in IDs : m = Data(j) => j = i
  BY <1>0, <1>b, MessageFacts
<1>2. /\ InFlight(i)' = InFlight(i) - 1
      /\ \A j \in IDs \ {i} : InFlight(j)' = InFlight(j)
  BY <1>0, <1>1, InFlightTail DEF m
<1>3. \A j \in IDs : InFlight(j) \in Nat
  BY <1>0, InFlightType
<1>4. /\ Accepted(i) \in {0, 1}
      /\ i \in channels /\ object[i] = "open" => Accepted(i) = 1
  BY DEF Accepted
<1>5. /\ received \in [IDs -> Nat] /\ hostSent \in [IDs -> Nat]
      /\ \A j \in IDs : hostSent[j] <= MaxFrames
  BY BoundAssumption DEF MInv, MapHoldsOpenChannels, TypeOK
<1>6. /\ received'[i] = received[i] + Accepted(i)
      /\ \A j \in IDs \ {i} : received'[j] = received[j]
      /\ received' \in [IDs -> Nat]
  BY <1>0, <1>1, <1>4, <1>5
<1>7. /\ received'[i] + InFlight(i)' <= hostSent[i]
      /\ i \in channels /\ object[i] = "open" => received'[i] + InFlight(i)' = hostSent[i]
  <2>1. received[i] \in Nat /\ InFlight(i) \in Nat /\ hostSent[i] \in Nat
    BY <1>1, <1>3, <1>5
  <2>2. received'[i] + InFlight(i)' = received[i] + Accepted(i) + (InFlight(i) - 1)
    BY <1>2, <1>6
  <2> QED BY <1>1, <1>4, <2>1, <2>2 DEF MInv, Sent, NoFrameLost
<1>8. Sent' /\ NoFrameLost'
  <2>1. \A j \in IDs \ {i} : received'[j] + InFlight(j)' = received[j] + InFlight(j)
    BY <1>2, <1>6
  <2>2. \A j \in channels : j \in IDs
    BY DEF MInv, MapHoldsOpenChannels, TypeOK
  <2>3. Sent'
    BY <1>0, <1>7, <2>1 DEF MInv, Sent
  <2>4. NoFrameLost'
    BY <1>0, <1>7, <2>1, <2>2 DEF MInv, NoFrameLost
  <2> QED BY <2>3, <2>4
<1>9. \A j \in IDs : received'[j] \in 0..MaxFrames
  <2> SUFFICES ASSUME NEW j \in IDs PROVE received'[j] \in 0..MaxFrames
    OBVIOUS
  <2>1. CASE j = i
    <3>1. InFlight(i) \in Nat /\ received[i] \in Nat /\ hostSent[i] \in Nat
      BY <1>1, <1>3, <1>5
    <3>2. InFlight(i)' \in Nat
      <4>1. InFlight(i) # 0
        <5>1. Count(Tail(fromHost), Data(i)) \in Nat
          BY <1>0, AfterTail, CountType
        <5>2. InFlight(i) = Count(Tail(fromHost), Data(i)) + 1
          BY <1>0, <1>1, InFlightIsCount, CountTail DEF m
        <5> QED BY <5>1, <5>2
      <4> QED BY <1>2, <3>1, <4>1
    <3> QED BY <1>5, <1>6, <1>7, <2>1, <3>1, <3>2, BoundAssumption
  <2>2. CASE j # i
    BY <1>6, <2>2 DEF MInv, MapHoldsOpenChannels, TypeOK
  <2> QED BY <2>1, <2>2
<1>10. TypeOK'
  BY <1>0, <1>6, <1>9 DEF MInv, MapHoldsOpenChannels, TypeOK
<1>11. MapHoldsOpenChannels' /\ Told' /\ TakenOut' /\ Named'
  BY <1>0, <1>10 DEF MInv, MapHoldsOpenChannels, Told, TakenOut, Named, BeingClosed
<1>12. GivenOnce'
  BY <1>0, GivenOnceTail
<1> QED BY <1>8, <1>11, <1>12 DEF MInv

LEMMA StepReadClose == MInv /\ ReadClose => MInv'
<1> SUFFICES ASSUME MInv, ReadClose PROVE MInv'
  OBVIOUS
<1> DEFINE m == Head(fromHost)  i == m.id
<1>0. /\ fromHost \in Seq(Messages) /\ fromHost # <<>> /\ m \in Messages /\ m.kind = "close"
      /\ fromHost' = Tail(fromHost) /\ fromHost' \in Seq(Messages)
      /\ hostClosing' = [hostClosing EXCEPT ![i] = "spawned"]
      /\ UNCHANGED <<channels, object, opener, id, closeAll, snapshot, asked, hostEnd,
                     hostSent, received, notified>>
  BY AfterTail DEF MInv, MapHoldsOpenChannels, TypeOK, ReadClose
<1> HIDE DEF m, i
<1>1. i \in IDs /\ \A j \in IDs : m # Data(j)
  BY <1>0, MessageFacts DEF i
<1>2. \A j \in IDs : InFlight(j)' = InFlight(j)
  BY <1>0, <1>1, InFlightTail DEF m
<1>3. TypeOK'
  BY <1>0, <1>1 DEF MInv, MapHoldsOpenChannels, TypeOK
<1>4. MapHoldsOpenChannels' /\ Told' /\ Named'
  BY <1>0, <1>3 DEF MInv, MapHoldsOpenChannels, Told, Named, BeingClosed
<1>5. TakenOut'
  BY <1>0, <1>1 DEF MInv, MapHoldsOpenChannels, TypeOK, TakenOut
<1>6. Sent' /\ NoFrameLost'
  BY <1>0, <1>2 DEF MInv, Sent, NoFrameLost, MapHoldsOpenChannels, TypeOK
<1>7. GivenOnce'
  BY <1>0, GivenOnceTail
<1> QED BY <1>4, <1>5, <1>6, <1>7 DEF MInv

-----------------------------------------------------------------------------
(* The host.                                                               *)

LEMMA StepHostOpens == ASSUME MInv, NEW o \in Openers, HostOpens(o) PROVE MInv'
<1>1. PICK i \in IDs : /\ hostEnd[i] = "unused" /\ hostEnd' = [hostEnd EXCEPT ![i] = "open"]
                       /\ fromHost' = Append(fromHost, [kind |-> "opened", to |-> o, id |-> i])
  BY DEF HostOpens
<1> DEFINE m == [kind |-> "opened", to |-> o, id |-> i]
<1>2. /\ fromHost \in Seq(Messages) /\ m \in Messages /\ fromHost' \in Seq(Messages)
      /\ fromHost' = Append(fromHost, m) /\ m.kind = "opened" /\ m.id = i
      /\ asked' = asked \ {o}
      /\ UNCHANGED <<channels, object, opener, id, hostClosing, closeAll, snapshot, hostSent,
                     received, notified>>
  BY <1>1, MessageFacts, AppendProperties DEF MInv, MapHoldsOpenChannels, TypeOK, HostOpens
<1>3. \A k \in DOMAIN fromHost' : \/ k \in DOMAIN fromHost /\ fromHost'[k] = fromHost[k]
                                  \/ k = Len(fromHost) + 1 /\ fromHost'[k] = m
  BY <1>2, AfterAppend
<1> HIDE DEF m
<1>4. \A j \in IDs : InFlight(j)' = InFlight(j)
  <2>1. \A j \in IDs : m # Data(j)
    BY <1>2, MessageFacts
  <2> QED BY <1>2, <2>1, InFlightAppend, InFlightType
<1>5. TypeOK'
  BY <1>1, <1>2 DEF MInv, MapHoldsOpenChannels, TypeOK
<1>6. MapHoldsOpenChannels' /\ Told' /\ Named' /\ TakenOut'
  BY <1>2, <1>5 DEF MInv, MapHoldsOpenChannels, Told, Named, TakenOut, BeingClosed
<1>7. Sent' /\ NoFrameLost'
  BY <1>2, <1>4 DEF MInv, Sent, NoFrameLost, MapHoldsOpenChannels, TypeOK
<1>8. GivenOnce'
  <2>1. /\ object[i] = "none" /\ \A p \in Openers : id[p] # i
        /\ \A k \in DOMAIN fromHost : fromHost[k].kind = "opened" => fromHost[k].id # i
    BY <1>1 DEF MInv, GivenOnce, IDs
  <2>2. hostEnd'[i] = "open" /\ \A j \in IDs \ {i} : hostEnd'[j] = hostEnd[j]
    BY <1>1 DEF MInv, MapHoldsOpenChannels, TypeOK
  <2>3. \A p \in Openers : id[p] # 0 => id[p] \in IDs \ {i}
    BY <2>1 DEF MInv, MapHoldsOpenChannels, TypeOK
  <2>4. \A k \in DOMAIN fromHost' : fromHost'[k].kind = "opened" =>
          /\ hostEnd'[fromHost'[k].id] # "unused" /\ object[fromHost'[k].id] = "none"
          /\ \A p \in Openers : id[p] # fromHost'[k].id
    <3> SUFFICES ASSUME NEW k \in DOMAIN fromHost', fromHost'[k].kind = "opened"
                 PROVE  /\ hostEnd'[fromHost'[k].id] # "unused" /\ object[fromHost'[k].id] = "none"
                        /\ \A p \in Openers : id[p] # fromHost'[k].id
      OBVIOUS
    <3>1. CASE k \in DOMAIN fromHost /\ fromHost'[k] = fromHost[k]
      <4>1. fromHost[k].id \in IDs
        BY <1>2, <3>1, MessageFacts, ElementOfSeq, LenProperties
      <4> QED BY <2>1, <2>2, <3>1, <4>1 DEF MInv, GivenOnce
    <3>2. CASE fromHost'[k] = m
      BY <1>2, <2>1, <2>2, <3>2
    <3> QED BY <1>3, <3>1, <3>2
  <2>5. \A k, j \in DOMAIN fromHost' :
          /\ fromHost'[k].kind = "opened" /\ fromHost'[j].kind = "opened"
          /\ fromHost'[j].id = fromHost'[k].id
          => j = k
    BY <1>2, <1>3, <2>1 DEF MInv, GivenOnce
  <2> QED BY <1>2, <2>1, <2>2, <2>3, <2>4, <2>5 DEF MInv, GivenOnce
<1> QED BY <1>6, <1>7, <1>8 DEF MInv

\* The host writes data or a close: no answer, so the answers stay as they are.
LEMMA GivenOnceAppend ==
  ASSUME MInv, NEW m \in Messages, m.kind # "opened", fromHost' = Append(fromHost, m),
         \A i \in IDs : hostEnd'[i] = "unused" <=> hostEnd[i] = "unused",
         UNCHANGED <<object, id>>
  PROVE  GivenOnce'
<1>1. \A k \in DOMAIN fromHost' : \/ k \in DOMAIN fromHost /\ fromHost'[k] = fromHost[k]
                                  \/ fromHost'[k] = m
  BY AfterAppend DEF MInv, MapHoldsOpenChannels, TypeOK
<1>2. \A k \in DOMAIN fromHost : fromHost[k].id \in IDs
  BY MessageFacts, ElementOfSeq, LenProperties DEF MInv, MapHoldsOpenChannels, TypeOK
<1>3. \A k \in DOMAIN fromHost' : fromHost'[k].kind = "opened" =>
        k \in DOMAIN fromHost /\ fromHost'[k] = fromHost[k] /\ fromHost'[k].id \in IDs
  BY <1>1, <1>2
<1> QED BY <1>3 DEF MInv, GivenOnce, MapHoldsOpenChannels, TypeOK

LEMMA StepHostSends == ASSUME MInv, NEW i \in IDs, HostSends(i) PROVE MInv'
<1>1. /\ fromHost \in Seq(Messages) /\ Data(i) \in Messages /\ fromHost' \in Seq(Messages)
      /\ fromHost' = Append(fromHost, Data(i)) /\ Data(i).kind = "data"
      /\ hostSent[i] < MaxFrames /\ (hostSent[i] > 0 \/ Written(i))
      /\ hostSent' = [hostSent EXCEPT ![i] = @ + 1]
      /\ UNCHANGED <<channels, object, opener, id, hostClosing, closeAll, snapshot, asked, hostEnd,
                     received, notified>>
  BY MessageFacts, AppendProperties DEF MInv, MapHoldsOpenChannels, TypeOK, HostSends, Data
<1>2. /\ InFlight(i)' = InFlight(i) + 1
      /\ \A j \in IDs \ {i} : InFlight(j)' = InFlight(j)
  <2>1. \A j \in IDs : Data(i) = Data(j) => j = i
    BY DEF Data
  <2> QED BY <1>1, <2>1, InFlightAppend, InFlightType
<1>3. \A j \in IDs : InFlight(j) \in Nat
  BY <1>1, InFlightType
<1>4. TypeOK'
  BY <1>1, BoundAssumption DEF MInv, MapHoldsOpenChannels, TypeOK
<1>5. MapHoldsOpenChannels' /\ Told' /\ Named' /\ TakenOut'
  BY <1>1, <1>4 DEF MInv, MapHoldsOpenChannels, Told, Named, TakenOut, BeingClosed
<1>6. object[i] # "none"
  BY <1>1 DEF MInv, Sent, Written, Named
<1>7. hostSent'[i] = hostSent[i] + 1 /\ \A j \in IDs \ {i} : hostSent'[j] = hostSent[j]
  BY <1>1 DEF MInv, MapHoldsOpenChannels, TypeOK
<1>8. hostSent[i] \in Nat /\ received[i] \in Nat
  BY BoundAssumption DEF MInv, MapHoldsOpenChannels, TypeOK
<1>9. Sent'
  BY <1>1, <1>2, <1>3, <1>6, <1>7, <1>8 DEF MInv, Sent
<1>10. NoFrameLost'
  <2> SUFFICES ASSUME NEW j \in channels', object'[j] = "open"
               PROVE  received'[j] + InFlight(j)' = hostSent'[j]
    BY DEF NoFrameLost
  <2>1. j \in IDs /\ received[j] + InFlight(j) = hostSent[j] /\ received'[j] = received[j]
    BY <1>1 DEF MInv, NoFrameLost, MapHoldsOpenChannels, TypeOK
  <2>2. CASE j = i
    BY <1>2, <1>3, <1>7, <1>8, <2>1, <2>2
  <2>3. CASE j # i
    BY <1>2, <1>7, <2>1, <2>3
  <2> QED BY <2>2, <2>3
<1>11. GivenOnce'
  BY <1>1, GivenOnceAppend
<1> QED BY <1>5, <1>9, <1>10, <1>11 DEF MInv

LEMMA StepHostCloses == ASSUME MInv, NEW i \in IDs, HostCloses(i) PROVE MInv'
<1> DEFINE m == [kind |-> "close", id |-> i]
<1>1. /\ fromHost \in Seq(Messages) /\ m \in Messages /\ fromHost' \in Seq(Messages)
      /\ fromHost' = Append(fromHost, m) /\ m.kind = "close"
      /\ hostEnd[i] = "open" /\ hostEnd' = [hostEnd EXCEPT ![i] = "closed"]
      /\ UNCHANGED <<channels, object, opener, id, hostClosing, closeAll, snapshot, asked, hostSent,
                     received, notified>>
  BY MessageFacts, AppendProperties DEF MInv, MapHoldsOpenChannels, TypeOK, HostCloses
<1> HIDE DEF m
<1>2. \A j \in IDs : InFlight(j)' = InFlight(j)
  <2>1. \A j \in IDs : m # Data(j)
    BY <1>1, MessageFacts
  <2> QED BY <1>1, <2>1, InFlightAppend, InFlightType
<1>3. TypeOK'
  BY <1>1 DEF MInv, MapHoldsOpenChannels, TypeOK
<1>4. MapHoldsOpenChannels' /\ Told' /\ Named' /\ TakenOut'
  BY <1>1, <1>3 DEF MInv, MapHoldsOpenChannels, Told, Named, TakenOut, BeingClosed
<1>5. Sent' /\ NoFrameLost'
  BY <1>1, <1>2 DEF MInv, Sent, NoFrameLost, MapHoldsOpenChannels, TypeOK
<1>6. \A j \in IDs : hostEnd'[j] = "unused" <=> hostEnd[j] = "unused"
  BY <1>1 DEF MInv, MapHoldsOpenChannels, TypeOK
<1>7. GivenOnce'
  BY <1>1, <1>6, GivenOnceAppend
<1> QED BY <1>4, <1>5, <1>7 DEF MInv

-----------------------------------------------------------------------------
(* Opening a channel.                                                      *)

\* What a step leaves alone when it neither reads nor writes the pipe.
LEMMA CountsSame ==
  ASSUME MInv, UNCHANGED <<fromHost, hostSent, received>>,
         \A i \in IDs : object'[i] = "none" => object[i] = "none",
         \A i \in channels' : object'[i] = "open" => i \in channels /\ object[i] = "open"
  PROVE  Sent' /\ NoFrameLost'
<1>1. \A i : InFlight(i)' = InFlight(i)
  BY InFlightSame
<1> QED BY <1>1 DEF MInv, Sent, NoFrameLost

LEMMA StepOpenCall == ASSUME MInv, NEW o \in Openers, OpenCall(o) PROVE MInv'
<1>1. TypeOK'
  BY DEF MInv, MapHoldsOpenChannels, TypeOK, OpenCall
<1>2. \A p \in Openers : /\ opener'[p] = opener[p] \/ (opener[p] = "idle" /\ opener'[p] = "calling")
                         /\ opener'[p] = "closing" <=> opener[p] = "closing"
  BY DEF MInv, MapHoldsOpenChannels, TypeOK, OpenCall
<1>3. \A i : BeingClosed(i)' <=> BeingClosed(i)
  BY <1>2 DEF BeingClosed, OpenCall
<1>4. MapHoldsOpenChannels' /\ Told' /\ TakenOut'
  BY <1>1, <1>3 DEF MInv, MapHoldsOpenChannels, Told, TakenOut, OpenCall
<1>5. Named'
  BY <1>2 DEF MInv, Named, OpenCall
<1>6. GivenOnce'
  BY DEF MInv, GivenOnce, OpenCall
<1>7. Sent' /\ NoFrameLost'
  BY CountsSame DEF OpenCall
<1> QED BY <1>4, <1>5, <1>6, <1>7 DEF MInv

LEMMA StepOpenGiveUp == ASSUME MInv, NEW o \in Openers, OpenGiveUp(o) PROVE MInv'
<1>1. TypeOK'
  BY DEF MInv, MapHoldsOpenChannels, TypeOK, OpenGiveUp, pipe
<1>2. \A p \in Openers : /\ opener'[p] = opener[p] \/ (opener[p] = "calling" /\ opener'[p] = "failed")
                         /\ opener'[p] = "closing" <=> opener[p] = "closing"
  BY DEF MInv, MapHoldsOpenChannels, TypeOK, OpenGiveUp
<1>3. \A i : BeingClosed(i)' <=> BeingClosed(i)
  BY <1>2 DEF BeingClosed, OpenGiveUp
<1>4. MapHoldsOpenChannels' /\ Told' /\ TakenOut'
  BY <1>1, <1>3 DEF MInv, MapHoldsOpenChannels, Told, TakenOut, OpenGiveUp
<1>5. Named'
  BY <1>2 DEF MInv, Named, OpenGiveUp
<1>6. GivenOnce'
  BY DEF MInv, GivenOnce, OpenGiveUp, pipe
<1>7. Sent' /\ NoFrameLost'
  BY CountsSame DEF OpenGiveUp, pipe
<1> QED BY <1>4, <1>5, <1>6, <1>7 DEF MInv

LEMMA StepFirstWrite == ASSUME MInv, NEW o \in Openers, FirstWrite(o) PROVE MInv'
<1>1. TypeOK'
  BY DEF MInv, MapHoldsOpenChannels, TypeOK, FirstWrite, pipe
<1>2. \A p \in Openers : /\ opener'[p] = opener[p] \/ (opener[p] = "open" /\ opener'[p] = "using")
                         /\ opener'[p] = "closing" <=> opener[p] = "closing"
  BY DEF MInv, MapHoldsOpenChannels, TypeOK, FirstWrite
<1>3. \A i : BeingClosed(i)' <=> BeingClosed(i)
  BY <1>2 DEF BeingClosed, FirstWrite
<1>4. MapHoldsOpenChannels' /\ Told' /\ TakenOut'
  BY <1>1, <1>3 DEF MInv, MapHoldsOpenChannels, Told, TakenOut, FirstWrite
<1>5. Named'
  BY <1>2 DEF MInv, Named, FirstWrite
<1>6. GivenOnce'
  BY DEF MInv, GivenOnce, FirstWrite, pipe
<1>7. Sent' /\ NoFrameLost'
  BY CountsSame DEF FirstWrite, pipe
<1> QED BY <1>4, <1>5, <1>6, <1>7 DEF MInv

\* The channel gets its entry: nothing was sent on it yet, so nothing is lost.
LEMMA StepRegister == ASSUME MInv, NEW o \in Openers, Register(o) PROVE MInv'
<1>1. PICK i \in IDs : i = id[o] /\ object[i] = "none" /\ i # 0
  BY DEF MInv, MapHoldsOpenChannels, TypeOK, Register, Named
<1>2. /\ opener' = [opener EXCEPT ![o] = "open"] /\ opener[o] = "named"
      /\ object' = [object EXCEPT ![i] = "open"] /\ channels' = channels \cup {i}
      /\ UNCHANGED <<id, hostClosing, closeAll, snapshot, fromHost, asked, hostEnd, hostSent,
                     received, notified>>
  BY <1>1 DEF Register, pipe
<1>3. TypeOK'
  BY <1>1, <1>2 DEF MInv, MapHoldsOpenChannels, TypeOK
<1>4. /\ object'[i] = "open" /\ \A j \in IDs \ {i} : object'[j] = object[j]
      /\ opener'[o] = "open" /\ \A p \in Openers \ {o} : opener'[p] = opener[p]
  BY <1>1, <1>2 DEF MInv, MapHoldsOpenChannels, TypeOK
<1>5. \A j : BeingClosed(j)' <=> BeingClosed(j)
  BY <1>2, <1>4 DEF BeingClosed
<1>6. MapHoldsOpenChannels'
  BY <1>2, <1>3, <1>4, <1>5 DEF MInv, MapHoldsOpenChannels, TypeOK
<1>7. Told' /\ TakenOut'
  <2>1. i \notin snapshot /\ hostClosing[i] # "found"
    BY <1>1 DEF MInv, TakenOut
  <2>2. notified[i] = 0
    BY <1>1 DEF MInv, Told
  <2>3. snapshot \subseteq IDs
    BY DEF MInv, MapHoldsOpenChannels, TypeOK
  <2> QED BY <1>2, <1>4, <1>5, <2>1, <2>2, <2>3 DEF MInv, Told, TakenOut
<1>8. \A p \in Openers \ {o} : id[p] # i
  BY <1>1 DEF MInv, Named
<1>9. Named'
  <2>1. \A p \in Openers : id[p] # 0 => id[p] \in IDs
    BY DEF MInv, MapHoldsOpenChannels, TypeOK
  <2> QED BY <1>1, <1>2, <1>4, <1>8, <2>1 DEF MInv, Named
<1>10. GivenOnce'
  <2>1. hostEnd[i] # "unused" /\ \A k \in DOMAIN fromHost : fromHost[k].kind = "opened" => fromHost[k].id # i
    BY <1>1 DEF MInv, GivenOnce
  <2>2. \A k \in DOMAIN fromHost : fromHost[k].id \in IDs
    BY MessageFacts, ElementOfSeq, LenProperties DEF MInv, MapHoldsOpenChannels, TypeOK
  <2> QED BY <1>2, <1>4, <2>1, <2>2 DEF MInv, GivenOnce
<1>11. /\ \A j : InFlight(j)' = InFlight(j)
       /\ \A j \in IDs : InFlight(j) \in Nat
  BY <1>2, InFlightSame, InFlightType DEF MInv, MapHoldsOpenChannels, TypeOK
<1>12. Sent'
  BY <1>2, <1>4, <1>11 DEF MInv, Sent
<1>13. received[i] + InFlight(i) = hostSent[i]
  <2>1. received[i] \in Nat /\ InFlight(i) \in Nat /\ hostSent[i] = 0
    BY <1>1, <1>11, BoundAssumption DEF MInv, MapHoldsOpenChannels, TypeOK, Sent
  <2> QED BY <2>1 DEF MInv, Sent
<1>14. NoFrameLost'
  BY <1>2, <1>4, <1>11, <1>13 DEF MInv, NoFrameLost, MapHoldsOpenChannels, TypeOK
<1> QED BY <1>6, <1>7, <1>9, <1>10, <1>12, <1>14 DEF MInv

-----------------------------------------------------------------------------
(* Ending a channel.                                                       *)

\* Closing a Channel that was registered disturbs no answer and no name.
LEMMA NamesWhenClosed ==
  ASSUME MInv, NEW i \in IDs, object[i] # "none", CloseObject(i),
         UNCHANGED <<id, fromHost, hostEnd>>
  PROVE  /\ object'[i] = "closed" /\ \A j \in IDs \ {i} : object'[j] = object[j]
         /\ object' \in [IDs -> {"none", "open", "closed"}]
         /\ \A j \in IDs : object'[j] = "none" <=> object[j] = "none"
         /\ GivenOnce'
<1>1. /\ object'[i] = "closed" /\ \A j \in IDs \ {i} : object'[j] = object[j]
      /\ object' \in [IDs -> {"none", "open", "closed"}]
  BY DEF MInv, MapHoldsOpenChannels, TypeOK, CloseObject
<1>2. \A j \in IDs : object'[j] = "none" <=> object[j] = "none"
  BY <1>1
<1>3. \A k \in DOMAIN fromHost : fromHost[k].id \in IDs
  BY MessageFacts, ElementOfSeq, LenProperties DEF MInv, MapHoldsOpenChannels, TypeOK
<1> QED BY <1>1, <1>2, <1>3 DEF MInv, GivenOnce

LEMMA StepClose == ASSUME MInv, NEW o \in Openers, Close(o) PROVE MInv'
<1>1. PICK i \in IDs : i = id[o] /\ object[i] # "none" /\ i # 0
  BY DEF MInv, MapHoldsOpenChannels, TypeOK, Close, Named
<1>2. UNCHANGED <<channels, id, hostClosing, closeAll, snapshot, fromHost, asked, hostEnd, hostSent,
                  received, notified>>
  BY DEF Close, pipe
<1>3. CASE object[i] = "open"
  <2>1. CloseObject(i) /\ opener' = [opener EXCEPT ![o] = "closing"]
    BY <1>1, <1>3 DEF Close, Closable
  <2>2. /\ object'[i] = "closed" /\ \A j \in IDs \ {i} : object'[j] = object[j]
        /\ object' \in [IDs -> {"none", "open", "closed"}]
        /\ \A j \in IDs : object'[j] = "none" <=> object[j] = "none"
        /\ GivenOnce'
    BY <1>1, <1>2, <2>1, NamesWhenClosed
  <2>3. /\ opener'[o] = "closing" /\ \A p \in Openers \ {o} : opener'[p] = opener[p]
        /\ opener[o] \in {"open", "using"}
    BY <2>1 DEF MInv, MapHoldsOpenChannels, TypeOK, Close
  <2>4. TypeOK'
    BY <1>2, <2>1, <2>2 DEF MInv, MapHoldsOpenChannels, TypeOK
  <2>5. BeingClosed(i)' /\ \A j \in IDs \ {i} : BeingClosed(j)' <=> BeingClosed(j)
    BY <1>1, <1>2, <2>3 DEF BeingClosed
  <2>6. MapHoldsOpenChannels'
    BY <1>2, <2>2, <2>4, <2>5 DEF MInv, MapHoldsOpenChannels, TypeOK
  <2>7. Told'
    BY <1>2, <1>3, <2>2, <2>5 DEF MInv, Told
  <2>8. TakenOut'
    BY <1>2, <2>2 DEF MInv, TakenOut, MapHoldsOpenChannels, TypeOK
  <2>9. Named'
    <3>1. \A p \in Openers : id[p] # 0 => id[p] \in IDs
      BY DEF MInv, MapHoldsOpenChannels, TypeOK
    <3> QED BY <1>1, <1>2, <2>2, <2>3, <3>1 DEF MInv, Named
  <2>10. Sent' /\ NoFrameLost'
    BY <1>2, <2>2, CountsSame DEF MInv, MapHoldsOpenChannels, TypeOK
  <2> QED BY <2>2, <2>6, <2>7, <2>8, <2>9, <2>10 DEF MInv
<1>4. CASE object[i] # "open"
  <2>1. UNCHANGED object /\ opener' = [opener EXCEPT ![o] = "done"]
    BY <1>1, <1>4 DEF Close, Closable
  <2>2. /\ opener'[o] = "done" /\ \A p \in Openers \ {o} : opener'[p] = opener[p]
        /\ opener[o] \in {"open", "using"}
        /\ opener' \in [Openers -> {"idle", "calling", "named", "open", "using", "closing", "done",
                                    "failed"}]
    BY <2>1 DEF MInv, MapHoldsOpenChannels, TypeOK, Close
  <2>3. TypeOK'
    BY <1>2, <2>1, <2>2 DEF MInv, MapHoldsOpenChannels, TypeOK
  <2>4. \A j : BeingClosed(j)' <=> BeingClosed(j)
    BY <1>2, <2>2 DEF BeingClosed
  <2>5. MapHoldsOpenChannels' /\ Told' /\ TakenOut'
    BY <1>2, <2>1, <2>3, <2>4 DEF MInv, MapHoldsOpenChannels, Told, TakenOut
  <2>6. Named'
    BY <1>2, <2>1, <2>2 DEF MInv, Named
  <2>7. GivenOnce'
    BY <1>2, <2>1 DEF MInv, GivenOnce
  <2>8. Sent' /\ NoFrameLost'
    BY <1>2, <2>1, CountsSame
  <2> QED BY <2>5, <2>6, <2>7, <2>8 DEF MInv
<1> QED BY <1>3, <1>4

LEMMA StepCloseEnd == ASSUME MInv, NEW o \in Openers, CloseEnd(o) PROVE MInv'
<1>1. PICK i \in IDs : i = id[o] /\ object[i] = "closed" /\ i # 0
  BY DEF MInv, MapHoldsOpenChannels, TypeOK, CloseEnd, Named
<1>2. /\ opener[o] = "closing" /\ opener' = [opener EXCEPT ![o] = "done"]
      /\ channels' = channels \ {i} /\ notified' = [notified EXCEPT ![i] = @ + 1]
      /\ UNCHANGED <<object, id, hostClosing, closeAll, snapshot, fromHost, asked, hostEnd, hostSent,
                     received>>
  BY <1>1 DEF CloseEnd, CloseChannel, Remaining, pipe
<1>3. /\ opener'[o] = "done" /\ \A p \in Openers \ {o} : opener'[p] = opener[p]
      /\ \A p \in Openers \ {o} : id[p] # i
  BY <1>1, <1>2 DEF MInv, MapHoldsOpenChannels, TypeOK, Named
<1>4. TypeOK'
  <2>1. notified' \in [IDs -> Nat]
    <3>1. notified \in [IDs -> Nat]
      BY DEF MInv, MapHoldsOpenChannels, TypeOK
    <3> QED BY <1>2, <3>1
  <2>2. opener' \in [Openers -> {"idle", "calling", "named", "open", "using", "closing", "done",
                                 "failed"}]
    BY <1>2 DEF MInv, MapHoldsOpenChannels, TypeOK
  <2> QED BY <1>2, <2>1, <2>2 DEF MInv, MapHoldsOpenChannels, TypeOK
<1>5. BeingClosed(i) /\ ~BeingClosed(i)' /\ \A j \in IDs \ {i} : BeingClosed(j)' <=> BeingClosed(j)
  BY <1>1, <1>2, <1>3 DEF BeingClosed
<1>6. MapHoldsOpenChannels'
  BY <1>2, <1>4, <1>5 DEF MInv, MapHoldsOpenChannels, TypeOK
<1>7. Told'
  <2>1. notified[i] = 0
    BY <1>5 DEF MInv, Told
  <2>2. notified'[i] = 1 /\ \A j \in IDs \ {i} : notified'[j] = notified[j]
    BY <1>2, <2>1 DEF MInv, MapHoldsOpenChannels, TypeOK
  <2> QED BY <1>1, <1>2, <1>5, <2>2 DEF MInv, Told
<1>8. TakenOut' /\ GivenOnce'
  BY <1>2 DEF MInv, TakenOut, GivenOnce
<1>9. Named'
  BY <1>2, <1>3 DEF MInv, Named
<1>10. Sent' /\ NoFrameLost'
  BY <1>2, CountsSame
<1> QED BY <1>6, <1>7, <1>8, <1>9, <1>10 DEF MInv

LEMMA StepCloseAll == MInv /\ CloseAll => MInv'
<1> SUFFICES ASSUME MInv, CloseAll PROVE MInv'
  OBVIOUS
<1>1. TypeOK'
  BY DEF MInv, MapHoldsOpenChannels, TypeOK, CloseAll, pipe
<1>2. \A i \in channels : object[i] # "none"
  <2> SUFFICES ASSUME NEW i \in channels PROVE object[i] # "none"
    OBVIOUS
  <2>1. CASE BeingClosed(i)
    BY <2>1 DEF MInv, BeingClosed, Named
  <2>2. CASE object[i] = "open"
    BY <2>2
  <2> QED BY <2>1, <2>2 DEF MInv, MapHoldsOpenChannels
<1>3. MapHoldsOpenChannels' /\ Told' /\ TakenOut' /\ Named'
  BY <1>1, <1>2 DEF MInv, MapHoldsOpenChannels, Told, TakenOut, Named, BeingClosed, CloseAll
<1>4. GivenOnce'
  BY DEF MInv, GivenOnce, CloseAll, pipe
<1>5. Sent' /\ NoFrameLost'
  BY CountsSame DEF CloseAll, pipe
<1> QED BY <1>3, <1>4, <1>5 DEF MInv

LEMMA StepCloseNext == MInv /\ CloseNext => MInv'
<1> SUFFICES ASSUME MInv, CloseNext PROVE MInv'
  OBVIOUS
<1>0. UNCHANGED <<opener, id, hostClosing, fromHost, asked, hostEnd, hostSent, received>>
  BY DEF CloseNext, pipe
<1>0a. \A j : BeingClosed(j)' <=> BeingClosed(j)
  BY <1>0 DEF BeingClosed
<1>1. ASSUME NEW i \in snapshot, object[i] = "open", snapshot' = snapshot \ {i}, UNCHANGED closeAll,
             CloseObject(i), CloseChannel(i)
      PROVE  MInv'
  <2>0. i \in IDs
    BY <1>1 DEF MInv, MapHoldsOpenChannels, TypeOK
  <2>1. channels' = channels \ {i} /\ notified' = [notified EXCEPT ![i] = @ + 1]
    BY <1>1 DEF CloseChannel, Remaining
  <2>2. /\ object'[i] = "closed" /\ \A j \in IDs \ {i} : object'[j] = object[j]
        /\ object' \in [IDs -> {"none", "open", "closed"}]
        /\ \A j \in IDs : object'[j] = "none" <=> object[j] = "none"
        /\ GivenOnce'
    BY <1>0, <1>1, <2>0, NamesWhenClosed
  <2>3. TypeOK'
    <3>1. notified \in [IDs -> Nat]
      BY DEF MInv, MapHoldsOpenChannels, TypeOK
    <3>2. notified' \in [IDs -> Nat]
      BY <2>0, <2>1, <3>1
    <3> QED BY <1>0, <1>1, <2>1, <2>2, <3>2 DEF MInv, MapHoldsOpenChannels, TypeOK
  <2>4. MapHoldsOpenChannels'
    BY <1>0a, <2>1, <2>2, <2>3 DEF MInv, MapHoldsOpenChannels, TypeOK
  <2>5. ~BeingClosed(i)
    BY <1>1 DEF MInv, Named, BeingClosed
  <2>6. Told'
    <3>1. notified[i] = 0
      BY <1>1, <2>0 DEF MInv, Told
    <3>2. notified'[i] = 1 /\ \A j \in IDs \ {i} : notified'[j] = notified[j]
      BY <2>0, <2>1, <3>1 DEF MInv, MapHoldsOpenChannels, TypeOK
    <3> QED BY <1>0a, <2>2, <2>5, <3>2 DEF MInv, Told
  <2>7. TakenOut'
    BY <1>0, <1>1, <2>1, <2>2 DEF MInv, TakenOut, MapHoldsOpenChannels, TypeOK
  <2>8. Named'
    <3>1. \A p \in Openers : id[p] # 0 => id[p] \in IDs
      BY DEF MInv, MapHoldsOpenChannels, TypeOK
    <3> QED BY <1>0, <2>2, <3>1 DEF MInv, Named
  <2>9. Sent' /\ NoFrameLost'
    BY <1>0, <2>1, <2>2, CountsSame DEF MInv, MapHoldsOpenChannels, TypeOK
  <2> QED BY <2>2, <2>4, <2>6, <2>7, <2>8, <2>9 DEF MInv
<1>2. ASSUME snapshot' \subseteq snapshot, closeAll' \in {"closing", "done"},
             UNCHANGED <<object, channels, notified>>
      PROVE  MInv'
  <2>1. TypeOK'
    BY <1>0, <1>2 DEF MInv, MapHoldsOpenChannels, TypeOK
  <2>2. MapHoldsOpenChannels' /\ Told' /\ TakenOut' /\ Named' /\ GivenOnce'
    BY <1>0, <1>0a, <1>2, <2>1 DEF MInv, MapHoldsOpenChannels, Told, TakenOut, Named, GivenOnce
  <2>3. Sent' /\ NoFrameLost'
    BY <1>0, <1>2, CountsSame
  <2> QED BY <2>2, <2>3 DEF MInv
<1>3. \/ \E i \in snapshot : /\ object[i] = "open" /\ snapshot' = snapshot \ {i} /\ UNCHANGED closeAll
                             /\ CloseObject(i) /\ CloseChannel(i)
      \/ /\ snapshot' \subseteq snapshot /\ closeAll' \in {"closing", "done"}
         /\ UNCHANGED <<object, channels, notified>>
  BY DEF CloseNext, Closable
<1> QED BY <1>1, <1>2, <1>3

LEMMA StepHostClosed == ASSUME MInv, NEW i \in IDs, HostClosed(i) PROVE MInv'
<1>1. /\ hostClosing' = [hostClosing EXCEPT ![i] = IF i \in channels THEN "found" ELSE "done"]
      /\ channels' = channels \ {i}
      /\ UNCHANGED <<object, opener, id, closeAll, snapshot, fromHost, asked, hostEnd, hostSent,
                     received, notified>>
  BY DEF HostClosed, Remaining, pipe
<1>2. TypeOK'
  BY <1>1 DEF MInv, MapHoldsOpenChannels, TypeOK
<1>3. MapHoldsOpenChannels' /\ Told' /\ Named' /\ GivenOnce'
  BY <1>1, <1>2 DEF MInv, MapHoldsOpenChannels, Told, Named, GivenOnce, BeingClosed
<1>4. i \in channels => object[i] # "none"
  <2>1. CASE BeingClosed(i)
    BY <2>1 DEF MInv, BeingClosed, Named
  <2>2. CASE object[i] = "open"
    BY <2>2
  <2> QED BY <2>1, <2>2 DEF MInv, MapHoldsOpenChannels
<1>5. \A j \in IDs : hostClosing'[j] = IF j = i THEN (IF i \in channels THEN "found" ELSE "done")
                                       ELSE hostClosing[j]
  BY <1>1 DEF MInv, MapHoldsOpenChannels, TypeOK
<1>6. TakenOut'
  BY <1>1, <1>4, <1>5 DEF MInv, TakenOut
<1>7. Sent' /\ NoFrameLost'
  BY <1>1, CountsSame
<1> QED BY <1>3, <1>6, <1>7 DEF MInv

LEMMA StepCloseRemote == ASSUME MInv, NEW i \in IDs, CloseRemote(i) PROVE MInv'
<1>1. /\ hostClosing[i] = "found" /\ hostClosing' = [hostClosing EXCEPT ![i] = "done"]
      /\ CloseObject(i)
      /\ UNCHANGED <<channels, opener, id, closeAll, snapshot, fromHost, asked, hostEnd, hostSent,
                     received, notified>>
  BY DEF CloseRemote, pipe
<1>2. object[i] # "none" /\ i \notin channels
  BY <1>1 DEF MInv, TakenOut
<1>3. /\ object'[i] = "closed" /\ \A j \in IDs \ {i} : object'[j] = object[j]
      /\ object' \in [IDs -> {"none", "open", "closed"}]
      /\ \A j \in IDs : object'[j] = "none" <=> object[j] = "none"
      /\ GivenOnce'
  BY <1>1, <1>2, NamesWhenClosed
<1>4. TypeOK'
  BY <1>1, <1>3 DEF MInv, MapHoldsOpenChannels, TypeOK
<1>5. \A j : BeingClosed(j)' <=> BeingClosed(j)
  BY <1>1 DEF BeingClosed
<1>6. MapHoldsOpenChannels' /\ Told'
  BY <1>1, <1>2, <1>3, <1>4, <1>5 DEF MInv, MapHoldsOpenChannels, TypeOK, Told
<1>7. TakenOut'
  BY <1>1, <1>3 DEF MInv, TakenOut, MapHoldsOpenChannels, TypeOK
<1>8. Named'
  <2>1. \A p \in Openers : id[p] # 0 => id[p] \in IDs
    BY DEF MInv, MapHoldsOpenChannels, TypeOK
  <2> QED BY <1>1, <1>3, <2>1 DEF MInv, Named
<1>9. Sent' /\ NoFrameLost'
  BY <1>1, <1>2, <1>3, CountsSame DEF MInv, MapHoldsOpenChannels, TypeOK
<1> QED BY <1>3, <1>6, <1>7, <1>8, <1>9 DEF MInv

-----------------------------------------------------------------------------
LEMMA MStep == MInv /\ [Next]_vars => MInv'
<1> SUFFICES ASSUME MInv, [Next]_vars PROVE MInv'
  OBVIOUS
<1>1. CASE UNCHANGED vars
  <2>1. \A i : (BeingClosed(i)' <=> BeingClosed(i)) /\ InFlight(i)' = InFlight(i)
    BY <1>1 DEF vars, pipe, BeingClosed, InFlight
  <2>2. TypeOK'
    BY <1>1 DEF vars, pipe, MInv, MapHoldsOpenChannels, TypeOK
  <2>3. MapHoldsOpenChannels' /\ TakenOut' /\ Told' /\ Named' /\ GivenOnce'
    BY <1>1, <2>1, <2>2 DEF vars, pipe, MInv, MapHoldsOpenChannels, TakenOut, Told, Named, GivenOnce
  <2>4. NoFrameLost' /\ Sent'
    BY <1>1, <2>1 DEF vars, pipe, MInv, NoFrameLost, Sent
  <2> QED BY <2>3, <2>4 DEF MInv
<1>2. CASE Reader
  BY <1>2, StepReadOpened, StepReadData, StepReadClose DEF Reader
<1>3. ASSUME NEW o \in Openers, Use(o) \/ HostOpens(o) PROVE MInv'
  BY <1>3, StepOpenCall, StepOpenGiveUp, StepRegister, StepFirstWrite, StepClose, StepCloseEnd,
     StepHostOpens DEF Use
<1>4. ASSUME NEW i \in IDs, HostClosed(i) \/ CloseRemote(i) \/ HostSends(i) \/ HostCloses(i)
      PROVE  MInv'
  BY <1>4, StepHostClosed, StepCloseRemote, StepHostSends, StepHostCloses
<1> QED BY <1>1, <1>2, <1>3, <1>4, StepCloseAll, StepCloseNext DEF Next

\* The inductive invariant holds in every reachable state.
THEOREM Inductive == Spec => []MInv
<1> QED BY MInit, MStep, PTL DEF Spec

\* The map holds no closed channel that nobody is taking out, for any number
\* of channels and whichever of Close, CloseAll and HostClosed comes first.
THEOREM MapIsExact == Spec => []MapHoldsOpenChannels
<1>1. MInv => MapHoldsOpenChannels
  BY DEF MInv
<1> QED BY <1>1, Inductive, PTL

\* CloseChannel tells the host of an end at most once, however the closes race.
THEOREM HostToldOnce == Spec => []ToldOnce
<1>1. MInv => ToldOnce
  <2> SUFFICES ASSUME MInv, NEW i \in IDs PROVE notified[i] <= 1
    BY DEF ToldOnce
  <2>1. notified[i] = 0 \/ notified[i] = 1
    BY DEF MInv, Told
  <2> QED BY <2>1
<1> QED BY <1>1, Inductive, PTL

\* No frame of an open channel is lost between the pipe and the Channel, in
\* spite of the gap between channel.open's answer and the entry in the map.
THEOREM EveryFrameArrives == Spec => []NoFrameLost
<1>1. MInv => NoFrameLost
  BY DEF MInv
<1> QED BY <1>1, Inductive, PTL
=============================================================================
