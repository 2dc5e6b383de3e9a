---------------------------- MODULE SessionProofs ----------------------------
(***************************************************************************)
(* Theorems about Session, for any number of observes and actions, of      *)
(* Connections made under the session id and of channels.                  *)
(***************************************************************************)
EXTENDS Session, TLAPS, FiniteSetTheorems

\* A goroutine that runs has a Connection, and so has the reconcile loop of a
\* watcher that was started.
HasConn ==
  /\ \A t \in Threads \ {Shutdown} : pc[t] # "idle" => on[t] # 0
  /\ \A o \in Observers : watch[o] # "new" => on[Refresh(o)] # 0

\* A goroutine holds a client from the channel.open that made it until it is
\* installed or closed.
HeldWhile == \A t \in Threads : held[t] # 0 <=> pc[t] \in {"negotiate", "install", "follow"}

\* No client has two owners, and an open one has an owner.
Owned ==
  /\ \A t, u \in Threads : held[t] = held[u] /\ held[t] # 0 => t = u
  /\ \A m, n \in Conns : control[m] = control[n] /\ control[m] # 0 => m = n
  /\ \A t \in Threads, n \in Conns : held[t] = control[n] => held[t] = 0
  /\ \A t \in Threads : held[t] # 0 => client[held[t]] # "unused"
  /\ \A n \in Conns : control[n] # 0 => client[control[n]] # "unused"
  /\ \A k \in Clients : Open(k) => \/ \E t \in Threads : held[t] = k
                                   \/ \E n \in Conns : control[n] = k

\* once.Do starts the goroutine of a watcher, and only it does.
Started == \A o \in Observers : watch[o] = "new" <=> pc[Follow(o)] = "idle"

\* ensureEventWatcher holds a watcher between its two steps.
HasWatcher == \A o \in Observers : pc[<<"observe", o>>] = "once" => watcher[<<"observe", o>>] # NoWatcher

\* The watcher that follows, the one that is about to be forgotten and the one
\* that is about to be started are in the map, so there is only one of them.
Busy(o) == Following(o) \/ pc[Follow(o)] = "unlink"
InMap ==
  pc[Shutdown] = "idle" =>
    /\ \A o \in Observers : Busy(o) => entry = o
    /\ \A t \in Threads : watcher[t] # NoWatcher /\ watch[watcher[t]] = "new" => entry = watcher[t]

SInv == TypeOK /\ HasConn /\ HeldWhile /\ Owned /\ Started /\ HasWatcher /\ InMap

-----------------------------------------------------------------------------
(* The goroutines are different from one another.                          *)

LEMMA ThreadFacts ==
  /\ Shutdown \in Threads
  /\ \A o \in Observers : /\ <<"observe", o>> \in Threads \ {Shutdown}
                          /\ Follow(o) \in Threads \ {Shutdown}
                          /\ Refresh(o) \in Threads \ {Shutdown}
  /\ \A a \in Actors : <<"act", a>> \in Threads \ {Shutdown}
  /\ \A o, p \in Observers : /\ Follow(o) = Follow(p) => o = p
                             /\ Refresh(o) = Refresh(p) => o = p
                             /\ Follow(o) # Refresh(p)
                             /\ <<"observe", o>> # Follow(p) /\ <<"observe", o>> # Refresh(p)
  /\ \A a \in Actors, o \in Observers :
       <<"act", a>> # Follow(o) /\ <<"act", a>> # Refresh(o) /\ <<"act", a>> # <<"observe", o>>
BY NoWatcherAssumption DEF Threads, Follow, Refresh, Shutdown

\* Where the kinds of goroutines go on.
LEMMA AfterFacts ==
  /\ \A t \in Threads : AfterControl(t) \in Labels \ {"once", "negotiate", "install", "follow"}
  /\ \A t \in Threads : AfterFailure(t) \in Labels \ {"once", "negotiate", "install", "follow"}
  /\ \A o \in Observers : AfterFailure(Follow(o)) = "failed"
  /\ \A o \in Observers : Follow(o)[1] = "follow"
  /\ \A o \in Observers : Refresh(o)[1] = "refresh" /\ <<"observe", o>>[1] = "observe"
  /\ \A t \in Threads : t[1] # "refresh" => AfterControl(t) # "idle" /\ AfterFailure(t) # "idle"
BY DEF AfterControl, AfterFailure, Labels, Follow, Refresh

-----------------------------------------------------------------------------
LEMMA SInit == Init => SInv
<1> SUFFICES ASSUME Init PROVE SInv
  OBVIOUS
<1>1. TypeOK
  BY BoundAssumption DEF Init, TypeOK, Labels, Nothing, Conns, Clients
<1>2. HasConn /\ HeldWhile
  BY DEF Init, HasConn, HeldWhile
<1>3. Owned
  BY DEF Init, Owned, Open
<1>4. Started /\ HasWatcher
  BY ThreadFacts DEF Init, Started, HasWatcher
<1>5. InMap
  BY ThreadFacts DEF Init, InMap, Busy, Following
<1> QED BY <1>1, <1>2, <1>3, <1>4, <1>5 DEF SInv

-----------------------------------------------------------------------------
(* A goroutine moves on, and the maps, the watchers and what it works on   *)
(* stay as they are.                                                       *)

BusyAt == {"loop", "dial", "gone", "negotiate", "follow", "failed", "unlink"}

LEMMA Moves ==
  ASSUME SInv, NEW t \in Threads \ {Shutdown}, NEW l \in Labels \ {"once"},
         pc' = [pc EXCEPT ![t] = l], on[t] # 0,
         \A o \in Observers : t = Follow(o) =>
           pc[t] # "idle" /\ l # "idle" /\ (l \in BusyAt => pc[t] \in BusyAt),
         UNCHANGED <<entry, watch, on, watcher>>
  PROVE  /\ pc' \in [Threads -> Labels] /\ pc'[t] = l
         /\ \A u \in Threads \ {t} : pc'[u] = pc[u]
         /\ HasConn' /\ Started' /\ HasWatcher' /\ InMap'
<1>1. pc' \in [Threads -> Labels] /\ pc'[t] = l /\ \A u \in Threads \ {t} : pc'[u] = pc[u]
  BY DEF SInv, TypeOK
<1>2. HasConn'
  BY <1>1 DEF SInv, HasConn
<1>3. Started'
  BY <1>1, ThreadFacts DEF SInv, Started
<1>4. HasWatcher'
  BY <1>1, ThreadFacts DEF SInv, HasWatcher
<1>5. \A o \in Observers : Busy(o)' => Busy(o)
  BY <1>1, ThreadFacts DEF Busy, Following, BusyAt
<1>6. InMap'
  BY <1>1, <1>5, ThreadFacts DEF SInv, InMap
<1> QED BY <1>1, <1>2, <1>3, <1>4, <1>6

\* ... and holds what it held.
LEMMA Holds ==
  ASSUME SInv, NEW t \in Threads, NEW l \in Labels,
         pc'[t] = l, \A u \in Threads \ {t} : pc'[u] = pc[u],
         l \in {"negotiate", "install", "follow"} <=> pc[t] \in {"negotiate", "install", "follow"},
         UNCHANGED held
  PROVE  HeldWhile'
BY DEF SInv, HeldWhile

\* Nothing changes hands, and no client is opened.
LEMMA OwnedSame ==
  ASSUME SInv, UNCHANGED <<control, held>>,
         \A k \in Clients : client'[k] = client[k] \/ (client[k] # "unused" /\ client'[k] \in {"dead", "closed"}),
         \A k \in Clients : client[k] = "closed" => client'[k] = "closed"
  PROVE  Owned'
<1>1. \A k \in Clients : Open(k)' => Open(k)
  BY DEF Open, SInv, TypeOK
<1>2. \A k \in Clients : client[k] # "unused" => client'[k] # "unused"
  OBVIOUS
<1>3. /\ \A t \in Threads : held[t] # 0 => held[t] \in Clients
      /\ \A n \in Conns : control[n] # 0 => control[n] \in Clients
  BY BoundAssumption DEF SInv, TypeOK, Clients
<1> QED BY <1>1, <1>2, <1>3 DEF SInv, Owned

\* A goroutine closes the client it holds.
LEMMA OwnedRelease ==
  ASSUME SInv, NEW t \in Threads, held[t] # 0, UNCHANGED control,
         held' = [held EXCEPT ![t] = 0], CloseClient(held[t])
  PROVE  /\ Owned' /\ client' \in [Clients -> {"unused", "live", "dead", "closed"}]
         /\ held' \in [Threads -> 0..MaxClients]
         /\ held'[t] = 0 /\ \A u \in Threads \ {t} : held'[u] = held[u]
<1>0. held[t] \in Clients
  BY BoundAssumption DEF SInv, TypeOK, Clients
<1>1. /\ client' \in [Clients -> {"unused", "live", "dead", "closed"}]
      /\ client'[held[t]] = "closed" /\ \A k \in Clients \ {held[t]} : client'[k] = client[k]
  BY <1>0 DEF SInv, TypeOK, CloseClient
<1>2. /\ held' \in [Threads -> 0..MaxClients]
      /\ held'[t] = 0 /\ \A u \in Threads \ {t} : held'[u] = held[u]
  BY BoundAssumption DEF SInv, TypeOK
<1>3. \A k \in Clients : Open(k)' => Open(k) /\ k # held[t]
  BY <1>1 DEF Open
<1>4. /\ \A u \in Threads : held[u] # 0 => held[u] \in Clients
      /\ \A n \in Conns : control[n] # 0 => control[n] \in Clients
  BY BoundAssumption DEF SInv, TypeOK, Clients
<1>5. \A k \in Clients : client[k] # "unused" => client'[k] # "unused"
  BY <1>1
<1>6. /\ \A u, v \in Threads : held'[u] = held'[v] /\ held'[u] # 0 => u = v
      /\ \A u \in Threads, n \in Conns : held'[u] = control[n] => held'[u] = 0
      /\ \A u \in Threads : held'[u] # 0 => client'[held'[u]] # "unused"
  BY <1>2, <1>4, <1>5 DEF SInv, Owned
<1>7. \A n \in Conns : control[n] # 0 => client'[control[n]] # "unused"
  BY <1>4, <1>5 DEF SInv, Owned
<1>8. \A k \in Clients : Open(k)' => \/ \E u \in Threads : held'[u] = k
                                     \/ \E n \in Conns : control[n] = k
  BY <1>2, <1>3 DEF SInv, Owned
<1>9. Owned'
  BY <1>6, <1>7, <1>8 DEF SInv, Owned
<1> QED BY <1>1, <1>2, <1>9

\* The channel of a dial has one owner, the goroutine that dials.
LEMMA OwnedDial ==
  ASSUME SInv, NEW t \in Threads, held[t] = 0, NEW k \in Clients, client[k] = "unused",
         client' = [client EXCEPT ![k] = "live"], held' = [held EXCEPT ![t] = k], UNCHANGED control
  PROVE  /\ Owned' /\ client' \in [Clients -> {"unused", "live", "dead", "closed"}]
         /\ held' \in [Threads -> 0..MaxClients]
         /\ held'[t] = k /\ \A u \in Threads \ {t} : held'[u] = held[u]
<1>1. /\ client' \in [Clients -> {"unused", "live", "dead", "closed"}]
      /\ client'[k] = "live" /\ \A j \in Clients \ {k} : client'[j] = client[j]
  BY DEF SInv, TypeOK
<1>2. /\ held' \in [Threads -> 0..MaxClients]
      /\ held'[t] = k /\ \A u \in Threads \ {t} : held'[u] = held[u]
  BY BoundAssumption DEF SInv, TypeOK, Clients
<1>3. /\ \A u \in Threads : held[u] # k /\ (held[u] # 0 => held[u] \in Clients)
      /\ \A n \in Conns : control[n] # k /\ (control[n] # 0 => control[n] \in Clients)
      /\ k # 0
  BY BoundAssumption DEF SInv, TypeOK, Owned, Clients
<1>4. \A j \in Clients : client[j] # "unused" => client'[j] # "unused"
  BY <1>1
<1>5. /\ \A u, v \in Threads : held'[u] = held'[v] /\ held'[u] # 0 => u = v
      /\ \A u \in Threads, n \in Conns : held'[u] = control[n] => held'[u] = 0
      /\ \A u \in Threads : held'[u] # 0 => client'[held'[u]] # "unused"
  BY <1>1, <1>2, <1>3, <1>4 DEF SInv, Owned
<1>6. \A n \in Conns : control[n] # 0 => client'[control[n]] # "unused"
  BY <1>3, <1>4 DEF SInv, Owned
<1>7. \A j \in Clients : Open(j)' => \/ \E u \in Threads : held'[u] = j
                                     \/ \E n \in Conns : control[n] = j
  <2> SUFFICES ASSUME NEW j \in Clients, Open(j)'
               PROVE  \/ \E u \in Threads : held'[u] = j
                      \/ \E n \in Conns : control[n] = j
    OBVIOUS
  <2>1. CASE j = k
    BY <1>2, <2>1
  <2>2. CASE j # k
    <3>1. Open(j)
      BY <1>1, <2>2 DEF Open
    <3>2. CASE \E n \in Conns : control[n] = j
      BY <3>2
    <3>3. ASSUME NEW u \in Threads, held[u] = j PROVE \E v \in Threads : held'[v] = j
      <4>1. u # t
        BY <3>3 DEF Clients
      <4> QED BY <1>2, <3>3, <4>1
    <3> QED BY <3>1, <3>2, <3>3 DEF SInv, Owned
  <2> QED BY <2>1, <2>2
<1>8. Owned'
  BY <1>5, <1>6, <1>7 DEF SInv, Owned
<1> QED BY <1>1, <1>2, <1>8

\* Control's second critical section hands the client to the Connection.
LEMMA OwnedInstall ==
  ASSUME SInv, NEW t \in Threads, held[t] # 0, NEW n \in Conns, control[n] = 0,
         control' = [control EXCEPT ![n] = held[t]], held' = [held EXCEPT ![t] = 0],
         UNCHANGED client
  PROVE  /\ Owned' /\ held' \in [Threads -> 0..MaxClients] /\ control' \in [Conns -> 0..MaxClients]
         /\ held'[t] = 0 /\ \A u \in Threads \ {t} : held'[u] = held[u]
         /\ \A m \in Conns \ {n} : control'[m] = control[m]
<1>1. /\ held' \in [Threads -> 0..MaxClients] /\ control' \in [Conns -> 0..MaxClients]
      /\ held'[t] = 0 /\ \A u \in Threads \ {t} : held'[u] = held[u]
      /\ control'[n] = held[t] /\ \A m \in Conns \ {n} : control'[m] = control[m]
  BY BoundAssumption DEF SInv, TypeOK
<1>2. \A k \in Clients : Open(k)' <=> Open(k)
  BY DEF Open
<1>3. /\ \A u, v \in Threads : held'[u] = held'[v] /\ held'[u] # 0 => u = v
      /\ \A u \in Threads : held'[u] # 0 => client[held'[u]] # "unused"
  BY <1>1 DEF SInv, Owned
<1>4. /\ \A l, m \in Conns : control'[l] = control'[m] /\ control'[l] # 0 => l = m
      /\ \A m \in Conns : control'[m] # 0 => client[control'[m]] # "unused"
  BY <1>1 DEF SInv, Owned
<1>5. \A u \in Threads, m \in Conns : held'[u] = control'[m] => held'[u] = 0
  BY <1>1 DEF SInv, Owned
<1>6. \A k \in Clients : Open(k) => \/ \E u \in Threads : held'[u] = k
                                    \/ \E m \in Conns : control'[m] = k
  <2> SUFFICES ASSUME NEW k \in Clients, Open(k)
               PROVE  \/ \E u \in Threads : held'[u] = k
                      \/ \E m \in Conns : control'[m] = k
    OBVIOUS
  <2>1. ASSUME NEW m \in Conns, control[m] = k PROVE \E l \in Conns : control'[l] = k
    <3>1. m # n
      BY <2>1 DEF Clients
    <3> QED BY <1>1, <2>1, <3>1
  <2>2. ASSUME NEW u \in Threads, held[u] = k
        PROVE  \/ \E v \in Threads : held'[v] = k
               \/ \E m \in Conns : control'[m] = k
    <3>1. CASE u = t
      BY <1>1, <2>2, <3>1
    <3>2. CASE u # t
      BY <1>1, <2>2, <3>2
    <3> QED BY <3>1, <3>2
  <2> QED BY <2>1, <2>2 DEF SInv, Owned
<1>7. Owned'
  BY <1>2, <1>3, <1>4, <1>5, <1>6 DEF Owned
<1> QED BY <1>1, <1>7

\* The end of a Connection closes its control client, if it has one.
LEMMA OwnedClose ==
  ASSUME SInv, NEW n \in Conns, CloseConnection(n), UNCHANGED held
  PROVE  /\ Owned' /\ client' \in [Clients -> {"unused", "live", "dead", "closed"}]
         /\ control' \in [Conns -> 0..MaxClients] /\ closed' \in [Conns -> BOOLEAN]
         /\ \A m \in Conns : closed'[m] => control'[m] = 0
<1>1. /\ control' \in [Conns -> 0..MaxClients] /\ control'[n] = 0
      /\ \A m \in Conns \ {n} : control'[m] = control[m]
      /\ closed' \in [Conns -> BOOLEAN] /\ \A m \in Conns \ {n} : closed'[m] = closed[m]
  BY BoundAssumption DEF SInv, TypeOK, CloseConnection
<1>2. \A m \in Conns : closed'[m] => control'[m] = 0
  BY <1>1 DEF SInv, TypeOK
<1>3. /\ client' \in [Clients -> {"unused", "live", "dead", "closed"}]
      /\ \A k \in Clients : k # control[n] => client'[k] = client[k]
      /\ \A k \in Clients : k = control[n] => client'[k] = "closed"
  <2>1. CASE control[n] = 0
    BY <2>1 DEF SInv, TypeOK, CloseConnection, CloseClient, Clients
  <2>2. CASE control[n] # 0
    <3>1. control[n] \in Clients
      BY <2>2, BoundAssumption DEF SInv, TypeOK, Clients
    <3> QED BY <2>2, <3>1 DEF SInv, TypeOK, CloseConnection, CloseClient
  <2> QED BY <2>1, <2>2
<1>4. /\ \A u \in Threads : held[u] # 0 => held[u] \in Clients
      /\ \A m \in Conns : control[m] # 0 => control[m] \in Clients
  BY BoundAssumption DEF SInv, TypeOK, Clients
<1>5. \A k \in Clients : client[k] # "unused" => client'[k] # "unused"
  BY <1>3
<1>6. /\ \A u \in Threads : held[u] # 0 => client'[held[u]] # "unused"
      /\ \A m \in Conns : control'[m] # 0 => client'[control'[m]] # "unused"
  BY <1>1, <1>4, <1>5 DEF SInv, Owned
<1>7. /\ \A l, m \in Conns : control'[l] = control'[m] /\ control'[l] # 0 => l = m
      /\ \A u \in Threads, m \in Conns : held[u] = control'[m] => held[u] = 0
  BY <1>1 DEF SInv, Owned
<1>8. \A k \in Clients : Open(k)' => Open(k) /\ k # control[n]
  BY <1>3 DEF Open
<1>9. \A k \in Clients : Open(k)' => \/ \E u \in Threads : held[u] = k
                                     \/ \E m \in Conns : control'[m] = k
  BY <1>1, <1>8 DEF SInv, Owned
<1>10. Owned'
  BY <1>6, <1>7, <1>9 DEF SInv, Owned
<1> QED BY <1>1, <1>2, <1>3, <1>10

-----------------------------------------------------------------------------
(* Control, and the dial. The goroutine t is any that runs them.           *)

\* A goroutine that runs works on a Connection that was made.
LEMMA WorksOn ==
  ASSUME SInv, NEW t \in Threads \ {Shutdown}, pc[t] # "idle"
  PROVE  on[t] # 0 /\ on[t] \in Conns
<1>1. on[t] # 0 /\ on[t] \in 0..made /\ made \in 0..MaxConns
  BY DEF SInv, HasConn, TypeOK
<1> QED BY <1>1, BoundAssumption DEF Conns

\* A step that only moves a goroutine on, and may publish.
LEMMA JustMoves ==
  ASSUME SInv, NEW t \in Threads \ {Shutdown}, NEW l \in Labels \ {"once"}, Goto(t, l), on[t] # 0,
         \A o \in Observers : t = Follow(o) =>
           pc[t] # "idle" /\ l # "idle" /\ (l \in BusyAt => pc[t] \in BusyAt),
         l \in {"negotiate", "install", "follow"} <=> pc[t] \in {"negotiate", "install", "follow"},
         published' \in [Conns -> BOOLEAN],
         UNCHANGED <<maps, watch, closed, control, client, on, held, watcher, taken, bound>>
  PROVE  SInv'
<1>1. /\ pc' \in [Threads -> Labels] /\ pc'[t] = l
      /\ \A u \in Threads \ {t} : pc'[u] = pc[u]
      /\ HasConn' /\ Started' /\ HasWatcher' /\ InMap'
  BY Moves DEF Goto, maps
<1>2. TypeOK'
  BY <1>1 DEF SInv, TypeOK, maps
<1>3. HeldWhile'
  BY <1>1, Holds
<1>4. Owned'
  BY OwnedSame
<1> QED BY <1>1, <1>2, <1>3, <1>4 DEF SInv

LEMMA PublishesType ==
  ASSUME SInv, NEW t \in Threads, Publishes(t)
  PROVE  published' \in [Conns -> BOOLEAN]
BY DEF Publishes, SInv, TypeOK

LEMMA StepTest ==
  ASSUME SInv, NEW t \in Threads \ {Shutdown}, Test(t), on[t] # 0, pc[t] \in {"idle", "control"},
         \A o \in Observers : t # Follow(o)
  PROVE  SInv'
<1>1. published' \in [Conns -> BOOLEAN]
  <2>1. Publishes(t) \/ UNCHANGED published
    BY DEF Test
  <2> QED BY <2>1, PublishesType DEF SInv, TypeOK
<1>2. UNCHANGED <<maps, watch, closed, control, client, on, held, watcher, taken, bound>>
  BY DEF Test
<1>3. Goto(t, AfterControl(t)) \/ Goto(t, "dial")
  BY DEF Test
<1>4. AfterControl(t) \in Labels \ {"once", "negotiate", "install", "follow"}
  BY AfterFacts
<1>5. CASE Goto(t, AfterControl(t))
  <2> DEFINE l == AfterControl(t)
  <2> HIDE DEF l
  <2> QED BY <1>1, <1>2, <1>4, <1>5, JustMoves DEF l
<1>6. CASE Goto(t, "dial")
  BY <1>1, <1>2, <1>6, JustMoves DEF Labels
<1> QED BY <1>3, <1>5, <1>6

LEMMA StepOpenExec ==
  ASSUME SInv, NEW t \in Threads \ {Shutdown}, OpenExec(t)
  PROVE  SInv'
<1>0. /\ pc[t] = "dial" /\ on[t] # 0 /\ held[t] = 0
      /\ UNCHANGED <<maps, watch, conn, on, watcher, taken, bound>>
  BY WorksOn DEF OpenExec, SInv, HeldWhile
<1>1. AfterFailure(t) \in Labels \ {"once", "negotiate", "install", "follow"}
      /\ \A o \in Observers : t = Follow(o) => AfterFailure(t) = "failed"
  BY AfterFacts
<1>2. CASE Goto(t, "gone") /\ UNCHANGED <<client, held>>
  BY <1>0, <1>2, JustMoves DEF conn, Labels, BusyAt, SInv, TypeOK
<1>3. CASE Goto(t, AfterFailure(t)) /\ UNCHANGED <<client, held>>
  <2> DEFINE l == AfterFailure(t)
  <2>1. /\ l \in Labels \ {"once", "negotiate", "install", "follow"}
        /\ \A o \in Observers : t = Follow(o) => l = "failed"
        /\ Goto(t, l)
    BY <1>1, <1>3
  <2> HIDE DEF l
  <2> QED BY <1>0, <1>3, <2>1, JustMoves DEF conn, BusyAt, SInv, TypeOK
<1>4. ASSUME NEW k \in Clients, Goto(t, "negotiate"), client[k] = "unused",
             client' = [client EXCEPT ![k] = "live"], held' = [held EXCEPT ![t] = k]
      PROVE  SInv'
  <2>1. /\ pc' \in [Threads -> Labels] /\ pc'[t] = "negotiate"
        /\ \A u \in Threads \ {t} : pc'[u] = pc[u]
        /\ HasConn' /\ Started' /\ HasWatcher' /\ InMap'
    <3>1. /\ "negotiate" \in Labels \ {"once"} /\ pc[t] \in BusyAt
          /\ pc' = [pc EXCEPT ![t] = "negotiate"] /\ UNCHANGED <<entry, watch, on, watcher>>
      BY <1>0, <1>4 DEF Goto, maps, Labels, BusyAt
    <3> QED BY <1>0, <3>1, Moves
  <2>2. /\ Owned' /\ client' \in [Clients -> {"unused", "live", "dead", "closed"}]
        /\ held' \in [Threads -> 0..MaxClients]
        /\ held'[t] = k /\ \A u \in Threads \ {t} : held'[u] = held[u]
    BY <1>0, <1>4, OwnedDial DEF conn
  <2>3. TypeOK'
    BY <1>0, <2>1, <2>2 DEF SInv, TypeOK, maps, conn
  <2>4. HeldWhile'
    <3>1. k # 0
      BY DEF Clients
    <3> QED BY <2>1, <2>2, <3>1 DEF SInv, HeldWhile
  <2> QED BY <2>1, <2>2, <2>3, <2>4 DEF SInv
<1>5. \/ Goto(t, "gone") /\ UNCHANGED <<client, held>>
      \/ Goto(t, AfterFailure(t)) /\ UNCHANGED <<client, held>>
      \/ \E k \in Clients : /\ Goto(t, "negotiate") /\ client[k] = "unused"
                            /\ client' = [client EXCEPT ![k] = "live"]
                            /\ held' = [held EXCEPT ![t] = k]
  BY DEF OpenExec, Refused
<1> QED BY <1>2, <1>3, <1>4, <1>5

\* A goroutine that closes its client and goes on somewhere else.
LEMMA Releases ==
  ASSUME SInv, NEW t \in Threads \ {Shutdown}, NEW l \in Labels \ {"once", "negotiate", "install", "follow"},
         pc[t] \in {"negotiate", "install", "follow"}, Goto(t, l),
         \A o \in Observers : t = Follow(o) => l = "failed" /\ pc[t] \in BusyAt,
         CloseClient(held[t]), held' = [held EXCEPT ![t] = 0],
         published' \in [Conns -> BOOLEAN],
         UNCHANGED <<maps, watch, closed, control, on, watcher, taken, bound>>
  PROVE  SInv'
<1>1. held[t] # 0 /\ on[t] # 0
  BY WorksOn DEF SInv, HeldWhile
<1>2. /\ pc' \in [Threads -> Labels] /\ pc'[t] = l
      /\ \A u \in Threads \ {t} : pc'[u] = pc[u]
      /\ HasConn' /\ Started' /\ HasWatcher' /\ InMap'
  BY <1>1, Moves DEF Goto, maps, BusyAt
<1>3. /\ Owned' /\ client' \in [Clients -> {"unused", "live", "dead", "closed"}]
      /\ held' \in [Threads -> 0..MaxClients]
      /\ held'[t] = 0 /\ \A u \in Threads \ {t} : held'[u] = held[u]
  BY <1>1, OwnedRelease
<1>4. TypeOK'
  BY <1>2, <1>3 DEF SInv, TypeOK, maps
<1>5. HeldWhile'
  BY <1>2, <1>3 DEF SInv, HeldWhile
<1> QED BY <1>2, <1>3, <1>4, <1>5 DEF SInv

LEMMA StepNegotiate ==
  ASSUME SInv, NEW t \in Threads \ {Shutdown}, Negotiate(t)
  PROVE  SInv'
<1>0. /\ pc[t] = "negotiate" /\ on[t] # 0
      /\ UNCHANGED <<maps, watch, conn, on, watcher, taken, bound>>
  BY WorksOn DEF Negotiate
<1>1. CASE Goto(t, IF t[1] = "follow" THEN "follow" ELSE "install") /\ UNCHANGED <<client, held>>
  <2> DEFINE l == IF t[1] = "follow" THEN "follow" ELSE "install"
  <2>1. l \in {"follow", "install"} /\ Goto(t, l) /\ \A o \in Observers : t = Follow(o) => l = "follow"
    BY <1>1, AfterFacts
  <2> HIDE DEF l
  <2> QED BY <1>0, <1>1, <2>1, JustMoves DEF conn, Labels, BusyAt, SInv, TypeOK
<1>2. CASE CloseClient(held[t]) /\ held' = [held EXCEPT ![t] = 0] /\ Goto(t, AfterFailure(t))
  <2> DEFINE l == AfterFailure(t)
  <2>1. /\ l \in Labels \ {"once", "negotiate", "install", "follow"} /\ Goto(t, l)
        /\ \A o \in Observers : t = Follow(o) => l = "failed"
    BY <1>2, AfterFacts
  <2> HIDE DEF l
  <2> QED BY <1>0, <1>2, <2>1, Releases DEF conn, BusyAt, SInv, TypeOK
<1> QED BY <1>1, <1>2 DEF Negotiate

LEMMA StepInstall ==
  ASSUME SInv, NEW t \in Threads \ {Shutdown}, Install(t), \A o \in Observers : t # Follow(o)
  PROVE  SInv'
<1>0. /\ pc[t] = "install" /\ on[t] # 0 /\ on[t] \in Conns /\ held[t] # 0
      /\ held' = [held EXCEPT ![t] = 0]
      /\ UNCHANGED <<maps, watch, closed, on, watcher, taken, bound>>
  BY WorksOn DEF Install, SInv, HeldWhile
<1> DEFINE l == AfterControl(t)
<1>1. l \in Labels \ {"once", "negotiate", "install", "follow"} /\ Goto(t, l)
  BY AfterFacts DEF Install
<1> HIDE DEF l
<1>2. published' \in [Conns -> BOOLEAN]
  <2>1. Publishes(t) \/ UNCHANGED published
    BY DEF Install
  <2> QED BY <2>1, PublishesType DEF SInv, TypeOK
<1>3. CASE Installs(on[t])
  <2>1. /\ control' = [control EXCEPT ![on[t]] = held[t]] /\ UNCHANGED client
        /\ control[on[t]] = 0 /\ ~closed[on[t]]
    BY <1>3 DEF Install, Installs
  <2>2. /\ Owned' /\ held' \in [Threads -> 0..MaxClients] /\ control' \in [Conns -> 0..MaxClients]
        /\ held'[t] = 0 /\ \A u \in Threads \ {t} : held'[u] = held[u]
        /\ \A m \in Conns \ {on[t]} : control'[m] = control[m]
    BY <1>0, <2>1, OwnedInstall
  <2>3. /\ pc' \in [Threads -> Labels] /\ pc'[t] = l
        /\ \A u \in Threads \ {t} : pc'[u] = pc[u]
        /\ HasConn' /\ Started' /\ HasWatcher' /\ InMap'
    BY <1>0, <1>1, Moves DEF Goto, maps
  <2>4. TypeOK'
    BY <1>0, <1>2, <2>1, <2>2, <2>3 DEF SInv, TypeOK, maps
  <2>5. HeldWhile'
    BY <1>1, <2>2, <2>3 DEF SInv, HeldWhile
  <2> QED BY <2>2, <2>3, <2>4, <2>5 DEF SInv
<1>4. CASE ~Installs(on[t])
  <2>1. CloseClient(held[t]) /\ UNCHANGED control
    BY <1>4 DEF Install
  <2> QED BY <1>0, <1>1, <1>2, <2>1, Releases
<1> QED BY <1>3, <1>4

LEMMA StepMarkGone ==
  ASSUME SInv, NEW t \in Threads \ {Shutdown}, MarkGone(t)
  PROVE  SInv'
<1>0. /\ pc[t] = "gone" /\ on[t] # 0 /\ on[t] \in Conns /\ CloseConnection(on[t])
      /\ UNCHANGED <<maps, watch, published, on, held, watcher, taken, bound>>
  BY WorksOn DEF MarkGone
<1> DEFINE l == AfterFailure(t)
<1>1. /\ l \in Labels \ {"once", "negotiate", "install", "follow"} /\ Goto(t, l)
      /\ \A o \in Observers : t = Follow(o) => l = "failed"
  BY AfterFacts DEF MarkGone
<1> HIDE DEF l
<1>2. /\ pc' \in [Threads -> Labels] /\ pc'[t] = l
      /\ \A u \in Threads \ {t} : pc'[u] = pc[u]
      /\ HasConn' /\ Started' /\ HasWatcher' /\ InMap'
  BY <1>0, <1>1, Moves DEF Goto, maps, BusyAt
<1>3. /\ Owned' /\ client' \in [Clients -> {"unused", "live", "dead", "closed"}]
      /\ control' \in [Conns -> 0..MaxClients] /\ closed' \in [Conns -> BOOLEAN]
      /\ \A m \in Conns : closed'[m] => control'[m] = 0
  BY <1>0, OwnedClose
<1>4. TypeOK'
  BY <1>0, <1>2, <1>3 DEF SInv, TypeOK, maps
<1>5. HeldWhile'
  BY <1>0, <1>1, <1>2, Holds
<1> QED BY <1>2, <1>3, <1>4, <1>5 DEF SInv

LEMMA StepResolve ==
  ASSUME SInv, NEW t \in Threads \ {Shutdown}, Resolve(t), \A o \in Observers : t # Follow(o)
  PROVE  SInv'
<1>0. /\ pc[t] = "resolve" /\ on[t] # 0
      /\ UNCHANGED <<maps, watch, conn, client, on, held, watcher, taken, bound>>
  BY WorksOn DEF Resolve
<1>1. Goto(t, "control") \/ Goto(t, "done")
  BY DEF Resolve
<1> QED BY <1>0, <1>1, JustMoves DEF conn, Labels, SInv, TypeOK

\* Service.connection: the Connection found or made, and what becomes of the
\* types when one is made.
LEMMA StepConnect ==
  ASSUME SInv, NEW t \in Threads \ {Shutdown}, NEW l \in {"control", "ensure", "resolve"},
         pc[t] = "idle", Connect(t), Goto(t, l), \A o \in Observers : t # Follow(o)
  PROVE  SInv'
<1>1. /\ UNCHANGED <<entry, watch, conn, client, held, watcher, taken, bound>>
      /\ on' = [on EXCEPT ![t] = current']
      /\ made' \in made..MaxConns /\ current' \in 1..made'
  BY BoundAssumption DEF Connect, SInv, TypeOK
<1>2. /\ pc' \in [Threads -> Labels] /\ pc'[t] = l /\ \A u \in Threads \ {t} : pc'[u] = pc[u]
  BY DEF Goto, SInv, TypeOK, Labels
<1>3. made \in Nat /\ made' \in Nat /\ made <= made' /\ made' \in 0..MaxConns
  BY <1>1, BoundAssumption DEF SInv, TypeOK
<1>4. on' \in [Threads -> 0..made'] /\ on'[t] # 0 /\ \A u \in Threads \ {t} : on'[u] = on[u]
  <2>1. on \in [Threads -> 0..made'] /\ current' \in 0..made' /\ current' # 0
    BY <1>1, <1>3 DEF SInv, TypeOK
  <2> QED BY <1>1, <2>1
<1>5. taken' \in [Threads -> [conn : 0..made', watcher : Observers \cup {NoWatcher}]]
  <2>1. 0..made \subseteq 0..made'
    BY <1>3
  <2>2. [conn : 0..made, watcher : Observers \cup {NoWatcher}]
          \subseteq [conn : 0..made', watcher : Observers \cup {NoWatcher}]
    BY <2>1
  <2> QED BY <1>1, <2>2 DEF SInv, TypeOK
<1>6. TypeOK'
  BY <1>1, <1>2, <1>3, <1>4, <1>5 DEF SInv, TypeOK, conn
<1>7. HasConn'
  BY <1>1, <1>2, <1>4, ThreadFacts DEF SInv, HasConn
<1>8. HeldWhile'
  BY <1>1, <1>2 DEF SInv, HeldWhile
<1>9. Owned'
  BY <1>1, OwnedSame DEF conn
<1>10. Started' /\ HasWatcher'
  BY <1>1, <1>2, ThreadFacts DEF SInv, Started, HasWatcher
<1>11. \A o \in Observers : Busy(o)' <=> Busy(o)
  BY <1>2, ThreadFacts DEF Busy, Following
<1>12. InMap'
  BY <1>1, <1>2, <1>11, ThreadFacts DEF SInv, InMap
<1> QED BY <1>6, <1>7, <1>8, <1>9, <1>10, <1>12 DEF SInv

-----------------------------------------------------------------------------
(* The event watcher.                                                      *)

LEMMA StepEnsureEntry == ASSUME SInv, NEW o \in Observers, EnsureEntry(o) PROVE SInv'
<1>1. PICK t \in Threads \ {Shutdown} : t = <<"observe", o>>
  BY ThreadFacts
<1>2. /\ pc[t] = "ensure" /\ pc' = [pc EXCEPT ![t] = "once"]
      /\ entry' \in Observers /\ (entry # NoWatcher => entry' = entry)
      /\ watcher' = [watcher EXCEPT ![t] = entry']
      /\ UNCHANGED <<current, made, watch, conn, client, on, held, taken, bound>>
  BY <1>1 DEF EnsureEntry, Goto, Watched, SInv, TypeOK
<1>3. /\ pc' \in [Threads -> Labels] /\ pc'[t] = "once" /\ \A u \in Threads \ {t} : pc'[u] = pc[u]
      /\ watcher' \in [Threads -> Observers \cup {NoWatcher}]
      /\ watcher'[t] = entry' /\ \A u \in Threads \ {t} : watcher'[u] = watcher[u]
  BY <1>2 DEF SInv, TypeOK, Labels
<1>4. TypeOK'
  BY <1>2, <1>3 DEF SInv, TypeOK, conn
<1>5. HasConn' /\ HeldWhile'
  BY <1>2, <1>3 DEF SInv, HasConn, HeldWhile
<1>6. Owned'
  BY <1>2, OwnedSame DEF conn
<1>7. Started'
  BY <1>1, <1>2, <1>3, ThreadFacts DEF SInv, Started
<1>8. HasWatcher'
  BY <1>2, <1>3, ThreadFacts, NoWatcherAssumption DEF SInv, HasWatcher
<1>9. \A p \in Observers : Busy(p)' <=> Busy(p)
  BY <1>1, <1>3, ThreadFacts DEF Busy, Following
<1>10. InMap'
  <2> SUFFICES ASSUME pc'[Shutdown] = "idle"
               PROVE  /\ \A p \in Observers : Busy(p)' => entry' = p
                      /\ \A u \in Threads : watcher'[u] # NoWatcher /\ watch'[watcher'[u]] = "new"
                                              => entry' = watcher'[u]
    BY DEF InMap
  <2>1. /\ \A p \in Observers : Busy(p) => entry = p
        /\ \A u \in Threads : watcher[u] # NoWatcher /\ watch[watcher[u]] = "new" => entry = watcher[u]
    BY <1>3, ThreadFacts DEF SInv, InMap
  <2> QED BY <1>2, <1>3, <1>9, <2>1, NoWatcherAssumption
<1> QED BY <1>4, <1>5, <1>6, <1>7, <1>8, <1>10 DEF SInv

LEMMA StepEnsureOnce == ASSUME SInv, NEW o \in Observers, EnsureOnce(o) PROVE SInv'
<1>1. PICK t \in Threads \ {Shutdown} : t = <<"observe", o>>
  BY ThreadFacts
<1>2. PICK w \in Observers : w = watcher[t]
  BY <1>1 DEF EnsureOnce, SInv, HasWatcher, TypeOK
<1>3. /\ pc[t] = "once" /\ on[t] # 0 /\ on[t] \in 0..made
      /\ watcher' = [watcher EXCEPT ![t] = NoWatcher]
      /\ UNCHANGED <<maps, conn, client, held, taken, bound>>
  BY <1>1, WorksOn DEF EnsureOnce, SInv, TypeOK
<1>4. /\ watcher' \in [Threads -> Observers \cup {NoWatcher}]
      /\ watcher'[t] = NoWatcher /\ \A u \in Threads \ {t} : watcher'[u] = watcher[u]
  BY <1>3 DEF SInv, TypeOK
<1>5. CASE watch[w] = "new"
  <2>0. /\ Follow(w) \in Threads \ {Shutdown} /\ Refresh(w) \in Threads \ {Shutdown}
        /\ Follow(w) # t /\ Refresh(w) # t /\ Follow(w) # Refresh(w)
    BY <1>1, ThreadFacts
  <2>1. PICK f \in Threads \ {Shutdown}, r \in Threads \ {Shutdown} :
          f = Follow(w) /\ r = Refresh(w) /\ f # t /\ r # t /\ f # r
    BY <2>0
  <2>2. /\ watch' = [watch EXCEPT ![w] = "on"]
        /\ pc' = [pc EXCEPT ![t] = "done", ![f] = "loop"]
        /\ on' = [on EXCEPT ![f] = on[t], ![r] = on[t]]
    BY <1>1, <1>2, <1>5, <2>1 DEF EnsureOnce
  <2>3. /\ pc' \in [Threads -> Labels] /\ pc'[t] = "done" /\ pc'[f] = "loop"
        /\ \A u \in Threads \ {t, f} : pc'[u] = pc[u]
    BY <2>1, <2>2 DEF SInv, TypeOK, Labels
  <2>4. /\ on' \in [Threads -> 0..made] /\ on'[f] = on[t] /\ on'[r] = on[t]
        /\ \A u \in Threads \ {f, r} : on'[u] = on[u]
    BY <1>3, <2>1, <2>2 DEF SInv, TypeOK
  <2>5. /\ watch' \in [Observers -> {"new", "on", "cancelled"}] /\ watch'[w] = "on"
        /\ \A p \in Observers \ {w} : watch'[p] = watch[p]
    BY <2>2 DEF SInv, TypeOK
  <2>6. pc[f] = "idle"
    BY <1>5, <2>1 DEF SInv, Started
  <2>7. TypeOK'
    BY <1>3, <1>4, <2>3, <2>4, <2>5 DEF SInv, TypeOK, maps, conn
  <2>8. HasConn'
    <3>1. \A u \in Threads \ {Shutdown} : pc'[u] # "idle" => on'[u] # 0
      BY <1>3, <2>1, <2>3, <2>4 DEF SInv, HasConn
    <3>2. \A p \in Observers : watch'[p] # "new" => on'[Refresh(p)] # 0
      BY <1>3, <2>1, <2>4, <2>5, ThreadFacts DEF SInv, HasConn
    <3> QED BY <3>1, <3>2 DEF HasConn
  <2>9. HeldWhile'
    BY <1>3, <2>1, <2>3, <2>6 DEF SInv, HeldWhile
  <2>10. Owned'
    BY <1>3, OwnedSame DEF conn
  <2>11. Started'
    <3>1. \A p \in Observers \ {w} : Follow(p) \in Threads \ {t, f}
      BY <1>1, <2>1, ThreadFacts
    <3>2. \A p \in Observers : watch'[p] = "new" <=> pc'[Follow(p)] = "idle"
      BY <2>1, <2>3, <2>5, <3>1 DEF SInv, Started
    <3> QED BY <3>2 DEF Started
  <2>12. HasWatcher'
    BY <1>1, <1>4, <2>1, <2>3, ThreadFacts DEF SInv, HasWatcher
  <2>13. \A p \in Observers \ {w} : Busy(p)' <=> Busy(p)
    BY <1>1, <2>1, <2>3, ThreadFacts DEF Busy, Following
  <2>14. InMap'
    <3> SUFFICES ASSUME pc'[Shutdown] = "idle"
                 PROVE  /\ \A p \in Observers : Busy(p)' => entry' = p
                        /\ \A u \in Threads : watcher'[u] # NoWatcher /\ watch'[watcher'[u]] = "new"
                                                => entry' = watcher'[u]
      BY DEF InMap
    <3>1. /\ \A p \in Observers : Busy(p) => entry = p
          /\ \A u \in Threads : watcher[u] # NoWatcher /\ watch[watcher[u]] = "new" => entry = watcher[u]
      BY <2>1, <2>3, ThreadFacts DEF SInv, InMap
    <3>2. entry = w /\ entry' = entry
      BY <1>2, <1>3, <1>5, <3>1, NoWatcherAssumption DEF maps
    <3>3. \A p \in Observers : Busy(p)' => entry' = p
      BY <2>13, <3>1, <3>2
    <3>4. \A u \in Threads : watcher'[u] # NoWatcher /\ watch'[watcher'[u]] = "new" => entry' = watcher'[u]
      BY <1>4, <2>5, <3>1, <3>2
    <3> QED BY <3>3, <3>4
  <2> QED BY <2>7, <2>8, <2>9, <2>10, <2>11, <2>12, <2>14 DEF SInv
<1>6. CASE watch[w] # "new"
  <2>1. pc' = [pc EXCEPT ![t] = "done"] /\ UNCHANGED <<watch, on>>
    BY <1>1, <1>2, <1>6 DEF EnsureOnce, Goto
  <2>2. /\ pc' \in [Threads -> Labels] /\ pc'[t] = "done" /\ \A u \in Threads \ {t} : pc'[u] = pc[u]
    BY <2>1 DEF SInv, TypeOK, Labels
  <2>3. TypeOK'
    BY <1>3, <1>4, <2>1, <2>2 DEF SInv, TypeOK, maps, conn
  <2>4. HasConn' /\ HeldWhile'
    BY <1>3, <2>1, <2>2 DEF SInv, HasConn, HeldWhile
  <2>5. Owned'
    BY <1>3, OwnedSame DEF conn
  <2>6. Started' /\ HasWatcher'
    BY <1>1, <1>4, <2>1, <2>2, ThreadFacts DEF SInv, Started, HasWatcher
  <2>7. \A p \in Observers : Busy(p)' <=> Busy(p)
    BY <1>1, <2>2, ThreadFacts DEF Busy, Following
  <2>8. InMap'
    BY <1>3, <1>4, <2>1, <2>2, <2>7, ThreadFacts DEF SInv, InMap, maps
  <2> QED BY <2>3, <2>4, <2>5, <2>6, <2>8 DEF SInv
<1> QED BY <1>5, <1>6

LEMMA StepFollowLoop == ASSUME SInv, NEW o \in Observers, FollowLoop(o) PROVE SInv'
<1>1. PICK t \in Threads \ {Shutdown} : t = Follow(o)
  BY ThreadFacts
<1>2. /\ pc[t] = "loop" /\ on[t] # 0 /\ (Goto(t, "done") \/ Goto(t, "dial"))
      /\ UNCHANGED <<maps, watch, conn, client, on, held, watcher, taken, bound>>
  BY <1>1, WorksOn DEF FollowLoop
<1> QED BY <1>2, JustMoves DEF conn, Labels, BusyAt, SInv, TypeOK

LEMMA StepFollowReturn == ASSUME SInv, NEW o \in Observers, FollowReturn(o) PROVE SInv'
<1>1. PICK t \in Threads \ {Shutdown} : t = Follow(o)
  BY ThreadFacts
<1>2. /\ pc[t] = "follow" /\ Goto(t, "failed") /\ CloseClient(held[t]) /\ held' = [held EXCEPT ![t] = 0]
      /\ UNCHANGED <<maps, watch, conn, on, watcher, taken, bound>>
  BY <1>1 DEF FollowReturn
<1> QED BY <1>2, Releases DEF conn, Labels, BusyAt, SInv, TypeOK

LEMMA StepFollowFailed == ASSUME SInv, NEW o \in Observers, FollowFailed(o) PROVE SInv'
<1>1. PICK t \in Threads \ {Shutdown} : t = Follow(o)
  BY ThreadFacts
<1>2. /\ pc[t] = "failed" /\ on[t] # 0 /\ (Goto(t, "unlink") \/ Goto(t, "loop"))
      /\ UNCHANGED <<maps, watch, conn, client, on, held, watcher, taken, bound>>
  BY <1>1, WorksOn DEF FollowFailed
<1> QED BY <1>2, JustMoves DEF conn, Labels, BusyAt, SInv, TypeOK

-----------------------------------------------------------------------------
(* forget and Shutdown.                                                    *)

\* The watcher that unlinks is the one in the map, so nobody else loses his.
LEMMA StepUnlink == ASSUME SInv, NEW o \in Observers, Unlink(o) PROVE SInv'
<1>1. PICK t \in Threads \ {Shutdown} : t = Follow(o)
  BY ThreadFacts
<1>2. /\ pc[t] = "unlink" /\ pc' = [pc EXCEPT ![t] = "cancel"] /\ on[t] # 0
      /\ taken' = [taken EXCEPT ![t] = [conn |-> current, watcher |-> entry]]
      /\ current' = 0 /\ entry' = NoWatcher
      /\ UNCHANGED <<made, watch, conn, client, on, held, watcher, bound>>
  BY <1>1, WorksOn DEF Unlink, Unlinked, Goto
<1>3. /\ pc' \in [Threads -> Labels] /\ pc'[t] = "cancel" /\ \A u \in Threads \ {t} : pc'[u] = pc[u]
  BY <1>2 DEF SInv, TypeOK, Labels
<1>4. taken' \in [Threads -> [conn : 0..made, watcher : Observers \cup {NoWatcher}]]
  <2>1. [conn |-> current, watcher |-> entry] \in [conn : 0..made, watcher : Observers \cup {NoWatcher}]
    BY DEF SInv, TypeOK
  <2> QED BY <1>2, <2>1 DEF SInv, TypeOK
<1>5. 0 \in 0..made
  BY BoundAssumption DEF SInv, TypeOK
<1>6. TypeOK'
  BY <1>2, <1>3, <1>4, <1>5 DEF SInv, TypeOK, conn
<1>7. HasConn' /\ HeldWhile'
  BY <1>2, <1>3 DEF SInv, HasConn, HeldWhile
<1>8. Owned'
  BY <1>2, OwnedSame DEF conn
<1>9. Started' /\ HasWatcher'
  BY <1>1, <1>2, <1>3, ThreadFacts DEF SInv, Started, HasWatcher
<1>10. InMap'
  <2> SUFFICES ASSUME pc'[Shutdown] = "idle"
               PROVE  /\ \A p \in Observers : Busy(p)' => entry' = p
                      /\ \A u \in Threads : watcher'[u] # NoWatcher /\ watch'[watcher'[u]] = "new"
                                              => entry' = watcher'[u]
    BY DEF InMap
  <2>1. /\ \A p \in Observers : Busy(p) => entry = p
        /\ \A u \in Threads : watcher[u] # NoWatcher /\ watch[watcher[u]] = "new" => entry = watcher[u]
    BY <1>3, ThreadFacts DEF SInv, InMap
  <2>2. entry = o /\ watch[o] # "new"
    BY <1>1, <1>2, <2>1 DEF Busy, SInv, Started
  <2>3. \A p \in Observers : ~Busy(p)'
    <3>1. ~Busy(o)'
      BY <1>1, <1>3 DEF Busy, Following
    <3>2. \A p \in Observers \ {o} : Busy(p)' => Busy(p)
      BY <1>1, <1>3, ThreadFacts DEF Busy, Following
    <3> QED BY <2>1, <2>2, <3>1, <3>2
  <2>4. \A u \in Threads : watcher[u] # NoWatcher => watch[watcher[u]] # "new"
    BY <2>1, <2>2
  <2> QED BY <1>2, <2>3, <2>4
<1> QED BY <1>6, <1>7, <1>8, <1>9, <1>10 DEF SInv

\* Once Shutdown has begun the watchers are no longer counted.
LEMMA ShutdownMoves ==
  ASSUME SInv, NEW l \in Labels \ {"idle", "negotiate", "install", "follow"},
         pc[Shutdown] \notin {"negotiate", "install", "follow"},
         pc' = [pc EXCEPT ![Shutdown] = l], UNCHANGED <<on, held, watcher>>,
         watch' \in [Observers -> {"new", "on", "cancelled"}],
         \A o \in Observers : watch'[o] = "new" <=> watch[o] = "new"
  PROVE  pc' \in [Threads -> Labels] /\ HasConn' /\ HeldWhile' /\ Started' /\ HasWatcher' /\ InMap'
<1>1. /\ pc' \in [Threads -> Labels] /\ pc'[Shutdown] = l
      /\ \A u \in Threads \ {Shutdown} : pc'[u] = pc[u]
  BY ThreadFacts DEF SInv, TypeOK
<1>2. HasConn'
  BY <1>1 DEF SInv, HasConn
<1>3. HeldWhile'
  BY <1>1 DEF SInv, HeldWhile
<1>4. Started' /\ HasWatcher'
  BY <1>1, ThreadFacts DEF SInv, Started, HasWatcher
<1>5. InMap'
  BY <1>1 DEF InMap
<1> QED BY <1>1, <1>2, <1>3, <1>4, <1>5

LEMMA StepShutdownConns == SInv /\ ShutdownConns => SInv'
<1> SUFFICES ASSUME SInv, ShutdownConns PROVE SInv'
  OBVIOUS
<1>1. /\ pc[Shutdown] = "idle" /\ pc' = [pc EXCEPT ![Shutdown] = "stop"]
      /\ taken' = [taken EXCEPT ![Shutdown].conn = current] /\ current' = 0
      /\ UNCHANGED <<made, entry, watch, conn, client, on, held, watcher, bound>>
  BY DEF ShutdownConns, Goto
<1>2. pc' \in [Threads -> Labels] /\ HasConn' /\ HeldWhile' /\ Started' /\ HasWatcher' /\ InMap'
  <2>1. "stop" \in Labels \ {"idle", "negotiate", "install", "follow"}
    BY DEF Labels
  <2> QED BY <1>1, <2>1, ShutdownMoves DEF SInv, TypeOK
<1>3. taken' \in [Threads -> [conn : 0..made, watcher : Observers \cup {NoWatcher}]]
  BY <1>1, ThreadFacts DEF SInv, TypeOK
<1>4. 0 \in 0..made
  BY BoundAssumption DEF SInv, TypeOK
<1>5. TypeOK'
  BY <1>1, <1>2, <1>3, <1>4 DEF SInv, TypeOK, conn
<1>6. Owned'
  BY <1>1, OwnedSame DEF conn
<1> QED BY <1>2, <1>5, <1>6 DEF SInv

LEMMA StepShutdownWatchers == SInv /\ ShutdownWatchers => SInv'
<1> SUFFICES ASSUME SInv, ShutdownWatchers PROVE SInv'
  OBVIOUS
<1>1. /\ pc[Shutdown] = "stop" /\ pc' = [pc EXCEPT ![Shutdown] = "cancel"]
      /\ taken' = [taken EXCEPT ![Shutdown].watcher = entry] /\ entry' = NoWatcher
      /\ UNCHANGED <<current, made, watch, conn, client, on, held, watcher, bound>>
  BY DEF ShutdownWatchers, Goto
<1>2. pc' \in [Threads -> Labels] /\ HasConn' /\ HeldWhile' /\ Started' /\ HasWatcher' /\ InMap'
  <2>1. "cancel" \in Labels \ {"idle", "negotiate", "install", "follow"}
    BY DEF Labels
  <2> QED BY <1>1, <2>1, ShutdownMoves DEF SInv, TypeOK
<1>3. taken' \in [Threads -> [conn : 0..made, watcher : Observers \cup {NoWatcher}]]
  BY <1>1, ThreadFacts DEF SInv, TypeOK
<1>4. TypeOK'
  BY <1>1, <1>2, <1>3 DEF SInv, TypeOK, conn
<1>5. Owned'
  BY <1>1, OwnedSame DEF conn
<1> QED BY <1>2, <1>4, <1>5 DEF SInv

LEMMA StepCancel ==
  ASSUME SInv, NEW t \in Threads, Cancel(t)
  PROVE  SInv'
<1>1. /\ pc[t] = "cancel" /\ pc' = [pc EXCEPT ![t] = "close"]
      /\ UNCHANGED <<maps, conn, client, on, held, watcher, taken, bound>>
  BY DEF Cancel, Goto
<1>2. /\ watch' \in [Observers -> {"new", "on", "cancelled"}]
      /\ \A o \in Observers : watch'[o] = "new" <=> watch[o] = "new"
  <2>1. taken[t].watcher \in Observers \cup {NoWatcher}
    BY DEF SInv, TypeOK
  <2> QED BY <2>1 DEF Cancel, SInv, TypeOK
<1>3. /\ pc' \in [Threads -> Labels] /\ pc'[t] = "close" /\ \A u \in Threads \ {t} : pc'[u] = pc[u]
  BY <1>1 DEF SInv, TypeOK, Labels
<1>4. TypeOK'
  BY <1>1, <1>2, <1>3 DEF SInv, TypeOK, maps, conn
<1>5. HasConn' /\ HeldWhile'
  BY <1>1, <1>2, <1>3 DEF SInv, HasConn, HeldWhile
<1>6. Owned'
  BY <1>1, OwnedSame DEF conn
<1>7. Started' /\ HasWatcher'
  BY <1>1, <1>2, <1>3, ThreadFacts DEF SInv, Started, HasWatcher
<1>8. \A o \in Observers : Busy(o)' => Busy(o)
  BY <1>3, ThreadFacts DEF Busy, Following
<1>9. InMap'
  BY <1>1, <1>2, <1>3, <1>8, ThreadFacts DEF SInv, TypeOK, InMap, maps
<1> QED BY <1>4, <1>5, <1>6, <1>7, <1>9 DEF SInv

LEMMA StepCloseConn ==
  ASSUME SInv, NEW t \in Threads, CloseConn(t)
  PROVE  SInv'
<1>1. PICK l \in {"closeAll", "done"} : pc' = [pc EXCEPT ![t] = l]
  BY DEF CloseConn, Goto
<1>2. /\ pc[t] = "close" /\ taken' = [taken EXCEPT ![t] = Nothing]
      /\ UNCHANGED <<maps, watch, published, on, held, watcher, bound>>
  BY DEF CloseConn
<1>3. /\ pc' \in [Threads -> Labels] /\ pc'[t] = l /\ \A u \in Threads \ {t} : pc'[u] = pc[u]
  BY <1>1 DEF SInv, TypeOK, Labels
<1>4. taken' \in [Threads -> [conn : 0..made, watcher : Observers \cup {NoWatcher}]]
  <2>1. 0 \in 0..made
    BY BoundAssumption DEF SInv, TypeOK
  <2>2. Nothing \in [conn : 0..made, watcher : Observers \cup {NoWatcher}]
    BY <2>1 DEF Nothing
  <2> QED BY <1>2, <2>2 DEF SInv, TypeOK
<1>5. /\ Owned' /\ client' \in [Clients -> {"unused", "live", "dead", "closed"}]
      /\ control' \in [Conns -> 0..MaxClients] /\ closed' \in [Conns -> BOOLEAN]
      /\ \A m \in Conns : closed'[m] => control'[m] = 0
  <2>1. CASE taken[t].conn = 0
    <3>1. UNCHANGED <<closed, control, client>>
      BY <2>1 DEF CloseConn
    <3> QED BY <1>2, <3>1, OwnedSame DEF SInv, TypeOK
  <2>2. CASE taken[t].conn # 0
    <3>1. taken[t].conn \in 0..made /\ made \in 0..MaxConns
      BY DEF SInv, TypeOK
    <3>2. taken[t].conn \in Conns
      BY <2>2, <3>1, BoundAssumption DEF Conns
    <3>3. CloseConnection(taken[t].conn)
      BY <2>2 DEF CloseConn
    <3> QED BY <1>2, <3>2, <3>3, OwnedClose
  <2> QED BY <2>1, <2>2
<1>6. TypeOK'
  BY <1>2, <1>3, <1>4, <1>5 DEF SInv, TypeOK, maps
<1>7. HasConn' /\ HeldWhile'
  BY <1>2, <1>3 DEF SInv, HasConn, HeldWhile
<1>8. Started' /\ HasWatcher'
  BY <1>2, <1>3, ThreadFacts DEF SInv, Started, HasWatcher
<1>9. \A o \in Observers : Busy(o)' => Busy(o)
  BY <1>3, ThreadFacts DEF Busy, Following
<1>10. InMap'
  BY <1>2, <1>3, <1>9, ThreadFacts DEF SInv, InMap, maps
<1> QED BY <1>5, <1>6, <1>7, <1>8, <1>10 DEF SInv

LEMMA StepCloseAll == SInv /\ CloseAll => SInv'
<1> SUFFICES ASSUME SInv, CloseAll PROVE SInv'
  OBVIOUS
<1>1. /\ pc[Shutdown] = "closeAll" /\ pc' = [pc EXCEPT ![Shutdown] = "done"]
      /\ client' = [k \in Clients |-> IF client[k] \in {"live", "dead"} THEN "closed" ELSE client[k]]
      /\ UNCHANGED <<maps, watch, conn, on, held, watcher, taken, bound>>
  BY DEF CloseAll, Goto
<1>2. pc' \in [Threads -> Labels] /\ HasConn' /\ HeldWhile' /\ Started' /\ HasWatcher' /\ InMap'
  <2>1. "done" \in Labels \ {"idle", "negotiate", "install", "follow"}
    BY DEF Labels
  <2> QED BY <1>1, <2>1, ShutdownMoves DEF SInv, TypeOK
<1>3. TypeOK'
  BY <1>1, <1>2 DEF SInv, TypeOK, maps, conn
<1>4. Owned'
  BY <1>1, OwnedSame DEF conn
<1> QED BY <1>2, <1>3, <1>4 DEF SInv

-----------------------------------------------------------------------------
(* The host.                                                               *)

\* Channels end: no goroutine moves.
LEMMA ChannelsEnd ==
  ASSUME SInv, bound' \in BOOLEAN,
         client' \in [Clients -> {"unused", "live", "dead", "closed"}],
         \A k \in Clients : client'[k] = client[k] \/ (client[k] = "live" /\ client'[k] = "dead"),
         UNCHANGED <<maps, watch, conn, pc, on, held, watcher, taken>>
  PROVE  SInv'
<1>1. TypeOK'
  BY DEF SInv, TypeOK, maps, conn
<1>2. HasConn' /\ HeldWhile' /\ Started' /\ HasWatcher'
  BY DEF SInv, HasConn, HeldWhile, Started, HasWatcher
<1>3. Owned'
  BY OwnedSame DEF conn
<1>4. InMap'
  BY DEF SInv, InMap, Busy, Following, maps
<1> QED BY <1>1, <1>2, <1>3, <1>4 DEF SInv

LEMMA StepHost ==
  ASSUME SInv, HostUnbinds \/ \E k \in Clients : HostDrops(k)
  PROVE  SInv'
<1>1. CASE HostUnbinds
  BY <1>1, ChannelsEnd DEF HostUnbinds, SInv, TypeOK
<1>2. ASSUME NEW k \in Clients, HostDrops(k) PROVE SInv'
  BY <1>2, ChannelsEnd DEF HostDrops, SInv, TypeOK
<1> QED BY <1>1, <1>2

-----------------------------------------------------------------------------
LEMMA StepUseControl ==
  ASSUME SInv, NEW t \in Threads \ {Shutdown}, UseControl(t), \A o \in Observers : t # Follow(o)
  PROVE  SInv'
<1>1. CASE ControlTest(t)
  <2>1. Test(t) /\ pc[t] = "control" /\ on[t] # 0
    BY <1>1, WorksOn DEF ControlTest
  <2> QED BY <2>1, StepTest
<1>2. CASE Dial(t)
  BY <1>2, StepOpenExec, StepNegotiate, StepMarkGone DEF Dial
<1>3. CASE Install(t)
  BY <1>3, StepInstall
<1> QED BY <1>1, <1>2, <1>3 DEF UseControl

LEMMA StepTick == ASSUME SInv, NEW o \in Observers, Tick(o) PROVE SInv'
<1>0. Refresh(o) \in Threads \ {Shutdown} /\ \A p \in Observers : Refresh(o) # Follow(p)
  BY ThreadFacts
<1>1. PICK t \in Threads \ {Shutdown} : t = Refresh(o) /\ \A p \in Observers : t # Follow(p)
  BY <1>0
<1>2. Test(t) /\ pc[t] = "idle" /\ on[t] # 0
  BY <1>1 DEF Tick, SInv, HasConn
<1> QED BY <1>1, <1>2, StepTest

LEMMA StepObserver ==
  ASSUME SInv, NEW o \in Observers,
         \/ Observe(o) \/ RunObserve(o) \/ Watch(o) \/ FollowReturn(o) \/ Tick(o)
         \/ UseControl(Refresh(o))
  PROVE  SInv'
<1>0. <<"observe", o>> \in Threads \ {Shutdown} /\ \A p \in Observers : <<"observe", o>> # Follow(p)
  BY ThreadFacts
<1>1. PICK t \in Threads \ {Shutdown} : t = <<"observe", o>> /\ \A p \in Observers : t # Follow(p)
  BY <1>0
<1>2. CASE Observe(o)
  <2>1. pc[t] = "idle" /\ Connect(t) /\ (Goto(t, "control") \/ Goto(t, "ensure"))
    BY <1>1, <1>2 DEF Observe
  <2> QED BY <1>1, <2>1, StepConnect
<1>3. CASE RunObserve(o)
  <2>1. UseControl(t) \/ EnsureEntry(o) \/ EnsureOnce(o)
    BY <1>1, <1>3 DEF RunObserve
  <2> QED BY <1>1, <2>1, StepUseControl, StepEnsureEntry, StepEnsureOnce
<1>4. CASE Watch(o)
  <2>1. PICK f \in Threads \ {Shutdown} : f = Follow(o)
    BY ThreadFacts
  <2>2. \/ FollowLoop(o) \/ Dial(f) \/ FollowFailed(o) \/ Unlink(o) \/ Cancel(f) \/ CloseConn(f)
    BY <1>4, <2>1 DEF Watch
  <2> QED BY <2>2, StepFollowLoop, StepOpenExec, StepNegotiate, StepMarkGone, StepFollowFailed,
             StepUnlink, StepCancel, StepCloseConn DEF Dial
<1>5. CASE UseControl(Refresh(o))
  <2>0. Refresh(o) \in Threads \ {Shutdown} /\ \A p \in Observers : Refresh(o) # Follow(p)
    BY ThreadFacts
  <2>1. PICK r \in Threads \ {Shutdown} : r = Refresh(o) /\ \A p \in Observers : r # Follow(p)
    BY <2>0
  <2> QED BY <1>5, <2>1, StepUseControl
<1> QED BY <1>2, <1>3, <1>4, <1>5, StepFollowReturn, StepTick

LEMMA StepActor ==
  ASSUME SInv, NEW a \in Actors, InvokeAction(a) \/ RunAct(a)
  PROVE  SInv'
<1>0. <<"act", a>> \in Threads \ {Shutdown} /\ \A p \in Observers : <<"act", a>> # Follow(p)
  BY ThreadFacts
<1>1. PICK t \in Threads \ {Shutdown} : t = <<"act", a>> /\ \A p \in Observers : t # Follow(p)
  BY <1>0
<1>2. CASE InvokeAction(a)
  <2>1. pc[t] = "idle" /\ Connect(t) /\ Goto(t, "resolve")
    BY <1>1, <1>2 DEF InvokeAction
  <2> QED BY <1>1, <2>1, StepConnect
<1>3. CASE RunAct(a)
  <2>1. Resolve(t) \/ UseControl(t)
    BY <1>1, <1>3 DEF RunAct
  <2> QED BY <1>1, <2>1, StepResolve, StepUseControl
<1> QED BY <1>2, <1>3

LEMMA SStep == SInv /\ [Next]_vars => SInv'
<1> SUFFICES ASSUME SInv, [Next]_vars PROVE SInv'
  OBVIOUS
<1>1. CASE UNCHANGED vars
  BY <1>1, ChannelsEnd DEF vars, SInv, TypeOK
<1>2. CASE RunShutdown
  BY <1>2, StepShutdownWatchers, StepCancel, StepCloseConn, StepCloseAll, ThreadFacts DEF RunShutdown
<1> QED BY <1>1, <1>2, StepObserver, StepActor, StepShutdownConns, StepHost DEF Next

\* The inductive invariant holds in every reachable state.
THEOREM Inductive == Spec => []SInv
<1> QED BY SInit, SStep, PTL DEF Spec

\* Every variable has its type, and a closed Connection has no control client.
THEOREM TypeCorrect == Spec => []TypeOK
<1>1. SInv => TypeOK
  BY DEF SInv
<1> QED BY <1>1, Inductive, PTL

\* Every open daemon connection has exactly one owner, for any number of
\* goroutines in Control, however they race with the end of the session and
\* with Shutdown.
THEOREM OneOwnerEach == Spec => []NoOrphanClient
<1>1. SInv => NoOrphanClient
  <2> SUFFICES ASSUME SInv, NEW k \in Clients, Open(k) PROVE Owners(k) = 1
    BY DEF NoOrphanClient
  <2> DEFINE C == {n \in Conns : control[n] = k /\ ~closed[n]}  H == {t \in Threads : held[t] = k}
  <2>0. k # 0
    BY DEF Clients
  <2>1. ASSUME NEW t \in Threads, held[t] = k PROVE Owners(k) = 1
    <3>1. H = {t} /\ C = {}
      BY <2>0, <2>1 DEF SInv, Owned
    <3>2. Cardinality(H) = 1 /\ Cardinality(C) = 0
      BY <3>1, FS_Singleton, FS_EmptySet
    <3> QED BY <3>2 DEF Owners
  <2>2. ASSUME NEW n \in Conns, control[n] = k PROVE Owners(k) = 1
    <3>1. H = {} /\ C = {n}
      BY <2>0, <2>2 DEF SInv, Owned, TypeOK
    <3>2. Cardinality(H) = 0 /\ Cardinality(C) = 1
      BY <3>1, FS_Singleton, FS_EmptySet
    <3> QED BY <3>2 DEF Owners
  <2> QED BY <2>1, <2>2 DEF SInv, Owned
<1> QED BY <1>1, Inductive, PTL

\* At most one watcher follows the daemon until a shutdown, for any number of
\* observes and Connections.
THEOREM WatcherIsUnique == Spec => []OneWatcher
<1>1. SInv => OneWatcher
  <2> SUFFICES ASSUME SInv, pc[Shutdown] = "idle"
               PROVE  Cardinality({o \in Observers : Following(o)}) <= 1
    BY DEF OneWatcher
  <2> DEFINE F == {o \in Observers : Following(o)}
  <2>1. \A o \in F : o = entry
    BY DEF SInv, InMap, Busy
  <2>2. CASE F = {}
    BY <2>2, FS_EmptySet
  <2>3. CASE F # {}
    <3>1. F = {entry}
      BY <2>1, <2>3
    <3>2. Cardinality({entry}) = 1
      BY FS_Singleton
    <3>3. Cardinality(F) = 1
      BY <3>1, <3>2
    <3> QED BY <3>3
  <2> QED BY <2>2, <2>3
<1> QED BY <1>1, Inductive, PTL
=============================================================================
