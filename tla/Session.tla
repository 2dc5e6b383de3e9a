------------------------------ MODULE Session ------------------------------
(***************************************************************************)
(* internal/usecase: the life of one SSH session in the plugin. connection *)
(* .go (the shared control client, dialing, the end of a session), events  *)
(* .go (the event watcher and the reconcile loop) and service.go (the maps *)
(* of connections and watchers, forget, Shutdown).                         *)
(*                                                                         *)
(* The maps are keyed by session id and sessions share nothing, so one id  *)
(* is modelled; forget empties its entries and a later observe makes a new *)
(* Connection, so there is a sequence of Connections under it.             *)
(*                                                                         *)
(* A step is one critical section (of Service.mu or Connection.mu), one    *)
(* answer of the host, or one exchange with the daemon. What a goroutine   *)
(* holds between two steps is in on, held and taken.                       *)
(***************************************************************************)
EXTENDS Naturals, FiniteSets

CONSTANTS Observers,   \* goroutines that Observe starts; each may start a watcher
          Actors,      \* goroutines of InvokeAction
          NoWatcher,   \* no entry in the map of watchers
          MaxConns,    \* bound: Connections made for the session id
          MaxClients   \* bound: exec channels the host opens

ASSUME NoWatcherAssumption == NoWatcher \notin Observers
ASSUME BoundAssumption == MaxConns \in Nat \ {0} /\ MaxClients \in Nat

\* The goroutines. A watcher is named after the Observe that made it and has
\* two: "follow" (watchEvents) and "refresh" (reconcile and the flushes).
Follow(o) == <<"follow", o>>
Refresh(o) == <<"refresh", o>>
Shutdown == <<"shutdown", NoWatcher>>
Threads == ({"observe", "follow", "refresh"} \X Observers) \cup ({"act"} \X Actors)
             \cup {Shutdown}
Conns == 1..MaxConns
Clients == 1..MaxClients

VARIABLES
  current,   \* Service.connections: the Connection of the id, 0 if none
  made,      \* Connections made so far
  entry,     \* Service.watchers: the watcher of the id
  watch,     \* each watcher: "new" until once.Do set its cancel, "on", "cancelled"
  closed, control,  \* fields of each Connection (control is a client, or 0)
  published, \* the Connection has published nodes an action can resolve
  client,    \* each dockerapi.Client: "unused", "live", "dead" (the host closed
             \* its channel), "closed" (by the plugin)
  pc,        \* where each goroutine is
  on,        \* the Connection it works on
  held,      \* the client it holds, 0 if none
  watcher,   \* the watcher ensureEventWatcher found or made
  taken,     \* the Connection and watcher forget or Shutdown took from the maps
  bound      \* the host still binds the session id

maps == <<current, made, entry>>
conn == <<closed, control, published>>
vars == <<maps, watch, conn, client, pc, on, held, watcher, taken, bound>>

Nothing == [conn |-> 0, watcher |-> NoWatcher]
Labels == {"idle", "control", "dial", "gone", "negotiate", "install", "ensure", "once", "resolve",
           "loop", "follow", "failed", "unlink", "stop", "cancel", "close", "closeAll", "done"}

\* Every variable has its type, and a Connection that is closed holds no control
\* client (Connection.Control, markGone and Close).
TypeOK ==
  /\ current \in 0..made /\ made \in 0..MaxConns
  /\ entry \in Observers \cup {NoWatcher}
  /\ watch \in [Observers -> {"new", "on", "cancelled"}]
  /\ closed \in [Conns -> BOOLEAN] /\ control \in [Conns -> 0..MaxClients]
  /\ \A n \in Conns : closed[n] => control[n] = 0
  /\ published \in [Conns -> BOOLEAN]
  /\ client \in [Clients -> {"unused", "live", "dead", "closed"}]
  /\ pc \in [Threads -> Labels]
  /\ on \in [Threads -> 0..made] /\ held \in [Threads -> 0..MaxClients]
  /\ watcher \in [Threads -> Observers \cup {NoWatcher}]
  /\ taken \in [Threads -> [conn : 0..made, watcher : Observers \cup {NoWatcher}]]
  /\ bound \in BOOLEAN

Init ==
  /\ current = 0 /\ made = 0 /\ entry = NoWatcher
  /\ watch = [o \in Observers |-> "new"]
  /\ closed = [n \in Conns |-> FALSE] /\ control = [n \in Conns |-> 0]
  /\ published = [n \in Conns |-> FALSE]
  /\ client = [k \in Clients |-> "unused"]
  /\ pc = [t \in Threads |-> "idle"]
  /\ on = [t \in Threads |-> 0] /\ held = [t \in Threads |-> 0]
  /\ watcher = [t \in Threads |-> NoWatcher]
  /\ taken = [t \in Threads |-> Nothing]
  /\ bound = TRUE

-----------------------------------------------------------------------------
Goto(t, label) == pc' = [pc EXCEPT ![t] = label]
CloseClient(k) == client' = IF k = 0 THEN client ELSE [client EXCEPT ![k] = "closed"]

\* Where a goroutine goes on when Control has returned.
AfterControl(t) == CASE t[1] = "observe" -> "ensure"
                     [] t[1] = "refresh" -> "idle"
                     [] OTHER -> "done"
\* Where it goes on when a dial has failed.
AfterFailure(t) == IF t[1] = "follow" THEN "failed" ELSE AfterControl(t)

\* Service.connection: the Connection of the session, made on first sight.
Connect(t) ==
  /\ IF current # 0
       THEN UNCHANGED <<current, made>>
       ELSE made < MaxConns /\ made' = made + 1 /\ current' = made + 1
  /\ on' = [on EXCEPT ![t] = current']
  /\ UNCHANGED <<entry, watch, conn, client, held, watcher, taken, bound>>

\* Observe; its goroutine refreshes what is observed, if anything is.
Observe(o) ==
  LET t == <<"observe", o>> IN
  /\ pc[t] = "idle" /\ Connect(t)
  /\ Goto(t, "control") \/ Goto(t, "ensure")

\* InvokeAction, and runAction's Resolve of the nodes it was given.
InvokeAction(a) ==
  LET t == <<"act", a>> IN pc[t] = "idle" /\ Connect(t) /\ Goto(t, "resolve")
Resolve(t) ==
  /\ pc[t] = "resolve"
  /\ Goto(t, IF published[on[t]] THEN "control" ELSE "done")
  /\ UNCHANGED <<maps, watch, conn, client, on, held, watcher, taken, bound>>

-----------------------------------------------------------------------------
(* Control, and the dial it shares with OpenStream.                        *)

\* A refresh that got a client that works publishes what it lists, and every
\* node it publishes is remembered (publish).
Publishes(t) == published' = IF t[1] = "act" THEN published ELSE [published EXCEPT ![on[t]] = TRUE]

\* The first critical section of Control.
Test(t) ==
  LET n == on[t] IN
  /\ \/ closed[n] /\ Goto(t, AfterControl(t)) /\ UNCHANGED published
     \/ /\ ~closed[n] /\ control[n] # 0
        /\ Goto(t, AfterControl(t))
        /\ IF client[control[n]] = "live" THEN Publishes(t) ELSE UNCHANGED published
     \/ ~closed[n] /\ control[n] = 0 /\ Goto(t, "dial") /\ UNCHANGED published
  /\ UNCHANGED <<maps, watch, closed, control, client, on, held, watcher, taken, bound>>

ControlTest(t) == pc[t] = "control" /\ Test(t)

\* The ticker of reconcile, or the timer of a burst of events: a refresh.
Tick(o) == watch[o] # "new" /\ pc[Refresh(o)] = "idle" /\ Test(Refresh(o))

\* Mutant: the host's refusal is an error like any other.
Refused_Unnoticed(t) == Goto(t, AfterFailure(t))
\* isSessionGone: the refusal is final.
Refused(t) == Goto(t, "gone")

\* streams.OpenExec: refused, failed, or a new channel.
OpenExec(t) ==
  /\ pc[t] = "dial"
  /\ \/ ~bound /\ Refused(t) /\ UNCHANGED <<client, held>>
     \/ bound /\ Goto(t, AfterFailure(t)) /\ UNCHANGED <<client, held>>
     \/ /\ bound /\ Goto(t, "negotiate")
        /\ \E k \in Clients :
             /\ client[k] = "unused" /\ \A j \in 1..(k - 1) : client[j] # "unused"
             /\ client' = [client EXCEPT ![k] = "live"]
             /\ held' = [held EXCEPT ![t] = k]
  /\ UNCHANGED <<maps, watch, conn, on, watcher, taken, bound>>

\* client.Negotiate, and the Close when it fails.
Negotiate(t) ==
  /\ pc[t] = "negotiate"
  /\ \/ /\ client[held[t]] = "live"
        /\ Goto(t, IF t[1] = "follow" THEN "follow" ELSE "install")
        /\ UNCHANGED <<client, held>>
     \/ /\ CloseClient(held[t]) /\ held' = [held EXCEPT ![t] = 0]
        /\ Goto(t, AfterFailure(t))
  /\ UNCHANGED <<maps, watch, conn, on, watcher, taken, bound>>

\* Mutant: a Connection closed during the dial is not looked at again.
Installs_Unchecked(n) == control[n] = 0
\* Mutant: the client of the goroutine that won the race is replaced.
Installs_Overwrites(n) == ~closed[n]
Installs(n) == ~closed[n] /\ control[n] = 0

\* The second critical section of Control.
Install(t) ==
  LET n == on[t] IN
  /\ pc[t] = "install" /\ Goto(t, AfterControl(t))
  /\ held' = [held EXCEPT ![t] = 0]
  /\ IF Installs(n)
       THEN control' = [control EXCEPT ![n] = held[t]] /\ UNCHANGED client
       ELSE CloseClient(held[t]) /\ UNCHANGED control
  /\ IF closed[n] THEN UNCHANGED published ELSE Publishes(t)
  /\ UNCHANGED <<maps, watch, closed, on, watcher, taken, bound>>

\* markGone and Connection.Close do the same. The client is closed after the
\* unlock, when nobody else can reach it any more: one step.
CloseConnection(n) ==
  /\ closed' = [closed EXCEPT ![n] = TRUE]
  /\ control' = [control EXCEPT ![n] = 0]
  /\ CloseClient(control[n])

MarkGone(t) ==
  /\ pc[t] = "gone" /\ CloseConnection(on[t]) /\ Goto(t, AfterFailure(t))
  /\ UNCHANGED <<maps, watch, published, on, held, watcher, taken, bound>>

-----------------------------------------------------------------------------
(* The event watcher.                                                      *)

\* Mutant: every Observe makes a watcher.
Watched_Never == FALSE
Watched == entry # NoWatcher

\* ensureEventWatcher: find or make the entry.
EnsureEntry(o) ==
  LET t == <<"observe", o>> IN
  /\ pc[t] = "ensure" /\ Goto(t, "once")
  /\ entry' = IF Watched THEN entry ELSE o
  /\ watcher' = [watcher EXCEPT ![t] = entry']
  /\ UNCHANGED <<current, made, watch, conn, client, on, held, taken, bound>>

\* ensureEventWatcher: once.Do.
EnsureOnce(o) ==
  LET t == <<"observe", o>>  w == watcher[t] IN
  /\ pc[t] = "once"
  /\ IF watch[w] = "new"
       THEN /\ watch' = [watch EXCEPT ![w] = "on"]
            /\ pc' = [pc EXCEPT ![t] = "done", ![Follow(w)] = "loop"]
            /\ on' = [on EXCEPT ![Follow(w)] = on[t], ![Refresh(w)] = on[t]]
       ELSE Goto(t, "done") /\ UNCHANGED <<watch, on>>
  /\ watcher' = [watcher EXCEPT ![t] = NoWatcher]
  /\ UNCHANGED <<maps, conn, client, held, taken, bound>>

\* The loop test of watchEvents, and OpenStream, which dials at once.
FollowLoop(o) ==
  /\ pc[Follow(o)] = "loop"
  /\ Goto(Follow(o), IF watch[o] = "cancelled" THEN "done" ELSE "dial")
  /\ UNCHANGED <<maps, watch, conn, client, on, held, watcher, taken, bound>>

\* followEvents returns and closes its client.
FollowReturn(o) ==
  LET t == Follow(o) IN
  /\ pc[t] = "follow" /\ Goto(t, "failed")
  /\ CloseClient(held[t]) /\ held' = [held EXCEPT ![t] = 0]
  /\ UNCHANGED <<maps, watch, conn, on, watcher, taken, bound>>

\* watchEvents after followEvents: give up, or pause and try again.
FollowFailed(o) ==
  LET t == Follow(o) IN
  /\ pc[t] = "failed"
  /\ Goto(t, IF closed[on[t]] THEN "unlink" ELSE "loop")
  /\ UNCHANGED <<maps, watch, conn, client, on, held, watcher, taken, bound>>

-----------------------------------------------------------------------------
(* forget, called by the watcher, and Shutdown.                            *)

\* Mutant: the entry of the Connection stays.
Unlinked_WatcherOnly == current
Unlinked == 0

\* The critical section of forget.
Unlink(o) ==
  LET t == Follow(o) IN
  /\ pc[t] = "unlink" /\ Goto(t, "cancel")
  /\ taken' = [taken EXCEPT ![t] = [conn |-> current, watcher |-> entry]]
  /\ current' = Unlinked /\ entry' = NoWatcher
  /\ UNCHANGED <<made, watch, conn, client, on, held, watcher, bound>>

\* Shutdown: its own critical section, then that of stopWatchers.
ShutdownConns ==
  /\ pc[Shutdown] = "idle" /\ Goto(Shutdown, "stop")
  /\ taken' = [taken EXCEPT ![Shutdown].conn = current] /\ current' = 0
  /\ UNCHANGED <<made, entry, watch, conn, client, on, held, watcher, bound>>
ShutdownWatchers ==
  /\ pc[Shutdown] = "stop" /\ Goto(Shutdown, "cancel")
  /\ taken' = [taken EXCEPT ![Shutdown].watcher = entry] /\ entry' = NoWatcher
  /\ UNCHANGED <<current, made, watch, conn, client, on, held, watcher, bound>>

\* Cancel the watcher, unless its cancel is not there yet.
Cancel(t) ==
  LET w == taken[t].watcher IN
  /\ pc[t] = "cancel" /\ Goto(t, "close")
  /\ watch' = IF w # NoWatcher /\ watch[w] = "on" THEN [watch EXCEPT ![w] = "cancelled"] ELSE watch
  /\ UNCHANGED <<maps, conn, client, on, held, watcher, taken, bound>>

\* Close the Connection.
CloseConn(t) ==
  /\ pc[t] = "close" /\ Goto(t, IF t = Shutdown THEN "closeAll" ELSE "done")
  /\ IF taken[t].conn = 0
       THEN UNCHANGED <<closed, control, client>>
       ELSE CloseConnection(taken[t].conn)
  /\ taken' = [taken EXCEPT ![t] = Nothing]
  /\ UNCHANGED <<maps, watch, published, on, held, watcher, bound>>

\* channels.CloseAll, which the dispatcher calls after Shutdown.
CloseAll ==
  /\ pc[Shutdown] = "closeAll" /\ Goto(Shutdown, "done")
  /\ client' = [k \in Clients |-> IF client[k] \in {"live", "dead"} THEN "closed" ELSE client[k]]
  /\ UNCHANGED <<maps, watch, conn, on, held, watcher, taken, bound>>

-----------------------------------------------------------------------------
(* The host: a command may exit (the daemon restarts), and the SSH session *)
(* may end, for good, with every channel over it.                          *)

HostDrops(k) ==
  /\ client[k] = "live" /\ client' = [client EXCEPT ![k] = "dead"]
  /\ UNCHANGED <<maps, watch, conn, pc, on, held, watcher, taken, bound>>

HostUnbinds ==
  /\ bound /\ bound' = FALSE
  /\ client' = [k \in Clients |-> IF client[k] = "live" THEN "dead" ELSE client[k]]
  /\ UNCHANGED <<maps, watch, conn, pc, on, held, watcher, taken>>

-----------------------------------------------------------------------------
Dial(t) == OpenExec(t) \/ Negotiate(t) \/ MarkGone(t)
UseControl(t) == ControlTest(t) \/ Dial(t) \/ Install(t)
Watch(o) ==
  \/ FollowLoop(o) \/ Dial(Follow(o)) \/ FollowFailed(o)
  \/ Unlink(o) \/ Cancel(Follow(o)) \/ CloseConn(Follow(o))
RunObserve(o) == UseControl(<<"observe", o>>) \/ EnsureEntry(o) \/ EnsureOnce(o)
RunAct(a) == Resolve(<<"act", a>>) \/ UseControl(<<"act", a>>)
RunShutdown == ShutdownWatchers \/ Cancel(Shutdown) \/ CloseConn(Shutdown) \/ CloseAll

Next ==
  \/ \E o \in Observers : \/ Observe(o) \/ RunObserve(o)
                          \/ Watch(o) \/ FollowReturn(o)
                          \/ Tick(o) \/ UseControl(Refresh(o))
  \/ \E a \in Actors : InvokeAction(a) \/ RunAct(a)
  \/ ShutdownConns \/ RunShutdown
  \/ HostUnbinds \/ \E k \in Clients : HostDrops(k)

Spec == Init /\ [][Next]_vars

\* A goroutine that can run does, calls are answered, a reader of a channel
\* that ended returns, and the ticker ticks. Nobody has to observe, act, shut
\* down or end anything.
StreamEnded(o) == pc[Follow(o)] = "follow" /\ client[held[Follow(o)]] # "live"
Fairness ==
  /\ \A o \in Observers :
       /\ WF_vars(RunObserve(o)) /\ WF_vars(Watch(o))
       /\ WF_vars(StreamEnded(o) /\ FollowReturn(o))
       /\ WF_vars(Tick(o)) /\ WF_vars(UseControl(Refresh(o)))
  /\ \A a \in Actors : WF_vars(RunAct(a))
  /\ WF_vars(RunShutdown)
FairSpec == Spec /\ Fairness

-----------------------------------------------------------------------------
Open(k) == client[k] \in {"live", "dead"}

\* Every daemon connection that is open has an owner who will close it: a
\* Connection that is not closed, or exactly one goroutine that is dialing,
\* following or closing. However Control races with itself, with the end of
\* the session and with Shutdown, no client is left over (Control, "two
\* control clients would mean two daemon connections with no owner").
Owners(k) == Cardinality({n \in Conns : control[n] = k /\ ~closed[n]})
               + Cardinality({t \in Threads : held[t] = k})
NoOrphanClient == \A k \in Clients : Open(k) => Owners(k) = 1

\* Until a shutdown, at most one watcher follows the daemon's events for the
\* session, over any number of observes and of Connections (ensureEventWatcher,
\* "once").
Following(o) == pc[Follow(o)] \in {"loop", "dial", "gone", "negotiate", "follow", "failed"}
OneWatcher == pc[Shutdown] = "idle" => Cardinality({o \in Observers : Following(o)}) <= 1

\* Once the host refuses the session, everything for it comes to an end: the
\* watchers stop, every daemon connection is closed, and no Connection stays
\* in the map, save an empty one that a late action made (forget; "what
\* turned a closed tab into an endless stream of denied channel.open"). A
\* plugin that is shut down meanwhile is left to exit.
Ended ==
  /\ \A o \in Observers : ~Following(o)
  /\ \A k \in Clients : ~Open(k)
  /\ current # 0 => ~published[current] /\ \A o \in Observers : on[<<"observe", o>>] # current
SessionForgotten == ~bound ~> (Ended \/ pc[Shutdown] # "idle")

\* A lost daemon connection does not make the tree stale for good: "A minute
\* of staleness is the worst case rather than the normal one" (events.go,
\* reconcileInterval).
Stale(n) == control[n] # 0 /\ client[control[n]] = "dead" /\ bound
ControlRecovers == \A n \in Conns : Stale(n) ~> ~Stale(n)
=============================================================================
