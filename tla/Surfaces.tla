------------------------------ MODULE Surfaces ------------------------------
(***************************************************************************)
(* usecase/surfaces.go and the part of usecase/service.go that stops a     *)
(* tab: each log or console tab of the host is fed by a stream of its own. *)
(*                                                                         *)
(* Four goroutines meet over a tab: "open" (the action that opens it),     *)
(* "pump" (its output), "user" (the handler of the host's surface.closed)  *)
(* and "shutdown". The stream of a log is an http response body, which     *)
(* has a lock of its own, held by a Read and by a Close while they wait;   *)
(* its Close reads what is left of the response, which for a followed log  *)
(* ends when the channel does. That of a console is the hijacked channel.  *)
(*                                                                         *)
(* Keystrokes and resizes are left out but for the table of inputs.        *)
(***************************************************************************)
EXTENDS Naturals, FiniteSets

CONSTANTS Logs, Consoles,  \* the tabs, each opened once at most
          MaxData,         \* bound: pieces of output waiting, on one stream at a time
          MaxClosed        \* bound: tabs that the user closes

ASSUME TabAssumption == Logs \cap Consoles = {}
ASSUME BoundAssumption == MaxData \in Nat /\ MaxClosed \in Nat

Tabs == Logs \cup Consoles

VARIABLES
  pc,         \* pc[r][t]: where the goroutine in role r of tab t is
  tab,        \* the tab at the host
  ready,      \* tabs the host was told are ready
  stream,     \* the channel behind a tab
  data,       \* pieces of output not read yet
  reading,    \* the holder of a body's lock
  bodyClosed, \* bodies that have been closed
  unlocked,   \* the flag of do's unlock, and the request lock with it
  cancelled,  \* pumpCtx
  surfaces, consoleInput,  \* the Service's tables, by tab
  down,       \* the shutdown request
  fatal       \* the runtime has stopped the program

host == <<tab, ready>>
body == <<reading, bodyClosed, unlocked>>
tables == <<surfaces, consoleInput>>
vars == <<pc, host, stream, data, body, cancelled, tables, down, fatal>>

Roles == {"open", "pump", "user", "shutdown"}
Stoppers == {"user", "shutdown"}
Closing == {"close", "drain", "release", "unlock"}
Stopping == {"cancel", "client"} \cup Closing
Labels == Stopping \cup {"none", "attach", "call", "start", "track", "ready", "register",
                        "loop", "read", "reading", "write", "sent", "wait", "done"}

HoldsBody(r, t) == t \in Logs /\ pc[r][t] \in {"reading", "drain"}

\* Every variable has its type, and the lock of a body is held by the goroutine
\* that reads or drains it (pumpLogs, surface.stop).
TypeOK ==
  /\ pc \in [Roles -> [Tabs -> Labels]]
  /\ tab \in [Tabs -> {"none", "open", "closed"}] /\ ready \subseteq Tabs
  /\ stream \in [Tabs -> {"none", "live", "ended", "closed"}]
  /\ data \in [Tabs -> 0..MaxData] /\ bodyClosed \subseteq Logs /\ unlocked \subseteq Logs
  /\ reading \in [Logs -> Roles \cup {"free"}]
  /\ \A t \in Logs, r \in Roles : reading[t] = r <=> HoldsBody(r, t)
  /\ cancelled \subseteq Tabs /\ surfaces \subseteq Tabs /\ consoleInput \subseteq Consoles
  /\ down \in {"no", "stopping", "done"} /\ fatal \in BOOLEAN

Init ==
  /\ pc = [r \in Roles |-> [t \in Tabs |-> "none"]]
  /\ tab = [t \in Tabs |-> "none"] /\ ready = {}
  /\ stream = [t \in Tabs |-> "none"] /\ data = [t \in Tabs |-> 0]
  /\ reading = [t \in Logs |-> "free"] /\ bodyClosed = {} /\ unlocked = {}
  /\ cancelled = {} /\ surfaces = {} /\ consoleInput = {}
  /\ down = "no" /\ fatal = FALSE

Goto(r, t, label) == pc' = [pc EXCEPT ![r][t] = label]
Live(t) == stream[t] = "live"

-----------------------------------------------------------------------------
(* openLogSurface and openConsoleSurface.                                  *)

\* A channel that has ended or is closed makes nothing of being closed again.
CloseClient(t) == stream' = [stream EXCEPT ![t] = "closed"]

\* Mutant: the client of a tab that could not be opened is left.
Abandon_Leaves(t) == UNCHANGED stream
Abandon(t) == CloseClient(t)

Dial(t) ==
  /\ pc["open"][t] = "none"
  /\ \/ /\ stream' = [stream EXCEPT ![t] = "live"]
        /\ Goto("open", t, IF t \in Logs THEN "call" ELSE "attach")
     \/ Goto("open", t, "done") /\ UNCHANGED stream
  /\ UNCHANGED <<host, data, body, cancelled, tables, down, fatal>>

\* CreateExec, StartExec; for a log, ContainerLogs, which comes after surface.open.
Attach(t) ==
  /\ pc["open"][t] \in {"attach", "start"}
  /\ \/ /\ Live(t) /\ UNCHANGED stream
        /\ Goto("open", t, IF t \in Logs THEN "track" ELSE "call")
     \/ Goto("open", t, "done") /\ Abandon(t)
  /\ UNCHANGED <<host, data, body, cancelled, tables, down, fatal>>

OpenSurface(t) ==
  /\ pc["open"][t] = "call"
  /\ \/ /\ tab[t] # "none" /\ UNCHANGED stream
        /\ Goto("open", t, IF t \in Logs THEN "start" ELSE "track")
     \/ Goto("open", t, "done") /\ Abandon(t)
  /\ UNCHANGED <<host, data, body, cancelled, tables, down, fatal>>

\* Mutant: the tab is not put in the table.
Tracked_Never(t) == UNCHANGED surfaces
Tracked(t) == surfaces' = surfaces \cup {t}

TrackSurface(t) ==
  /\ pc["open"][t] = "track" /\ Tracked(t) /\ Goto("open", t, "ready")
  /\ UNCHANGED <<host, stream, data, body, cancelled, consoleInput, down, fatal>>

\* setSurfaceReady, then the pump.
SetReady(t) ==
  /\ pc["open"][t] = "ready" /\ ready' = ready \cup {t}
  /\ pc' = [pc EXCEPT !["pump"][t] = "loop",
                      !["open"][t] = IF t \in Logs THEN "done" ELSE "register"]
  /\ UNCHANGED <<tab, stream, data, body, cancelled, tables, down, fatal>>

RegisterConsoleInput(t) ==
  /\ pc["open"][t] = "register" /\ Goto("open", t, "done")
  /\ consoleInput' = consoleInput \cup {t}
  /\ UNCHANGED <<host, stream, data, body, cancelled, surfaces, down, fatal>>

-----------------------------------------------------------------------------
(* pumpLogs and pumpConsole.                                               *)

\* The deferred Close of a log's stream; a console's is left to its tab.
Leave(t) == Goto("pump", t, IF t \in Logs THEN "close" ELSE "done")

PumpLoop(t) ==
  /\ pc["pump"][t] = "loop"
  /\ IF t \in cancelled THEN Leave(t)
                         ELSE Goto("pump", t, IF t \in Logs THEN "read" ELSE "reading")
  /\ UNCHANGED <<host, stream, data, body, cancelled, tables, down, fatal>>

Free(t) == reading[t] = "free"
Hold(r, t) == reading' = [l \in Logs |-> IF l = t THEN r ELSE reading[l]]
\* Mutant: an error leaves the lock of the body behind.
Release_Never(t) == UNCHANGED reading
Release(t) == Hold("free", t)

ReadCall(t) ==
  /\ pc["pump"][t] = "read" /\ Free(t)
  /\ IF t \in bodyClosed THEN Leave(t) /\ UNCHANGED reading
                         ELSE Goto("pump", t, "reading") /\ Hold("pump", t)
  /\ UNCHANGED <<host, stream, data, bodyClosed, unlocked, cancelled, tables, down, fatal>>

Consume(t) == data' = [data EXCEPT ![t] = @ - 1]

ReadData(t) ==
  /\ pc["pump"][t] = "reading" /\ data[t] > 0 /\ Consume(t)
  /\ Hold("free", t) /\ Goto("pump", t, "write")
  /\ UNCHANGED <<host, stream, bodyClosed, unlocked, cancelled, tables, down, fatal>>

\* Mutant: the end of the stream is taken for an empty read.
AfterEnd_Loops(t) == Goto("pump", t, "loop")
\* setSurfaceError, of which the host makes what it likes.
AfterEnd(t) == Leave(t)

ReadEnds(t) ==
  /\ pc["pump"][t] = "reading" /\ data[t] = 0 /\ ~Live(t)
  /\ Release(t) /\ AfterEnd(t)
  /\ UNCHANGED <<host, stream, data, bodyClosed, unlocked, cancelled, tables, down, fatal>>

\* The host refuses a tab that is closed, and may be slow with one that is not.
WriteSurface(t) ==
  /\ pc["pump"][t] = "write"
  /\ (tab[t] = "open" /\ Goto("pump", t, "loop")) \/ Leave(t)
  /\ UNCHANGED <<host, stream, data, body, cancelled, tables, down, fatal>>

-----------------------------------------------------------------------------
(* Closing: surface.stop and lockedBody.Close.                             *)

SurfaceClosed(t) ==
  /\ pc["user"][t] = "sent"
  /\ surfaces' = surfaces \ {t} /\ consoleInput' = consoleInput \ {t}
  /\ Goto("user", t, IF t \in surfaces THEN "cancel" ELSE "done")
  /\ UNCHANGED <<host, stream, data, body, cancelled, down, fatal>>

\* Mutant: stop trusts the context, which a Read that waits never looks at.
CloseStream_CancelsOnly(r, t) == Goto(r, t, "done") /\ UNCHANGED stream
\* The closer of a console's stream closes its channel, which is all that the
\* client's Close does too; that of a log's closes the body.
CloseStream(r, t) ==
  IF t \in Logs THEN Goto(r, t, "close") /\ UNCHANGED stream
                ELSE Goto(r, t, "done") /\ CloseClient(t)

Stop(r, t) ==
  /\ pc[r][t] = "cancel" /\ cancelled' = cancelled \cup {t}
  /\ CloseStream(r, t)
  /\ UNCHANGED <<host, data, body, tables, down, fatal>>

CloseBody(r, t) ==
  /\ pc[r][t] = "close" /\ Free(t)
  /\ IF t \in bodyClosed THEN Goto(r, t, "release") /\ UNCHANGED reading
                         ELSE Goto(r, t, "drain") /\ Hold(r, t)
  /\ UNCHANGED <<host, stream, data, bodyClosed, unlocked, cancelled, tables, down, fatal>>

Drain(r, t) ==
  /\ pc[r][t] = "drain" /\ data[t] > 0 /\ Consume(t)
  /\ UNCHANGED <<pc, host, stream, body, cancelled, tables, down, fatal>>

Drained(r, t) ==
  /\ pc[r][t] = "drain" /\ data[t] = 0 /\ ~Live(t)
  /\ bodyClosed' = bodyClosed \cup {t} /\ Release(t) /\ Goto(r, t, "release")
  /\ UNCHANGED <<host, stream, data, unlocked, cancelled, tables, down, fatal>>

AfterClose(r, t) == Goto(r, t, IF r = "pump" THEN "done" ELSE "client")

\* The flag is read and set without a lock: two that both find it unset both
\* unlock, and the second one's Unlock is fatal.
TestUnlocked(r, t) ==
  /\ pc[r][t] = "release"
  /\ IF t \in unlocked THEN AfterClose(r, t) ELSE Goto(r, t, "unlock")
  /\ UNCHANGED <<host, stream, data, body, cancelled, tables, down, fatal>>

Unlock(r, t) ==
  /\ pc[r][t] = "unlock" /\ AfterClose(r, t)
  /\ unlocked' = unlocked \cup {t} /\ fatal' = (t \in unlocked)
  /\ UNCHANGED <<host, stream, data, reading, bodyClosed, cancelled, tables, down>>

StopClient(r, t) ==
  /\ pc[r][t] = "client" /\ CloseClient(t) /\ Goto(r, t, "done")
  /\ UNCHANGED <<host, data, body, cancelled, tables, down, fatal>>

-----------------------------------------------------------------------------
(* Service.Shutdown stops the tabs one after the other, in any order, and  *)
(* CloseAll follows it.                                                    *)

Shutdown ==
  /\ down = "no" /\ down' = "stopping" /\ surfaces' = {}
  /\ pc' = [pc EXCEPT !["shutdown"] = [t \in Tabs |-> IF t \in surfaces THEN "wait" ELSE "none"]]
  /\ UNCHANGED <<host, stream, data, body, cancelled, consoleInput, fatal>>

ShutdownNext(t) ==
  /\ pc["shutdown"][t] = "wait" /\ \A u \in Tabs : pc["shutdown"][u] \notin Stopping
  /\ Goto("shutdown", t, "cancel")
  /\ UNCHANGED <<host, stream, data, body, cancelled, tables, down, fatal>>

CloseAll ==
  /\ down = "stopping" /\ \A t \in Tabs : pc["shutdown"][t] \in {"none", "done"}
  /\ down' = "done"
  /\ stream' = [t \in Tabs |-> IF Live(t) THEN "closed" ELSE stream[t]]
  /\ UNCHANGED <<pc, host, data, body, cancelled, tables, fatal>>

-----------------------------------------------------------------------------
(* The host, its user and the container.                                   *)

HostOpens(t) ==
  /\ pc["open"][t] = "call" /\ tab[t] = "none" /\ tab' = [tab EXCEPT ![t] = "open"]
  /\ UNCHANGED <<pc, ready, stream, data, body, cancelled, tables, down, fatal>>

HostCloses(t) ==
  /\ tab[t] = "open" /\ Cardinality({u \in Tabs : tab[u] = "closed"}) < MaxClosed
  /\ tab' = [tab EXCEPT ![t] = "closed"] /\ Goto("user", t, "sent")
  /\ UNCHANGED <<ready, stream, data, body, cancelled, tables, down, fatal>>

Output(t) ==
  /\ Live(t) /\ data[t] < MaxData /\ \A u \in Tabs \ {t} : data[u] = 0
  /\ pc["open"][t] \notin {"none", "attach", "start"} /\ (t \in Logs => pc["open"][t] # "call")
  /\ data' = [data EXCEPT ![t] = @ + 1]
  /\ UNCHANGED <<pc, host, stream, body, cancelled, tables, down, fatal>>

ContainerEnds(t) ==
  /\ Live(t) /\ stream' = [stream EXCEPT ![t] = "ended"]
  /\ UNCHANGED <<pc, host, data, body, cancelled, tables, down, fatal>>

-----------------------------------------------------------------------------
Open(t) ==
  \/ Attach(t) \/ OpenSurface(t) \/ TrackSurface(t) \/ SetReady(t) \/ RegisterConsoleInput(t)

CloseSteps(r, t) ==
  CloseBody(r, t) \/ Drain(r, t) \/ Drained(r, t) \/ TestUnlocked(r, t) \/ Unlock(r, t)

Pump(t) ==
  \/ PumpLoop(t) \/ ReadCall(t) \/ ReadData(t) \/ ReadEnds(t) \/ WriteSurface(t)
  \/ CloseSteps("pump", t)

StopSteps(r, t) == Stop(r, t) \/ CloseSteps(r, t) \/ StopClient(r, t)

Environment(t) == HostOpens(t) \/ HostCloses(t) \/ Output(t) \/ ContainerEnds(t)

Next ==
  /\ ~fatal
  /\ \/ \E t \in Tabs : \/ Dial(t) \/ Open(t) \/ Pump(t) \/ SurfaceClosed(t) \/ ShutdownNext(t)
                        \/ \E r \in Stoppers : StopSteps(r, t)
                        \/ Environment(t)
     \/ Shutdown \/ CloseAll

Spec == Init /\ [][Next]_vars

\* Every goroutine that can run does; a call to the host ends by its answer or
\* its timeout. The lock of a body needs no more: a pump that is cancelled reads
\* once more at most. Nobody has to close a tab, no
\* container has to end, and nothing has to be output.
Fairness ==
  /\ \A t \in Tabs :
       /\ WF_vars(~fatal /\ Open(t)) /\ WF_vars(~fatal /\ Pump(t))
       /\ WF_vars(~fatal /\ SurfaceClosed(t)) /\ WF_vars(~fatal /\ ShutdownNext(t))
       /\ \A r \in Stoppers : WF_vars(~fatal /\ StopSteps(r, t))
  /\ WF_vars(~fatal /\ CloseAll)
FairSpec == Spec /\ Fairness

-----------------------------------------------------------------------------
\* A stream that was opened for a tab has somebody who will close it: the
\* action that opens the tab, the table, or who took it from the table
\* (Service.surfaces; Shutdown, "closes every stream the plugin holds").
NoOrphanStream ==
  \A t \in Tabs : Live(t) =>
    \/ pc["open"][t] \in {"attach", "call", "start", "track"}
    \/ t \in surfaces
    \/ \E r \in Stoppers : pc[r][t] \in {"wait"} \cup Stopping

\* From the moment the host is told that a tab is ready, its close finds the
\* work behind it, whatever else goes on (trackSurface before setSurfaceReady).
\* And every variable has its type.
ReadyIsTracked ==
  TypeOK /\ \A t \in ready : pc["user"][t] \in {"none", "sent"} /\ down = "no" => t \in surfaces

\* Once the container has ended, or the stream has been closed under them, the
\* pump and whoever closes the tab come to an end: the pump's deferred Close
\* and stop's closer meet at the body's lock, and neither keeps the other.
WorkEnds ==
  \A t \in Tabs :
    stream[t] \in {"ended", "closed"}
      ~> ((\A r \in {"pump", "user"} : pc[r][t] \in {"none", "done"}) \/ fatal)

\* A console whose tab was ready when the user closed it is closed, however
\* silent its shell is, if no shutdown is stopping the tabs.
ConsoleTabStops ==
  \A t \in Consoles :
    (pc["user"][t] = "sent" /\ t \in ready) ~> (~Live(t) \/ down # "no" \/ fatal)

\* The same of a log (Service.surfaces, "closing a tab closes the stream
\* rather than leaving a log pump reading into nothing").
LogTabStops ==
  \A t \in Logs :
    (pc["user"][t] = "sent" /\ t \in ready) ~> (~Live(t) \/ down # "no" \/ fatal)
=============================================================================
