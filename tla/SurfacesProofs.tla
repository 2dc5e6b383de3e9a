--------------------------- MODULE SurfacesProofs ---------------------------
(***************************************************************************)
(* Theorems about Surfaces, for any number of tabs.                        *)
(***************************************************************************)
EXTENDS Surfaces, TLAPS

\* No goroutine of a tab has run before it was started: the handler of
\* surface.closed, the stop by Shutdown, and the pump.
NotYet ==
  \A t \in Tabs :
    /\ tab[t] # "closed" => pc["user"][t] = "none"
    /\ down = "no" => pc["shutdown"][t] = "none"
    /\ pc["open"][t] \in {"none", "attach", "call", "start", "track", "ready"} => pc["pump"][t] = "none"

\* A log has a body to read and to close, a console has an input.
OfItsKind ==
  \A t \in Tabs :
    /\ \A r \in Roles : pc[r][t] \in Closing \cup {"read"} => t \in Logs
    /\ pc["open"][t] = "register" => t \in Consoles

\* A tab that is about to be ready is in the table, unless it was taken out.
Tracks ==
  \A t \in Tabs : pc["open"][t] = "ready" /\ pc["user"][t] \in {"none", "sent"} /\ down = "no"
                    => t \in surfaces

TInv == ReadyIsTracked /\ NoOrphanStream /\ NotYet /\ OfItsKind /\ Tracks

-----------------------------------------------------------------------------
LEMMA TInit == Init => TInv
<1> SUFFICES ASSUME Init PROVE TInv
  OBVIOUS
<1>1. TypeOK
  <2>1. pc \in [Roles -> [Tabs -> Labels]]
    BY DEF Init, Labels
  <2>2. \A t \in Logs, r \in Roles : reading[t] = r <=> HoldsBody(r, t)
    BY DEF Init, Roles, HoldsBody, Tabs
  <2>3. data \in [Tabs -> 0..MaxData]
    BY BoundAssumption DEF Init
  <2> QED BY <2>1, <2>2, <2>3 DEF Init, TypeOK
<1>2. ReadyIsTracked /\ NoOrphanStream
  BY <1>1 DEF Init, ReadyIsTracked, NoOrphanStream, Live
<1>3. NotYet /\ OfItsKind /\ Tracks
  BY DEF Init, NotYet, OfItsKind, Tracks, Closing, Roles
<1> QED BY <1>2, <1>3 DEF TInv

-----------------------------------------------------------------------------
(* One goroutine of one tab moves on.                                      *)

Early == {"none", "attach", "call", "start", "track", "ready"}
Opening == {"attach", "call", "start", "track"}
Held == {"wait"} \cup Stopping

LEMMA GotoFacts ==
  ASSUME TypeOK, NEW r \in Roles, NEW t \in Tabs, NEW l \in Labels, Goto(r, t, l)
  PROVE  /\ pc' \in [Roles -> [Tabs -> Labels]] /\ pc'[r][t] = l
         /\ \A q \in Roles, u \in Tabs : q # r \/ u # t => pc'[q][u] = pc[q][u]
BY DEF TypeOK, Goto

\* The parts of the invariant that a move keeps, whatever else it changes.
LEMMA Advances ==
  ASSUME TInv, NEW r \in Roles, NEW t \in Tabs, NEW l \in Labels, Goto(r, t, l),
         r = "user" => tab'[t] = "closed",
         r = "user" /\ l \in {"none", "sent"} => pc["user"][t] \in {"none", "sent"},
         r = "shutdown" => down # "no",
         r = "pump" => pc["open"][t] \notin Early,
         r = "open" /\ l \in Early => pc["open"][t] \in Early,
         r = "open" /\ l = "ready" => t \in surfaces',
         r = "open" /\ l = "register" => t \in Consoles,
         l \in Closing \cup {"read"} => t \in Logs,
         \A u \in Tabs : tab'[u] # "closed" => tab[u] # "closed",
         \A u \in Tabs : Live(u)' => Live(u) \/ (u = t /\ r = "open" /\ l \in Opening),
         Live(t)' /\ r = "open" => l \in Opening \/ t \in surfaces' \/ pc["open"][t] \notin Opening,
         Live(t)' /\ r \in Stoppers => l \in Held \/ pc[r][t] \notin Held,
         surfaces \subseteq surfaces',
         UNCHANGED <<ready, down>>
  PROVE  /\ NotYet' /\ OfItsKind' /\ Tracks' /\ NoOrphanStream'
         /\ \A u \in ready' : pc'["user"][u] \in {"none", "sent"} /\ down' = "no" => u \in surfaces'
<1>1. /\ pc' \in [Roles -> [Tabs -> Labels]] /\ pc'[r][t] = l
      /\ \A q \in Roles, u \in Tabs : q # r \/ u # t => pc'[q][u] = pc[q][u]
  BY GotoFacts DEF TInv, ReadyIsTracked
<1>2. {"open", "pump", "user", "shutdown"} = Roles /\ Stoppers = {"user", "shutdown"}
  BY DEF Roles, Stoppers
<1>3. NotYet'
  BY <1>1, <1>2 DEF TInv, NotYet, Early
<1>4. OfItsKind'
  BY <1>1, <1>2 DEF TInv, OfItsKind
<1>5. Tracks'
  BY <1>1, <1>2 DEF TInv, Tracks
<1>6. \A u \in ready : pc'["user"][u] \in {"none", "sent"} /\ down' = "no" => u \in surfaces'
  <2>1. ready \subseteq Tabs
    BY DEF TInv, ReadyIsTracked, TypeOK
  <2> QED BY <1>1, <1>2, <2>1 DEF TInv, ReadyIsTracked
<1>7. NoOrphanStream'
  <2> SUFFICES ASSUME NEW u \in Tabs, Live(u)'
               PROVE  \/ pc'["open"][u] \in Opening
                      \/ u \in surfaces'
                      \/ \E q \in Stoppers : pc'[q][u] \in Held
    BY DEF NoOrphanStream, Opening, Held
  <2>1. CASE u = t /\ r = "open" /\ l \in Opening
    BY <1>1, <2>1
  <2>2. CASE Live(u)
    <3>1. \/ pc["open"][u] \in Opening
          \/ u \in surfaces
          \/ \E q \in Stoppers : pc[q][u] \in Held
      BY <2>2 DEF TInv, NoOrphanStream, Opening, Held
    <3>2. CASE pc["open"][u] \in Opening
      BY <1>1, <1>2, <3>2
    <3>3. ASSUME NEW q \in Stoppers, pc[q][u] \in Held
          PROVE  pc'[q][u] \in Held
      BY <1>1, <1>2, <3>3
    <3> QED BY <3>1, <3>2, <3>3
  <2> QED BY <2>1, <2>2
<1> QED BY <1>3, <1>4, <1>5, <1>6, <1>7

\* A move that does not touch the body's lock.
LEMMA LockSame ==
  ASSUME TypeOK, NEW r \in Roles, NEW t \in Tabs, NEW l \in Labels, Goto(r, t, l), UNCHANGED reading,
         t \in Logs => pc[r][t] \notin {"reading", "drain"} /\ l \notin {"reading", "drain"}
  PROVE  \A u \in Logs, q \in Roles : reading'[u] = q <=> HoldsBody(q, u)'
<1>1. /\ pc'[r][t] = l
      /\ \A q \in Roles, u \in Tabs : q # r \/ u # t => pc'[q][u] = pc[q][u]
  BY GotoFacts
<1>2. \A u \in Logs, q \in Roles : HoldsBody(q, u)' <=> HoldsBody(q, u)
  BY <1>1 DEF HoldsBody, Tabs
<1> QED BY <1>2 DEF TypeOK

\* A goroutine takes the lock of a body that was free.
LEMMA LockTaken ==
  ASSUME TypeOK, NEW r \in Roles, NEW t \in Logs, NEW l \in {"reading", "drain"}, Goto(r, t, l),
         Free(t), Hold(r, t)
  PROVE  /\ reading' \in [Logs -> Roles \cup {"free"}]
         /\ \A u \in Logs, q \in Roles : reading'[u] = q <=> HoldsBody(q, u)'
<1>0. l \in Labels /\ t \in Tabs /\ "free" \notin Roles
  BY DEF Labels, Stopping, Closing, Tabs, Roles
<1>1. /\ pc'[r][t] = l
      /\ \A q \in Roles, u \in Tabs : q # r \/ u # t => pc'[q][u] = pc[q][u]
  BY <1>0, GotoFacts
<1>2. /\ reading' \in [Logs -> Roles \cup {"free"}] /\ reading'[t] = r
      /\ \A u \in Logs \ {t} : reading'[u] = reading[u]
  BY DEF TypeOK, Hold
<1>3. \A q \in Roles : ~HoldsBody(q, t)
  BY <1>0 DEF TypeOK, Free
<1>4. \A u \in Logs, q \in Roles : HoldsBody(q, u)' <=> (HoldsBody(q, u) \/ (u = t /\ q = r))
  BY <1>0, <1>1 DEF HoldsBody, Tabs
<1> QED BY <1>2, <1>3, <1>4 DEF TypeOK

\* The goroutine that holds it, or any of a console, lets it go.
LEMMA LockReleased ==
  ASSUME TypeOK, NEW r \in Roles, NEW t \in Tabs, NEW l \in Labels \ {"reading", "drain"}, Goto(r, t, l),
         pc[r][t] \in {"reading", "drain"}, Hold("free", t)
  PROVE  /\ reading' \in [Logs -> Roles \cup {"free"}]
         /\ \A u \in Logs, q \in Roles : reading'[u] = q <=> HoldsBody(q, u)'
<1>0. "free" \notin Roles /\ Logs \subseteq Tabs
  BY DEF Roles, Tabs
<1>1. /\ pc'[r][t] = l
      /\ \A q \in Roles, u \in Tabs : q # r \/ u # t => pc'[q][u] = pc[q][u]
  BY GotoFacts
<1>2. /\ reading' \in [Logs -> Roles \cup {"free"}]
      /\ \A u \in Logs : reading'[u] = IF u = t THEN "free" ELSE reading[u]
  BY DEF TypeOK, Hold
<1>3. t \in Logs => reading[t] = r
  BY DEF TypeOK, HoldsBody
<1>4. \A u \in Logs, q \in Roles : HoldsBody(q, u)' <=> (HoldsBody(q, u) /\ ~(u = t /\ q = r))
  BY <1>0, <1>1 DEF HoldsBody
<1>5. \A u \in Logs, q \in Roles : reading[u] = q <=> HoldsBody(q, u)
  BY DEF TypeOK
<1> QED BY <1>0, <1>2, <1>3, <1>4, <1>5

\* A step that moves nobody.
LEMMA Quiet ==
  ASSUME TInv, UNCHANGED <<pc, ready, surfaces>>,
         down' = "no" => down = "no",
         \A u \in Tabs : tab'[u] # "closed" => tab[u] # "closed",
         \A u \in Tabs : Live(u)' => Live(u)
  PROVE  /\ NotYet' /\ OfItsKind' /\ Tracks' /\ NoOrphanStream'
         /\ \A u \in ready' : pc'["user"][u] \in {"none", "sent"} /\ down' = "no" => u \in surfaces'
BY DEF TInv, NotYet, OfItsKind, Tracks, NoOrphanStream, ReadyIsTracked

\* Ready tabs and types are one property.
LEMMA Assembled ==
  ASSUME TypeOK', NotYet', OfItsKind', Tracks', NoOrphanStream',
         \A u \in ready' : pc'["user"][u] \in {"none", "sent"} /\ down' = "no" => u \in surfaces'
  PROVE  TInv'
BY DEF TInv, ReadyIsTracked

-----------------------------------------------------------------------------
(* Opening a tab.                                                          *)

LEMMA StreamFacts ==
  ASSUME TypeOK, NEW t \in Tabs, NEW s \in {"live", "ended", "closed"}, stream' = [stream EXCEPT ![t] = s]
  PROVE  /\ stream' \in [Tabs -> {"none", "live", "ended", "closed"}] /\ stream'[t] = s
         /\ \A u \in Tabs \ {t} : stream'[u] = stream[u]
BY DEF TypeOK

\* The action that opens a tab takes a step: it goes on with its stream, or
\* closes it.
LEMMA OpenStep ==
  ASSUME TInv, NEW t \in Tabs, NEW l \in {"attach", "call", "start", "track", "ready", "register", "done"},
         Goto("open", t, l),
         l \in Early => pc["open"][t] \in Early,
         l = "ready" => t \in surfaces', l = "register" => t \in Consoles,
         pc["open"][t] \notin {"reading", "drain"},
         stream' \in [Tabs -> {"none", "live", "ended", "closed"}],
         \A u \in Tabs \ {t} : stream'[u] = stream[u],
         stream'[t] = "live" => stream[t] = "live" \/ l \in Opening,
         stream'[t] = "live" => l \in Opening \/ t \in surfaces' \/ pc["open"][t] \notin Opening,
         surfaces' \in {surfaces, surfaces \cup {t}}, consoleInput' \subseteq Consoles,
         UNCHANGED <<host, data, body, cancelled, down, fatal>>
  PROVE  TInv'
<1>0. TypeOK /\ l \in Labels \ {"reading", "drain", "read"} /\ l \notin Closing /\ "open" \in Roles \ Stoppers
  BY DEF TInv, ReadyIsTracked, Labels, Closing, Stopping, Roles, Stoppers
<1>1. \A u \in Tabs : Live(u)' => Live(u) \/ (u = t /\ l \in Opening)
  BY DEF Live
<1>2. surfaces \subseteq surfaces' /\ surfaces' \subseteq Tabs
  BY <1>0 DEF TypeOK
<1>3. /\ NotYet' /\ OfItsKind' /\ Tracks' /\ NoOrphanStream'
      /\ \A u \in ready' : pc'["user"][u] \in {"none", "sent"} /\ down' = "no" => u \in surfaces'
  <2>1. Live(t)' => l \in Opening \/ t \in surfaces' \/ pc["open"][t] \notin Opening
    BY DEF Live
  <2>2. UNCHANGED <<tab, ready, down>>
    BY DEF host
  <2> QED BY <1>0, <1>1, <1>2, <2>1, <2>2, Advances
<1>4. pc' \in [Roles -> [Tabs -> Labels]]
  BY <1>0, GotoFacts
<1>5. \A u \in Logs, q \in Roles : reading'[u] = q <=> HoldsBody(q, u)'
  BY <1>0, LockSame DEF body
<1>6. TypeOK'
  BY <1>0, <1>2, <1>4, <1>5 DEF TypeOK, host, body
<1> QED BY <1>3, <1>6, Assembled

LEMMA StepDial == ASSUME TInv, NEW t \in Tabs, Dial(t) PROVE TInv'
<1>0. /\ TypeOK /\ pc["open"][t] = "none"
      /\ UNCHANGED <<host, data, body, cancelled, tables, down, fatal>>
  BY DEF TInv, ReadyIsTracked, Dial
<1>1. consoleInput' \subseteq Consoles /\ surfaces' = surfaces
  BY <1>0 DEF TypeOK, tables
<1>2. CASE stream' = [stream EXCEPT ![t] = "live"] /\ (Goto("open", t, "call") \/ Goto("open", t, "attach"))
  <2>1. /\ stream' \in [Tabs -> {"none", "live", "ended", "closed"}]
        /\ \A u \in Tabs \ {t} : stream'[u] = stream[u]
    BY <1>0, <1>2, StreamFacts
  <2> QED BY <1>0, <1>1, <1>2, <2>1, OpenStep DEF Early, Opening
<1>3. CASE Goto("open", t, "done") /\ UNCHANGED stream
  <2>1. stream' \in [Tabs -> {"none", "live", "ended", "closed"}]
    BY <1>0, <1>3 DEF TypeOK
  <2> QED BY <1>0, <1>1, <1>3, <2>1, OpenStep DEF Early, Opening
<1> QED BY <1>2, <1>3 DEF Dial

\* Attach and OpenSurface: the stream as it is, or closed.
LEMMA GoesOnOrAbandons ==
  ASSUME TInv, NEW t \in Tabs, pc["open"][t] \in Opening, NEW l \in Opening,
         \/ Goto("open", t, l) /\ UNCHANGED stream
         \/ Goto("open", t, "done") /\ Abandon(t),
         UNCHANGED <<host, data, body, cancelled, tables, down, fatal>>
  PROVE  TInv'
<1>0. /\ TypeOK /\ consoleInput' \subseteq Consoles /\ surfaces' = surfaces
      /\ pc["open"][t] \notin {"reading", "drain"} /\ pc["open"][t] \in Early
      /\ l \in {"attach", "call", "start", "track", "ready", "register", "done"}
      /\ l # "ready" /\ l # "register"
  BY DEF TInv, ReadyIsTracked, TypeOK, tables, Opening, Early
<1>1. CASE Goto("open", t, l) /\ UNCHANGED stream
  <2>1. stream' \in [Tabs -> {"none", "live", "ended", "closed"}]
    BY <1>0, <1>1 DEF TypeOK
  <2> QED BY <1>0, <1>1, <2>1, OpenStep
<1>2. CASE Goto("open", t, "done") /\ Abandon(t)
  <2>1. /\ stream' \in [Tabs -> {"none", "live", "ended", "closed"}] /\ stream'[t] = "closed"
        /\ \A u \in Tabs \ {t} : stream'[u] = stream[u]
    BY <1>0, <1>2, StreamFacts DEF Abandon, CloseClient
  <2>2. "done" \notin Early
    BY DEF Early
  <2> QED BY <1>0, <1>2, <2>1, <2>2, OpenStep
<1> QED BY <1>1, <1>2

LEMMA StepAttach == ASSUME TInv, NEW t \in Tabs, Attach(t) PROVE TInv'
<1>1. PICK l \in Opening : \/ Goto("open", t, l) /\ UNCHANGED stream
                           \/ Goto("open", t, "done") /\ Abandon(t)
  BY DEF Attach, Opening
<1> QED BY <1>1, GoesOnOrAbandons DEF Attach, Opening

LEMMA StepOpenSurface == ASSUME TInv, NEW t \in Tabs, OpenSurface(t) PROVE TInv'
<1>1. PICK l \in Opening : \/ Goto("open", t, l) /\ UNCHANGED stream
                           \/ Goto("open", t, "done") /\ Abandon(t)
  BY DEF OpenSurface, Opening
<1> QED BY <1>1, GoesOnOrAbandons DEF OpenSurface, Opening

LEMMA StepTrackSurface == ASSUME TInv, NEW t \in Tabs, TrackSurface(t) PROVE TInv'
<1>1. /\ pc["open"][t] = "track" /\ surfaces' = surfaces \cup {t} /\ Goto("open", t, "ready")
      /\ UNCHANGED <<host, stream, data, body, cancelled, consoleInput, down, fatal>>
      /\ stream \in [Tabs -> {"none", "live", "ended", "closed"}] /\ consoleInput \subseteq Consoles
  BY DEF TrackSurface, Tracked, TInv, ReadyIsTracked, TypeOK
<1> QED BY <1>1, OpenStep DEF Early, Opening

LEMMA StepRegister == ASSUME TInv, NEW t \in Tabs, RegisterConsoleInput(t) PROVE TInv'
<1>1. /\ pc["open"][t] = "register" /\ Goto("open", t, "done") /\ surfaces' = surfaces
      /\ consoleInput' = consoleInput \cup {t} /\ t \in Consoles
      /\ UNCHANGED <<host, stream, data, body, cancelled, down, fatal>>
      /\ stream \in [Tabs -> {"none", "live", "ended", "closed"}] /\ consoleInput \subseteq Consoles
  BY DEF RegisterConsoleInput, TInv, ReadyIsTracked, TypeOK, OfItsKind
<1> QED BY <1>1, OpenStep DEF Early, Opening

LEMMA StepSetReady == ASSUME TInv, NEW t \in Tabs, SetReady(t) PROVE TInv'
<1>0. TypeOK /\ "open" \in Roles /\ "pump" \in Roles /\ "user" \in Roles /\ "shutdown" \in Roles
  BY DEF TInv, ReadyIsTracked, Roles
<1>1. PICK l \in {"done", "register"} :
        /\ l = "register" => t \in Consoles
        /\ pc' = [pc EXCEPT !["pump"][t] = "loop", !["open"][t] = l]
  BY DEF SetReady, Tabs
<1>2. /\ pc["open"][t] = "ready" /\ pc["pump"][t] = "none" /\ ready' = ready \cup {t}
      /\ UNCHANGED <<tab, stream, data, body, cancelled, tables, down, fatal>>
  BY DEF SetReady, TInv, NotYet
<1>3. /\ pc' \in [Roles -> [Tabs -> Labels]] /\ pc'["open"][t] = l /\ pc'["pump"][t] = "loop"
      /\ \A q \in Roles, u \in Tabs : u # t \/ q \notin {"open", "pump"} => pc'[q][u] = pc[q][u]
  <2>1. l \in Labels /\ "loop" \in Labels
    BY DEF Labels
  <2> QED BY <1>0, <1>1, <2>1 DEF TypeOK
<1>4. \A u \in Logs, q \in Roles : HoldsBody(q, u)' <=> HoldsBody(q, u)
  BY <1>2, <1>3 DEF HoldsBody, Tabs
<1>5. TypeOK'
  BY <1>0, <1>2, <1>3, <1>4 DEF TypeOK, body, tables
<1>6. NotYet'
  BY <1>0, <1>2, <1>3 DEF TInv, NotYet
<1>7. OfItsKind'
  BY <1>0, <1>1, <1>2, <1>3 DEF TInv, OfItsKind, Closing
<1>8. Tracks'
  BY <1>0, <1>2, <1>3 DEF TInv, Tracks, tables
<1>9. \A u \in ready' : pc'["user"][u] \in {"none", "sent"} /\ down' = "no" => u \in surfaces'
  <2>1. ready \subseteq Tabs
    BY <1>0 DEF TypeOK
  <2> QED BY <1>0, <1>2, <1>3, <2>1 DEF TInv, ReadyIsTracked, Tracks, tables
<1>10. NoOrphanStream'
  <2>1. Stoppers = {"user", "shutdown"}
    BY DEF Stoppers
  <2> QED BY <1>0, <1>2, <1>3, <2>1 DEF TInv, NoOrphanStream, Live, tables
<1> QED BY <1>5, <1>6, <1>7, <1>8, <1>9, <1>10, Assembled

-----------------------------------------------------------------------------
(* The pump and the stoppers.                                              *)

\* One of them takes a step; a stopper is done when the stream is closed.
LEMMA WorkStep ==
  ASSUME TInv, NEW r \in Roles \ {"open"}, NEW t \in Tabs, NEW l \in Labels \ {"none", "sent"},
         pc[r][t] # "none", Goto(r, t, l),
         l \in Closing \cup {"read"} => t \in Logs,
         r \in Stoppers /\ pc[r][t] \in Held => l \in Held \/ stream'[t] # "live",
         stream' \in [Tabs -> {"none", "live", "ended", "closed"}],
         \A u \in Tabs : stream'[u] = "live" => stream[u] = "live",
         data' \in [Tabs -> 0..MaxData], reading' \in [Logs -> Roles \cup {"free"}],
         \A u \in Logs, q \in Roles : reading'[u] = q <=> HoldsBody(q, u)',
         bodyClosed' \subseteq Logs, unlocked' \subseteq Logs, cancelled' \subseteq Tabs,
         fatal' \in BOOLEAN, UNCHANGED <<host, tables, down>>
  PROVE  TInv'
<1>0. TypeOK
  BY DEF TInv, ReadyIsTracked
<1>1. UNCHANGED <<tab, ready, surfaces, consoleInput, down>>
  BY DEF host, tables
<1>2. pc' \in [Roles -> [Tabs -> Labels]]
  BY <1>0, GotoFacts
<1>3. TypeOK'
  BY <1>0, <1>1, <1>2 DEF TypeOK
<1>4. /\ r = "user" => tab[t] = "closed"
      /\ r = "shutdown" => down # "no"
      /\ r = "pump" => pc["open"][t] \notin Early
  BY DEF TInv, NotYet, Early
<1>5. \A u \in Tabs : Live(u)' => Live(u)
  BY DEF Live
<1>6. Live(t)' /\ r \in Stoppers => l \in Held \/ pc[r][t] \notin Held
  BY DEF Live
<1>7. /\ NotYet' /\ OfItsKind' /\ Tracks' /\ NoOrphanStream'
      /\ \A u \in ready' : pc'["user"][u] \in {"none", "sent"} /\ down' = "no" => u \in surfaces'
  BY <1>1, <1>4, <1>5, <1>6, Advances
<1> QED BY <1>3, <1>7, Assembled

\* A step that only moves one of them.
LEMMA JustWorks ==
  ASSUME TInv, NEW r \in Roles \ {"open"}, NEW t \in Tabs, NEW l \in Labels \ {"none", "sent", "reading", "drain"},
         pc[r][t] \notin {"none", "reading", "drain"}, Goto(r, t, l),
         l \in Closing \cup {"read"} => t \in Logs,
         r \in Stoppers /\ pc[r][t] \in Held => l \in Held,
         unlocked' \subseteq Logs, cancelled' \subseteq Tabs, fatal' \in BOOLEAN,
         UNCHANGED <<host, stream, data, reading, bodyClosed, tables, down>>
  PROVE  TInv'
<1>0. TypeOK
  BY DEF TInv, ReadyIsTracked
<1>1. \A u \in Logs, q \in Roles : reading'[u] = q <=> HoldsBody(q, u)'
  BY <1>0, LockSame
<1>2. /\ data' \in [Tabs -> 0..MaxData] /\ reading' \in [Logs -> Roles \cup {"free"}]
      /\ stream' \in [Tabs -> {"none", "live", "ended", "closed"}] /\ bodyClosed' \subseteq Logs
  BY <1>0 DEF TypeOK
<1> QED BY <1>1, <1>2, WorkStep

LEMMA LeaveFacts ==
  ASSUME NEW t \in Tabs, Leave(t)
  PROVE  \E l \in {"close", "done"} : Goto("pump", t, l) /\ (l = "close" => t \in Logs)
BY DEF Leave

LEMMA LabelFacts ==
  /\ {"close", "done", "read", "reading", "write", "loop", "release", "unlock", "client", "drain", "cancel"}
       \subseteq Labels \ {"none", "sent"}
  /\ "pump" \in Roles \ {"open"} /\ "pump" \notin Stoppers /\ Stoppers \subseteq Roles \ {"open"}
  /\ {"done", "reading", "write", "loop", "client", "cancel"} \cap (Closing \cup {"read"}) = {}
  /\ {"cancel", "client", "close", "drain", "release", "unlock", "wait"} = Held
BY DEF Labels, Stopping, Closing, Roles, Stoppers, Held

LEMMA StepPumpLoop == ASSUME TInv, NEW t \in Tabs, PumpLoop(t) PROVE TInv'
<1>1. /\ pc["pump"][t] = "loop"
      /\ UNCHANGED <<host, stream, data, reading, bodyClosed, unlocked, cancelled, tables, down, fatal>>
      /\ unlocked \subseteq Logs /\ cancelled \subseteq Tabs /\ fatal \in BOOLEAN
  BY DEF PumpLoop, body, TInv, ReadyIsTracked, TypeOK
<1>2. \/ \E l \in {"close", "done", "read"} : Goto("pump", t, l) /\ (l \in {"close", "read"} => t \in Logs)
      \/ Goto("pump", t, "reading") /\ t \notin Logs
  BY LeaveFacts DEF PumpLoop
<1>3. ASSUME NEW l \in {"close", "done", "read"}, Goto("pump", t, l), l \in {"close", "read"} => t \in Logs
      PROVE  TInv'
  <2>1. l \in Closing \cup {"read"} => t \in Logs
    BY <1>3 DEF Closing
  <2>2. l \in Labels \ {"none", "sent", "reading", "drain"}
    BY LabelFacts
  <2> QED BY <1>1, <1>3, <2>1, <2>2, JustWorks, LabelFacts
<1>4. CASE Goto("pump", t, "reading") /\ t \notin Logs
  <2>0. TypeOK
    BY DEF TInv, ReadyIsTracked
  <2>1. \A u \in Logs, q \in Roles : reading'[u] = q <=> HoldsBody(q, u)'
    BY <1>1, <1>4, <2>0, LockSame, LabelFacts
  <2>2. /\ data' \in [Tabs -> 0..MaxData] /\ reading' \in [Logs -> Roles \cup {"free"}]
        /\ stream' \in [Tabs -> {"none", "live", "ended", "closed"}] /\ bodyClosed' \subseteq Logs
    BY <1>1, <2>0 DEF TypeOK
  <2> QED BY <1>1, <1>4, <2>1, <2>2, WorkStep, LabelFacts
<1> QED BY <1>2, <1>3, <1>4

\* The pump or a stopper takes the body's lock.
LEMMA Locks ==
  ASSUME TInv, NEW r \in Roles \ {"open"}, NEW t \in Logs, NEW l \in {"reading", "drain"},
         pc[r][t] # "none", Goto(r, t, l), Free(t), Hold(r, t),
         r \in Stoppers => l = "drain",
         UNCHANGED <<host, stream, data, bodyClosed, unlocked, cancelled, tables, down, fatal>>
  PROVE  TInv'
<1>0. TypeOK /\ t \in Tabs
  BY DEF TInv, ReadyIsTracked, Tabs
<1>1. /\ reading' \in [Logs -> Roles \cup {"free"}]
      /\ \A u \in Logs, q \in Roles : reading'[u] = q <=> HoldsBody(q, u)'
  BY <1>0, LockTaken
<1>2. /\ data' \in [Tabs -> 0..MaxData] /\ stream' \in [Tabs -> {"none", "live", "ended", "closed"}]
      /\ bodyClosed' \subseteq Logs /\ unlocked' \subseteq Logs /\ cancelled' \subseteq Tabs
      /\ fatal' \in BOOLEAN
  BY <1>0 DEF TypeOK
<1>3. l \in Labels \ {"none", "sent"} /\ (r \in Stoppers => l \in Held)
  BY LabelFacts
<1> QED BY <1>0, <1>1, <1>2, <1>3, WorkStep

\* ... and lets it go.
LEMMA Unlocks ==
  ASSUME TInv, NEW r \in Roles \ {"open"}, NEW t \in Tabs, NEW l \in {"close", "done", "write", "release"},
         pc[r][t] \in {"reading", "drain"}, Goto(r, t, l), Hold("free", t),
         l \in {"close", "release"} => t \in Logs,
         r \in Stoppers => l = "release",
         data' \in [Tabs -> 0..MaxData], bodyClosed' \subseteq Logs,
         UNCHANGED <<host, stream, unlocked, cancelled, tables, down, fatal>>
  PROVE  TInv'
<1>0. TypeOK /\ l \in Labels \ {"none", "sent", "reading", "drain"}
  BY LabelFacts DEF TInv, ReadyIsTracked
<1>1. /\ reading' \in [Logs -> Roles \cup {"free"}]
      /\ \A u \in Logs, q \in Roles : reading'[u] = q <=> HoldsBody(q, u)'
  BY <1>0, LockReleased
<1>2. /\ stream' \in [Tabs -> {"none", "live", "ended", "closed"}]
      /\ unlocked' \subseteq Logs /\ cancelled' \subseteq Tabs /\ fatal' \in BOOLEAN
  BY <1>0 DEF TypeOK
<1>3. r \in Stoppers => l \in Held
  BY LabelFacts
<1>4. l \in Closing \cup {"read"} => t \in Logs
  BY DEF Closing
<1> QED BY <1>0, <1>1, <1>2, <1>3, <1>4, WorkStep

LEMMA ConsumeFacts ==
  ASSUME TypeOK, NEW t \in Tabs, data[t] > 0, Consume(t)
  PROVE  data' \in [Tabs -> 0..MaxData]
<1>1. data[t] - 1 \in 0..MaxData
  BY BoundAssumption DEF TypeOK
<1> QED BY <1>1 DEF TypeOK, Consume

LEMMA StepReadCall == ASSUME TInv, NEW t \in Tabs, ReadCall(t) PROVE TInv'
<1>1. /\ pc["pump"][t] = "read" /\ Free(t) /\ t \in Logs
      /\ UNCHANGED <<host, stream, data, bodyClosed, unlocked, cancelled, tables, down, fatal>>
      /\ unlocked \subseteq Logs /\ cancelled \subseteq Tabs /\ fatal \in BOOLEAN
  BY DEF ReadCall, TInv, ReadyIsTracked, TypeOK, OfItsKind, Roles
<1>2. CASE Leave(t) /\ UNCHANGED reading
  <2>1. PICK l \in {"close", "done"} : Goto("pump", t, l) /\ (l = "close" => t \in Logs)
    BY <1>2, LeaveFacts
  <2>2. l \in Labels \ {"none", "sent", "reading", "drain"} /\ (l \in Closing \cup {"read"} => t \in Logs)
    BY <1>1, LabelFacts
  <2> QED BY <1>1, <1>2, <2>1, <2>2, JustWorks, LabelFacts
<1>3. CASE Goto("pump", t, "reading") /\ Hold("pump", t)
  BY <1>1, <1>3, Locks, LabelFacts
<1> QED BY <1>2, <1>3 DEF ReadCall

LEMMA StepReadData == ASSUME TInv, NEW t \in Tabs, ReadData(t) PROVE TInv'
<1>1. /\ pc["pump"][t] = "reading" /\ Hold("free", t) /\ Goto("pump", t, "write")
      /\ UNCHANGED <<host, stream, bodyClosed, unlocked, cancelled, tables, down, fatal>>
      /\ bodyClosed \subseteq Logs /\ data' \in [Tabs -> 0..MaxData]
  BY ConsumeFacts DEF ReadData, TInv, ReadyIsTracked, TypeOK
<1> QED BY <1>1, Unlocks, LabelFacts

LEMMA StepReadEnds == ASSUME TInv, NEW t \in Tabs, ReadEnds(t) PROVE TInv'
<1>1. /\ pc["pump"][t] = "reading" /\ Hold("free", t) /\ Leave(t)
      /\ UNCHANGED <<host, stream, data, bodyClosed, unlocked, cancelled, tables, down, fatal>>
      /\ bodyClosed \subseteq Logs /\ data \in [Tabs -> 0..MaxData]
  BY DEF ReadEnds, Release, AfterEnd, TInv, ReadyIsTracked, TypeOK
<1>2. PICK l \in {"close", "done"} : Goto("pump", t, l) /\ (l = "close" => t \in Logs)
  BY <1>1, LeaveFacts
<1> QED BY <1>1, <1>2, Unlocks, LabelFacts

LEMMA StepWriteSurface == ASSUME TInv, NEW t \in Tabs, WriteSurface(t) PROVE TInv'
<1>1. /\ pc["pump"][t] = "write"
      /\ UNCHANGED <<host, stream, data, reading, bodyClosed, unlocked, cancelled, tables, down, fatal>>
      /\ unlocked \subseteq Logs /\ cancelled \subseteq Tabs /\ fatal \in BOOLEAN
  BY DEF WriteSurface, body, TInv, ReadyIsTracked, TypeOK
<1>2. PICK l \in {"close", "done", "loop"} : Goto("pump", t, l) /\ (l = "close" => t \in Logs)
  BY LeaveFacts DEF WriteSurface
<1>3. l \in Labels \ {"none", "sent", "reading", "drain"} /\ (l \in Closing \cup {"read"} => t \in Logs)
  BY <1>2, LabelFacts
<1> QED BY <1>1, <1>2, <1>3, JustWorks, LabelFacts

-----------------------------------------------------------------------------
(* Closing.                                                                *)

\* The stream is closed, and whoever closed it is done.
LEMMA ClosesStream ==
  ASSUME TInv, NEW r \in Stoppers, NEW t \in Tabs, pc[r][t] \in {"cancel", "client"},
         Goto(r, t, "done"), CloseClient(t), cancelled' \subseteq Tabs,
         UNCHANGED <<host, data, body, tables, down, fatal>>
  PROVE  TInv'
<1>0. TypeOK /\ r \in Roles \ {"open"} /\ UNCHANGED <<reading, bodyClosed, unlocked>>
  BY LabelFacts DEF TInv, ReadyIsTracked, body
<1>1. /\ stream' \in [Tabs -> {"none", "live", "ended", "closed"}] /\ stream'[t] = "closed"
      /\ \A u \in Tabs \ {t} : stream'[u] = stream[u]
  BY <1>0, StreamFacts DEF CloseClient
<1>2. \A u \in Logs, q \in Roles : reading'[u] = q <=> HoldsBody(q, u)'
  BY <1>0, LockSame, LabelFacts
<1>3. /\ data' \in [Tabs -> 0..MaxData] /\ reading' \in [Logs -> Roles \cup {"free"}]
      /\ bodyClosed' \subseteq Logs /\ unlocked' \subseteq Logs /\ fatal' \in BOOLEAN
  BY <1>0 DEF TypeOK
<1> QED BY <1>0, <1>1, <1>2, <1>3, WorkStep, LabelFacts

LEMMA StepStop == ASSUME TInv, NEW r \in Stoppers, NEW t \in Tabs, Stop(r, t) PROVE TInv'
<1>1. /\ pc[r][t] = "cancel" /\ cancelled' \subseteq Tabs /\ CloseStream(r, t)
      /\ UNCHANGED <<host, data, body, tables, down, fatal>>
      /\ UNCHANGED <<reading, bodyClosed, unlocked>> /\ unlocked \subseteq Logs /\ fatal \in BOOLEAN
  BY DEF Stop, body, TInv, ReadyIsTracked, TypeOK
<1>2. CASE t \in Logs
  <2>1. Goto(r, t, "close") /\ UNCHANGED stream
    BY <1>1, <1>2 DEF CloseStream
  <2>2. "close" \in Labels \ {"none", "sent", "reading", "drain"} /\ "close" \in Held /\ r \in Roles \ {"open"}
    BY LabelFacts
  <2> QED BY <1>1, <1>2, <2>1, <2>2, JustWorks
<1>3. CASE t \notin Logs
  BY <1>1, <1>3, ClosesStream DEF CloseStream
<1> QED BY <1>2, <1>3

LEMMA StepStopClient == ASSUME TInv, NEW r \in Stoppers, NEW t \in Tabs, StopClient(r, t) PROVE TInv'
<1>1. cancelled' \subseteq Tabs
  BY DEF StopClient, TInv, ReadyIsTracked, TypeOK
<1> QED BY <1>1, ClosesStream DEF StopClient

LEMMA StepCloseBody ==
  ASSUME TInv, NEW r \in Roles \ {"open"}, NEW t \in Tabs, CloseBody(r, t) PROVE TInv'
<1>1. /\ pc[r][t] = "close" /\ Free(t) /\ t \in Logs
      /\ UNCHANGED <<host, stream, data, bodyClosed, unlocked, cancelled, tables, down, fatal>>
      /\ unlocked \subseteq Logs /\ cancelled \subseteq Tabs /\ fatal \in BOOLEAN
  BY DEF CloseBody, TInv, ReadyIsTracked, TypeOK, OfItsKind, Closing
<1>2. CASE Goto(r, t, "release") /\ UNCHANGED reading
  <2>1. "release" \in Labels \ {"none", "sent", "reading", "drain"} /\ "release" \in Held
    BY LabelFacts
  <2> QED BY <1>1, <1>2, <2>1, JustWorks
<1>3. CASE Goto(r, t, "drain") /\ Hold(r, t)
  BY <1>1, <1>3, Locks
<1> QED BY <1>2, <1>3 DEF CloseBody

LEMMA StepDrained ==
  ASSUME TInv, NEW r \in Roles \ {"open"}, NEW t \in Tabs, Drained(r, t) PROVE TInv'
<1>1. /\ pc[r][t] = "drain" /\ Hold("free", t) /\ Goto(r, t, "release") /\ t \in Logs
      /\ bodyClosed' \subseteq Logs /\ data' \in [Tabs -> 0..MaxData]
      /\ UNCHANGED <<host, stream, unlocked, cancelled, tables, down, fatal>>
  BY DEF Drained, Release, TInv, ReadyIsTracked, TypeOK, OfItsKind, Closing
<1> QED BY <1>1, Unlocks

LEMMA StepTestUnlocked ==
  ASSUME TInv, NEW r \in Roles \ {"open"}, NEW t \in Tabs, TestUnlocked(r, t) PROVE TInv'
<1>1. /\ pc[r][t] = "release" /\ t \in Logs
      /\ UNCHANGED <<host, stream, data, reading, bodyClosed, unlocked, cancelled, tables, down, fatal>>
      /\ unlocked \subseteq Logs /\ cancelled \subseteq Tabs /\ fatal \in BOOLEAN
  BY DEF TestUnlocked, body, TInv, ReadyIsTracked, TypeOK, OfItsKind, Closing
<1>2. PICK l \in {"done", "client", "unlock"} : Goto(r, t, l) /\ (r # "pump" => l # "done")
  BY DEF TestUnlocked, AfterClose
<1>3. l \in Labels \ {"none", "sent", "reading", "drain"} /\ (r \in Stoppers => l \in Held)
  BY <1>2, LabelFacts
<1> QED BY <1>1, <1>2, <1>3, JustWorks

LEMMA StepUnlock ==
  ASSUME TInv, NEW r \in Roles \ {"open"}, NEW t \in Tabs, Unlock(r, t) PROVE TInv'
<1>1. /\ pc[r][t] = "unlock" /\ t \in Logs
      /\ UNCHANGED <<host, stream, data, reading, bodyClosed, cancelled, tables, down>>
      /\ unlocked' \subseteq Logs /\ cancelled \subseteq Tabs /\ fatal' \in BOOLEAN
  BY DEF Unlock, TInv, ReadyIsTracked, TypeOK, OfItsKind, Closing
<1>2. PICK l \in {"done", "client"} : Goto(r, t, l) /\ (r # "pump" => l # "done")
  BY DEF Unlock, AfterClose
<1>3. l \in Labels \ {"none", "sent", "reading", "drain"} /\ (r \in Stoppers => l \in Held)
  BY <1>2, LabelFacts
<1> QED BY <1>1, <1>2, <1>3, JustWorks

LEMMA StepShutdownNext == ASSUME TInv, NEW t \in Tabs, ShutdownNext(t) PROVE TInv'
<1>1. /\ pc["shutdown"][t] = "wait" /\ Goto("shutdown", t, "cancel")
      /\ UNCHANGED <<host, stream, data, reading, bodyClosed, unlocked, cancelled, tables, down, fatal>>
      /\ unlocked \subseteq Logs /\ cancelled \subseteq Tabs /\ fatal \in BOOLEAN
      /\ "shutdown" \in Roles \ {"open"}
  BY DEF ShutdownNext, body, TInv, ReadyIsTracked, TypeOK, Roles
<1>2. "cancel" \in Labels \ {"none", "sent", "reading", "drain"} /\ "cancel" \in Held
  BY LabelFacts
<1> QED BY <1>1, <1>2, JustWorks, LabelFacts

\* surface.closed takes the tab out of the table and stops it.
LEMMA StepSurfaceClosed == ASSUME TInv, NEW t \in Tabs, SurfaceClosed(t) PROVE TInv'
<1>0. TypeOK /\ Roles = {"open", "pump", "user", "shutdown"} /\ Stoppers = {"user", "shutdown"}
  BY DEF TInv, ReadyIsTracked, Roles, Stoppers
<1>1. /\ pc["user"][t] = "sent" /\ surfaces' = surfaces \ {t} /\ consoleInput' = consoleInput \ {t}
      /\ UNCHANGED <<tab, ready, stream, data, reading, bodyClosed, unlocked, cancelled, down, fatal>>
  BY DEF SurfaceClosed, host, body
<1>2. PICK l \in {"cancel", "done"} : Goto("user", t, l) /\ (t \in surfaces => l = "cancel")
  BY DEF SurfaceClosed
<1>3. l \in Labels \ {"none", "sent", "reading", "drain"} /\ l \notin Closing \cup {"read"}
  BY LabelFacts
<1>4. /\ pc' \in [Roles -> [Tabs -> Labels]] /\ pc'["user"][t] = l
      /\ \A q \in Roles, u \in Tabs : q # "user" \/ u # t => pc'[q][u] = pc[q][u]
  BY <1>0, <1>2, <1>3, GotoFacts
<1>5. \A u \in Logs, q \in Roles : reading'[u] = q <=> HoldsBody(q, u)'
  BY <1>0, <1>1, <1>2, <1>3, LockSame
<1>6. TypeOK'
  BY <1>0, <1>1, <1>4, <1>5 DEF TypeOK
<1>7. NotYet'
  BY <1>0, <1>1, <1>4 DEF TInv, NotYet
<1>8. OfItsKind'
  BY <1>0, <1>3, <1>4 DEF TInv, OfItsKind
<1>9. Tracks'
  BY <1>0, <1>1, <1>3, <1>4 DEF TInv, Tracks
<1>10. \A u \in ready' : pc'["user"][u] \in {"none", "sent"} /\ down' = "no" => u \in surfaces'
  <2>1. ready \subseteq Tabs
    BY <1>0 DEF TypeOK
  <2> QED BY <1>0, <1>1, <1>3, <1>4, <2>1 DEF TInv, ReadyIsTracked
<1>11. NoOrphanStream'
  <2> SUFFICES ASSUME NEW u \in Tabs, Live(u)'
               PROVE  \/ pc'["open"][u] \in Opening
                      \/ u \in surfaces'
                      \/ \E q \in Stoppers : pc'[q][u] \in Held
    BY DEF NoOrphanStream, Opening, Held
  <2>1. \/ pc["open"][u] \in Opening
        \/ u \in surfaces
        \/ \E q \in Stoppers : pc[q][u] \in Held
    BY <1>1 DEF TInv, NoOrphanStream, Opening, Held, Live
  <2>2. CASE pc["open"][u] \in Opening
    BY <1>0, <1>4, <2>2
  <2>3. CASE u \in surfaces
    BY <1>0, <1>1, <1>2, <1>4, <2>3, LabelFacts
  <2>4. ASSUME NEW q \in Stoppers, pc[q][u] \in Held PROVE pc'[q][u] \in Held
    <3>1. "sent" \notin Held
      BY LabelFacts
    <3> QED BY <1>0, <1>1, <1>4, <2>4, <3>1
  <2> QED BY <2>1, <2>2, <2>3, <2>4
<1> QED BY <1>6, <1>7, <1>8, <1>9, <1>10, <1>11, Assembled

\* Shutdown takes every tab out of the table, to stop it.
LEMMA StepShutdown == ASSUME TInv, Shutdown PROVE TInv'
<1>0. TypeOK /\ Roles = {"open", "pump", "user", "shutdown"} /\ Stoppers = {"user", "shutdown"}
  BY DEF TInv, ReadyIsTracked, Roles, Stoppers
<1>1. /\ down = "no" /\ down' = "stopping" /\ surfaces' = {}
      /\ pc' = [pc EXCEPT !["shutdown"] = [t \in Tabs |-> IF t \in surfaces THEN "wait" ELSE "none"]]
      /\ UNCHANGED <<tab, ready, stream, data, reading, bodyClosed, unlocked, cancelled, consoleInput, fatal>>
  BY DEF Shutdown, host, body
<1>2. \A t \in Tabs : pc["shutdown"][t] = "none"
  BY <1>1 DEF TInv, NotYet
<1>3. /\ pc' \in [Roles -> [Tabs -> Labels]]
      /\ \A t \in Tabs : pc'["shutdown"][t] = IF t \in surfaces THEN "wait" ELSE "none"
      /\ \A q \in Roles, t \in Tabs : q # "shutdown" => pc'[q][t] = pc[q][t]
  <2>1. [t \in Tabs |-> IF t \in surfaces THEN "wait" ELSE "none"] \in [Tabs -> Labels]
    BY DEF Labels
  <2> QED BY <1>0, <1>1, <2>1 DEF TypeOK
<1>4. \A u \in Logs, q \in Roles : HoldsBody(q, u)' <=> HoldsBody(q, u)
  BY <1>2, <1>3 DEF HoldsBody, Tabs
<1>5. TypeOK'
  BY <1>0, <1>1, <1>3, <1>4 DEF TypeOK
<1>6. NotYet'
  BY <1>0, <1>1, <1>3 DEF TInv, NotYet
<1>7. OfItsKind'
  BY <1>0, <1>3 DEF TInv, OfItsKind, Closing
<1>8. Tracks' /\ \A u \in ready' : pc'["user"][u] \in {"none", "sent"} /\ down' = "no" => u \in surfaces'
  BY <1>1 DEF Tracks
<1>9. NoOrphanStream'
  <2> SUFFICES ASSUME NEW u \in Tabs, Live(u)'
               PROVE  \/ pc'["open"][u] \in Opening
                      \/ \E q \in Stoppers : pc'[q][u] \in Held
    BY DEF NoOrphanStream, Opening, Held
  <2>1. \/ pc["open"][u] \in Opening
        \/ u \in surfaces
        \/ \E q \in Stoppers : pc[q][u] \in Held
    BY <1>1 DEF TInv, NoOrphanStream, Opening, Held, Live
  <2>2. CASE pc["open"][u] \in Opening
    BY <1>0, <1>3, <2>2
  <2>3. CASE u \in surfaces
    BY <1>0, <1>3, <2>3, LabelFacts
  <2>4. ASSUME NEW q \in Stoppers, pc[q][u] \in Held PROVE pc'[q][u] \in Held
    <3>1. "none" \notin Held
      BY LabelFacts
    <3> QED BY <1>0, <1>2, <1>3, <2>4, <3>1
  <2> QED BY <2>1, <2>2, <2>3, <2>4
<1> QED BY <1>5, <1>6, <1>7, <1>8, <1>9, Assembled

-----------------------------------------------------------------------------
(* What moves no goroutine.                                                *)

LEMMA QuietStep ==
  ASSUME TInv, UNCHANGED <<pc, ready, surfaces, consoleInput, reading, bodyClosed, unlocked, cancelled, fatal>>,
         down' \in {down, "done"}, tab' \in [Tabs -> {"none", "open", "closed"}],
         \A u \in Tabs : tab'[u] # "closed" => tab[u] # "closed",
         stream' \in [Tabs -> {"none", "live", "ended", "closed"}],
         \A u \in Tabs : stream'[u] = "live" => stream[u] = "live",
         data' \in [Tabs -> 0..MaxData]
  PROVE  TInv'
<1>1. \A u \in Tabs : Live(u)' => Live(u)
  BY DEF Live
<1>2. TypeOK'
  BY DEF TInv, ReadyIsTracked, TypeOK, HoldsBody
<1> QED BY <1>1, <1>2, Quiet, Assembled

LEMMA StepDrain ==
  ASSUME TInv, NEW r \in Roles \ {"open"}, NEW t \in Tabs, Drain(r, t) PROVE TInv'
<1>1. data' \in [Tabs -> 0..MaxData]
  BY ConsumeFacts DEF Drain, TInv, ReadyIsTracked
<1> QED BY <1>1, QuietStep DEF Drain, host, body, tables, TInv, ReadyIsTracked, TypeOK

LEMMA StepCloseAll == ASSUME TInv, CloseAll PROVE TInv'
<1>1. /\ stream' \in [Tabs -> {"none", "live", "ended", "closed"}]
      /\ \A u \in Tabs : stream'[u] = "live" => stream[u] = "live"
  BY DEF CloseAll, Live, TInv, ReadyIsTracked, TypeOK
<1> QED BY <1>1, QuietStep DEF CloseAll, host, body, tables, TInv, ReadyIsTracked, TypeOK

LEMMA StepHostCloses == ASSUME TInv, NEW t \in Tabs, HostCloses(t) PROVE TInv'
<1>0. TypeOK /\ "user" \in Roles /\ "sent" \in Labels
  BY DEF TInv, ReadyIsTracked, Roles, Labels
<1>1. /\ tab[t] = "open" /\ tab' = [tab EXCEPT ![t] = "closed"] /\ Goto("user", t, "sent")
      /\ pc["user"][t] = "none"
      /\ UNCHANGED <<ready, stream, data, reading, bodyClosed, unlocked, cancelled, surfaces,
                     consoleInput, down, fatal>>
  BY DEF HostCloses, body, tables, TInv, NotYet
<1>2. /\ tab' \in [Tabs -> {"none", "open", "closed"}] /\ tab'[t] = "closed"
      /\ \A u \in Tabs \ {t} : tab'[u] = tab[u]
  BY <1>0, <1>1 DEF TypeOK
<1>3. \A u \in Logs, q \in Roles : reading'[u] = q <=> HoldsBody(q, u)'
  BY <1>0, <1>1, LockSame
<1>4. pc' \in [Roles -> [Tabs -> Labels]]
  BY <1>0, <1>1, GotoFacts
<1>5. TypeOK'
  BY <1>0, <1>1, <1>2, <1>3, <1>4 DEF TypeOK
<1>6. /\ NotYet' /\ OfItsKind' /\ Tracks' /\ NoOrphanStream'
      /\ \A u \in ready' : pc'["user"][u] \in {"none", "sent"} /\ down' = "no" => u \in surfaces'
  <2>1. \A u \in Tabs : Live(u)' => Live(u)
    BY <1>1 DEF Live
  <2>2. "sent" \notin Closing \cup {"read"} /\ pc["user"][t] \notin Held
    BY <1>1, LabelFacts DEF Closing
  <2> QED BY <1>0, <1>1, <1>2, <2>1, <2>2, Advances
<1> QED BY <1>5, <1>6, Assembled

LEMMA StepEnvironment == ASSUME TInv, NEW t \in Tabs, Environment(t) PROVE TInv'
<1>0. TypeOK
  BY DEF TInv, ReadyIsTracked
<1>1. CASE HostOpens(t)
  <2>1. /\ tab' \in [Tabs -> {"none", "open", "closed"}]
        /\ \A u \in Tabs : tab'[u] # "closed" => tab[u] # "closed"
    BY <1>0, <1>1 DEF HostOpens, TypeOK
  <2> QED BY <1>0, <1>1, <2>1, QuietStep DEF HostOpens, body, tables, TypeOK
<1>2. CASE Output(t)
  <2>1. data' \in [Tabs -> 0..MaxData]
    <3>1. data[t] + 1 \in 0..MaxData
      BY <1>0, <1>2, BoundAssumption DEF Output, TypeOK
    <3> QED BY <1>0, <1>2, <3>1 DEF Output, TypeOK
  <2> QED BY <1>0, <1>2, <2>1, QuietStep DEF Output, host, body, tables, TypeOK
<1>3. CASE ContainerEnds(t)
  <2>1. /\ stream' \in [Tabs -> {"none", "live", "ended", "closed"}] /\ stream'[t] = "ended"
        /\ \A u \in Tabs \ {t} : stream'[u] = stream[u]
    BY <1>0, <1>3, StreamFacts DEF ContainerEnds
  <2> QED BY <1>0, <1>3, <2>1, QuietStep DEF ContainerEnds, host, body, tables, TypeOK
<1> QED BY <1>1, <1>2, <1>3, StepHostCloses DEF Environment

-----------------------------------------------------------------------------
LEMMA TStep == TInv /\ [Next]_vars => TInv'
<1> SUFFICES ASSUME TInv, [Next]_vars PROVE TInv'
  OBVIOUS
<1>1. CASE UNCHANGED vars
  BY <1>1, QuietStep DEF vars, host, body, tables, TInv, ReadyIsTracked, TypeOK
<1>2. ASSUME NEW r \in Roles \ {"open"}, NEW t \in Tabs, CloseSteps(r, t) PROVE TInv'
  BY <1>2, StepCloseBody, StepDrain, StepDrained, StepTestUnlocked, StepUnlock DEF CloseSteps
<1>3. ASSUME NEW t \in Tabs, Dial(t) \/ Open(t) PROVE TInv'
  BY <1>3, StepDial, StepAttach, StepOpenSurface, StepTrackSurface, StepSetReady, StepRegister DEF Open
<1>4. ASSUME NEW t \in Tabs, Pump(t) PROVE TInv'
  BY <1>2, <1>4, StepPumpLoop, StepReadCall, StepReadData, StepReadEnds, StepWriteSurface, LabelFacts
     DEF Pump
<1>5. ASSUME NEW t \in Tabs, NEW r \in Stoppers, StopSteps(r, t) PROVE TInv'
  BY <1>2, <1>5, StepStop, StepStopClient, LabelFacts DEF StopSteps
<1> QED BY <1>1, <1>3, <1>4, <1>5, StepSurfaceClosed, StepShutdownNext, StepEnvironment, StepShutdown,
           StepCloseAll DEF Next

\* The inductive invariant holds in every reachable state.
THEOREM Inductive == Spec => []TInv
<1> QED BY TInit, TStep, PTL DEF Spec

\* Every stream that is live has somebody who will close it, for any number of
\* tabs: the action that opens the tab, the table, or who took it from there.
THEOREM StreamHasOwner == Spec => []NoOrphanStream
<1>1. TInv => NoOrphanStream
  BY DEF TInv
<1> QED BY <1>1, Inductive, PTL

\* A tab the host was told is ready is in the table until its close or a
\* shutdown takes it out; and the lock of a body is held by the goroutine that
\* reads or drains it.
THEOREM ReadyMeansTracked == Spec => []ReadyIsTracked
<1>1. TInv => ReadyIsTracked
  BY DEF TInv
<1> QED BY <1>1, Inductive, PTL
=============================================================================
