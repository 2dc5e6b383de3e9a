------------------------------ MODULE Refresh ------------------------------
(***************************************************************************)
(* internal/usecase: keeping the host's tree like the daemon. publish.go   *)
(* (refreshBranch, refreshAll, publish), events.go (followEvents and its   *)
(* debounced flush, reconcile) and the observed and resolved ids of        *)
(* connection.go, for one session. Many goroutines refresh side by side:   *)
(* one per discovery.observe, one per action, the flushes of bursts of     *)
(* events, and the reconcile loop.                                         *)
(*                                                                         *)
(* What the daemon has of a group is a version number. The row of the      *)
(* Docker node itself, which refreshRoot publishes under the connection,   *)
(* is always there and is left out, and so is the tree below it: Docker is *)
(* the node with the groups, and a group is a node with instances.         *)
(***************************************************************************)
EXTENDS Naturals, Sequences, FiniteSets

CONSTANTS Docker,       \* domain.NodeRoot
          Containers,   \* domain.NodeContainers
          Groups,       \* Containers and other groups
          None, Error, Missing,  \* no snapshot; an error; a list that failed
          Budgets,      \* bounds, one of which is drawn: the groups open at first and
                        \* what may happen at most
          MaxObserves,  \* bound of all budgets: the first observe, those of the user
                        \* and those of a host that sheds
          MaxStreams,   \* bound of all budgets: calls of followEvents
          MaxFlushes    \* bound: flushes under way

\* What is assumed of the constants; an instance checks it.
NodesAssumption == Containers \in Groups /\ Docker \notin Groups
BudgetsAssumption ==
  /\ Budgets \subseteq [open : SUBSET Groups, observes : Nat, changes : Nat,
                        streams : 0..MaxStreams, failures : Nat, sheds : Nat, actions : Nat,
                        ends : Nat]
  /\ \A b \in Budgets : 1 + b.observes + b.failures + b.sheds <= MaxObserves

Nodes == {Docker} \cup Groups
Observes == 1..MaxObserves
Flushes == 1..MaxFlushes
Calls == 1..MaxStreams   \* of followEvents

Observer(k) == <<"observe", k>>
Actor == <<"action", 1>>
Flush(i) == <<"flush", i>>
Reconcile == <<"reconcile", 1>>
Threads == {Observer(k) : k \in Observes} \cup {Actor, Reconcile} \cup {Flush(i) : i \in Flushes}

\* What a branch lists: a group itself and, but for Containers, the containers
\* that its marks are derived from; the Docker node all groups, for its counts.
Lists(b) == IF b = Docker THEN Groups ELSE {b, Containers}

\* What is assumed of the constants; an instance checks it.
SnapshotsAssumption ==
  /\ None # Error /\ None \notin Nodes
  /\ \A set \in SUBSET Groups : {None, Error} \cap [set -> Nat \cup {Missing}] = {}
  /\ MaxObserves \in Nat /\ MaxStreams \in Nat /\ MaxFlushes \in Nat

VARIABLES
  now,       \* the daemon: the version of each group
  feed,      \* events, with their versions, that followEvents has not decoded
  call, up,  \* calls of followEvents so far; the last one's stream is open
  pending, timer,  \* of each call of followEvents
  fired,     \* the call whose timer started each flush
  expanded,  \* the host: the nodes the user has open
  tree,      \* the host: the snapshot each of them shows
  sent,      \* the host: the observes it sent
  clicked,   \* the row of an invokeAction that is under way, or None
  watching,  \* ensureEventWatcher has started the watcher
  observed, resolved, closed,   \* fields of Connection
  phase,     \* where each goroutine is
  job,       \* the refresh it is in
  told,      \* history: the version of each group that an event told of
  asked,     \* history: the version of each group when it was last listed for a node
  refused,   \* history: the branches that lack a snapshot because the host refused one
  left       \* bounds: what may still happen

daemon == <<now, feed, call, up>>
burst == <<pending, timer, fired>>
host == <<expanded, tree, sent, clicked>>
fields == <<watching, observed, resolved, closed>>
run == <<phase, job>>
history == <<told, asked, refused>>
vars == <<daemon, burst, host, fields, run, history, left>>

\* A refresh: the branches to come, the one at hand, what is still to be listed
\* of it, what was listed, and whether its rows are remembered ("call").
Branches(todo) == [todo |-> todo, at |-> None, want |-> {}, got |-> <<>>, stage |-> "list"]
NoJob == Branches({})

\* The plugin has just started, and the host resends what is open.
Init ==
  /\ left \in Budgets
  /\ now = [g \in Groups |-> 0] /\ feed = <<>> /\ call = 0 /\ up = FALSE
  /\ pending = [c \in Calls |-> {}] /\ timer = [c \in Calls |-> "none"]
  /\ fired = [i \in Flushes |-> 0]
  /\ expanded = {Docker} \cup left.open /\ sent = <<expanded>> /\ tree = [b \in Nodes |-> None]
  /\ clicked = None
  /\ watching = FALSE /\ observed = {} /\ resolved = {} /\ closed = FALSE
  /\ phase = [t \in Threads |-> "idle"] /\ job = [t \in Threads |-> NoJob]
  /\ told = [g \in Groups |-> 0] /\ asked = [b \in Nodes |-> [g \in Groups |-> 0]]
  /\ refused = {}

-----------------------------------------------------------------------------
(* The host (external).                                                    *)

\* The user opens or closes branches; the host sends the whole set.
Expand(set) ==
  /\ left.observes > 0 /\ left' = [left EXCEPT !.observes = @ - 1]
  /\ set # expanded /\ (set # {} => Docker \in set)
  /\ tree[Docker] \in {None, Error} => set \subseteq {Docker}
  /\ expanded' = set /\ sent' = Append(sent, set)
  /\ tree' = [b \in Nodes |-> IF b \in set THEN tree[b] ELSE None]
  /\ UNCHANGED <<daemon, burst, clicked, fields, run, history>>

\* The user acts on a row of the tree.
Click(g) ==
  /\ left.actions > 0 /\ left' = [left EXCEPT !.actions = @ - 1]
  /\ clicked = None /\ tree[g] \notin {None, Error} /\ clicked' = <<g, tree[g][g]>>
  /\ UNCHANGED <<daemon, burst, expanded, tree, sent, fields, run, history>>

\* A snapshot replaces its branch. One for a branch that is not open or not
\* there, or for a session that ended, is dropped. One without the groups sheds
\* them from the observed set, and so may one of the Docker node that comes after
\* a group's, which removes the group for a moment.
Shown(b) == ~closed /\ b \in expanded /\ (b = Docker \/ tree[Docker] \notin {None, Error})
Shows(b, snapshot, rest) ==
  /\ Shown(b) /\ expanded' = rest
  /\ tree' = [n \in Nodes |-> IF n \notin rest THEN None ELSE IF n = b THEN snapshot ELSE tree[n]]
  /\ sent' = IF rest = expanded THEN sent ELSE Append(sent, rest)
Late(b) == b = Docker /\ \E g \in Groups : tree[g] # None
HostTakes(b, snapshot) ==
  \/ ~Shown(b) /\ UNCHANGED <<expanded, tree, sent, left>>
  \/ /\ Shows(b, snapshot, IF b = Docker /\ snapshot = Error THEN {Docker} ELSE expanded)
     /\ UNCHANGED left
  \/ /\ Late(b) /\ Shows(b, snapshot, {Docker})
     /\ left.sheds > 0 /\ left' = [left EXCEPT !.sheds = @ - 1]

\* The daemon (external): a group changes, and whoever follows the events is told.
Changes(g) ==
  /\ now' = [now EXCEPT ![g] = @ + 1]
  /\ feed' = IF up THEN Append(feed, <<g, now[g] + 1>>) ELSE feed
  /\ UNCHANGED <<call, up>>
DaemonChanges(g) ==
  /\ left.changes > 0 /\ left' = [left EXCEPT !.changes = @ - 1]
  /\ Changes(g)
  /\ UNCHANGED <<burst, host, fields, run, history>>

\* The session ends (markGone or Close).
End ==
  /\ left.ends > 0 /\ left' = [left EXCEPT !.ends = @ - 1] /\ closed' = TRUE
  /\ UNCHANGED <<daemon, burst, host, watching, observed, resolved, run, history>>

-----------------------------------------------------------------------------
(* What starts a refresh.                                                  *)

Goto(t, label) == phase' = [phase EXCEPT ![t] = label]
Begin(t, todo) == Goto(t, "refresh") /\ job' = [job EXCEPT ![t] = Branches(todo)]

\* Observe: SetObserved, on the goroutine of its message, in any order.
Observe(k) ==
  /\ k <= Len(sent) /\ phase[Observer(k)] = "idle" /\ Goto(Observer(k), "begin")
  /\ observed' = sent[k]
  /\ UNCHANGED <<daemon, burst, host, watching, resolved, closed, job, history, left>>

\* InvokeAction: its node is resolved, or refused; the action runs, and then
\* refreshes.
InvokeAction ==
  /\ clicked # None /\ clicked' = None /\ phase[Actor] = "idle"
  /\ IF clicked \in resolved THEN Changes(clicked[1]) /\ Goto(Actor, "begin")
                            ELSE UNCHANGED <<daemon, phase>>
  /\ UNCHANGED <<burst, expanded, tree, sent, fields, job, history, left>>

\* refreshAll reads the observed set.
RefreshAll(t) ==
  /\ phase[t] = "begin" /\ t[1] # "flush" /\ Begin(t, observed)
  /\ UNCHANGED <<daemon, burst, host, fields, history, left>>

\* Mutant: reconcile leaves the groups to the events.
Relisted_Root == observed \cap {Docker}
Relisted == observed
\* The ticker of reconcile.
Tick ==
  /\ watching /\ phase[Reconcile] = "idle" /\ ~closed /\ Begin(Reconcile, Relisted)
  /\ UNCHANGED <<daemon, burst, host, fields, history, left>>

\* followEvents: its stream opens; an event is decoded and arms the timer, if
\* it is not armed; the stream ends.
OpenStream ==
  /\ watching /\ ~up /\ ~closed /\ call' = call + 1 /\ up' = TRUE
  /\ left.streams > 0 /\ left' = [left EXCEPT !.streams = @ - 1]
  /\ UNCHANGED <<now, feed, burst, host, fields, run, history>>
Decode ==
  /\ up /\ feed # <<>> /\ feed' = Tail(feed)
  /\ LET g == Head(feed)[1] IN
     /\ told' = [told EXCEPT ![g] = Head(feed)[2]]
     /\ pending' = [pending EXCEPT ![call] = @ \cup {g}]
     /\ timer' = [timer EXCEPT ![call] = IF @ = "none" THEN "armed" ELSE @]
  /\ UNCHANGED <<now, call, up, fired, host, fields, run, asked, refused, left>>
StreamEnds ==
  /\ up /\ up' = FALSE /\ feed' = <<>>
  /\ UNCHANGED <<now, call, burst, host, fields, run, history, left>>

\* Mutant: the timer that fired is still there, and no event arms another.
Cleared_Never == "fired"
Cleared == "none"
\* The timer of a burst: it clears itself, and then flushes.
Fire(c, i) ==
  /\ timer[c] = "armed" /\ timer' = [timer EXCEPT ![c] = Cleared]
  /\ phase[Flush(i)] = "idle" /\ Goto(Flush(i), "begin")
  /\ fired' = [fired EXCEPT ![i] = c]
  /\ UNCHANGED <<daemon, pending, host, fields, job, history, left>>

\* Mutant: the counts of the group labels are left as they were.
Flushed_Groups(c) == pending[c]
Flushed(c) == pending[c] \cup {Docker}
\* flush takes what is pending.
BeginFlush(i) ==
  /\ phase[Flush(i)] = "begin" /\ Begin(Flush(i), Flushed(fired[i]))
  /\ pending' = [pending EXCEPT ![fired[i]] = {}] /\ fired' = [fired EXCEPT ![i] = 0]
  /\ UNCHANGED <<daemon, timer, host, fields, history, left>>

-----------------------------------------------------------------------------
(* A refresh: refreshAll, or the loop of a flush.                          *)

Free(t) == phase[t] = "refresh" /\ job[t].at = None
\* refreshAll stops when the session is gone; a flush does not ask.
Stops(t) == closed /\ t[1] # "flush"

\* Mutant: refreshAll takes the branches as the map has them.
Foremost_Unordered(t) == job[t].todo
\* orderedBranches: parents first. A flush ends with the Docker node.
Foremost(t) ==
  LET todo == job[t].todo IN
  IF Docker \in todo /\ (todo = {Docker} \/ t[1] # "flush") THEN {Docker} ELSE todo \ {Docker}

Asked(b, g) == asked' = [asked EXCEPT ![b][g] = now[g]]
Fails == left.failures > 0 /\ left' = [left EXCEPT !.failures = @ - 1]

\* refreshBranch: nothing is done for a branch that is not observed, and a
\* client that Control cannot give is an error of the branch.
Take(t) ==
  /\ Free(t) /\ ~Stops(t)
  /\ \E b \in Foremost(t) :
       LET j == Branches(job[t].todo \ {b})
           error == [j EXCEPT !.at = b, !.got = Error] IN
       \/ /\ b \notin observed /\ job' = [job EXCEPT ![t] = j] /\ UNCHANGED <<asked, left>>
       \/ /\ b \in observed /\ ~closed /\ UNCHANGED <<asked, left>>
          /\ job' = [job EXCEPT ![t] = [j EXCEPT !.at = b, !.want = Lists(b)]]
       \/ /\ b \in observed /\ job' = [job EXCEPT ![t] = error]
          /\ IF closed THEN UNCHANGED left ELSE Fails
          /\ asked' = [asked EXCEPT ![b] = now]
  /\ UNCHANGED <<daemon, burst, host, fields, phase, told, refused>>

\* The order of the list calls: a group itself, then the containers; the Docker
\* node's groups in a fixed order.
NextList(j) ==
  IF j.at \in j.want THEN j.at
  ELSE IF Containers \in j.want THEN Containers
  ELSE CHOOSE g \in j.want : TRUE

\* One list call. One that fails is the error of its own branch, and costs
\* another branch its marks or its count.
List(t) ==
  LET j == job[t]  g == NextList(j)
      with(v) == [j EXCEPT !.want = @ \ {g},
                           !.got = [r \in DOMAIN @ \cup {g} |-> IF r = g THEN v ELSE @[r]]] IN
  /\ j.want # {} /\ Asked(j.at, g)
  /\ \/ job' = [job EXCEPT ![t] = with(now[g])] /\ UNCHANGED left
     \/ /\ Fails
        /\ job' = [job EXCEPT ![t] = IF g = j.at THEN [j EXCEPT !.want = {}, !.got = Error]
                                                 ELSE with(Missing)]
  /\ UNCHANGED <<daemon, burst, host, fields, phase, told, refused>>

\* Mutant: only what a group's last snapshot has is remembered ("Ids are resolved
\* against the snapshot this session last published", of the design document).
Remembered_Last(b, snapshot) == {p \in resolved : p[1] # b} \cup {<<b, snapshot[b]>>}
\* Remember: a node once published stays resolvable.
Remembered(b, snapshot) == resolved \cup {<<b, snapshot[b]>>}
\* A snapshot to publish; only that of a group has rows of instances.
ToPublish(j) == j.at # None /\ j.want = {}
HasRows(j) == j.at # Docker /\ j.got # Error
\* publish first remembers the rows of its snapshot.
Remember(t) ==
  LET j == job[t] IN
  /\ ToPublish(j) /\ HasRows(j) /\ j.stage = "list"
  /\ resolved' = Remembered(j.at, j.got)
  /\ job' = [job EXCEPT ![t].stage = "call"]
  /\ UNCHANGED <<daemon, burst, host, watching, observed, closed, phase, history, left>>

\* Then it calls the host, where the snapshots of others may arrive before its
\* own. A host that refuses the call publishes nothing, and a group whose parent
\* was refused is not there.
Publish(t) ==
  LET j == job[t] IN
  /\ ToPublish(j) /\ (HasRows(j) => j.stage = "call")
  /\ \/ /\ HostTakes(j.at, j.got)
        /\ refused' = IF Shown(j.at) THEN refused \ {j.at}
                      ELSE IF Docker \in refused THEN refused \cup {j.at} ELSE refused
     \/ Fails /\ refused' = refused \cup {j.at} /\ UNCHANGED <<expanded, tree, sent>>
  /\ job' = [job EXCEPT ![t] = Branches(j.todo)]
  /\ UNCHANGED <<daemon, burst, clicked, fields, phase, told, asked>>

\* The end of a refresh; the one of an observe makes sure of the watcher.
Finish(t) ==
  /\ Free(t) /\ (job[t].todo = {} \/ Stops(t))
  /\ Goto(t, IF t[1] = "observe" THEN "done" ELSE "idle")
  /\ job' = [job EXCEPT ![t] = NoJob]
  /\ watching' = (watching \/ t[1] = "observe")
  /\ UNCHANGED <<daemon, burst, host, observed, resolved, closed, history, left>>

-----------------------------------------------------------------------------
RunJob(t) == RefreshAll(t) \/ Take(t) \/ List(t) \/ Remember(t) \/ Publish(t) \/ Finish(t)
RunFlush(i) == BeginFlush(i) \/ RunJob(Flush(i))

Next ==
  \/ \E set \in SUBSET Nodes : Expand(set)
  \/ \E g \in Groups : DaemonChanges(g) \/ Click(g)
  \/ InvokeAction \/ End
  \/ \E k \in Observes : Observe(k)
  \/ Tick \/ OpenStream \/ Decode \/ StreamEnds
  \/ \E i \in Flushes : BeginFlush(i) \/ \E c \in Calls : Fire(c, i)
  \/ \E t \in Threads : RunJob(t)

Spec == Init /\ [][Next]_vars

\* A message is handled, a goroutine that can run does, calls are answered or
\* fail, and the ticker and the timers tick. No stream has to open or to bring
\* its events, and nobody has to act.
Fairness ==
  /\ \A k \in Observes : WF_vars(Observe(k))
  /\ \A t \in Threads : WF_vars(RunJob(t))
  /\ \A i \in Flushes : WF_vars(BeginFlush(i)) /\ \A c \in Calls : WF_vars(Fire(c, i))
  /\ WF_vars(Tick)
FairSpec == Spec /\ Fairness

-----------------------------------------------------------------------------
Snapshots(b) == {None, Error} \cup [Lists(b) -> Nat \cup {Missing}]

\* Every variable has its type, and a goroutine is at a branch only within a
\* refresh (refreshBranch).
TypeOK ==
  /\ now \in [Groups -> Nat] /\ told \in [Groups -> Nat] /\ feed \in Seq(Groups \X Nat)
  /\ call \in {0} \cup Calls /\ up \in BOOLEAN
  /\ pending \in [Calls -> SUBSET Groups] /\ timer \in [Calls -> {"none", "armed"}]
  /\ fired \in [Flushes -> {0} \cup Calls]
  /\ expanded \subseteq Nodes /\ observed \subseteq Nodes /\ sent \in Seq(SUBSET Nodes)
  /\ \A b \in Nodes : tree[b] \in Snapshots(b) /\ (b \notin expanded => tree[b] = None)
  /\ watching \in BOOLEAN /\ closed \in BOOLEAN /\ resolved \subseteq Groups \X (Nat \cup {Missing})
  /\ clicked \in {None} \cup (Groups \X (Nat \cup {Missing})) /\ refused \subseteq Nodes
  /\ \A t \in Threads :
       /\ phase[t] \in {"idle", "begin", "refresh", "done"}
       /\ job[t].todo \subseteq Nodes /\ job[t].at \in Nodes \cup {None}
       /\ phase[t] # "refresh" => job[t] = NoJob
       /\ job[t].at # None => job[t].want \subseteq Lists(job[t].at) /\ job[t].at \notin job[t].todo
       /\ job[t].stage \in {"list", "call"}
       /\ job[t].stage = "call" => ToPublish(job[t]) /\ HasRows(job[t])
  /\ asked \in [Nodes -> [Groups -> Nat]]

\* Goroutine t has yet to list group g for branch b.
ToList(t, b, g) == b \in job[t].todo \/ (job[t].at = b /\ g \in job[t].want)
\* A refresh of all that is observed has yet to begin.
ObserveToCome ==
  \/ \E k \in 1..Len(sent) : phase[Observer(k)] = "idle"
  \/ \E t \in Threads : phase[t] = "begin" /\ t[1] # "flush"
\* Group g waits for a flush that is sure to come.
FlushToCome(g) ==
  \E c \in Calls :
    /\ g \in pending[c]
    /\ timer[c] = "armed" \/ \E i \in Flushes : phase[Flush(i)] = "begin" /\ fired[i] = c

\* No event is lost in a burst: what the daemon told of a group that is observed
\* was listed since, for the group and for the count at the Docker node, or will
\* be, whatever is decoded between the timer's firing and the flush, during the
\* flush or beside another one (followEvents, flush; "collapses a burst of
\* events into one refresh").
EventKept ==
  ~closed => \A g \in Groups : \A b \in {g, Docker} \cap observed :
    \/ asked[b][g] >= told[g]
    \/ ObserveToCome \/ FlushToCome(g)
    \/ \E t \in Threads : ToList(t, b, g)

\* A branch that is open for both sides and shows nothing is being fetched:
\* no snapshot is published so early that the host drops it and nobody sends
\* another (refreshAll, "parents first"). The exception is what publish says of a
\* snapshot that the host refused: "a branch that never fills in".
FilledOrComing ==
  ~closed => \A b \in observed \cap expanded :
    tree[b] = None => \/ ObserveToCome \/ b \in refused
                      \/ \E t \in Threads : b \in job[t].todo \/ job[t].at = b

\* Every row the user sees can be acted on, and so can one that was clicked when
\* its message is handled: their ids resolve, although snapshots overtake one
\* another between Remember and the host, so that the rows on the screen need not
\* be those that were remembered last (publish, Remember and Resolve).
Actionable ==
  /\ \A g \in Groups : tree[g] \notin {None, Error} => <<g, tree[g][g]>> \in resolved
  /\ clicked # None => clicked \in resolved

\* Whatever events were lost and whichever of two refreshes published last, once
\* nothing changes any more the branches that are open show what the daemon has
\* (reconcile, "a lost event cannot leave the tree wrong indefinitely").
UpToDate(b) == tree[b] = [g \in Lists(b) |-> now[g]]
TreeCatchesUp == <>[](closed \/ \A b \in observed \cap expanded : UpToDate(b))

=============================================================================
