---------------------------- MODULE PartsProofs ----------------------------
(***************************************************************************)
(* Theorems about the smaller parts (Refresh, Tree, Dialogs, Settings and  *)
(* Codec, as Parts instantiates them): an inductive invariant for each,    *)
(* one lemma for each of its actions, and what follows for the behaviours  *)
(* of Parts.                                                               *)
(***************************************************************************)
EXTENDS Parts, TLAPS, FiniteSetTheorems

(***************************************************************************)
(* Refresh.                                                                *)

\* What a list gives, and the refreshes a goroutine can be in.
Listed(set) == [set -> Nat \cup {Missing}]
Jobs ==
  [todo : SUBSET R!Nodes, at : R!Nodes \cup {None}, want : SUBSET NodeGroups,
   got : {Error} \cup UNION {Listed(set) : set \in SUBSET NodeGroups}, stage : {"list", "call"}]
JobFits(j) ==
  IF j.at = None THEN j.want = {}
  ELSE /\ j.at \notin j.todo /\ j.want \subseteq R!Lists(j.at)
       /\ \/ j.got = Error /\ j.want = {}
          \/ j.got \in Listed(R!Lists(j.at) \ j.want)
StageFits(j) == j.stage = "call" => R!ToPublish(j) /\ R!HasRows(j)

DaemonTypes ==
  /\ now \in [NodeGroups -> Nat] /\ told \in [NodeGroups -> Nat] /\ feed \in Seq(NodeGroups \X Nat)
  /\ call \in 0..MaxStreams
StreamTypes == up \in BOOLEAN /\ (up => call # 0)
BudgetTypes ==
  /\ left \in [open : SUBSET NodeGroups, observes : Nat, changes : Nat, streams : 0..MaxStreams,
               failures : Nat, sheds : Nat, actions : Nat, ends : Nat]
  /\ call + left.streams <= MaxStreams
BurstTypes ==
  /\ pending \in [R!Calls -> SUBSET NodeGroups] /\ timer \in [R!Calls -> {"none", "armed"}]
  /\ fired \in [R!Flushes -> {0} \cup R!Calls]
  /\ \A i \in R!Flushes : phase[R!Flush(i)] = "begin" => fired[i] # 0
HostTypes ==
  /\ expanded \subseteq R!Nodes /\ sent \in Seq(SUBSET R!Nodes) /\ refused \subseteq R!Nodes
  /\ \A b \in R!Nodes : tree[b] \in R!Snapshots(b) /\ (b \notin expanded => tree[b] = None)
FieldTypes ==
  /\ watching \in BOOLEAN /\ closed \in BOOLEAN /\ observed \subseteq R!Nodes
  /\ resolved \subseteq NodeGroups \X (Nat \cup {Missing})
RunTypes ==
  /\ phase \in [R!Threads -> {"idle", "begin", "refresh", "done"}] /\ job \in [R!Threads -> Jobs]
  /\ \A t \in R!Threads : JobFits(job[t]) /\ StageFits(job[t]) /\ (phase[t] # "refresh" => job[t] = R!NoJob)
AskedTypes == asked \in [R!Nodes -> [NodeGroups -> Nat]]
RefreshTypes ==
  DaemonTypes /\ StreamTypes /\ BudgetTypes /\ BurstTypes /\ HostTypes /\ FieldTypes /\ RunTypes /\ AskedTypes

\* What was told is not newer than what the daemon has.
ToldIsPast ==
  /\ \A g \in NodeGroups : told[g] <= now[g]
  /\ \A i \in DOMAIN feed : feed[i][2] <= now[feed[i][1]]

\* An observe that was not sent was not handled, and there is one more for each
\* failure to come, and each late parent, that makes the host shed.
Owed == {t \in R!Threads : job[t].at = Docker /\ job[t].got = Error}
Promised == left.observes + left.failures + left.sheds
ObservesCounted ==
  /\ \A k \in R!Observes : k > Len(sent) => phase[R!Observer(k)] = "idle"
  /\ ~closed => Len(sent) + Promised + Cardinality(Owed) <= MaxObserves

\* The groups are open before the Docker node is there only when the host has
\* just resent what was open: then nobody but its first observe runs, and
\* fetches the Docker node first.
GroupsOpen == \E g \in NodeGroups : g \in expanded
Restoring ==
  LET t == R!Observer(1) IN
  /\ ~watching /\ ~up /\ Docker \in expanded /\ sent = <<expanded>>
  /\ \A c \in R!Calls : timer[c] = "none"
  /\ \A u \in R!Threads : u # t => phase[u] = "idle"
  /\ clicked = None /\ \A g \in NodeGroups : tree[g] = None
  /\ \/ phase[t] = "idle"
     \/ phase[t] = "begin" /\ observed = expanded
     \/ /\ phase[t] = "refresh" /\ observed = expanded
        /\ job[t].at = Docker \/ (job[t].at = None /\ Docker \in job[t].todo)
ParentsFirst ==
  /\ tree[Docker] = Error => ~GroupsOpen
  /\ ~closed /\ tree[Docker] = None /\ GroupsOpen => Restoring \/ Docker \in refused

\* The rows that are on their way to the host are remembered.
OnItsWay == \A t \in R!Threads : job[t].stage = "call" => <<job[t].at, job[t].got[job[t].at]>> \in resolved

RefreshInv ==
  /\ RefreshTypes /\ ToldIsPast /\ ObservesCounted /\ ParentsFirst /\ OnItsWay
  /\ R!Actionable /\ R!EventKept /\ R!FilledOrComing

-----------------------------------------------------------------------------
LEMMA RefreshConstants ==
  /\ Containers \in NodeGroups /\ Docker \notin NodeGroups
  /\ None # Error /\ None \notin R!Nodes
  /\ MaxObserves \in Nat /\ MaxStreams \in Nat /\ MaxFlushes \in Nat
  /\ \A b \in R!Nodes : R!Lists(b) \subseteq NodeGroups
  /\ \A set \in SUBSET NodeGroups : None \notin Listed(set) /\ Error \notin Listed(set)
BY ConstantsAssumption
   DEF ConstantsAssumption, R!NodesAssumption, R!SnapshotsAssumption, R!Nodes, R!Lists, Listed

LEMMA Goroutines ==
  /\ \A k \in R!Observes : R!Observer(k) \in R!Threads
  /\ \A i \in R!Flushes : R!Flush(i) \in R!Threads
  /\ R!Actor \in R!Threads /\ R!Reconcile \in R!Threads
  /\ \A k : R!Observer(k)[1] = "observe" /\ R!Observer(k)[2] = k
  /\ \A i : R!Flush(i)[1] = "flush" /\ R!Flush(i)[2] = i
  /\ R!Actor[1] = "action" /\ R!Reconcile[1] = "reconcile"
BY DEF R!Observer, R!Flush, R!Actor, R!Reconcile, R!Threads

LEMMA NewJob ==
  ASSUME NEW todo \in SUBSET R!Nodes
  PROVE  R!Branches(todo) \in Jobs /\ JobFits(R!Branches(todo)) /\ R!Branches(todo).at = None
         /\ R!Branches(todo).todo = todo /\ R!Branches(todo).want = {}
         /\ R!Branches(todo).stage = "list" /\ StageFits(R!Branches(todo))
<1>1. <<>> \in Listed({})
  BY DEF Listed
<1>2. <<>> \in UNION {Listed(set) : set \in SUBSET NodeGroups}
  BY <1>1
<1> QED BY <1>2 DEF R!Branches, Jobs, JobFits, StageFits

LEMMA NoJobType ==
  /\ R!NoJob \in Jobs /\ JobFits(R!NoJob) /\ StageFits(R!NoJob)
  /\ R!NoJob.at = None /\ R!NoJob.todo = {} /\ R!NoJob.want = {} /\ R!NoJob.stage = "list"
BY NewJob DEF R!NoJob

LEMMA GotoFacts ==
  ASSUME RunTypes, NEW t \in R!Threads, NEW l, R!Goto(t, l)
  PROVE  phase'[t] = l /\ \A u \in R!Threads : u # t => phase'[u] = phase[u]
BY DEF RunTypes, R!Goto

LEMMA JobFacts ==
  ASSUME RunTypes, NEW t \in R!Threads, NEW j, job' = [job EXCEPT ![t] = j]
  PROVE  job'[t] = j /\ \A u \in R!Threads : u # t => job'[u] = job[u]
BY DEF RunTypes

\* A goroutine goes to another place with another job.
LEMMA RunTypesStep ==
  ASSUME RunTypes, NEW t \in R!Threads, NEW j \in Jobs, JobFits(j), StageFits(j), job' = [job EXCEPT ![t] = j],
         NEW l \in {"idle", "begin", "refresh", "done"}, R!Goto(t, l), l # "refresh" => j = R!NoJob
  PROVE  RunTypes'
<1>1. phase'[t] = l /\ \A u \in R!Threads : u # t => phase'[u] = phase[u]
  BY GotoFacts
<1>2. job'[t] = j /\ \A u \in R!Threads : u # t => job'[u] = job[u]
  BY JobFacts
<1>3. phase' \in [R!Threads -> {"idle", "begin", "refresh", "done"}] /\ job' \in [R!Threads -> Jobs]
  BY DEF RunTypes, R!Goto
<1> QED BY <1>1, <1>2, <1>3 DEF RunTypes

\* Where a goroutine that waits is, it has no job; one that has a job is in a refresh.
LEMMA InRefresh ==
  ASSUME RunTypes, NEW t \in R!Threads
  PROVE  /\ phase[t] # "refresh" => job[t].at = None /\ job[t].todo = {} /\ job[t].want = {}
         /\ job[t].at # None \/ job[t].want # {} => phase[t] = "refresh" /\ job[t].at \in R!Nodes
         /\ job[t] \in Jobs /\ JobFits(job[t]) /\ StageFits(job[t])
BY NoJobType DEF RunTypes, JobFits, Jobs

LEMMA GoesTo ==
  ASSUME RunTypes, NEW t \in R!Threads, NEW l \in {"idle", "begin", "done"}, R!Goto(t, l), phase[t] # "refresh",
         UNCHANGED job
  PROVE  RunTypes'
<1>1. job[t] = R!NoJob /\ job' = [job EXCEPT ![t] = R!NoJob]
  BY DEF RunTypes
<1> QED BY <1>1, RunTypesStep, NoJobType

LEMMA PromisedType == BudgetTypes => Promised \in Nat
BY DEF BudgetTypes, Promised

LEMMA PromisedKept ==
  ASSUME BudgetTypes, left'.observes \in Nat, left'.failures \in Nat, left'.sheds \in Nat,
         left'.observes <= left.observes, left'.failures <= left.failures, left'.sheds <= left.sheds
  PROVE  Promised' \in Nat /\ Promised' <= Promised
<1>1. left.observes \in Nat /\ left.failures \in Nat /\ left.sheds \in Nat
  BY DEF BudgetTypes
<1>2. left'.observes + left'.failures <= left.observes + left.failures
  BY <1>1
<1>3. left'.observes + left'.failures \in Nat /\ left.observes + left.failures \in Nat
  BY <1>1
<1> QED BY <1>1, <1>2, <1>3 DEF Promised

LEMMA FiniteOwed == ASSUME RunTypes PROVE IsFiniteSet(Owed) /\ Cardinality(Owed) \in Nat
<1>1. IsFiniteSet(R!Observes) /\ IsFiniteSet(R!Flushes)
  BY RefreshConstants, FS_Interval DEF R!Observes, R!Flushes
<1>2. IsFiniteSet({R!Observer(k) : k \in R!Observes})
  <2> DEFINE Named == {R!Observer(k) : k \in R!Observes}
             f == [k \in R!Observes |-> R!Observer(k)]
  <2>1. f \in Surjection(R!Observes, Named)
    BY DEF Surjection
  <2> QED BY <1>1, <2>1, FS_Surjection
<1>3. IsFiniteSet({R!Flush(i) : i \in R!Flushes})
  <2> DEFINE Named == {R!Flush(i) : i \in R!Flushes}
             f == [i \in R!Flushes |-> R!Flush(i)]
  <2>1. f \in Surjection(R!Flushes, Named)
    BY DEF Surjection
  <2> QED BY <1>1, <2>1, FS_Surjection
<1>4. R!Threads = ((({R!Observer(k) : k \in R!Observes} \cup {R!Flush(i) : i \in R!Flushes})
                       \cup {R!Actor}) \cup {R!Reconcile})
  BY DEF R!Threads
<1>5. IsFiniteSet(R!Threads)
  <2>1. IsFiniteSet({R!Observer(k) : k \in R!Observes} \cup {R!Flush(i) : i \in R!Flushes})
    BY <1>2, <1>3, FS_Union
  <2> QED BY <1>4, <2>1, FS_AddElement
<1>6. Owed \subseteq R!Threads
  BY DEF Owed
<1> QED BY <1>5, <1>6, FS_Subset, FS_CardinalityType

\* No goroutine gets an error of the Docker node.
LEMMA NoMoreOwed ==
  ASSUME RunTypes, RunTypes', \A t \in R!Threads : job'[t].at = Docker /\ job'[t].got = Error => job[t].at = Docker /\ job[t].got = Error
  PROVE  Cardinality(Owed') \in Nat /\ Cardinality(Owed') <= Cardinality(Owed) /\ Cardinality(Owed) \in Nat
<1>1. Owed' \subseteq Owed
  BY DEF Owed
<1>2. IsFiniteSet(Owed)
  BY FiniteOwed
<1> QED BY <1>1, <1>2, FS_Subset, FS_CardinalityType

\* What is sure to come still is, as long as no goroutine leaves its place to begin.
LEMMA StillToCome ==
  ASSUME ObservesCounted, RefreshTypes, ~closed,
         Len(sent') \in Nat, Len(sent) <= Len(sent'),
         \A u \in R!Threads : /\ phase[u] = "begin" => phase'[u] = "begin"
                              /\ phase[u] = "idle" /\ u[1] = "observe" => phase'[u] \in {"idle", "begin"}
  PROVE  /\ R!ObserveToCome => R!ObserveToCome'
         /\ UNCHANGED fired /\ (\A c \in R!Calls : pending[c] \subseteq pending'[c] /\ (timer[c] = "armed" => timer'[c] = "armed"))
              => \A g : R!FlushToCome(g) => R!FlushToCome(g)'
<1>1. Len(sent) \in Nat /\ Len(sent) <= MaxObserves
  BY RefreshConstants, FiniteOwed, PromisedType DEF ObservesCounted, RefreshTypes, HostTypes, BudgetTypes
<1>2. \A k \in 1..Len(sent) : R!Observer(k) \in R!Threads /\ R!Observer(k)[1] = "observe" /\ k \in 1..Len(sent')
  BY <1>1, RefreshConstants, Goroutines DEF R!Observes
<1>3. \A i \in R!Flushes : R!Flush(i) \in R!Threads
  BY Goroutines
<1>4. ASSUME R!ObserveToCome PROVE R!ObserveToCome'
  <2>1. CASE \E k \in 1..Len(sent) : phase[R!Observer(k)] = "idle"
    BY <1>2, <2>1 DEF R!ObserveToCome
  <2>2. CASE \E u \in R!Threads : phase[u] = "begin" /\ u[1] # "flush"
    BY <2>2 DEF R!ObserveToCome
  <2> QED BY <1>4, <2>1, <2>2 DEF R!ObserveToCome
<1> QED BY <1>3, <1>4 DEF R!FlushToCome

\* The parts of the invariant that speak of the host's tree, while it stays as it is.
LEMMA SameBranches ==
  ASSUME RefreshInv, UNCHANGED <<expanded, tree, refused>>, closed => closed', resolved \subseteq resolved',
         ~closed /\ Restoring => Restoring', clicked' \in {clicked, None} \cup resolved
  PROVE  ParentsFirst' /\ R!Actionable'
<1>1. ParentsFirst'
  BY DEF RefreshInv, ParentsFirst, GroupsOpen
<1>2. R!Actionable'
  BY DEF RefreshInv, R!Actionable
<1> QED BY <1>1, <1>2

LEMMA SameTree ==
  ASSUME RefreshInv, UNCHANGED <<expanded, tree, refused>>, closed => closed', resolved \subseteq resolved',
         ~closed /\ Restoring => Restoring', clicked' \in {clicked, None} \cup resolved,
         \A t \in R!Threads : job'[t].stage = "call" =>
           job'[t] = job[t] \/ <<job'[t].at, job'[t].got[job'[t].at]>> \in resolved'
  PROVE  ParentsFirst' /\ R!Actionable' /\ OnItsWay'
<1>1. OnItsWay'
  BY DEF RefreshInv, OnItsWay
<1> QED BY <1>1, SameBranches

LEMMA RefreshInit == R!Init => RefreshInv
<1> SUFFICES ASSUME R!Init PROVE RefreshInv
  OBVIOUS
<1>0. Docker \in R!Nodes /\ NodeGroups \subseteq R!Nodes /\ 0 \notin R!Calls
  BY RefreshConstants DEF R!Nodes, R!Calls
<1>1. /\ left \in [open : SUBSET NodeGroups, observes : Nat, changes : Nat, streams : 0..MaxStreams,
                   failures : Nat, sheds : Nat, actions : Nat, ends : Nat]
      /\ 1 + left.observes + left.failures + left.sheds <= MaxObserves
  BY ConstantsAssumption DEF ConstantsAssumption, R!BudgetsAssumption, R!Init
<1>2. expanded \subseteq R!Nodes /\ sent = <<expanded>> /\ sent \in Seq(SUBSET R!Nodes) /\ Len(sent) = 1
  BY <1>0, <1>1 DEF R!Init
<1>3. DaemonTypes /\ StreamTypes /\ BudgetTypes
  <2>1. call = 0 /\ call + left.streams <= MaxStreams
    <3>1. call = 0 /\ left.streams \in Nat /\ left.streams <= MaxStreams
      BY <1>1, RefreshConstants DEF R!Init
    <3> QED BY <3>1, RefreshConstants
  <2>2. feed \in Seq(NodeGroups \X Nat) /\ now \in [NodeGroups -> Nat] /\ told \in [NodeGroups -> Nat]
    BY DEF R!Init
  <2>3. call \in 0..MaxStreams
    BY <2>1, RefreshConstants
  <2>4. StreamTypes
    BY DEF R!Init, StreamTypes
  <2> QED BY <1>1, <2>1, <2>2, <2>3, <2>4 DEF DaemonTypes, BudgetTypes
<1>4. /\ \A t \in R!Threads : phase[t] = "idle" /\ job[t] = R!NoJob
      /\ phase \in [R!Threads -> {"idle", "begin", "refresh", "done"}] /\ job \in [R!Threads -> Jobs]
  BY NoJobType DEF R!Init
<1>5. RunTypes
  BY <1>4, NoJobType DEF RunTypes
<1>6. BurstTypes
  <2>1. \A i \in R!Flushes : phase[R!Flush(i)] = "idle"
    BY <1>4, Goroutines
  <2> QED BY <2>1 DEF R!Init, BurstTypes
<1>7. HostTypes /\ FieldTypes /\ AskedTypes
  BY <1>0, <1>2, RefreshConstants DEF R!Init, HostTypes, FieldTypes, AskedTypes, R!Snapshots
<1>8. ToldIsPast
  BY DEF R!Init, ToldIsPast
<1>9. ObservesCounted
  <2>1. Owed = {}
    BY <1>0, <1>4, NoJobType, RefreshConstants DEF Owed
  <2>2. Cardinality(Owed) = 0
    BY <2>1, FS_EmptySet
  <2> QED BY <1>1, <1>2, <1>4, <2>2, Goroutines DEF ObservesCounted, Promised, R!Init
<1>10. ParentsFirst
  <2>1. \A n \in R!Nodes : tree[n] = None
    BY DEF R!Init
  <2>2. Restoring
    <3>1. phase[R!Observer(1)] = "idle"
      <4>1. MaxObserves >= 1
        BY <1>1, RefreshConstants
      <4>2. 1 \in R!Observes
        BY <4>1, RefreshConstants DEF R!Observes
      <4> QED BY <1>4, <4>2, Goroutines
    <3> QED BY <1>0, <1>2, <1>4, <2>1, <3>1 DEF Restoring, R!Init
  <2> QED BY <1>0, <2>1, <2>2, RefreshConstants DEF ParentsFirst
<1>11. R!Actionable /\ R!EventKept /\ R!FilledOrComing
  BY <1>0 DEF R!Init, R!Actionable, R!EventKept, R!FilledOrComing
<1>12. OnItsWay
  BY <1>4, NoJobType DEF OnItsWay
<1> QED BY <1>3, <1>5, <1>6, <1>7, <1>8, <1>9, <1>10, <1>11, <1>12 DEF RefreshInv, RefreshTypes

\* The observes stay counted while none is sent and no failure is left over.
LEMMA CountKept ==
  ASSUME RefreshInv, RunTypes', UNCHANGED sent, closed => closed',
         left'.observes \in Nat, left'.failures \in Nat, left'.sheds \in Nat,
         left'.observes <= left.observes, left'.failures <= left.failures, left'.sheds <= left.sheds,
         \A t \in R!Threads : job'[t].at = Docker /\ job'[t].got = Error => job[t].at = Docker /\ job[t].got = Error,
         \A k \in R!Observes : k > Len(sent) /\ phase[R!Observer(k)] = "idle" => phase'[R!Observer(k)] = "idle"
  PROVE  ObservesCounted'
<1>1. Cardinality(Owed') \in Nat /\ Cardinality(Owed') <= Cardinality(Owed) /\ Cardinality(Owed) \in Nat
  BY NoMoreOwed DEF RefreshInv, RefreshTypes
<1>2. left.observes \in Nat /\ left.failures \in Nat /\ left.sheds \in Nat /\ Len(sent) \in Nat
  BY DEF RefreshInv, RefreshTypes, BudgetTypes, HostTypes
<1>3. \A k \in R!Observes : k > Len(sent') => phase'[R!Observer(k)] = "idle"
  BY DEF RefreshInv, ObservesCounted
<1>4. Promised' \in Nat /\ Promised' <= Promised /\ Promised \in Nat
  BY PromisedType, PromisedKept DEF RefreshInv, RefreshTypes
<1>5. ~closed' => Len(sent') + Promised' + Cardinality(Owed') <= MaxObserves
  BY <1>1, <1>2, <1>4, RefreshConstants DEF RefreshInv, ObservesCounted
<1> QED BY <1>3, <1>5 DEF ObservesCounted

\* The environment moves: nobody's refresh does, nor what is observed.
LEMMA NobodyRuns ==
  ASSUME RefreshInv, UNCHANGED <<phase, job, observed, told, asked, resolved, watching, pending, timer, fired, refused>>,
         closed => closed', RefreshTypes', Len(sent) <= Len(sent')
  PROVE  /\ RunTypes' /\ BurstTypes' /\ FieldTypes' /\ R!EventKept'
         /\ UNCHANGED <<expanded, tree>> => R!FilledOrComing'
         /\ ~closed /\ R!ObserveToCome => R!ObserveToCome'
<1>1. Len(sent') \in Nat
  BY DEF RefreshTypes, HostTypes
<1>2. ~closed => (R!ObserveToCome => R!ObserveToCome')
  BY <1>1, StillToCome DEF RefreshInv
<1>3. R!EventKept'
  BY <1>2 DEF RefreshInv, R!EventKept, R!FlushToCome, R!ToList
<1>4. UNCHANGED <<expanded, tree>> => R!FilledOrComing'
  BY <1>2 DEF RefreshInv, R!FilledOrComing
<1> QED BY <1>2, <1>3, <1>4 DEF RefreshTypes

LEMMA ExpandStep == ASSUME RefreshInv, NEW set \in SUBSET R!Nodes, R!Expand(set) PROVE RefreshInv'
<1>1. /\ left.observes > 0 /\ left' = [left EXCEPT !.observes = @ - 1]
      /\ expanded' = set /\ sent' = Append(sent, set)
      /\ tree' = [b \in R!Nodes |-> IF b \in set THEN tree[b] ELSE None]
      /\ UNCHANGED <<now, feed, call, up, pending, timer, fired, watching, observed, resolved, closed,
                     phase, job, told, asked, clicked, refused>>
      /\ set # {} => Docker \in set
      /\ tree[Docker] \in {None, Error} => set \subseteq {Docker}
  BY DEF R!Expand, R!daemon, R!burst, R!fields, R!run, R!history
<1>2. BudgetTypes'
  BY <1>1 DEF RefreshInv, RefreshTypes, BudgetTypes
<1>3. HostTypes' /\ Len(sent') = Len(sent) + 1 /\ Len(sent) \in Nat
  BY <1>1, RefreshConstants DEF RefreshInv, RefreshTypes, HostTypes, R!Snapshots
<1>4. RefreshTypes'
  BY <1>1, <1>2, <1>3 DEF RefreshInv, RefreshTypes, DaemonTypes, StreamTypes, BurstTypes, FieldTypes, RunTypes, AskedTypes
<1>5. ToldIsPast'
  BY <1>1 DEF RefreshInv, ToldIsPast
<1>6. ObservesCounted' /\ (~closed => Len(sent) + 1 <= MaxObserves)
  <2>1. Cardinality(Owed) \in Nat /\ Owed' = Owed
    BY <1>1, FiniteOwed DEF RefreshInv, RefreshTypes, Owed
  <2>2. /\ left.observes \in Nat /\ left'.observes = left.observes - 1 /\ left'.failures = left.failures /\ left.failures \in Nat
        /\ left'.sheds = left.sheds /\ left.sheds \in Nat
    BY <1>1 DEF RefreshInv, RefreshTypes, BudgetTypes
  <2>p. Promised' = Promised - 1 /\ Promised' \in Nat /\ Promised \in Nat
    <3>1. Promised' \in Nat /\ Promised \in Nat
      BY <1>2, PromisedType DEF RefreshInv, RefreshTypes, BudgetTypes, Promised
    <3>2. Promised' = Promised - 1
      BY <2>2 DEF Promised
    <3> QED BY <3>1, <3>2
  <2>3. ~closed => Len(sent') + Promised' + Cardinality(Owed') <= MaxObserves
    BY <1>1, <1>3, <2>1, <2>p, RefreshConstants DEF RefreshInv, ObservesCounted
  <2>4. \A k \in R!Observes : k > Len(sent') => phase'[R!Observer(k)] = "idle"
    BY <1>1, <1>3 DEF RefreshInv, ObservesCounted, R!Observes
  <2>5. ~closed => Len(sent) + 1 <= MaxObserves
    BY <1>1, <1>3, <2>1, <2>p, RefreshConstants DEF RefreshInv, ObservesCounted
  <2> QED BY <1>1, <2>3, <2>4, <2>5 DEF ObservesCounted
<1>7. Docker \in R!Nodes /\ NodeGroups \subseteq R!Nodes /\ Docker \notin NodeGroups
  BY RefreshConstants DEF R!Nodes
<1>8. ParentsFirst'
  <2>1. tree'[Docker] \in {None, Error} => set \subseteq {Docker}
    BY <1>1, <1>7
  <2>2. tree'[Docker] \in {None, Error} => ~GroupsOpen'
    BY <1>1, <1>7, <2>1 DEF GroupsOpen
  <2> QED BY <2>2 DEF ParentsFirst
<1>9. R!Actionable' /\ OnItsWay'
  BY <1>1, <1>7 DEF RefreshInv, R!Actionable, OnItsWay
<1>10. R!EventKept'
  BY <1>1, <1>3, <1>4, NobodyRuns
<1>11. R!FilledOrComing'
  <2>1. ~closed => R!ObserveToCome'
    <3> DEFINE k == Len(sent) + 1
    <3>1. ~closed => k \in R!Observes /\ k \in 1..Len(sent') /\ k > Len(sent)
      BY <1>3, <1>6, RefreshConstants DEF R!Observes
    <3>2. ~closed => phase'[R!Observer(k)] = "idle"
      BY <1>1, <3>1 DEF RefreshInv, ObservesCounted
    <3> QED BY <3>1, <3>2 DEF R!ObserveToCome
  <2> QED BY <1>1, <2>1 DEF R!FilledOrComing
<1> QED BY <1>4, <1>5, <1>6, <1>8, <1>9, <1>10, <1>11 DEF RefreshInv

\* A group changes at the daemon.
LEMMA ChangeFacts ==
  ASSUME RefreshInv, NEW g \in NodeGroups, R!Changes(g)
  PROVE  /\ now' \in [NodeGroups -> Nat] /\ feed' \in Seq(NodeGroups \X Nat)
         /\ ~up => feed' = feed /\ UNCHANGED <<call, up>>
         /\ UNCHANGED <<call, up>>
         /\ UNCHANGED told => ToldIsPast'
<1>0. now \in [NodeGroups -> Nat] /\ feed \in Seq(NodeGroups \X Nat) /\ now' = [now EXCEPT ![g] = @ + 1]
      /\ feed' = (IF up THEN Append(feed, <<g, now[g] + 1>>) ELSE feed) /\ UNCHANGED <<call, up>>
  BY DEF RefreshInv, RefreshTypes, DaemonTypes, R!Changes
<1>1. /\ now' \in [NodeGroups -> Nat] /\ now'[g] = now[g] + 1
      /\ \A h \in NodeGroups : now[h] <= now'[h] /\ now'[h] \in Nat
  BY <1>0
<1>2. feed' \in Seq(NodeGroups \X Nat)
  <2>1. <<g, now[g] + 1>> \in NodeGroups \X Nat
    BY <1>0
  <2>2. feed' = Append(feed, <<g, now[g] + 1>>) \/ feed' = feed
    BY <1>0
  <2> QED BY <1>0, <2>1, <2>2
<1>3. ASSUME NEW i \in DOMAIN feed' PROVE feed'[i][2] <= now'[feed'[i][1]]
  <2>1. CASE i \in DOMAIN feed /\ feed'[i] = feed[i]
    <3>1. feed[i][1] \in NodeGroups /\ feed[i][2] \in Nat /\ feed[i][2] <= now[feed[i][1]]
      BY <1>0, <2>1 DEF RefreshInv, ToldIsPast
    <3> QED BY <1>0, <1>1, <2>1, <3>1
  <2>2. CASE feed'[i] = <<g, now[g] + 1>>
    BY <1>1, <2>2
  <2> QED BY <1>0, <1>3, <2>1, <2>2
<1>4. UNCHANGED told => \A h \in NodeGroups : told'[h] <= now'[h]
  BY <1>0, <1>1 DEF RefreshInv, ToldIsPast, RefreshTypes, DaemonTypes
<1> QED BY <1>0, <1>1, <1>2, <1>3, <1>4 DEF ToldIsPast

LEMMA DaemonChangesStep == ASSUME RefreshInv, NEW g \in NodeGroups, R!DaemonChanges(g) PROVE RefreshInv'
<1>1. /\ left.changes > 0 /\ left' = [left EXCEPT !.changes = @ - 1] /\ R!Changes(g)
      /\ UNCHANGED <<pending, timer, fired, expanded, tree, sent, watching, observed, resolved, closed,
                     phase, job, told, asked, clicked, refused>>
  BY DEF R!DaemonChanges, R!burst, R!host, R!fields, R!run, R!history
<1>2. DaemonTypes' /\ StreamTypes' /\ UNCHANGED up
  BY <1>1, ChangeFacts DEF RefreshInv, RefreshTypes, DaemonTypes, StreamTypes
<1>3. RefreshTypes' /\ left'.observes = left.observes /\ left'.failures = left.failures /\ left'.sheds = left.sheds
  <2>1. BudgetTypes' /\ left'.observes = left.observes /\ left'.failures = left.failures /\ left'.sheds = left.sheds
    <3>1. UNCHANGED call
      BY <1>1, ChangeFacts
    <3> QED BY <1>1, <3>1 DEF RefreshInv, RefreshTypes, BudgetTypes
  <2> QED BY <1>1, <1>2, <2>1 DEF RefreshInv, RefreshTypes, HostTypes, BurstTypes, FieldTypes, RunTypes, AskedTypes
<1>4. ToldIsPast'
  BY <1>1, ChangeFacts
<1>5. ObservesCounted'
  BY <1>1, <1>3 DEF RefreshInv, ObservesCounted, Promised, Owed
<1>6. ParentsFirst' /\ R!Actionable' /\ OnItsWay'
  BY <1>1, <1>2, SameTree DEF Restoring
<1>7. R!EventKept' /\ R!FilledOrComing'
  BY <1>1, <1>3, NobodyRuns DEF RefreshTypes, HostTypes
<1> QED BY <1>3, <1>4, <1>5, <1>6, <1>7 DEF RefreshInv

LEMMA EndStep == ASSUME RefreshInv, R!End PROVE RefreshInv'
<1>1. /\ left.ends > 0 /\ left' = [left EXCEPT !.ends = @ - 1] /\ closed' = TRUE
      /\ UNCHANGED <<now, feed, call, up, pending, timer, fired, expanded, tree, sent, watching, observed, resolved,
                     phase, job, told, asked, clicked, refused>>
  BY DEF R!End, R!daemon, R!burst, R!host, R!run, R!history
<1>2. BudgetTypes'
  BY <1>1 DEF RefreshInv, RefreshTypes, BudgetTypes
<1>3. RefreshTypes'
  BY <1>1, <1>2 DEF RefreshInv, RefreshTypes, DaemonTypes, StreamTypes, HostTypes, BurstTypes, FieldTypes, RunTypes, AskedTypes
<1>4. ToldIsPast' /\ ObservesCounted'
  BY <1>1 DEF RefreshInv, ToldIsPast, ObservesCounted, Promised
<1>5. ParentsFirst' /\ R!Actionable' /\ OnItsWay'
  BY <1>1 DEF RefreshInv, ParentsFirst, GroupsOpen, R!Actionable, OnItsWay
<1> QED BY <1>1, <1>3, <1>4, <1>5 DEF RefreshInv, R!EventKept, R!FilledOrComing

LEMMA OpenStreamStep == ASSUME RefreshInv, R!OpenStream PROVE RefreshInv'
<1>1. /\ left.streams > 0 /\ left' = [left EXCEPT !.streams = @ - 1] /\ call' = call + 1 /\ up' = TRUE /\ watching
      /\ UNCHANGED <<now, feed, pending, timer, fired, expanded, tree, sent, watching, observed, resolved, closed,
                     phase, job, told, asked, clicked, refused>>
  BY DEF R!OpenStream, R!burst, R!host, R!fields, R!run, R!history
<1>2. /\ left.streams \in 0..MaxStreams /\ call \in 0..MaxStreams /\ call + left.streams <= MaxStreams
      /\ left'.streams = left.streams - 1 /\ left'.observes = left.observes /\ left'.failures = left.failures /\ left'.sheds = left.sheds
  BY <1>1 DEF RefreshInv, RefreshTypes, DaemonTypes, BudgetTypes
<1>a. call' \in 0..MaxStreams /\ call' # 0 /\ call' + left'.streams <= MaxStreams /\ left'.streams \in 0..MaxStreams
  BY <1>1, <1>2, RefreshConstants
<1>b. DaemonTypes' /\ BudgetTypes'
  BY <1>1, <1>a DEF RefreshInv, RefreshTypes, DaemonTypes, BudgetTypes
<1>c. StreamTypes'
  BY <1>1, <1>a DEF StreamTypes
<1>3. RefreshTypes' /\ left'.observes = left.observes /\ left'.failures = left.failures /\ left'.sheds = left.sheds
  BY <1>1, <1>2, <1>b, <1>c DEF RefreshInv, RefreshTypes, HostTypes, BurstTypes, FieldTypes, RunTypes, AskedTypes
<1>4. ToldIsPast'
  BY <1>1 DEF RefreshInv, ToldIsPast
<1>5. ObservesCounted'
  BY <1>1, <1>3 DEF RefreshInv, ObservesCounted, Promised, Owed
<1>6. ParentsFirst' /\ R!Actionable' /\ OnItsWay'
  BY <1>1, SameTree DEF Restoring
<1>7. R!EventKept' /\ R!FilledOrComing'
  BY <1>1, <1>3, NobodyRuns DEF RefreshTypes, HostTypes
<1> QED BY <1>3, <1>4, <1>5, <1>6, <1>7 DEF RefreshInv

LEMMA StreamEndsStep == ASSUME RefreshInv, R!StreamEnds PROVE RefreshInv'
<1>1. /\ up' = FALSE /\ feed' = <<>>
      /\ UNCHANGED <<now, call, pending, timer, fired, expanded, tree, sent, watching, observed, resolved, closed,
                     phase, job, told, asked, left, clicked, refused>>
  BY DEF R!StreamEnds, R!burst, R!host, R!fields, R!run, R!history
<1>2. DaemonTypes'
  BY <1>1 DEF RefreshInv, RefreshTypes, DaemonTypes
<1>a. StreamTypes'
  BY <1>1 DEF StreamTypes
<1>3. RefreshTypes'
  BY <1>1, <1>2, <1>a DEF RefreshInv, RefreshTypes, BudgetTypes, HostTypes, BurstTypes, FieldTypes, RunTypes, AskedTypes
<1>4. ToldIsPast'
  BY <1>1 DEF RefreshInv, ToldIsPast
<1>5. ObservesCounted'
  BY <1>1 DEF RefreshInv, ObservesCounted, Promised, Owed
<1>6. ParentsFirst' /\ R!Actionable' /\ OnItsWay'
  BY <1>1, SameTree DEF Restoring
<1>7. R!EventKept' /\ R!FilledOrComing'
  BY <1>1, <1>3, NobodyRuns DEF RefreshTypes, HostTypes
<1> QED BY <1>3, <1>4, <1>5, <1>6, <1>7 DEF RefreshInv

LEMMA DecodeStep == ASSUME RefreshInv, R!Decode PROVE RefreshInv'
<1> DEFINE g == Head(feed)[1]
           v == Head(feed)[2]
<1>1. /\ feed # <<>> /\ feed' = Tail(feed) /\ told' = [told EXCEPT ![g] = v]
      /\ pending' = [pending EXCEPT ![call] = @ \cup {g}]
      /\ timer' = [timer EXCEPT ![call] = IF @ = "none" THEN "armed" ELSE @]
      /\ UNCHANGED <<now, call, up, fired, expanded, tree, sent, watching, observed, resolved, closed,
                     phase, job, asked, left, clicked, refused>>
  BY DEF R!Decode, R!host, R!fields, R!run, R!history
<1>u. up
  BY DEF R!Decode
<1>c. call \in R!Calls
  <2>1. call # 0 /\ call \in 0..MaxStreams
    BY <1>u DEF RefreshInv, RefreshTypes, DaemonTypes, StreamTypes
  <2> QED BY <2>1, RefreshConstants DEF R!Calls
<1>2. /\ feed \in Seq(NodeGroups \X Nat) /\ Head(feed) \in NodeGroups \X Nat /\ Head(feed) = feed[1] /\ 1 \in DOMAIN feed
      /\ feed' \in Seq(NodeGroups \X Nat)
      /\ \A i \in DOMAIN feed' : i + 1 \in DOMAIN feed /\ feed'[i] = feed[i + 1]
  BY <1>1 DEF RefreshInv, RefreshTypes, DaemonTypes
<1>3. g \in NodeGroups /\ v \in Nat /\ v <= now[g]
  BY <1>2 DEF RefreshInv, ToldIsPast
<1> HIDE DEF g, v
<1>4. DaemonTypes'
  BY <1>1, <1>2, <1>3 DEF RefreshInv, RefreshTypes, DaemonTypes
<1>5. /\ pending' \in [R!Calls -> SUBSET NodeGroups] /\ timer' \in [R!Calls -> {"none", "armed"}]
      /\ g \in pending'[call] /\ timer'[call] = "armed"
      /\ \A c \in R!Calls : pending[c] \subseteq pending'[c] /\ (timer[c] = "armed" => timer'[c] = "armed")
  BY <1>1, <1>c, <1>3 DEF RefreshInv, RefreshTypes, BurstTypes
<1>6. BurstTypes'
  BY <1>1, <1>5 DEF RefreshInv, RefreshTypes, BurstTypes
<1>7. RefreshTypes'
  BY <1>1, <1>4, <1>6 DEF RefreshInv, RefreshTypes, StreamTypes, BudgetTypes, HostTypes, FieldTypes, RunTypes, AskedTypes
<1>8. ToldIsPast'
  <2>1. \A h \in NodeGroups : told'[h] <= now'[h]
    BY <1>1, <1>3 DEF RefreshInv, RefreshTypes, DaemonTypes, ToldIsPast
  <2>2. \A i \in DOMAIN feed' : feed'[i][2] <= now'[feed'[i][1]]
    BY <1>1, <1>2 DEF RefreshInv, ToldIsPast
  <2> QED BY <2>1, <2>2 DEF ToldIsPast
<1>9. ObservesCounted'
  BY <1>1 DEF RefreshInv, ObservesCounted, Promised, Owed
<1>10. ParentsFirst' /\ R!Actionable' /\ OnItsWay'
  BY <1>1, <1>u, SameTree DEF Restoring
<1>11. ~closed => /\ R!ObserveToCome => R!ObserveToCome'
                  /\ \A h : R!FlushToCome(h) => R!FlushToCome(h)'
  BY <1>1, <1>5, StillToCome DEF RefreshInv, RefreshTypes, HostTypes
<1>12. R!EventKept'
  <2> SUFFICES ASSUME ~closed', NEW h \in NodeGroups, NEW b \in {h, Docker} \cap observed'
               PROVE  \/ asked'[b][h] >= told'[h] \/ R!ObserveToCome' \/ R!FlushToCome(h)'
                      \/ \E t \in R!Threads : R!ToList(t, b, h)'
    BY DEF R!EventKept
  <2>1. CASE h = g
    BY <1>c, <1>5, <2>1 DEF R!FlushToCome
  <2>2. CASE h # g
    <3>1. told'[h] = told[h]
      BY <1>1, <2>2 DEF RefreshInv, RefreshTypes, DaemonTypes
    <3> QED BY <1>1, <1>11, <3>1 DEF RefreshInv, R!EventKept, R!ToList
  <2> QED BY <2>1, <2>2
<1>13. R!FilledOrComing'
  BY <1>1, <1>11 DEF RefreshInv, R!FilledOrComing
<1> QED BY <1>7, <1>8, <1>9, <1>10, <1>12, <1>13 DEF RefreshInv

\* Where goroutine t goes, the burst and what the others do stay.
LEMMA FireStep == ASSUME RefreshInv, NEW i \in R!Flushes, NEW c \in R!Calls, R!Fire(c, i) PROVE RefreshInv'
<1> DEFINE t == R!Flush(i)
<1>1. /\ timer[c] = "armed" /\ timer' = [timer EXCEPT ![c] = "none"] /\ phase[t] = "idle" /\ R!Goto(t, "begin")
      /\ fired' = [fired EXCEPT ![i] = c]
      /\ UNCHANGED <<now, feed, call, up, pending, expanded, tree, sent, watching, observed, resolved, closed,
                     job, told, asked, left, clicked, refused>>
  BY DEF R!Fire, R!Cleared, R!daemon, R!host, R!fields, R!history
<1>2. t \in R!Threads /\ t[1] = "flush" /\ (\A j \in R!Flushes : R!Flush(j) \in R!Threads /\ (R!Flush(j) = t => j = i))
  BY Goroutines
<1>3. phase'[t] = "begin" /\ \A u \in R!Threads : u # t => phase'[u] = phase[u]
  BY <1>1, <1>2, GotoFacts DEF RefreshInv, RefreshTypes
<1>4. RunTypes'
  BY <1>1, <1>2, GoesTo DEF RefreshInv, RefreshTypes
<1>5. /\ timer' \in [R!Calls -> {"none", "armed"}] /\ fired' \in [R!Flushes -> {0} \cup R!Calls] /\ fired'[i] = c /\ c # 0
      /\ \A j \in R!Flushes : j # i => fired'[j] = fired[j]
      /\ \A d \in R!Calls : d # c => timer'[d] = timer[d]
  BY <1>1 DEF RefreshInv, RefreshTypes, BurstTypes, R!Calls
<1>6. BurstTypes'
  BY <1>1, <1>2, <1>3, <1>5 DEF RefreshInv, RefreshTypes, BurstTypes
<1>7. RefreshTypes'
  BY <1>1, <1>4, <1>6 DEF RefreshInv, RefreshTypes, DaemonTypes, StreamTypes, BudgetTypes, HostTypes, FieldTypes, AskedTypes
<1>8. ToldIsPast'
  BY <1>1 DEF RefreshInv, ToldIsPast
<1>9. ObservesCounted'
  <2>1. \A k \in R!Observes : R!Observer(k) \in R!Threads /\ R!Observer(k) # t
    BY <1>2, Goroutines
  <2>2. left'.observes \in Nat /\ left'.failures \in Nat /\ left'.sheds \in Nat
    BY <1>1 DEF RefreshInv, RefreshTypes, BudgetTypes
  <2>3. left'.observes <= left.observes /\ left'.failures <= left.failures /\ left'.sheds <= left.sheds
    BY <1>1, <2>2
  <2> HIDE DEF t
  <2> QED BY <1>1, <1>3, <1>4, <2>1, <2>2, <2>3, CountKept
<1>10. ParentsFirst' /\ R!Actionable' /\ OnItsWay'
  <2>1. ~Restoring
    BY <1>1 DEF Restoring
  <2> QED BY <1>1, <2>1, SameTree
<1>11. ~closed => (R!ObserveToCome => R!ObserveToCome')
  <2>1. \A u \in R!Threads : /\ phase[u] = "begin" => phase'[u] = "begin"
                             /\ phase[u] = "idle" /\ u[1] = "observe" => phase'[u] \in {"idle", "begin"}
    BY <1>1, <1>2, <1>3
  <2>2. Len(sent') \in Nat /\ Len(sent) <= Len(sent')
    BY <1>1 DEF RefreshInv, RefreshTypes, HostTypes
  <2> QED BY <2>1, <2>2, StillToCome DEF RefreshInv
<1>12. \A h : R!FlushToCome(h) => R!FlushToCome(h)'
  <2> SUFFICES ASSUME NEW h, NEW d \in R!Calls, h \in pending[d],
                      timer[d] = "armed" \/ \E j \in R!Flushes : phase[R!Flush(j)] = "begin" /\ fired[j] = d
               PROVE  timer'[d] = "armed" \/ \E j \in R!Flushes : phase'[R!Flush(j)] = "begin" /\ fired'[j] = d
    BY <1>1 DEF R!FlushToCome
  <2>1. CASE d = c
    BY <1>3, <1>5, <2>1
  <2>2. CASE d # c /\ timer[d] = "armed"
    BY <1>5, <2>2
  <2>3. ASSUME NEW j \in R!Flushes, phase[R!Flush(j)] = "begin", fired[j] = d
        PROVE  phase'[R!Flush(j)] = "begin" /\ fired'[j] = d
    BY <1>1, <1>2, <1>3, <1>5, <2>3
  <2> QED BY <2>1, <2>2, <2>3
<1>13. R!EventKept'
  BY <1>1, <1>11, <1>12 DEF RefreshInv, R!EventKept, R!ToList
<1>14. R!FilledOrComing'
  BY <1>1, <1>11 DEF RefreshInv, R!FilledOrComing
<1> QED BY <1>7, <1>8, <1>9, <1>10, <1>13, <1>14 DEF RefreshInv

\* A goroutine waits to begin a refresh of all that is observed.
LEMMA WaitsToBegin ==
  ASSUME RefreshTypes', NEW t \in R!Threads, phase'[t] = "begin", t[1] # "flush"
  PROVE  R!EventKept' /\ R!FilledOrComing'
<1>1. R!ObserveToCome'
  BY DEF R!ObserveToCome
<1> QED BY <1>1 DEF R!EventKept, R!FilledOrComing

LEMMA ObserveStep == ASSUME RefreshInv, NEW k \in R!Observes, R!Observe(k) PROVE RefreshInv'
<1> DEFINE t == R!Observer(k)
<1>1. /\ k <= Len(sent) /\ phase[t] = "idle" /\ R!Goto(t, "begin") /\ observed' = sent[k]
      /\ UNCHANGED <<now, feed, call, up, pending, timer, fired, expanded, tree, sent, watching, resolved, closed,
                     job, told, asked, left, clicked, refused>>
  BY DEF R!Observe, R!daemon, R!burst, R!host, R!history
<1>2. t \in R!Threads /\ t[1] = "observe" /\ t[2] = k
  BY Goroutines
<1>3. phase'[t] = "begin" /\ \A u \in R!Threads : u # t => phase'[u] = phase[u]
  BY <1>1, <1>2, GotoFacts DEF RefreshInv, RefreshTypes
<1>4. RunTypes'
  BY <1>1, <1>2, GoesTo DEF RefreshInv, RefreshTypes
<1>5. BurstTypes'
  <2>1. \A i \in R!Flushes : phase'[R!Flush(i)] = phase[R!Flush(i)]
    BY <1>2, <1>3, Goroutines
  <2> QED BY <1>1, <2>1 DEF RefreshInv, RefreshTypes, BurstTypes
<1>6. Len(sent) \in Nat /\ k \in 1..Len(sent) /\ observed' \subseteq R!Nodes
  BY <1>1 DEF RefreshInv, RefreshTypes, HostTypes, R!Observes
<1>7. RefreshTypes'
  BY <1>1, <1>4, <1>5, <1>6 DEF RefreshInv, RefreshTypes, DaemonTypes, StreamTypes, BudgetTypes, HostTypes, FieldTypes, AskedTypes
<1>8. ToldIsPast'
  BY <1>1 DEF RefreshInv, ToldIsPast
<1>9. ObservesCounted'
  <2>1. \A l \in R!Observes : l > Len(sent) => R!Observer(l) \in R!Threads /\ R!Observer(l) # t
    BY <1>2, <1>6, Goroutines
  <2>2. left'.observes \in Nat /\ left'.failures \in Nat /\ left'.sheds \in Nat
    BY <1>1 DEF RefreshInv, RefreshTypes, BudgetTypes
  <2>3. left'.observes <= left.observes /\ left'.failures <= left.failures /\ left'.sheds <= left.sheds
    BY <1>1, <2>2
  <2> HIDE DEF t
  <2> QED BY <1>1, <1>3, <1>4, <2>1, <2>2, <2>3, CountKept
<1>10. ParentsFirst' /\ R!Actionable' /\ OnItsWay'
  <2>1. ASSUME Restoring PROVE Restoring'
    <3>1. k = 1 /\ observed' = expanded
      BY <1>1, <1>6, <2>1 DEF Restoring
    <3> HIDE DEF t
    <3>2. t = R!Observer(1)
      BY <3>1 DEF t
    <3> QED BY <1>1, <1>3, <2>1, <3>1, <3>2 DEF Restoring
  <2> QED BY <1>1, <2>1, SameTree
<1> HIDE DEF t
<1> QED BY <1>2, <1>3, <1>7, <1>8, <1>9, <1>10, WaitsToBegin DEF RefreshInv

LEMMA ClickStep == ASSUME RefreshInv, NEW g \in NodeGroups, R!Click(g) PROVE RefreshInv'
<1>1. /\ left' = [left EXCEPT !.actions = @ - 1] /\ left.actions > 0
      /\ clicked' = <<g, tree[g][g]>> /\ tree[g] \notin {None, Error}
      /\ UNCHANGED <<now, feed, call, up, pending, timer, fired, expanded, tree, sent, watching, observed, resolved,
                     closed, phase, job, told, asked, refused>>
  BY DEF R!Click, R!daemon, R!burst, R!fields, R!run, R!history
<1>2. BudgetTypes' /\ left'.observes = left.observes /\ left'.failures = left.failures /\ left'.sheds = left.sheds
  BY <1>1 DEF RefreshInv, RefreshTypes, BudgetTypes
<1>3. RefreshTypes'
  BY <1>1, <1>2 DEF RefreshInv, RefreshTypes, DaemonTypes, StreamTypes, HostTypes, BurstTypes, FieldTypes, RunTypes, AskedTypes
<1>4. ToldIsPast'
  BY <1>1 DEF RefreshInv, ToldIsPast
<1>5. ObservesCounted'
  BY <1>1, <1>2 DEF RefreshInv, ObservesCounted, Promised, Owed
<1>6. clicked' \in resolved
  BY <1>1 DEF RefreshInv, R!Actionable
<1>7. ParentsFirst' /\ R!Actionable' /\ OnItsWay'
  <2>1. ~Restoring
    BY <1>1 DEF Restoring
  <2> QED BY <1>1, <1>6, <2>1, SameTree
<1>8. R!EventKept' /\ R!FilledOrComing'
  BY <1>1, <1>3, NobodyRuns DEF RefreshTypes, HostTypes
<1> QED BY <1>3, <1>4, <1>5, <1>7, <1>8 DEF RefreshInv

\* The id of the row that was clicked is one that resolves, whatever came since.
LEMMA InvokeActionStep == ASSUME RefreshInv, R!InvokeAction PROVE RefreshInv'
<1> DEFINE t == R!Actor
           g == clicked[1]
<1>1. /\ clicked # None /\ clicked' = None /\ phase[t] = "idle"
      /\ UNCHANGED <<pending, timer, fired, expanded, tree, sent, watching, observed, resolved, closed,
                     job, told, asked, refused, left>>
  BY DEF R!InvokeAction, R!burst, R!fields, R!history
<1>r. clicked \in resolved /\ g \in NodeGroups
  BY <1>1 DEF RefreshInv, R!Actionable, RefreshTypes, FieldTypes
<1>g. R!Goto(t, "begin") /\ R!Changes(g)
  BY <1>r DEF R!InvokeAction
<1> HIDE DEF g
<1>2. t \in R!Threads /\ t[1] = "action"
  BY Goroutines
<1>3. phase'[t] = "begin" /\ \A u \in R!Threads : u # t => phase'[u] = phase[u]
  BY <1>g, <1>2, GotoFacts DEF RefreshInv, RefreshTypes
<1>4. RunTypes'
  BY <1>1, <1>g, <1>2, GoesTo DEF RefreshInv, RefreshTypes
<1>5. BurstTypes'
  <2>1. \A i \in R!Flushes : phase'[R!Flush(i)] = phase[R!Flush(i)]
    BY <1>2, <1>3, Goroutines
  <2> QED BY <1>1, <2>1 DEF RefreshInv, RefreshTypes, BurstTypes
<1>6. DaemonTypes' /\ StreamTypes' /\ UNCHANGED call
  BY <1>1, <1>r, <1>g, ChangeFacts DEF RefreshInv, RefreshTypes, DaemonTypes, StreamTypes
<1>7. BudgetTypes'
  BY <1>1, <1>6 DEF RefreshInv, RefreshTypes, BudgetTypes
<1>8. RefreshTypes'
  BY <1>1, <1>4, <1>5, <1>6, <1>7 DEF RefreshInv, RefreshTypes, HostTypes, FieldTypes, AskedTypes
<1>9. ToldIsPast'
  BY <1>1, <1>r, <1>g, ChangeFacts
<1>10. ObservesCounted'
  <2>1. \A k \in R!Observes : R!Observer(k) \in R!Threads /\ R!Observer(k) # t
    BY <1>2, Goroutines
  <2>2. left'.observes \in Nat /\ left'.failures \in Nat /\ left'.sheds \in Nat
    BY <1>8 DEF RefreshTypes, BudgetTypes
  <2>3. left'.observes <= left.observes /\ left'.failures <= left.failures /\ left'.sheds <= left.sheds
    BY <1>1, <2>2
  <2> HIDE DEF t
  <2> QED BY <1>1, <1>3, <1>4, <2>1, <2>2, <2>3, CountKept
<1>11. ParentsFirst' /\ R!Actionable' /\ OnItsWay'
  <2>1. ~Restoring
    BY <1>1 DEF Restoring
  <2> QED BY <1>1, <2>1, SameTree
<1> HIDE DEF t
<1> QED BY <1>2, <1>3, <1>8, <1>9, <1>10, <1>11, WaitsToBegin DEF RefreshInv

\* A goroutine begins a refresh of some branches.
LEMMA BeginFacts ==
  ASSUME RefreshInv, NEW t \in R!Threads, phase[t] # "refresh", NEW todo \in SUBSET R!Nodes, R!Begin(t, todo)
  PROVE  /\ RunTypes' /\ phase'[t] = "refresh" /\ job'[t].todo = todo /\ job'[t].at = None
         /\ \A u \in R!Threads : u # t => phase'[u] = phase[u] /\ job'[u] = job[u]
         /\ \A u \in R!Threads : job'[u].at = Docker /\ job'[u].got = Error => job[u].at = Docker /\ job[u].got = Error
         /\ \A u \in R!Threads : job'[u].stage = "call" => job'[u] = job[u]
         /\ \A u \in R!Threads : \A b \in R!Nodes :
              /\ b \in job[u].todo \/ job[u].at = b => b \in job'[u].todo \/ job'[u].at = b
              /\ \A g : R!ToList(u, b, g) => R!ToList(u, b, g)'
<1> DEFINE j == R!Branches(todo)
<1>1. j \in Jobs /\ JobFits(j) /\ StageFits(j) /\ j.stage = "list" /\ j.at = None /\ j.todo = todo
  BY NewJob
<1>2. R!Goto(t, "refresh") /\ job' = [job EXCEPT ![t] = j]
  BY DEF R!Begin
<1>3. job[t].at = None /\ job[t].todo = {}
  BY InRefresh DEF RefreshInv, RefreshTypes
<1>4. Docker # None /\ None \notin R!Nodes
  BY RefreshConstants DEF R!Nodes
<1> HIDE DEF j
<1>5. /\ RunTypes' /\ phase'[t] = "refresh" /\ job'[t] = j
      /\ \A u \in R!Threads : u # t => phase'[u] = phase[u] /\ job'[u] = job[u]
  BY <1>1, <1>2, RunTypesStep, GotoFacts, JobFacts DEF RefreshInv, RefreshTypes
<1> QED BY <1>1, <1>3, <1>4, <1>5 DEF R!ToList

LEMMA RefreshAllStep == ASSUME RefreshInv, NEW t \in R!Threads, R!RefreshAll(t) PROVE RefreshInv'
<1>1. /\ phase[t] = "begin" /\ t[1] # "flush" /\ R!Begin(t, observed)
      /\ UNCHANGED <<now, feed, call, up, pending, timer, fired, expanded, tree, sent, watching, observed, resolved,
                     closed, told, asked, left, clicked, refused>>
  BY DEF R!RefreshAll, R!daemon, R!burst, R!host, R!fields, R!history
<1>2. observed \in SUBSET R!Nodes
  BY DEF RefreshInv, RefreshTypes, FieldTypes
<1>3. /\ RunTypes' /\ phase'[t] = "refresh" /\ job'[t].todo = observed /\ job'[t].at = None
      /\ \A u \in R!Threads : u # t => phase'[u] = phase[u] /\ job'[u] = job[u]
      /\ \A u \in R!Threads : job'[u].at = Docker /\ job'[u].got = Error => job[u].at = Docker /\ job[u].got = Error
      /\ \A u \in R!Threads : job'[u].stage = "call" => job'[u] = job[u]
  BY <1>1, <1>2, BeginFacts
<1>4. BurstTypes'
  <2>1. \A i \in R!Flushes : phase'[R!Flush(i)] = phase[R!Flush(i)]
    BY <1>1, <1>3, Goroutines
  <2> QED BY <1>1, <2>1 DEF RefreshInv, RefreshTypes, BurstTypes
<1>5. RefreshTypes'
  BY <1>1, <1>3, <1>4 DEF RefreshInv, RefreshTypes, DaemonTypes, StreamTypes, BudgetTypes, HostTypes, FieldTypes, AskedTypes
<1>6. ToldIsPast'
  BY <1>1 DEF RefreshInv, ToldIsPast
<1>7. ObservesCounted'
  <2>1. \A k \in R!Observes : phase[R!Observer(k)] = "idle" => phase'[R!Observer(k)] = "idle"
    BY <1>1, <1>3, Goroutines
  <2>2. left'.observes \in Nat /\ left'.failures \in Nat /\ left'.sheds \in Nat
    BY <1>1 DEF RefreshInv, RefreshTypes, BudgetTypes
  <2>3. left'.observes <= left.observes /\ left'.failures <= left.failures /\ left'.sheds <= left.sheds
    BY <1>1, <2>2
  <2> QED BY <1>1, <1>3, <2>1, <2>2, <2>3, CountKept
<1>8. ParentsFirst' /\ R!Actionable' /\ OnItsWay'
  <2>1. ASSUME Restoring PROVE Restoring'
    <3>1. t = R!Observer(1)
      BY <1>1, <2>1 DEF Restoring
    <3>2. observed = expanded /\ Docker \in observed
      BY <1>1, <2>1, <3>1 DEF Restoring
    <3> QED BY <1>1, <1>3, <2>1, <3>1, <3>2 DEF Restoring
  <2>2. OnItsWay'
    BY <1>1, <1>3 DEF RefreshInv, OnItsWay
  <2> QED BY <1>1, <2>1, <2>2, SameBranches
<1>9. R!EventKept'
  BY <1>1, <1>3 DEF R!EventKept, R!ToList
<1>10. R!FilledOrComing'
  BY <1>1, <1>3 DEF R!FilledOrComing
<1> QED BY <1>5, <1>6, <1>7, <1>8, <1>9, <1>10 DEF RefreshInv

LEMMA TickStep == ASSUME RefreshInv, R!Tick PROVE RefreshInv'
<1> DEFINE t == R!Reconcile
<1>1. /\ phase[t] = "idle" /\ R!Begin(t, observed)
      /\ UNCHANGED <<now, feed, call, up, pending, timer, fired, expanded, tree, sent, watching, observed, resolved,
                     closed, told, asked, left, clicked, refused>>
  BY DEF R!Tick, R!Relisted, R!daemon, R!burst, R!host, R!fields, R!history
<1>w. watching
  BY DEF R!Tick
<1>2. observed \in SUBSET R!Nodes /\ t \in R!Threads /\ t[1] = "reconcile"
  BY Goroutines DEF RefreshInv, RefreshTypes, FieldTypes
<1> HIDE DEF t
<1>3. /\ RunTypes' /\ phase'[t] = "refresh"
      /\ \A u \in R!Threads : u # t => phase'[u] = phase[u] /\ job'[u] = job[u]
      /\ \A u \in R!Threads : job'[u].at = Docker /\ job'[u].got = Error => job[u].at = Docker /\ job[u].got = Error
      /\ \A u \in R!Threads : job'[u].stage = "call" => job'[u] = job[u]
      /\ \A u \in R!Threads : \A b \in R!Nodes :
           /\ b \in job[u].todo \/ job[u].at = b => b \in job'[u].todo \/ job'[u].at = b
           /\ \A g : R!ToList(u, b, g) => R!ToList(u, b, g)'
  BY <1>1, <1>2, BeginFacts
<1>4. BurstTypes'
  <2>1. \A i \in R!Flushes : phase'[R!Flush(i)] = phase[R!Flush(i)]
    BY <1>2, <1>3, Goroutines
  <2> QED BY <1>1, <2>1 DEF RefreshInv, RefreshTypes, BurstTypes
<1>5. RefreshTypes'
  BY <1>1, <1>3, <1>4 DEF RefreshInv, RefreshTypes, DaemonTypes, StreamTypes, BudgetTypes, HostTypes, FieldTypes, AskedTypes
<1>6. ToldIsPast'
  BY <1>1 DEF RefreshInv, ToldIsPast
<1>7. ObservesCounted'
  <2>1. \A k \in R!Observes : phase'[R!Observer(k)] = phase[R!Observer(k)]
    BY <1>2, <1>3, Goroutines
  <2>2. left'.observes \in Nat /\ left'.failures \in Nat /\ left'.sheds \in Nat
    BY <1>1 DEF RefreshInv, RefreshTypes, BudgetTypes
  <2>3. left'.observes <= left.observes /\ left'.failures <= left.failures /\ left'.sheds <= left.sheds
    BY <1>1, <2>2
  <2> QED BY <1>1, <1>3, <2>1, <2>2, <2>3, CountKept
<1>8. ParentsFirst' /\ R!Actionable' /\ OnItsWay'
  <2>1. ~Restoring
    BY <1>w DEF Restoring
  <2>2. OnItsWay'
    BY <1>1, <1>3 DEF RefreshInv, OnItsWay
  <2> QED BY <1>1, <2>1, <2>2, SameBranches
<1>9. ~closed => /\ R!ObserveToCome => R!ObserveToCome'
                 /\ \A g : R!FlushToCome(g) => R!FlushToCome(g)'
  <2>1. \A u \in R!Threads : /\ phase[u] = "begin" => phase'[u] = "begin"
                             /\ phase[u] = "idle" /\ u[1] = "observe" => phase'[u] \in {"idle", "begin"}
    BY <1>1, <1>2, <1>3
  <2>2. Len(sent') \in Nat /\ Len(sent) <= Len(sent')
    BY <1>1 DEF RefreshInv, RefreshTypes, HostTypes
  <2> QED BY <1>1, <2>1, <2>2, StillToCome DEF RefreshInv
<1>10. R!EventKept'
  BY <1>1, <1>2, <1>3, <1>9 DEF RefreshInv, R!EventKept
<1>11. R!FilledOrComing'
  BY <1>1, <1>2, <1>3, <1>9 DEF RefreshInv, R!FilledOrComing
<1> QED BY <1>5, <1>6, <1>7, <1>8, <1>10, <1>11 DEF RefreshInv

LEMMA BeginFlushStep == ASSUME RefreshInv, NEW i \in R!Flushes, R!BeginFlush(i) PROVE RefreshInv'
<1> DEFINE t == R!Flush(i)
           c == fired[i]
           todo == pending[c] \cup {Docker}
<1>1. /\ phase[t] = "begin" /\ R!Begin(t, todo) /\ pending' = [pending EXCEPT ![c] = {}] /\ fired' = [fired EXCEPT ![i] = 0]
      /\ UNCHANGED <<now, feed, call, up, timer, expanded, tree, sent, watching, observed, resolved,
                     closed, told, asked, left, clicked, refused>>
  BY DEF R!BeginFlush, R!Flushed, R!daemon, R!host, R!fields, R!history
<1>2. /\ t \in R!Threads /\ t[1] = "flush" /\ c \in R!Calls
      /\ \A j \in R!Flushes : R!Flush(j) \in R!Threads /\ (R!Flush(j) = t <=> j = i)
  BY <1>1, Goroutines DEF RefreshInv, RefreshTypes, BurstTypes
<1>3. todo \in SUBSET R!Nodes /\ Docker \in todo /\ NodeGroups \subseteq R!Nodes /\ Docker \in R!Nodes
  BY <1>2 DEF RefreshInv, RefreshTypes, BurstTypes, R!Nodes
<1> HIDE DEF t
<1>4. /\ RunTypes' /\ phase'[t] = "refresh" /\ job'[t].todo = todo
      /\ \A u \in R!Threads : u # t => phase'[u] = phase[u] /\ job'[u] = job[u]
      /\ \A u \in R!Threads : job'[u].at = Docker /\ job'[u].got = Error => job[u].at = Docker /\ job[u].got = Error
      /\ \A u \in R!Threads : job'[u].stage = "call" => job'[u] = job[u]
      /\ \A u \in R!Threads : \A b \in R!Nodes :
           /\ b \in job[u].todo \/ job[u].at = b => b \in job'[u].todo \/ job'[u].at = b
           /\ \A g : R!ToList(u, b, g) => R!ToList(u, b, g)'
  <2> HIDE DEF todo
  <2> QED BY <1>1, <1>2, <1>3, BeginFacts
<1>5. /\ pending' \in [R!Calls -> SUBSET NodeGroups] /\ fired' \in [R!Flushes -> {0} \cup R!Calls]
      /\ \A d \in R!Calls : d # c => pending'[d] = pending[d]
      /\ \A j \in R!Flushes : j # i => fired'[j] = fired[j]
  BY <1>1, <1>2 DEF RefreshInv, RefreshTypes, BurstTypes
<1>6. BurstTypes'
  BY <1>1, <1>2, <1>4, <1>5 DEF RefreshInv, RefreshTypes, BurstTypes
<1>7. RefreshTypes'
  BY <1>1, <1>4, <1>6 DEF RefreshInv, RefreshTypes, DaemonTypes, StreamTypes, BudgetTypes, HostTypes, FieldTypes, AskedTypes
<1>8. ToldIsPast'
  BY <1>1 DEF RefreshInv, ToldIsPast
<1>9. ObservesCounted'
  <2>1. \A k \in R!Observes : phase'[R!Observer(k)] = phase[R!Observer(k)]
    BY <1>2, <1>4, Goroutines
  <2>2. left'.observes \in Nat /\ left'.failures \in Nat /\ left'.sheds \in Nat
    BY <1>1 DEF RefreshInv, RefreshTypes, BudgetTypes
  <2>3. left'.observes <= left.observes /\ left'.failures <= left.failures /\ left'.sheds <= left.sheds
    BY <1>1, <2>2
  <2> QED BY <1>1, <1>4, <2>1, <2>2, <2>3, CountKept
<1>10. ParentsFirst' /\ R!Actionable' /\ OnItsWay'
  <2>1. ~Restoring
    <3>1. t # R!Observer(1)
      BY <1>2, Goroutines
    <3> QED BY <1>1, <1>2, <3>1 DEF Restoring
  <2>2. OnItsWay'
    BY <1>1, <1>4 DEF RefreshInv, OnItsWay
  <2> QED BY <1>1, <2>1, <2>2, SameBranches
<1>11. ~closed => (R!ObserveToCome => R!ObserveToCome')
  <2>1. \A k \in R!Observes : phase'[R!Observer(k)] = phase[R!Observer(k)]
    BY <1>2, <1>4, Goroutines
  <2>2. ~closed => 1..Len(sent) \subseteq R!Observes
    <3>1. ~closed => Len(sent) \in Nat /\ Len(sent) <= MaxObserves
      BY RefreshConstants, FiniteOwed, PromisedType DEF RefreshInv, ObservesCounted, RefreshTypes, HostTypes, BudgetTypes
    <3> QED BY <3>1, RefreshConstants DEF R!Observes
  <2>3. \A u \in R!Threads : u[1] # "flush" => phase'[u] = phase[u]
    BY <1>2, <1>4
  <2> QED BY <1>1, <2>1, <2>2, <2>3 DEF R!ObserveToCome
<1>12. \A g : R!FlushToCome(g) => g \in pending[c] \/ R!FlushToCome(g)'
  <2> SUFFICES ASSUME NEW g, g \notin pending[c], NEW d \in R!Calls, g \in pending[d],
                      timer[d] = "armed" \/ \E j \in R!Flushes : phase[R!Flush(j)] = "begin" /\ fired[j] = d
               PROVE  g \in pending'[d] /\ (timer'[d] = "armed" \/ \E j \in R!Flushes : phase'[R!Flush(j)] = "begin" /\ fired'[j] = d)
    BY DEF R!FlushToCome
  <2>1. d # c
    OBVIOUS
  <2>2. g \in pending'[d]
    BY <1>5, <2>1
  <2>3. ASSUME NEW j \in R!Flushes, phase[R!Flush(j)] = "begin", fired[j] = d
        PROVE  phase'[R!Flush(j)] = "begin" /\ fired'[j] = d
    BY <1>2, <1>4, <1>5, <2>1, <2>3
  <2> QED BY <1>1, <2>2, <2>3
<1>13. R!EventKept'
  <2> SUFFICES ASSUME ~closed', NEW g \in NodeGroups, NEW b \in {g, Docker} \cap observed'
               PROVE  \/ asked'[b][g] >= told'[g] \/ R!ObserveToCome' \/ R!FlushToCome(g)'
                      \/ \E u \in R!Threads : R!ToList(u, b, g)'
    BY DEF R!EventKept
  <2>1. CASE g \in pending[c]
    <3>1. b \in job'[t].todo
      BY <1>4, <2>1
    <3> QED BY <1>2, <3>1 DEF R!ToList
  <2>2. CASE g \notin pending[c]
    <3>1. b \in R!Nodes
      BY <1>3
    <3> QED BY <1>1, <1>4, <1>11, <1>12, <2>2, <3>1 DEF RefreshInv, R!EventKept
  <2> QED BY <2>1, <2>2
<1>14. R!FilledOrComing'
  <2>1. observed \subseteq R!Nodes
    BY DEF RefreshInv, RefreshTypes, FieldTypes
  <2> QED BY <1>1, <1>4, <1>11, <2>1 DEF RefreshInv, R!FilledOrComing
<1> QED BY <1>7, <1>8, <1>9, <1>10, <1>13, <1>14 DEF RefreshInv

\* A goroutine in a refresh goes on with it.
LEMMA GoesOnRefreshing ==
  ASSUME RefreshInv, NEW t \in R!Threads, phase[t] = "refresh",
         NEW j \in Jobs, JobFits(j), StageFits(j), job' = [job EXCEPT ![t] = j],
         UNCHANGED <<now, feed, call, up, pending, timer, fired, watching, observed, closed, phase, told>>,
         BudgetTypes', AskedTypes', HostTypes', resolved' \subseteq NodeGroups \X (Nat \cup {Missing})
  PROVE  /\ RefreshTypes' /\ ToldIsPast' /\ job'[t] = j
         /\ \A u \in R!Threads : u # t => job'[u] = job[u]
<1>1. job'[t] = j /\ \A u \in R!Threads : u # t => job'[u] = job[u]
  BY JobFacts DEF RefreshInv, RefreshTypes
<1>2. RunTypes'
  <2>1. job' \in [R!Threads -> Jobs]
    BY DEF RefreshInv, RefreshTypes, RunTypes
  <2> QED BY <1>1, <2>1 DEF RefreshInv, RefreshTypes, RunTypes
<1>3. RefreshTypes'
  BY <1>2 DEF RefreshInv, RefreshTypes, DaemonTypes, StreamTypes, BurstTypes, FieldTypes
<1>4. ToldIsPast'
  BY DEF RefreshInv, ToldIsPast
<1> QED BY <1>1, <1>3, <1>4

\* While the phases stay, so does what is to come.
LEMMA SamePhases ==
  ASSUME RefreshInv, UNCHANGED <<phase, pending, timer, fired>>, ~closed, HostTypes', Len(sent) <= Len(sent')
  PROVE  /\ R!ObserveToCome => R!ObserveToCome'
         /\ \A g : R!FlushToCome(g) => R!FlushToCome(g)'
BY StillToCome DEF RefreshInv, HostTypes

LEMMA TakeFacts ==
  ASSUME RefreshInv, NEW t \in R!Threads, R!Take(t)
  PROVE  \E b \in job[t].todo, j \in Jobs :
           /\ JobFits(j) /\ StageFits(j) /\ j.stage = "list"
           /\ job' = [job EXCEPT ![t] = j] /\ j.todo = job[t].todo \ {b}
           /\ \/ j.at = None /\ b \notin observed /\ UNCHANGED <<asked, left>>
              \/ j.at = b /\ j.got # Error /\ j.want = R!Lists(b) /\ UNCHANGED <<asked, left>>
              \/ j.at = b /\ asked' = [asked EXCEPT ![b] = now] /\ (IF closed THEN UNCHANGED left ELSE R!Fails)
           /\ Restoring => b = Docker
<1>1. PICK b \in R!Foremost(t) :
        LET j == R!Branches(job[t].todo \ {b}) IN
        \/ b \notin observed /\ job' = [job EXCEPT ![t] = j] /\ UNCHANGED <<asked, left>>
        \/ UNCHANGED <<asked, left>> /\ job' = [job EXCEPT ![t] = [j EXCEPT !.at = b, !.want = R!Lists(b)]]
        \/ /\ job' = [job EXCEPT ![t] = [j EXCEPT !.at = b, !.got = Error]]
           /\ IF closed THEN UNCHANGED left ELSE R!Fails
           /\ asked' = [asked EXCEPT ![b] = now]
  BY DEF R!Take
<1>2. phase[t] = "refresh" /\ job[t].at = None /\ job[t] \in Jobs
  BY InRefresh DEF R!Take, R!Free, RefreshInv, RefreshTypes
<1>3. b \in job[t].todo /\ b \in R!Nodes /\ b # None /\ R!Lists(b) \subseteq NodeGroups
  BY <1>1, <1>2, RefreshConstants DEF R!Foremost, Jobs
<1>4. Restoring => b = Docker
  <2>1. ASSUME Restoring PROVE b = Docker
    <3>1. t = R!Observer(1) /\ Docker \in job[t].todo
      BY <1>2, <2>1, RefreshConstants DEF Restoring, R!Nodes
    <3>2. t[1] # "flush"
      BY <3>1, Goroutines
    <3> QED BY <1>1, <3>1, <3>2 DEF R!Foremost
  <2> QED BY <2>1
<1> DEFINE j == R!Branches(job[t].todo \ {b})
<1>5. /\ j \in Jobs /\ JobFits(j) /\ StageFits(j) /\ j.at = None /\ j.todo = job[t].todo \ {b}
      /\ j.want = {} /\ j.got = <<>> /\ j.stage = "list"
  <2>1. job[t].todo \ {b} \in SUBSET R!Nodes
    BY <1>2 DEF Jobs
  <2> QED BY <2>1, NewJob DEF R!Branches
<1> HIDE DEF j
<1>6. <<>> \in Listed({}) /\ <<>> # Error
  <2>1. <<>> \in Listed({})
    BY DEF Listed
  <2>2. {} \in SUBSET NodeGroups
    OBVIOUS
  <2> QED BY <2>1, <2>2, RefreshConstants
<1>7. CASE b \notin observed /\ job' = [job EXCEPT ![t] = j] /\ UNCHANGED <<asked, left>>
  BY <1>3, <1>4, <1>5, <1>7
<1>8. CASE UNCHANGED <<asked, left>> /\ job' = [job EXCEPT ![t] = [j EXCEPT !.at = b, !.want = R!Lists(b)]]
  <2> DEFINE w == [j EXCEPT !.at = b, !.want = R!Lists(b)]
  <2>1. w \in Jobs /\ w.at = b /\ w.want = R!Lists(b) /\ w.todo = job[t].todo \ {b} /\ w.got = <<>>
        /\ w.stage = "list"
    BY <1>3, <1>5 DEF Jobs
  <2>2. R!Lists(b) \ w.want = {}
    BY <2>1
  <2> HIDE DEF w
  <2>3. JobFits(w) /\ StageFits(w)
    BY <1>3, <1>6, <2>1, <2>2 DEF JobFits, StageFits
  <2> QED BY <1>3, <1>4, <1>6, <1>8, <2>1, <2>3 DEF w
<1>9. CASE /\ job' = [job EXCEPT ![t] = [j EXCEPT !.at = b, !.got = Error]]
           /\ IF closed THEN UNCHANGED left ELSE R!Fails
           /\ asked' = [asked EXCEPT ![b] = now]
  <2> DEFINE w == [j EXCEPT !.at = b, !.got = Error]
  <2>1. w \in Jobs /\ w.at = b /\ w.want = {} /\ w.todo = job[t].todo \ {b} /\ w.got = Error
        /\ w.stage = "list"
    BY <1>3, <1>5 DEF Jobs
  <2> HIDE DEF w
  <2>2. JobFits(w) /\ StageFits(w)
    BY <1>3, <2>1 DEF JobFits, StageFits
  <2> QED BY <1>3, <1>4, <1>9, <2>1, <2>2 DEF w
<1> QED BY <1>1, <1>7, <1>8, <1>9 DEF j

LEMMA TakeStep == ASSUME RefreshInv, NEW t \in R!Threads, R!Take(t) PROVE RefreshInv'
<1>1. /\ phase[t] = "refresh" /\ job[t].at = None
      /\ UNCHANGED <<now, feed, call, up, pending, timer, fired, expanded, tree, sent, watching, observed, resolved,
                     closed, phase, told, clicked, refused>>
  BY DEF R!Take, R!Free, R!daemon, R!burst, R!host, R!fields, R!history
<1>2. PICK b \in job[t].todo, j \in Jobs :
        /\ JobFits(j) /\ StageFits(j) /\ j.stage = "list"
        /\ job' = [job EXCEPT ![t] = j] /\ j.todo = job[t].todo \ {b}
        /\ \/ j.at = None /\ b \notin observed /\ UNCHANGED <<asked, left>>
           \/ j.at = b /\ j.got # Error /\ j.want = R!Lists(b) /\ UNCHANGED <<asked, left>>
           \/ j.at = b /\ asked' = [asked EXCEPT ![b] = now] /\ (IF closed THEN UNCHANGED left ELSE R!Fails)
        /\ Restoring => b = Docker
  BY TakeFacts
<1>3. b \in R!Nodes /\ b # None /\ job[t] \in Jobs
  BY InRefresh, RefreshConstants DEF RefreshInv, RefreshTypes, Jobs
<1>4. /\ BudgetTypes' /\ left'.observes = left.observes /\ left.observes \in Nat /\ left.failures \in Nat
      /\ left'.sheds = left.sheds /\ left.sheds \in Nat
      /\ left'.failures = left.failures \/ (left'.failures = left.failures - 1 /\ left.failures > 0)
      /\ ~closed => left' = left \/ left'.failures = left.failures - 1
      /\ ~closed /\ j.at = b /\ j.got = Error => left'.failures = left.failures - 1
  <2>1. CASE UNCHANGED left /\ (closed \/ ~(j.at = b /\ j.got = Error))
    BY <1>1, <2>1 DEF RefreshInv, RefreshTypes, BudgetTypes
  <2>2. CASE R!Fails
    BY <1>1, <2>2 DEF RefreshInv, RefreshTypes, BudgetTypes, R!Fails
  <2> QED BY <1>2, <1>3, <2>1, <2>2
<1>5. AskedTypes' /\ \A n \in R!Nodes, g \in NodeGroups :
        asked'[n][g] = asked[n][g] \/ asked'[n][g] = now[g]
  BY <1>1, <1>2, <1>3 DEF RefreshInv, RefreshTypes, DaemonTypes, AskedTypes
<1>6. HostTypes' /\ resolved' \subseteq NodeGroups \X (Nat \cup {Missing})
  BY <1>1 DEF RefreshInv, RefreshTypes, HostTypes, FieldTypes
<1>7. /\ RefreshTypes' /\ ToldIsPast' /\ job'[t] = j
      /\ \A u \in R!Threads : u # t => job'[u] = job[u]
  BY <1>1, <1>2, <1>4, <1>5, <1>6, GoesOnRefreshing
<1>8. ObservesCounted'
  <2>1. Owed' \subseteq Owed \cup {t}
    BY <1>7 DEF Owed
  <2>2. IsFiniteSet(Owed) /\ Cardinality(Owed) \in Nat
    BY FiniteOwed DEF RefreshInv, RefreshTypes
  <2>3. /\ Cardinality(Owed) \in Nat /\ Cardinality(Owed') \in Nat
        /\ Cardinality(Owed') <= Cardinality(Owed) + 1
    <3>0. /\ IsFiniteSet(Owed \cup {t})
          /\ Cardinality(Owed \cup {t}) = IF t \in Owed THEN Cardinality(Owed) ELSE Cardinality(Owed) + 1
      BY <2>2, FS_AddElement
    <3>1. Cardinality(Owed \cup {t}) <= Cardinality(Owed) + 1
      BY <2>2, <3>0
    <3>2. IsFiniteSet(Owed') /\ Cardinality(Owed') <= Cardinality(Owed \cup {t})
      BY <2>1, <3>0, FS_Subset
    <3>3. Cardinality(Owed') \in Nat /\ Cardinality(Owed \cup {t}) \in Nat
      BY <3>0, <3>2, FS_CardinalityType
    <3> QED BY <2>2, <3>1, <3>2, <3>3
  <2>4. ~(j.at = Docker /\ j.got = Error) => Owed' \subseteq Owed
    BY <1>7 DEF Owed
  <2>5. ~(j.at = Docker /\ j.got = Error) => Cardinality(Owed') <= Cardinality(Owed)
    BY <2>2, <2>4, FS_Subset
  <2>6. ~closed /\ j.at = Docker /\ j.got = Error => left'.failures = left.failures - 1
    BY <1>2, <1>4, RefreshConstants DEF R!Nodes
  <2>7. ~closed' => Len(sent') + Promised' + Cardinality(Owed') <= MaxObserves
    <3>1. Len(sent) \in Nat
      BY DEF RefreshInv, RefreshTypes, HostTypes
    <3>2. ~closed => Len(sent) + Promised + Cardinality(Owed) <= MaxObserves
      BY DEF RefreshInv, ObservesCounted
    <3>p. /\ Promised \in Nat /\ Promised' \in Nat /\ Promised' <= Promised
          /\ left'.failures = left.failures - 1 => Promised' = Promised - 1
      <4>1. Promised \in Nat /\ Promised' \in Nat
        BY <1>4, PromisedType DEF RefreshInv, RefreshTypes, BudgetTypes, Promised
      <4>2. /\ left.observes \in Nat /\ left.failures \in Nat /\ left.sheds \in Nat /\ left'.failures \in Nat
            /\ left'.observes = left.observes /\ left'.sheds = left.sheds /\ left'.failures <= left.failures
        BY <1>4 DEF RefreshInv, RefreshTypes, BudgetTypes
      <4> QED BY <4>1, <4>2 DEF Promised
    <3>3. ~closed => Promised' + Cardinality(Owed') <= Promised + Cardinality(Owed)
      BY <2>2, <2>3, <2>5, <2>6, <3>p
    <3> QED BY <1>1, <2>2, <2>3, <3>1, <3>2, <3>3, <3>p, RefreshConstants
  <2> QED BY <1>1, <2>7 DEF RefreshInv, ObservesCounted
<1>9. ParentsFirst' /\ R!Actionable' /\ OnItsWay'
  <2>1. ASSUME Restoring PROVE Restoring'
    <3>1. t = R!Observer(1) /\ observed = expanded /\ Docker \in expanded /\ b = Docker
      BY <1>1, <1>2, <2>1 DEF Restoring
    <3>2. job'[t].at = Docker
      BY <1>2, <1>7, <3>1
    <3> QED BY <1>1, <2>1, <3>1, <3>2 DEF Restoring
  <2>2. OnItsWay'
    BY <1>1, <1>2, <1>7 DEF RefreshInv, OnItsWay
  <2> QED BY <1>1, <2>1, <2>2, SameBranches
<1>10. ~closed => /\ R!ObserveToCome => R!ObserveToCome'
                  /\ \A g : R!FlushToCome(g) => R!FlushToCome(g)'
  BY <1>1, <1>6, SamePhases DEF RefreshInv, RefreshTypes, HostTypes
<1>11. R!EventKept'
  <2> SUFFICES ASSUME ~closed', NEW g \in NodeGroups, NEW n \in {g, Docker} \cap observed'
               PROVE  \/ asked'[n][g] >= told'[g] \/ R!ObserveToCome' \/ R!FlushToCome(g)'
                      \/ \E u \in R!Threads : R!ToList(u, n, g)'
    BY DEF R!EventKept
  <2>1. n \in R!Nodes /\ told[g] \in Nat /\ now[g] \in Nat /\ told[g] <= now[g] /\ g \in R!Lists(n)
    BY DEF RefreshInv, RefreshTypes, DaemonTypes, ToldIsPast, R!Nodes, R!Lists
  <2>2. asked[n][g] >= told[g] => asked'[n][g] >= told[g]
    BY <1>5, <2>1
  <2>3. ASSUME NEW u \in R!Threads, R!ToList(u, n, g)
        PROVE  asked'[n][g] >= told[g] \/ \E x \in R!Threads : R!ToList(x, n, g)'
    <3>1. CASE u # t
      BY <1>7, <2>3, <3>1 DEF R!ToList
    <3>2. CASE u = t /\ n # b
      <4>1. n \in job'[t].todo
        BY <1>1, <1>2, <1>7, <2>1, <2>3, <3>2, RefreshConstants DEF R!ToList
      <4> QED BY <4>1 DEF R!ToList
    <3>3. CASE u = t /\ n = b
      <4>1. CASE j.at = b /\ j.want = R!Lists(b)
        BY <1>7, <2>1, <3>3, <4>1 DEF R!ToList
      <4>2. CASE asked' = [asked EXCEPT ![b] = now]
        BY <2>1, <3>3, <4>2 DEF RefreshInv, RefreshTypes, AskedTypes
      <4> QED BY <1>1, <1>2, <3>3, <4>1, <4>2
    <3> QED BY <3>1, <3>2, <3>3
  <2> QED BY <1>1, <1>10, <2>2, <2>3 DEF RefreshInv, R!EventKept
<1>12. R!FilledOrComing'
  <2> SUFFICES ASSUME ~closed', NEW n \in observed' \cap expanded', tree'[n] = None
               PROVE  R!ObserveToCome' \/ n \in refused' \/ \E u \in R!Threads : n \in job'[u].todo \/ job'[u].at = n
    BY DEF R!FilledOrComing
  <2>1. ASSUME NEW u \in R!Threads, n \in job[u].todo \/ job[u].at = n
        PROVE  n \in job'[u].todo \/ job'[u].at = n
    <3>1. n # None
      <4>1. n \in R!Nodes
        BY <1>1 DEF RefreshInv, RefreshTypes, FieldTypes
      <4> QED BY <4>1, RefreshConstants
    <3> QED BY <1>1, <1>2, <1>7, <2>1, <3>1
  <2> QED BY <1>1, <1>10, <2>1 DEF RefreshInv, R!FilledOrComing
<1> QED BY <1>7, <1>8, <1>9, <1>11, <1>12 DEF RefreshInv

LEMMA ListFacts ==
  ASSUME RefreshInv, NEW t \in R!Threads, R!List(t)
  PROVE  \E g \in job[t].want, j \in Jobs :
           /\ JobFits(j) /\ StageFits(j) /\ j.stage = "list"
           /\ job' = [job EXCEPT ![t] = j] /\ j.todo = job[t].todo /\ j.at = job[t].at
           /\ asked' = [asked EXCEPT ![j.at][g] = now[g]] /\ j.at \in R!Nodes /\ phase[t] = "refresh"
           /\ \/ j.want = job[t].want \ {g} /\ j.got # Error
              \/ g = j.at
           /\ UNCHANGED left \/ R!Fails
<1> DEFINE v == job[t]
           g == R!NextList(v)
           with(x) == [v EXCEPT !.want = @ \ {g}, !.got = [r \in DOMAIN @ \cup {g} |-> IF r = g THEN x ELSE @[r]]]
           lost == [v EXCEPT !.want = {}, !.got = Error]
<1>1. /\ v.want # {} /\ asked' = [asked EXCEPT ![v.at][g] = now[g]]
      /\ \/ job' = [job EXCEPT ![t] = with(now[g])] /\ UNCHANGED left
         \/ R!Fails /\ job' = [job EXCEPT ![t] = IF g = v.at THEN lost ELSE with(Missing)]
  BY DEF R!List, R!Asked
<1>2. /\ v \in Jobs /\ v.at \in R!Nodes /\ phase[t] = "refresh" /\ v.at # None
      /\ v.at \notin v.todo /\ v.want \subseteq R!Lists(v.at) /\ v.got \in Listed(R!Lists(v.at) \ v.want)
      /\ R!Lists(v.at) \subseteq NodeGroups
  BY <1>1, InRefresh, RefreshConstants DEF RefreshInv, RefreshTypes, JobFits
<1>3. g \in v.want /\ g \in NodeGroups
  BY <1>1, <1>2 DEF R!NextList
<1>s. v.stage = "list"
  <2>1. StageFits(v) /\ v.stage \in {"list", "call"}
    BY <1>2, InRefresh DEF RefreshInv, RefreshTypes, Jobs
  <2> QED BY <1>1, <2>1 DEF StageFits, R!ToPublish
<1> HIDE DEF g
<1>4. ASSUME NEW x \in Nat \cup {Missing}
      PROVE  /\ with(x) \in Jobs /\ JobFits(with(x)) /\ with(x).todo = v.todo /\ with(x).at = v.at
             /\ with(x).want = v.want \ {g} /\ with(x).got # Error /\ with(x).stage = "list"
  <2> DEFINE set == R!Lists(v.at) \ (v.want \ {g})
             new == [r \in DOMAIN v.got \cup {g} |-> IF r = g THEN x ELSE v.got[r]]
  <2>1. DOMAIN v.got = R!Lists(v.at) \ v.want /\ \A r \in DOMAIN v.got : v.got[r] \in Nat \cup {Missing}
    BY <1>2 DEF Listed
  <2>2. DOMAIN v.got \cup {g} = set
    BY <1>2, <1>3, <2>1
  <2>3. new \in Listed(set)
    BY <1>4, <2>1, <2>2 DEF Listed
  <2>4. set \in SUBSET NodeGroups
    BY <1>2
  <2>5. new # Error
    BY <2>3, <2>4, RefreshConstants
  <2>6. with(x) = [v EXCEPT !.want = v.want \ {g}, !.got = new]
    BY <1>2 DEF Jobs
  <2> HIDE DEF with, new
  <2>7. /\ with(x) \in Jobs /\ with(x).todo = v.todo /\ with(x).at = v.at /\ with(x).want = v.want \ {g}
        /\ with(x).got = new /\ with(x).stage = "list"
    <3>1. new \in UNION {Listed(s) : s \in SUBSET NodeGroups}
      BY <2>3, <2>4
    <3> HIDE DEF v
    <3> QED BY <1>2, <1>s, <2>6, <3>1 DEF Jobs
  <2>8. JobFits(with(x))
    BY <1>2, <2>3, <2>7 DEF JobFits
  <2> QED BY <2>5, <2>7, <2>8
<1>5. /\ lost \in Jobs /\ lost.todo = v.todo /\ lost.at = v.at /\ lost.want = {} /\ lost.got = Error
      /\ lost.stage = "list"
  BY <1>2, <1>s DEF Jobs
<1>6. JobFits(lost)
  <2> HIDE DEF lost, v
  <2> QED BY <1>2, <1>5 DEF JobFits
<1>7. now[g] \in Nat
  BY <1>3 DEF RefreshInv, RefreshTypes, DaemonTypes
<1>8. CASE job' = [job EXCEPT ![t] = with(now[g])] /\ UNCHANGED left
  <2> HIDE DEF with, v, lost
  <2> QED BY <1>1, <1>2, <1>3, <1>4, <1>7, <1>8 DEF v, StageFits
<1>9. CASE R!Fails /\ g # v.at /\ job' = [job EXCEPT ![t] = with(Missing)]
  <2> HIDE DEF with, v, lost
  <2> QED BY <1>1, <1>2, <1>3, <1>4, <1>9 DEF v, StageFits
<1>10. CASE R!Fails /\ g = v.at /\ job' = [job EXCEPT ![t] = lost]
  <2> HIDE DEF with, v, lost
  <2> QED BY <1>1, <1>2, <1>3, <1>5, <1>6, <1>10 DEF v, StageFits
<1> HIDE DEF with, v, lost
<1> QED BY <1>1, <1>8, <1>9, <1>10

LEMMA ListStep == ASSUME RefreshInv, NEW t \in R!Threads, R!List(t) PROVE RefreshInv'
<1>1. UNCHANGED <<now, feed, call, up, pending, timer, fired, expanded, tree, sent, watching, observed, resolved,
                  closed, phase, told, clicked, refused>>
  BY DEF R!List, R!daemon, R!burst, R!host, R!fields, R!history
<1>2. PICK g \in job[t].want, j \in Jobs :
        /\ JobFits(j) /\ StageFits(j) /\ j.stage = "list"
        /\ job' = [job EXCEPT ![t] = j] /\ j.todo = job[t].todo /\ j.at = job[t].at
        /\ asked' = [asked EXCEPT ![j.at][g] = now[g]] /\ j.at \in R!Nodes /\ phase[t] = "refresh"
        /\ \/ j.want = job[t].want \ {g} /\ j.got # Error
           \/ g = j.at
        /\ UNCHANGED left \/ R!Fails
  BY ListFacts
<1>3. g \in NodeGroups /\ g # Docker
  BY InRefresh, RefreshConstants DEF RefreshInv, RefreshTypes, Jobs
<1>4. BudgetTypes' /\ left'.observes \in Nat /\ left'.failures \in Nat /\ left'.sheds \in Nat
      /\ left'.observes <= left.observes /\ left'.failures <= left.failures /\ left'.sheds <= left.sheds
  <2>1. CASE UNCHANGED left
    BY <1>1, <2>1 DEF RefreshInv, RefreshTypes, BudgetTypes
  <2>2. CASE R!Fails
    BY <1>1, <2>2 DEF RefreshInv, RefreshTypes, BudgetTypes, R!Fails
  <2> QED BY <1>2, <2>1, <2>2
<1>5. /\ AskedTypes' /\ asked'[j.at][g] = now[g]
      /\ \A n \in R!Nodes, h \in NodeGroups : n # j.at \/ h # g => asked'[n][h] = asked[n][h]
  BY <1>1, <1>2, <1>3 DEF RefreshInv, RefreshTypes, DaemonTypes, AskedTypes
<1>6. HostTypes' /\ resolved' \subseteq NodeGroups \X (Nat \cup {Missing})
  BY <1>1 DEF RefreshInv, RefreshTypes, HostTypes, FieldTypes
<1>7. /\ RefreshTypes' /\ ToldIsPast' /\ job'[t] = j
      /\ \A u \in R!Threads : u # t => job'[u] = job[u]
  BY <1>1, <1>2, <1>4, <1>5, <1>6, GoesOnRefreshing
<1>8. ObservesCounted'
  <2>1. \A u \in R!Threads : job'[u].at = Docker /\ job'[u].got = Error => job[u].at = Docker /\ job[u].got = Error
    BY <1>2, <1>3, <1>7
  <2>2. RunTypes'
    BY <1>7 DEF RefreshTypes
  <2> QED BY <1>1, <1>4, <2>1, <2>2, CountKept
<1>9. ParentsFirst' /\ R!Actionable' /\ OnItsWay'
  <2>1. ASSUME Restoring PROVE Restoring'
    <3>1. \A u \in R!Threads : job'[u].at = job[u].at /\ job'[u].todo = job[u].todo
      BY <1>2, <1>7
    <3>2. t = R!Observer(1)
      BY <1>2, <2>1 DEF Restoring
    <3> QED BY <1>1, <2>1, <3>1, <3>2 DEF Restoring
  <2>2. OnItsWay'
    BY <1>1, <1>2, <1>7 DEF RefreshInv, OnItsWay
  <2> QED BY <1>1, <2>1, <2>2, SameBranches
<1>10. ~closed => /\ R!ObserveToCome => R!ObserveToCome'
                  /\ \A h : R!FlushToCome(h) => R!FlushToCome(h)'
  BY <1>1, <1>6, SamePhases DEF RefreshInv, RefreshTypes, HostTypes
<1>11. R!EventKept'
  <2> SUFFICES ASSUME ~closed', NEW h \in NodeGroups, NEW n \in {h, Docker} \cap observed'
               PROVE  \/ asked'[n][h] >= told'[h] \/ R!ObserveToCome' \/ R!FlushToCome(h)'
                      \/ \E u \in R!Threads : R!ToList(u, n, h)'
    BY DEF R!EventKept
  <2>1. n \in R!Nodes /\ told[h] \in Nat /\ now[h] \in Nat /\ told[h] <= now[h]
    BY DEF RefreshInv, RefreshTypes, DaemonTypes, ToldIsPast, R!Nodes
  <2>2. asked[n][h] >= told[h] => asked'[n][h] >= told[h]
    <3>1. CASE n = j.at /\ h = g
      BY <1>5, <2>1, <3>1
    <3>2. CASE n # j.at \/ h # g
      BY <1>5, <2>1, <3>2
    <3> QED BY <3>1, <3>2
  <2>3. ASSUME NEW u \in R!Threads, R!ToList(u, n, h)
        PROVE  asked'[n][h] >= told[h] \/ \E x \in R!Threads : R!ToList(x, n, h)'
    <3>1. CASE u # t
      BY <1>7, <2>3, <3>1 DEF R!ToList
    <3>2. CASE u = t /\ n \in job[t].todo
      BY <1>2, <1>7, <3>2 DEF R!ToList
    <3>3. CASE u = t /\ job[t].at = n /\ h \in job[t].want
      <4>1. CASE h = g
        BY <1>2, <1>5, <2>1, <3>3, <4>1
      <4>2. CASE h # g
        <5>1. g # j.at
          BY <1>2, <1>3, <3>3, <4>2
        <5> QED BY <1>2, <1>7, <3>3, <4>2, <5>1 DEF R!ToList
      <4> QED BY <4>1, <4>2
    <3> QED BY <2>3, <3>1, <3>2, <3>3 DEF R!ToList
  <2> QED BY <1>1, <1>10, <2>2, <2>3 DEF RefreshInv, R!EventKept
<1>12. R!FilledOrComing'
  <2>1. \A u \in R!Threads : job'[u].at = job[u].at /\ job'[u].todo = job[u].todo
    BY <1>2, <1>7
  <2> QED BY <1>1, <1>10, <2>1 DEF RefreshInv, R!FilledOrComing
<1> QED BY <1>7, <1>8, <1>9, <1>11, <1>12 DEF RefreshInv

\* A group's rows are remembered before the host is called.
LEMMA RememberStep == ASSUME RefreshInv, NEW t \in R!Threads, R!Remember(t) PROVE RefreshInv'
<1> DEFINE v == job[t]
           b == v.at
           j == [v EXCEPT !.stage = "call"]
<1>1. /\ R!ToPublish(v) /\ R!HasRows(v) /\ resolved' = resolved \cup {<<b, v.got[b]>>}
      /\ UNCHANGED <<now, feed, call, up, pending, timer, fired, expanded, tree, sent, watching, observed,
                     closed, phase, told, asked, left, clicked, refused>>
  BY DEF R!Remember, R!Remembered, R!daemon, R!burst, R!host, R!history
<1>2. /\ v \in Jobs /\ JobFits(v) /\ phase[t] = "refresh" /\ b \in NodeGroups
      /\ v.got \in Listed(R!Lists(b)) /\ R!Lists(b) \ v.want = R!Lists(b)
  <2>1. b # None /\ v.want = {} /\ b # Docker /\ v.got # Error
    BY <1>1 DEF R!ToPublish, R!HasRows
  <2>2. v \in Jobs /\ JobFits(v) /\ phase[t] = "refresh" /\ b \in R!Nodes
    BY <2>1, InRefresh DEF RefreshInv, RefreshTypes
  <2>3. R!Lists(b) \ v.want = R!Lists(b)
    BY <2>1
  <2> QED BY <2>1, <2>2, <2>3 DEF JobFits, R!Nodes
<1>3. /\ job' = [job EXCEPT ![t] = j] /\ j.stage = "call" /\ j.todo = v.todo /\ j.at = b /\ j.want = v.want
      /\ j.got = v.got /\ j \in Jobs
  <2>1. job' = [job EXCEPT ![t] = j]
    BY DEF R!Remember, RefreshInv, RefreshTypes, RunTypes
  <2> QED BY <1>2, <2>1 DEF Jobs
<1> HIDE DEF j
<1>4. JobFits(j) /\ StageFits(j)
  BY <1>1, <1>2, <1>3 DEF JobFits, StageFits, R!ToPublish, R!HasRows
<1>5. resolved' \subseteq NodeGroups \X (Nat \cup {Missing})
  BY <1>1, <1>2 DEF RefreshInv, RefreshTypes, FieldTypes, R!Lists, Listed
<1>6. /\ RefreshTypes' /\ ToldIsPast' /\ job'[t] = j
      /\ \A u \in R!Threads : u # t => job'[u] = job[u]
  <2>1. BudgetTypes' /\ AskedTypes' /\ HostTypes'
    BY <1>1 DEF RefreshInv, RefreshTypes, BudgetTypes, AskedTypes, HostTypes
  <2> QED BY <1>1, <1>2, <1>3, <1>4, <1>5, <2>1, GoesOnRefreshing
<1>7. \A u \in R!Threads : /\ job'[u].at = job[u].at /\ job'[u].todo = job[u].todo /\ job'[u].want = job[u].want
                           /\ job'[u].got = job[u].got
  BY <1>3, <1>6
<1>8. ObservesCounted'
  <2>1. left'.observes \in Nat /\ left'.failures \in Nat /\ left'.sheds \in Nat
    BY <1>1 DEF RefreshInv, RefreshTypes, BudgetTypes
  <2>2. left'.observes <= left.observes /\ left'.failures <= left.failures /\ left'.sheds <= left.sheds
    BY <1>1, <2>1
  <2>3. RunTypes'
    BY <1>6 DEF RefreshTypes
  <2>4. \A u \in R!Threads : job'[u].at = Docker /\ job'[u].got = Error => job[u].at = Docker /\ job[u].got = Error
    BY <1>7
  <2> QED BY <1>1, <2>1, <2>2, <2>3, <2>4, CountKept
<1>9. ParentsFirst' /\ R!Actionable' /\ OnItsWay'
  <2>1. ~Restoring
    BY <1>1, <1>2, RefreshConstants DEF Restoring, R!ToPublish
  <2>2. <<job'[t].at, job'[t].got[job'[t].at]>> \in resolved'
    BY <1>1, <1>3, <1>6
  <2> QED BY <1>1, <1>6, <2>1, <2>2, SameTree
<1>10. ~closed => /\ R!ObserveToCome => R!ObserveToCome'
                  /\ \A h : R!FlushToCome(h) => R!FlushToCome(h)'
  BY <1>1, <1>6, SamePhases DEF RefreshTypes, HostTypes
<1>11. R!EventKept' /\ R!FilledOrComing'
  BY <1>1, <1>7, <1>10 DEF RefreshInv, R!EventKept, R!FilledOrComing, R!ToList
<1> QED BY <1>6, <1>8, <1>9, <1>11 DEF RefreshInv

\* What a publish does at the host: it shows the snapshot and what is left of the
\* branches, or does not; then the branch lacks one, if the host refused it or
\* its parent's.
Shed(b, snapshot, rest) ==
  /\ R!Shown(b) /\ refused' = refused \ {b} /\ expanded' = rest
  /\ tree' = [n \in R!Nodes |-> IF n \notin rest THEN None ELSE IF n = b THEN snapshot ELSE tree[n]]
  /\ sent' = IF rest = expanded THEN sent ELSE Append(sent, rest)
  /\ rest = expanded \/ (b = Docker /\ rest = {Docker})
  /\ b = Docker /\ snapshot = Error => rest = {Docker}
  /\ rest = expanded \/ snapshot = Error \/ left'.sheds = left.sheds - 1
NotShown(b) ==
  /\ UNCHANGED <<expanded, tree, sent>> /\ refused \subseteq refused'
  /\ refused' \subseteq refused \cup {b} /\ (R!Shown(b) \/ Docker \in refused => b \in refused')
LEMMA PublishFacts ==
  ASSUME RefreshInv, NEW t \in R!Threads, R!Publish(t)
  PROVE  /\ NotShown(job[t].at) \/ \E rest : Shed(job[t].at, job[t].got, rest)
         /\ BudgetTypes' /\ left'.observes = left.observes
         /\ left'.failures <= left.failures /\ left'.sheds <= left.sheds
<1> DEFINE b == job[t].at
           snapshot == job[t].got
<1>0. UNCHANGED call /\ left \in [open : SUBSET NodeGroups, observes : Nat, changes : Nat, streams : 0..MaxStreams,
                                  failures : Nat, sheds : Nat, actions : Nat, ends : Nat]
  BY DEF R!Publish, R!daemon, RefreshInv, RefreshTypes, BudgetTypes
<1>1. CASE R!Fails /\ refused' = refused \cup {b} /\ UNCHANGED <<expanded, tree, sent>>
  <2>1. BudgetTypes' /\ left'.observes = left.observes /\ left'.failures <= left.failures /\ left'.sheds <= left.sheds
    BY <1>0, <1>1 DEF R!Fails, RefreshInv, RefreshTypes, BudgetTypes
  <2> QED BY <1>1, <2>1 DEF NotShown
<1>2. CASE /\ R!HostTakes(b, snapshot)
           /\ refused' = IF R!Shown(b) THEN refused \ {b}
                         ELSE IF Docker \in refused THEN refused \cup {b} ELSE refused
  <2>1. CASE ~R!Shown(b) /\ UNCHANGED <<expanded, tree, sent, left>>
    <3>1. BudgetTypes' /\ left'.observes = left.observes /\ left'.failures <= left.failures /\ left'.sheds <= left.sheds
      BY <1>0, <2>1 DEF RefreshInv, RefreshTypes, BudgetTypes
    <3> QED BY <1>2, <2>1, <3>1 DEF NotShown
  <2>2. CASE /\ R!Shows(b, snapshot, IF b = Docker /\ snapshot = Error THEN {Docker} ELSE expanded)
             /\ UNCHANGED left
    <3>1. BudgetTypes' /\ left'.observes = left.observes /\ left'.failures <= left.failures /\ left'.sheds <= left.sheds
      BY <1>0, <2>2 DEF RefreshInv, RefreshTypes, BudgetTypes
    <3>2. Shed(b, snapshot, IF b = Docker /\ snapshot = Error THEN {Docker} ELSE expanded)
      <4> HIDE DEF b, snapshot
      <4> QED BY <1>2, <2>2 DEF R!Shows, Shed
    <3> QED BY <3>1, <3>2
  <2>3. CASE /\ R!Late(b) /\ R!Shows(b, snapshot, {Docker})
             /\ left.sheds > 0 /\ left' = [left EXCEPT !.sheds = @ - 1]
    <3>1. /\ BudgetTypes' /\ left'.observes = left.observes /\ left'.failures <= left.failures
          /\ left'.sheds = left.sheds - 1 /\ left'.sheds <= left.sheds
      BY <1>0, <2>3 DEF RefreshInv, RefreshTypes, BudgetTypes
    <3>2. Shed(b, snapshot, {Docker})
      <4> HIDE DEF b, snapshot
      <4> QED BY <1>2, <2>3, <3>1 DEF R!Shows, R!Late, Shed
    <3> QED BY <3>1, <3>2
  <2> QED BY <1>2, <2>1, <2>2, <2>3 DEF R!HostTakes
<1> QED BY <1>1, <1>2 DEF R!Publish

LEMMA PublishStep == ASSUME RefreshInv, NEW t \in R!Threads, R!Publish(t) PROVE RefreshInv'
<1> DEFINE b == job[t].at
           snapshot == job[t].got
           j == R!Branches(job[t].todo)
<1>1. /\ b # None /\ job[t].want = {} /\ job' = [job EXCEPT ![t] = j]
      /\ b # Docker /\ snapshot # Error => job[t].stage = "call"
      /\ UNCHANGED <<now, feed, call, up, pending, timer, fired, watching, observed, resolved, closed, phase, told,
                     asked, clicked>>
  BY DEF R!Publish, R!ToPublish, R!HasRows, R!daemon, R!burst, R!fields
<1>2. /\ phase[t] = "refresh" /\ b \in R!Nodes /\ job[t].todo \in SUBSET R!Nodes
      /\ snapshot = Error \/ (snapshot \in Listed(R!Lists(b)) /\ snapshot # Error)
      /\ snapshot # None /\ Docker \in R!Nodes /\ NodeGroups \subseteq R!Nodes
  <2>1. job[t] \in Jobs /\ JobFits(job[t]) /\ phase[t] = "refresh" /\ b \in R!Nodes
    BY <1>1, InRefresh DEF RefreshInv, RefreshTypes
  <2>2. R!Lists(b) \ {} = R!Lists(b) /\ R!Lists(b) \in SUBSET NodeGroups
    BY <2>1, RefreshConstants
  <2>3. snapshot = Error \/ snapshot \in Listed(R!Lists(b))
    BY <1>1, <2>1, <2>2 DEF JobFits
  <2> QED BY <2>1, <2>2, <2>3, RefreshConstants DEF Jobs, R!Nodes
<1>3. j \in Jobs /\ JobFits(j) /\ StageFits(j) /\ j.stage = "list" /\ j.at = None /\ j.todo = job[t].todo
  BY <1>2, NewJob
<1> HIDE DEF j
<1>s. b # Docker /\ snapshot # Error => <<b, snapshot[b]>> \in resolved
  BY <1>1 DEF RefreshInv, OnItsWay
<1>w. Restoring => b = Docker /\ Docker \in expanded
  <2>1. ASSUME Restoring PROVE b = Docker /\ Docker \in expanded
    <3>1. t = R!Observer(1) /\ Docker \in expanded
      BY <1>2, <2>1 DEF Restoring
    <3> QED BY <1>1, <1>2, <2>1, <3>1 DEF Restoring
  <2> QED BY <2>1
<1>o. b = Docker /\ snapshot = Error => t \in Owed
  BY DEF Owed
<1> HIDE DEF b, snapshot
<1>4. NotShown(b) \/ \E rest : Shed(b, snapshot, rest)
  BY PublishFacts DEF b, snapshot
<1>5. /\ BudgetTypes' /\ left'.observes = left.observes
      /\ left'.failures <= left.failures /\ left'.sheds <= left.sheds
  BY PublishFacts
<1>6. /\ expanded \subseteq R!Nodes /\ sent \in Seq(SUBSET R!Nodes) /\ refused \subseteq R!Nodes
      /\ \A n \in R!Nodes : tree[n] \in R!Snapshots(n) /\ (n \notin expanded => tree[n] = None)
  BY DEF RefreshInv, RefreshTypes, HostTypes
<1>7. HostTypes' /\ Len(sent) \in Nat
      /\ (Len(sent') = Len(sent) \/ (Len(sent') = Len(sent) + 1 /\ b = Docker /\ (snapshot = Error \/ left'.sheds = left.sheds - 1)))
  <2>1. snapshot \in R!Snapshots(b) /\ \A n \in R!Nodes : None \in R!Snapshots(n)
    BY <1>2 DEF R!Snapshots, Listed
  <2>2. CASE NotShown(b)
    BY <1>2, <1>6, <2>2 DEF NotShown, HostTypes
  <2>3. ASSUME NEW rest, Shed(b, snapshot, rest)
               PROVE  /\ HostTypes' /\ Len(sent) \in Nat
                      /\ \/ Len(sent') = Len(sent)
                         \/ Len(sent') = Len(sent) + 1 /\ b = Docker /\ (snapshot = Error \/ left'.sheds = left.sheds - 1)
    <3>1. rest \subseteq R!Nodes /\ expanded' \subseteq R!Nodes /\ refused' \subseteq R!Nodes
      BY <1>2, <1>6, <2>3 DEF Shed
    <3>2. sent' \in Seq(SUBSET R!Nodes)
      BY <1>6, <2>3, <3>1 DEF Shed
    <3>3. \A n \in R!Nodes : tree'[n] \in R!Snapshots(n) /\ (n \notin expanded' => tree'[n] = None)
      BY <1>6, <2>1, <2>3 DEF Shed
    <3>4. Len(sent) \in Nat
          /\ (Len(sent') = Len(sent) \/ (Len(sent') = Len(sent) + 1 /\ b = Docker /\ (snapshot = Error \/ left'.sheds = left.sheds - 1)))
      BY <1>6, <2>3, <3>1 DEF Shed
    <3> QED BY <3>1, <3>2, <3>3, <3>4 DEF HostTypes
  <2> QED BY <1>4, <2>2, <2>3
<1>9. /\ RefreshTypes' /\ ToldIsPast' /\ job'[t] = j
      /\ \A u \in R!Threads : u # t => job'[u] = job[u]
  <2>1. AskedTypes' /\ resolved' \subseteq NodeGroups \X (Nat \cup {Missing})
    BY <1>1 DEF RefreshInv, RefreshTypes, FieldTypes, AskedTypes
  <2> QED BY <1>1, <1>2, <1>3, <1>5, <1>7, <2>1, GoesOnRefreshing
<1>10. ObservesCounted'
  <2>1. \A k \in R!Observes : k > Len(sent') => phase'[R!Observer(k)] = "idle"
    BY <1>1, <1>7, RefreshConstants DEF RefreshInv, ObservesCounted, R!Observes
  <2>2. IsFiniteSet(Owed) /\ Cardinality(Owed) \in Nat
    BY FiniteOwed DEF RefreshInv, RefreshTypes
  <2>3. Owed' \subseteq Owed \ {t}
    BY <1>3, <1>9, RefreshConstants DEF Owed, R!Nodes
  <2>4. /\ IsFiniteSet(Owed \ {t})
        /\ Cardinality(Owed \ {t}) = IF t \in Owed THEN Cardinality(Owed) - 1 ELSE Cardinality(Owed)
    BY <2>2, FS_RemoveElement
  <2>5. IsFiniteSet(Owed') /\ Cardinality(Owed') <= Cardinality(Owed \ {t})
    BY <2>3, <2>4, FS_Subset
  <2>6. Cardinality(Owed') \in Nat /\ Cardinality(Owed \ {t}) \in Nat
    BY <2>4, <2>5, FS_CardinalityType
  <2>7. /\ left.observes \in Nat /\ left.failures \in Nat /\ left.sheds \in Nat
        /\ left'.observes \in Nat /\ left'.failures \in Nat /\ left'.sheds \in Nat
    BY <1>5 DEF RefreshInv, RefreshTypes, BudgetTypes
  <2>p. /\ Promised' \in Nat /\ Promised' <= Promised /\ Promised \in Nat
        /\ left'.sheds = left.sheds - 1 => Promised' <= Promised - 1
    <3>1. Promised' \in Nat /\ Promised' <= Promised /\ Promised \in Nat
      BY <1>5, <2>7, PromisedType, PromisedKept DEF RefreshInv, RefreshTypes
    <3>2. left'.observes + left'.failures <= left.observes + left.failures
      BY <1>5, <2>7
    <3>3. left'.observes + left'.failures \in Nat /\ left.observes + left.failures \in Nat
      BY <2>7
    <3>4. left'.sheds = left.sheds - 1 => Promised' <= Promised - 1
      BY <2>7, <3>2, <3>3 DEF Promised
    <3> QED BY <3>1, <3>4
  <2>8. Len(sent') + Promised' + Cardinality(Owed') <= Len(sent) + Promised + Cardinality(Owed) /\ Len(sent') \in Nat
    <3>1. CASE Len(sent') = Len(sent)
      <4>1. Cardinality(Owed') <= Cardinality(Owed)
        BY <2>2, <2>4, <2>5, <2>6
      <4> QED BY <1>7, <2>2, <2>6, <2>p, <3>1, <4>1
    <3>2. CASE Len(sent') = Len(sent) + 1 /\ b = Docker /\ snapshot = Error
      <4>1. Cardinality(Owed') <= Cardinality(Owed) - 1
        BY <1>o, <2>2, <2>4, <2>5, <2>6, <3>2
      <4> QED BY <1>7, <2>2, <2>6, <2>p, <3>2, <4>1
    <3>3. CASE Len(sent') = Len(sent) + 1 /\ left'.sheds = left.sheds - 1
      <4>1. Cardinality(Owed') <= Cardinality(Owed)
        BY <2>2, <2>4, <2>5, <2>6
      <4> QED BY <1>7, <2>2, <2>6, <2>p, <3>3, <4>1
    <3> QED BY <1>7, <3>1, <3>2, <3>3
  <2>9. ~closed => Len(sent) + Promised + Cardinality(Owed) <= MaxObserves
    BY DEF RefreshInv, ObservesCounted
  <2>10. ~closed' => Len(sent') + Promised' + Cardinality(Owed') <= MaxObserves
    BY <1>1, <1>7, <2>2, <2>6, <2>8, <2>9, <2>p, RefreshConstants
  <2> QED BY <2>1, <2>10 DEF ObservesCounted
\* A group is published only when the Docker node is there, or was refused.
<1>11. ASSUME ~closed, ~R!Shown(b), b \in expanded PROVE Docker \in refused
  <2>1. b \in NodeGroups /\ tree[Docker] \in {None, Error} /\ GroupsOpen
    BY <1>2, <1>11 DEF R!Shown, R!Nodes, GroupsOpen
  <2>2. Restoring \/ Docker \in refused
    BY <1>11, <2>1 DEF RefreshInv, ParentsFirst
  <2> QED BY <1>w, <2>1, <2>2, RefreshConstants
<1>12. ParentsFirst'
  <2>1. CASE NotShown(b)
    <3>1. ~closed /\ Restoring => Docker \in refused'
      BY <1>w, <2>1 DEF NotShown, R!Shown
    <3>2. UNCHANGED <<expanded, tree, closed>> /\ refused \subseteq refused'
      BY <1>1, <2>1 DEF NotShown
    <3> QED BY <3>1, <3>2 DEF RefreshInv, ParentsFirst, GroupsOpen
  <2>2. ASSUME NEW rest, Shed(b, snapshot, rest) PROVE ParentsFirst'
    <3>1. /\ expanded' = rest /\ b \in expanded /\ (b = Docker \/ tree[Docker] \notin {None, Error})
          /\ tree' = [n \in R!Nodes |-> IF n \notin rest THEN None ELSE IF n = b THEN snapshot ELSE tree[n]]
          /\ rest = expanded \/ (b = Docker /\ rest = {Docker})
          /\ b = Docker /\ snapshot = Error => rest = {Docker}
      BY <2>2 DEF Shed, R!Shown
    <3>2. CASE b = Docker /\ rest = {Docker}
      <4>1. expanded' = {Docker}
        BY <3>1, <3>2
      <4> QED BY <4>1, RefreshConstants DEF ParentsFirst, GroupsOpen
    <3>3. CASE b = Docker /\ rest = expanded /\ snapshot # Error
      <4>1. tree'[Docker] = snapshot
        BY <1>2, <3>1, <3>3
      <4> QED BY <1>2, <3>3, <4>1 DEF ParentsFirst
    <3>4. CASE b # Docker
      <4>1. tree'[Docker] = tree[Docker] /\ Docker \in expanded
        BY <1>2, <1>6, <3>1, <3>4
      <4> QED BY <3>1, <3>4, <4>1 DEF ParentsFirst
    <3> QED BY <3>1, <3>2, <3>3, <3>4
  <2> QED BY <1>4, <2>1, <2>2
\* What the host shows was remembered before the call.
<1>13. R!Actionable'
  <2> SUFFICES ASSUME NEW g \in NodeGroups, tree'[g] \notin {None, Error}
               PROVE  <<g, tree'[g][g]>> \in resolved
    BY <1>1 DEF RefreshInv, R!Actionable
  <2>1. CASE tree'[g] = tree[g]
    BY <2>1 DEF RefreshInv, R!Actionable
  <2>2. CASE tree'[g] # tree[g]
    <3>1. g = b /\ tree'[g] = snapshot
      BY <1>2, <1>4, <2>2 DEF NotShown, Shed
    <3>2. g # Docker
      BY RefreshConstants
    <3> QED BY <1>s, <3>1, <3>2
  <2> QED BY <2>1, <2>2
<1>i. OnItsWay'
  BY <1>1, <1>3, <1>9 DEF RefreshInv, OnItsWay
<1>14. ~closed => /\ R!ObserveToCome => R!ObserveToCome'
                  /\ \A h : R!FlushToCome(h) => R!FlushToCome(h)'
  BY <1>1, <1>7, SamePhases
<1>15. R!EventKept'
  <2>1. \A u \in R!Threads : \A n, h : R!ToList(u, n, h) => R!ToList(u, n, h)'
    BY <1>1, <1>3, <1>9 DEF R!ToList
  <2> QED BY <1>1, <1>14, <2>1 DEF RefreshInv, R!EventKept
<1>16. R!FilledOrComing'
  <2> SUFFICES ASSUME ~closed', NEW n \in observed' \cap expanded', tree'[n] = None, n \notin refused'
               PROVE  R!ObserveToCome' \/ \E u \in R!Threads : n \in job'[u].todo \/ job'[u].at = n
    BY DEF R!FilledOrComing
  <2>1. n # b /\ n \in expanded /\ n \in R!Nodes /\ tree[n] = None /\ n \notin refused
    <3>1. n \in R!Nodes
      BY <1>7 DEF HostTypes
    <3>2. CASE NotShown(b)
      BY <1>1, <1>11, <3>1, <3>2 DEF NotShown
    <3>3. ASSUME NEW rest, Shed(b, snapshot, rest)
                 PROVE  n # b /\ n \in expanded /\ n \in R!Nodes /\ tree[n] = None /\ n \notin refused
      <4>1. /\ n \in rest /\ refused' = refused \ {b} /\ (rest = expanded \/ (b = Docker /\ rest = {Docker}))
            /\ tree' = [m \in R!Nodes |-> IF m \notin rest THEN None ELSE IF m = b THEN snapshot ELSE tree[m]]
        BY <3>3 DEF Shed
      <4>2. n # b /\ tree[n] = None
        BY <1>2, <3>1, <4>1
      <4>3. n \in expanded
        BY <4>1, <4>2
      <4> QED BY <3>1, <4>1, <4>2, <4>3
    <3> QED BY <1>4, <3>2, <3>3
  <2>2. \A u \in R!Threads : n \in job[u].todo \/ job[u].at = n => n \in job'[u].todo \/ job'[u].at = n
    BY <1>3, <1>9, <2>1 DEF b
  <2> QED BY <1>1, <1>14, <2>1, <2>2 DEF RefreshInv, R!FilledOrComing
<1> QED BY <1>9, <1>10, <1>12, <1>13, <1>15, <1>16, <1>i DEF RefreshInv

LEMMA FinishStep == ASSUME RefreshInv, NEW t \in R!Threads, R!Finish(t) PROVE RefreshInv'
<1> DEFINE l == IF t[1] = "observe" THEN "done" ELSE "idle"
<1>1. /\ phase[t] = "refresh" /\ job[t].at = None /\ R!Goto(t, l) /\ job' = [job EXCEPT ![t] = R!NoJob]
      /\ UNCHANGED <<now, feed, call, up, pending, timer, fired, expanded, tree, sent, observed, resolved,
                     closed, told, asked, left, clicked, refused>>
  BY DEF R!Finish, R!Free, R!daemon, R!burst, R!host, R!history
<1>2. ~closed => job[t].todo = {}
  BY DEF R!Finish, R!Stops
<1>3. job[t].want = {}
  BY <1>1, InRefresh DEF RefreshInv, RefreshTypes, JobFits
<1>4. l \in {"idle", "done"}
  OBVIOUS
<1> HIDE DEF l
<1>5. /\ phase'[t] = l /\ job'[t] = R!NoJob
      /\ \A u \in R!Threads : u # t => phase'[u] = phase[u] /\ job'[u] = job[u]
  BY <1>1, GotoFacts, JobFacts DEF RefreshInv, RefreshTypes
<1>6. RunTypes'
  BY <1>1, <1>4, NoJobType, RunTypesStep DEF RefreshInv, RefreshTypes
<1>7. BurstTypes'
  <2>1. \A i \in R!Flushes : R!Flush(i) \in R!Threads
    BY Goroutines
  <2> QED BY <1>1, <1>4, <1>5, <2>1 DEF RefreshInv, RefreshTypes, BurstTypes
<1>8. FieldTypes'
  <2>1. watching' \in BOOLEAN
    BY DEF R!Finish
  <2> QED BY <1>1, <2>1 DEF RefreshInv, RefreshTypes, FieldTypes
<1>9. RefreshTypes'
  BY <1>1, <1>6, <1>7, <1>8 DEF RefreshInv, RefreshTypes, DaemonTypes, StreamTypes, BudgetTypes, HostTypes, AskedTypes
<1>10. ToldIsPast'
  BY <1>1 DEF RefreshInv, ToldIsPast
<1>11. ObservesCounted'
  <2>1. \A u \in R!Threads : job'[u].at = Docker /\ job'[u].got = Error => job[u].at = Docker /\ job[u].got = Error
    BY <1>5, NoJobType, RefreshConstants DEF R!Nodes
  <2>2. left'.observes \in Nat /\ left'.failures \in Nat /\ left'.sheds \in Nat
    BY <1>1 DEF RefreshInv, RefreshTypes, BudgetTypes
  <2>3. left'.observes <= left.observes /\ left'.failures <= left.failures /\ left'.sheds <= left.sheds
    BY <1>1, <2>2
  <2>4. \A k \in R!Observes : phase[R!Observer(k)] = "idle" => phase'[R!Observer(k)] = "idle"
    BY <1>1, <1>5, Goroutines
  <2> QED BY <1>1, <1>6, <2>1, <2>2, <2>3, <2>4, CountKept
<1>12. ParentsFirst' /\ R!Actionable' /\ OnItsWay'
  <2>1. ~closed => ~Restoring
    <3>1. ASSUME ~closed, Restoring PROVE FALSE
      <4>1. t = R!Observer(1)
        BY <1>1, <3>1 DEF Restoring
      <4> QED BY <1>1, <1>2, <3>1, <4>1, RefreshConstants DEF Restoring, R!Nodes
    <3> QED BY <3>1
  <2>2. OnItsWay'
    BY <1>1, <1>5, NoJobType DEF RefreshInv, OnItsWay
  <2> QED BY <1>1, <2>1, <2>2, SameBranches
<1>13. ~closed => /\ R!ObserveToCome => R!ObserveToCome'
                  /\ \A g : R!FlushToCome(g) => R!FlushToCome(g)'
  <2>1. \A u \in R!Threads : /\ phase[u] = "begin" => phase'[u] = "begin"
                             /\ phase[u] = "idle" /\ u[1] = "observe" => phase'[u] \in {"idle", "begin"}
    BY <1>1, <1>5
  <2>2. Len(sent') \in Nat /\ Len(sent) <= Len(sent')
    BY <1>1 DEF RefreshInv, RefreshTypes, HostTypes
  <2> QED BY <1>1, <2>1, <2>2, StillToCome DEF RefreshInv
<1>14. R!EventKept'
  <2>1. ~closed => \A u \in R!Threads : \A n, h : R!ToList(u, n, h) => R!ToList(u, n, h)'
    BY <1>2, <1>3, <1>5 DEF R!ToList
  <2> QED BY <1>1, <1>13, <2>1 DEF RefreshInv, R!EventKept
<1>15. R!FilledOrComing'
  <2> SUFFICES ASSUME ~closed', NEW n \in observed' \cap expanded', tree'[n] = None
               PROVE  R!ObserveToCome' \/ n \in refused' \/ \E u \in R!Threads : n \in job'[u].todo \/ job'[u].at = n
    BY DEF R!FilledOrComing
  <2>1. n # None
    <3>1. n \in R!Nodes
      BY <1>1 DEF RefreshInv, RefreshTypes, FieldTypes
    <3> QED BY <3>1, RefreshConstants
  <2>2. \A u \in R!Threads : n \in job[u].todo \/ job[u].at = n => n \in job'[u].todo \/ job'[u].at = n
    BY <1>1, <1>2, <1>5, <2>1
  <2> QED BY <1>1, <1>13, <2>2 DEF RefreshInv, R!FilledOrComing
<1> QED BY <1>9, <1>10, <1>11, <1>12, <1>14, <1>15 DEF RefreshInv

LEMMA RefreshingStep == ASSUME RefreshInv, [R!Next]_R!vars PROVE RefreshInv'
<1>1. CASE UNCHANGED R!vars
  <2>1. UNCHANGED <<now, feed, call, up, pending, timer, fired, expanded, tree, sent, watching, observed, resolved,
                    closed, phase, job, told, asked, left, clicked, refused>>
    BY <1>1 DEF R!vars, R!daemon, R!burst, R!host, R!fields, R!run, R!history
  <2>2. RefreshTypes'
    BY <2>1 DEF RefreshInv, RefreshTypes, DaemonTypes, StreamTypes, BudgetTypes, BurstTypes, HostTypes, FieldTypes,
                RunTypes, AskedTypes
  <2>3. ToldIsPast' /\ ObservesCounted'
    BY <2>1 DEF RefreshInv, ToldIsPast, ObservesCounted, Promised, Owed
  <2>4. ParentsFirst' /\ R!Actionable' /\ OnItsWay'
    BY <2>1, SameTree DEF Restoring
  <2>5. R!EventKept' /\ R!FilledOrComing'
    BY <2>1 DEF RefreshInv, R!EventKept, R!FilledOrComing, R!ObserveToCome, R!FlushToCome, R!ToList
  <2> QED BY <2>2, <2>3, <2>4, <2>5 DEF RefreshInv
<1>2. CASE \E t \in R!Threads : R!RunJob(t)
  BY <1>2, RefreshAllStep, TakeStep, ListStep, RememberStep, PublishStep, FinishStep DEF R!RunJob
<1>3. CASE R!Next
  BY <1>2, <1>3, ExpandStep, DaemonChangesStep, ClickStep, InvokeActionStep, EndStep, ObserveStep, TickStep, OpenStreamStep,
     DecodeStep, StreamEndsStep, BeginFlushStep, FireStep DEF R!Next
<1> QED BY <1>1, <1>3

LEMMA RefreshTypesByInv == RefreshInv => R!TypeOK
<1> SUFFICES ASSUME RefreshInv PROVE R!TypeOK
  OBVIOUS
<1>1. call \in {0} \cup R!Calls
  BY RefreshConstants DEF RefreshInv, RefreshTypes, DaemonTypes, R!Calls
<1>2. /\ now \in [NodeGroups -> Nat] /\ told \in [NodeGroups -> Nat] /\ feed \in Seq(NodeGroups \X Nat)
      /\ up \in BOOLEAN
  BY DEF RefreshInv, RefreshTypes, DaemonTypes, StreamTypes
<1>3. ASSUME NEW t \in R!Threads
      PROVE  /\ phase[t] \in {"idle", "begin", "refresh", "done"}
             /\ job[t].todo \subseteq R!Nodes /\ job[t].at \in R!Nodes \cup {None}
             /\ phase[t] # "refresh" => job[t] = R!NoJob
             /\ job[t].at # None => job[t].want \subseteq R!Lists(job[t].at) /\ job[t].at \notin job[t].todo
             /\ job[t].stage \in {"list", "call"}
             /\ job[t].stage = "call" => R!ToPublish(job[t]) /\ R!HasRows(job[t])
  BY DEF RefreshInv, RefreshTypes, RunTypes, Jobs, JobFits, StageFits
<1>4. /\ pending \in [R!Calls -> SUBSET NodeGroups] /\ timer \in [R!Calls -> {"none", "armed"}]
      /\ fired \in [R!Flushes -> {0} \cup R!Calls] /\ asked \in [R!Nodes -> [NodeGroups -> Nat]]
  BY DEF RefreshInv, RefreshTypes, BurstTypes, AskedTypes
<1>5. /\ expanded \subseteq R!Nodes /\ observed \subseteq R!Nodes /\ sent \in Seq(SUBSET R!Nodes)
      /\ \A b \in R!Nodes : tree[b] \in R!Snapshots(b) /\ (b \notin expanded => tree[b] = None)
      /\ watching \in BOOLEAN /\ closed \in BOOLEAN /\ resolved \subseteq NodeGroups \X (Nat \cup {Missing})
  BY DEF RefreshInv, RefreshTypes, HostTypes, FieldTypes
<1>6. clicked \in {None} \cup (NodeGroups \X (Nat \cup {Missing})) /\ refused \subseteq R!Nodes
  BY <1>5 DEF RefreshInv, R!Actionable, RefreshTypes, HostTypes
<1> QED BY <1>1, <1>2, <1>3, <1>4, <1>5, <1>6 DEF R!TypeOK

LEMMA RefreshKeptByInv == RefreshInv => R!Actionable /\ R!EventKept /\ R!FilledOrComing
BY DEF RefreshInv

-----------------------------------------------------------------------------
(***************************************************************************)
(* Tree.                                                                   *)

\* A container that has not changed is still as it was listed, and the rows are
\* those of the branch at hand.
TreeInv ==
  /\ T!TypeOK /\ T!DotsTrue
  /\ \A c \in held : listed[c] = ctrs[c]
  /\ step = "inspect" => branch = "containers"
  /\ step = "users" => branch \in {"images", "volumes", "networks"}
  /\ branch \in {"none", "containers"} => DOMAIN rows \subseteq Ctrs

LEMMA TreeConstants == Objects # {} /\ MaxChanges \in Nat /\ MaxFailures \in Nat
BY ConstantsAssumption DEF ConstantsAssumption, T!ObjectsAssumption

LEMMA ContainerTones ==
  ASSUME NEW c, c.state \in T!States, c.health \in T!Healths
  PROVE  T!ContainerTone(c) \in T!Tones
BY DEF T!ContainerTone, T!RunningTone, T!ExitedTone, T!FixedTone, T!States, T!Healths, T!Tones

\* What the list entry says of a container that needs no inspect is all there is.
LEMMA PlainTone ==
  ASSUME NEW c \in T!Container, ~T!needsDetail(c.state)
  PROVE  T!ContainerTone([c EXCEPT !.health = "none", !.exit = 0]) = T!ContainerTone(c)
BY DEF T!Container, T!needsDetail, T!ContainerTone

LEMMA TreeInit == T!Init => TreeInv
<1> SUFFICES ASSUME T!Init PROVE TreeInv
  OBVIOUS
<1>1. \A t \in Tags : tag[t] \in Objects
  BY TreeConstants DEF T!Init
<1>2. DOMAIN rows = {} /\ rows = <<>>
  BY DEF T!Init
<1>3. T!TypeOK
  <2>1. ctrs \in [Ctrs -> T!Container \cup {Absent}] /\ listed = ctrs
    BY DEF T!Init
  <2>2. tag \in [Tags -> Objects]
    BY <1>1 DEF T!Init
  <2>3. branch \in {"none"} \cup T!GroupNames /\ step \in {"idle", "inspect", "users"}
    BY DEF T!Init
  <2>4. changes \in 0..MaxChanges /\ failures \in 0..MaxFailures
    BY TreeConstants DEF T!Init
  <2>5. held \subseteq Ctrs /\ failed \in BOOLEAN
    BY DEF T!Init
  <2>6. DOMAIN rows \in (SUBSET Ctrs) \cup {Objects} /\ \A r \in DOMAIN rows : rows[r] \in T!Tones
    BY <1>2
  <2> QED BY <2>1, <2>2, <2>3, <2>4, <2>5, <2>6 DEF T!TypeOK
<1>4. T!DotsTrue
  BY DEF T!Init, T!DotsTrue, T!Steady
<1> QED BY <1>2, <1>3, <1>4 DEF T!Init, TreeInv

LEMMA ContainerChangesStep == ASSUME TreeInv, NEW c \in Ctrs, T!ContainerChanges(c) PROVE TreeInv'
<1>1. PICK new \in {Absent} \cup T!Container : ctrs' = [ctrs EXCEPT ![c] = new]
  BY DEF T!ContainerChanges
<1>2. /\ changes < MaxChanges /\ changes' = changes + 1 /\ held' = held \ {c}
      /\ UNCHANGED <<tag, branch, step, listed, rows, failures, failed>>
  BY DEF T!ContainerChanges, T!MayChange
<1>3. /\ ctrs' \in [Ctrs -> T!Container \cup {Absent}]
      /\ \A d \in Ctrs : d # c => ctrs'[d] = ctrs[d]
  BY <1>1 DEF TreeInv, T!TypeOK
<1>4. T!TypeOK'
  BY <1>2, <1>3, TreeConstants DEF TreeInv, T!TypeOK
<1>5. \A d \in Ctrs : T!Steady(d)' => T!Steady(d) /\ ctrs'[d] = ctrs[d]
  BY <1>2, <1>3 DEF T!Steady
<1>6. T!DotsTrue'
  BY <1>2, <1>5 DEF TreeInv, T!DotsTrue
<1>7. \A d \in held' : listed'[d] = ctrs'[d]
  BY <1>2, <1>3 DEF TreeInv, T!TypeOK
<1> QED BY <1>2, <1>4, <1>6, <1>7 DEF TreeInv

LEMMA RetagStep == ASSUME TreeInv, NEW t \in Tags, NEW i \in Objects, T!Retag(t, i) PROVE TreeInv'
<1>1. /\ changes < MaxChanges /\ changes' = changes + 1 /\ tag' = [tag EXCEPT ![t] = i]
      /\ UNCHANGED <<ctrs, branch, step, listed, rows, failures, held, failed>>
  BY DEF T!Retag, T!MayChange
<1>2. T!TypeOK'
  BY <1>1, TreeConstants DEF TreeInv, T!TypeOK
<1> QED BY <1>1, <1>2 DEF TreeInv, T!DotsTrue, T!Steady

LEMMA ListBranchStep == ASSUME TreeInv, NEW b \in T!GroupNames, T!List(b) PROVE TreeInv'
<1>1. /\ branch' = b /\ listed' = ctrs /\ rows' = <<>> /\ failed' = FALSE
      /\ step' = IF b = "containers" THEN "inspect" ELSE "users"
      /\ held' = {c \in Ctrs : ctrs[c] # Absent} /\ UNCHANGED <<ctrs, tag, changes, failures>>
  BY DEF T!List
<1>2. DOMAIN rows' = {}
  BY <1>1
<1>3. T!TypeOK'
  <2>1. step' \in {"idle", "inspect", "users"}
    BY <1>1
  <2> QED BY <1>1, <1>2, <2>1 DEF TreeInv, T!TypeOK
<1>4. T!DotsTrue'
  BY <1>1, <1>2 DEF T!DotsTrue
<1>5. step' = "users" => branch' \in {"images", "volumes", "networks"}
  BY <1>1 DEF T!GroupNames
<1>6. step' = "inspect" => branch' = "containers"
  BY <1>1
<1>7. (\A c \in held' : listed'[c] = ctrs'[c]) /\ DOMAIN rows' \subseteq Ctrs
  BY <1>1, <1>2
<1> QED BY <1>3, <1>4, <1>5, <1>6, <1>7 DEF TreeInv

LEMMA InspectRowStep == ASSUME TreeInv, NEW c \in Ctrs, T!Inspect(c) PROVE TreeInv'
<1> DEFINE l == listed[c]
           detailed == [l EXCEPT !.health = ctrs[c].health, !.exit = ctrs[c].exit]
<1>1. /\ step = "inspect" /\ l # Absent /\ UNCHANGED <<ctrs, tag, branch, step, listed, changes, held>>
      /\ \/ ~T!needsDetail(l.state) /\ T!Row(c, T!Plain(c)) /\ UNCHANGED <<failures, failed>>
         \/ ctrs[c] # Absent /\ T!Row(c, detailed) /\ UNCHANGED <<failures, failed>>
         \/ T!Row(c, T!Plain(c)) /\ ctrs[c] = Absent /\ UNCHANGED <<failures, failed>>
         \/ T!Row(c, T!Plain(c)) /\ T!Fails
  BY DEF T!Inspect, T!Succeeds
<1>2. l \in T!Container /\ branch = "containers" /\ DOMAIN rows \subseteq Ctrs /\ branch' = branch
  BY <1>1 DEF TreeInv, T!TypeOK
<1>3. /\ T!Plain(c) = [l EXCEPT !.health = "none", !.exit = 0]
      /\ T!Plain(c).state \in T!States /\ T!Plain(c).health \in T!Healths
      /\ ctrs[c] # Absent => detailed.state \in T!States /\ detailed.health \in T!Healths
  <2>1. ctrs[c] # Absent => ctrs[c] \in T!Container
    BY DEF TreeInv, T!TypeOK
  <2> QED BY <1>2, <2>1 DEF T!Plain, T!Container, T!Healths
<1> HIDE DEF l, detailed
<1>4. \E d : /\ T!Row(c, d) /\ T!ContainerTone(d) \in T!Tones
             /\ T!Steady(c) => failed' \/ T!ContainerTone(d) = T!ContainerTone(ctrs[c])
  <2>1. CASE ~T!needsDetail(l.state) /\ T!Row(c, T!Plain(c)) /\ UNCHANGED <<failures, failed>>
    <3>1. T!Steady(c) => l = ctrs[c]
      BY DEF TreeInv, T!Steady, l
    <3>2. T!ContainerTone(T!Plain(c)) = T!ContainerTone(l)
      BY <1>2, <1>3, <2>1, PlainTone
    <3> QED BY <1>3, <2>1, <3>1, <3>2, ContainerTones
  <2>2. CASE ctrs[c] # Absent /\ T!Row(c, detailed) /\ UNCHANGED <<failures, failed>>
    <3>1. T!Steady(c) => l = ctrs[c]
      BY DEF TreeInv, T!Steady, l
    <3>2. T!Steady(c) => detailed = ctrs[c]
      BY <1>2, <3>1 DEF T!Container, detailed
    <3> QED BY <1>3, <2>2, <3>2, ContainerTones
  <2>3. CASE T!Row(c, T!Plain(c)) /\ ctrs[c] = Absent
    BY <1>3, <2>3, ContainerTones DEF T!Steady
  <2>4. CASE T!Row(c, T!Plain(c)) /\ T!Fails
    BY <1>3, <2>4, ContainerTones DEF T!Fails
  <2> QED BY <1>1, <2>1, <2>2, <2>3, <2>4
<1>5. PICK d : /\ T!Row(c, d) /\ T!ContainerTone(d) \in T!Tones
               /\ T!Steady(c) => failed' \/ T!ContainerTone(d) = T!ContainerTone(ctrs[c])
  BY <1>4
<1>6. /\ DOMAIN rows' = DOMAIN rows \cup {c} /\ rows'[c] = T!ContainerTone(d)
      /\ \A r \in DOMAIN rows : r # c => rows'[r] = rows[r]
  BY <1>5 DEF T!Row
<1>7. /\ failures' \in 0..MaxFailures /\ failed' \in BOOLEAN /\ (failed => failed')
  <2>1. CASE UNCHANGED <<failures, failed>>
    BY <2>1 DEF TreeInv, T!TypeOK
  <2>2. CASE T!Fails
    BY <2>2, TreeConstants DEF TreeInv, T!TypeOK, T!Fails
  <2> QED BY <1>1, <2>1, <2>2
<1>8. DOMAIN rows' \subseteq Ctrs /\ \A r \in DOMAIN rows' : rows'[r] \in T!Tones
  BY <1>2, <1>5, <1>6 DEF TreeInv, T!TypeOK
<1>9. T!TypeOK'
  BY <1>1, <1>7, <1>8 DEF TreeInv, T!TypeOK
<1>10. T!DotsTrue'
  BY <1>1, <1>2, <1>5, <1>6, <1>7 DEF TreeInv, T!DotsTrue, T!Steady
<1> QED BY <1>1, <1>2, <1>8, <1>9, <1>10 DEF TreeInv

LEMMA ContainerNodesStep == ASSUME TreeInv, T!ContainerNodes PROVE TreeInv'
<1>1. step' = "idle" /\ UNCHANGED <<ctrs, tag, branch, listed, rows, changes, failures, held, failed>>
  BY DEF T!ContainerNodes
<1> QED BY <1>1 DEF TreeInv, T!TypeOK, T!DotsTrue, T!Steady

LEMMA ListUsersStep == ASSUME TreeInv, T!ListUsers PROVE TreeInv'
<1>1. /\ step = "users" /\ step' = "idle" /\ UNCHANGED <<ctrs, tag, branch, listed, changes, held>>
      /\ \/ T!Marked({c \in Ctrs : ctrs[c] # Absent}) /\ UNCHANGED <<failures, failed>>
         \/ T!Marked({}) /\ T!Fails
  BY DEF T!ListUsers, T!Succeeds
<1>2. branch \in {"images", "volumes", "networks"}
  BY <1>1 DEF TreeInv
<1>3. \A used \in BOOLEAN : \A i \in Objects : T!Mark(used, i) \in T!Tones
  BY <1>2 DEF T!Mark, T!ImageTone, T!VolumeTone, T!NetworkTone, T!Tones
<1>4. \A i \in Objects : T!Mark(TRUE, i) = "ok"
  BY <1>2 DEF T!Mark, T!ImageTone, T!VolumeTone, T!NetworkTone
<1>5. DOMAIN rows' = Objects /\ \A i \in Objects : rows'[i] \in T!Tones
  <2>1. PICK users \in SUBSET Ctrs : T!Marked(users)
    BY <1>1
  <2>2. rows' = [i \in Objects |-> T!Mark(\E c \in users : T!Uses(c, i), i)]
    BY <2>1 DEF T!Marked
  <2>3. \A i \in Objects : (\E c \in users : T!Uses(c, i)) \in BOOLEAN
    OBVIOUS
  <2> QED BY <1>3, <2>2, <2>3
<1>6. /\ failures' \in 0..MaxFailures /\ failed' \in BOOLEAN
  <2>1. CASE UNCHANGED <<failures, failed>>
    BY <2>1 DEF TreeInv, T!TypeOK
  <2>2. CASE T!Fails
    BY <2>2, TreeConstants DEF TreeInv, T!TypeOK, T!Fails
  <2> QED BY <1>1, <2>1, <2>2
<1>7. T!TypeOK'
  BY <1>1, <1>5, <1>6 DEF TreeInv, T!TypeOK
<1>8. ASSUME ~failed', NEW c \in Ctrs, T!Steady(c) PROVE rows'[ctrs[c].uses] = "ok"
  <2> DEFINE users == {d \in Ctrs : ctrs[d] # Absent}
             i == ctrs[c].uses
  <2>1. rows' = [o \in Objects |-> T!Mark(\E d \in users : T!Uses(d, o), o)]
    BY <1>1, <1>8 DEF T!Fails, T!Marked
  <2>2. c \in users /\ i \in Objects
    BY <1>8 DEF T!Steady, TreeInv, T!TypeOK, T!Container
  <2>3. (\E d \in users : T!Uses(d, i)) = TRUE
    BY <2>2 DEF T!Uses
  <2>4. rows'[i] = T!Mark(\E d \in users : T!Uses(d, i), i)
    BY <2>1, <2>2
  <2> QED BY <1>4, <2>2, <2>3, <2>4
<1>9. T!DotsTrue'
  BY <1>1, <1>2, <1>8 DEF T!DotsTrue, T!Steady
<1> QED BY <1>1, <1>2, <1>7, <1>9 DEF TreeInv

LEMMA TreeStep == ASSUME TreeInv, [T!Next]_T!vars PROVE TreeInv'
<1>1. CASE UNCHANGED T!vars
  <2>1. UNCHANGED <<ctrs, tag, branch, step, listed, rows, changes, failures, held, failed>>
    BY <1>1 DEF T!vars
  <2> QED BY <2>1 DEF TreeInv, T!TypeOK, T!DotsTrue, T!Steady
<1>2. CASE T!Next
  BY <1>2, ContainerChangesStep, RetagStep, ListBranchStep, InspectRowStep, ContainerNodesStep, ListUsersStep DEF T!Next
<1> QED BY <1>1, <1>2


-----------------------------------------------------------------------------
(***************************************************************************)
(* Dialogs.                                                                *)

\* The calls that an action, and the handler of an answer, can have to come.
ActionCalls ==
  {<<>>, <<"form">>, <<"record">>, <<"tab">>, <<"inspect">>, <<"message">>, <<"detail">>,
   <<"requests", "report", "refresh">>, <<"report", "refresh">>, <<"refresh">>}
HandlerCalls ==
  {<<>>, <<"create", "refresh">>, <<"refresh">>, <<"requests", "refresh", "report">>,
   <<"refresh", "report">>, <<"report">>, <<"message">>}
Branches == {"none", "create", "remove", "tab", "inspect", "each"}
Works ==
  [calls : ActionCalls \cup HandlerCalls, form : D!Ids \cup {0}, branch : Branches,
   targets : SUBSET Targets, todo : SUBSET Targets, failed : SUBSET Targets,
   gone : SUBSET Targets, changed : SUBSET Targets]
\* Those of an action that opened its dialog, or has none to open.
HasOpened == {<<>>, <<"record">>, <<"refresh">>}
\* Those that still list what was changed.
Relists ==
  {<<"requests", "report", "refresh">>, <<"report", "refresh">>, <<"refresh">>,
   <<"requests", "refresh", "report">>, <<"refresh", "report">>}

\* Those of an action on each of its targets.
BatchCalls == {<<"requests", "report", "refresh">>, <<"report", "refresh">>}

\* What the calls of goroutine t say of its branch and its targets.
WorkFits(t) ==
  LET w == work[t] IN
  /\ w.todo \cup w.failed \cup w.gone \cup w.changed \subseteq w.targets
  /\ w.changed \cap w.todo = {}
  /\ w.calls # <<>> => w.branch # "none"
  /\ w.branch = "create" => w.targets = {}
  /\ w.calls = <<"create", "refresh">> => w.branch = "create"
  /\ w.calls \in BatchCalls => w.branch = "each"
  /\ w.branch \in {"tab", "inspect"} => w.todo = {}
  /\ w.branch \in {"none", "create", "each"} \/ (w.branch = "remove" /\ t[1] = "answer")
       => w.targets = w.todo \cup w.changed \cup w.gone \cup w.failed
  /\ w.todo # {} => D!At(t, "requests") \/ (w.branch = "remove" /\ t[1] = "action")
  /\ \A n \in Targets : <<t, n>> \in unlisted => n \in w.changed /\ w.calls \in Relists

DialogTypes ==
  /\ there \subseteq Targets /\ opened \in {0} \cup D!Ids /\ shown \in 0..opened
  /\ answers \subseteq D!Ids \X {"submit", "cancel"} /\ dialogs \subseteq 1..opened
  /\ work \in [D!Goroutines -> Works]
  /\ \A a \in Actions : work[D!Action(a)].calls \in ActionCalls
  /\ \A d \in D!Ids : work[D!Answer(d)].calls \in HandlerCalls /\ work[D!Answer(d)].form = 0
  /\ by \in [D!Ids -> Actions \cup {"none"}] /\ unlisted \subseteq D!Goroutines \X Targets
  /\ refusals \in 0..MaxRefusals

\* A dialog belongs to an action that was invoked and opens no other.
OfOpener ==
  \A d \in 1..opened :
    /\ by[d] \in Actions
    /\ work[D!Action(by[d])].branch # "none" /\ work[D!Action(by[d])].calls \in HasOpened
\* The form that an action opened is its own, and nobody answered it as long as
\* its handler is not recorded.
FormIsOwn ==
  \A a \in Actions : LET w == work[D!Action(a)] IN
    /\ w.calls = <<"form">> => w.branch \in {"create", "remove"}
    /\ w.calls = <<"record">> => w.form # 0 /\ w.form \notin dialogs /\ work[D!Answer(w.form)] = D!Idle
    /\ w.form # 0 => w.branch \in {"create", "remove"} /\ w.form \in 1..opened /\ by[w.form] = a
IsForm(d) == d \in 1..opened /\ work[D!Action(by[d])].form = d
\* A handler is recorded for a form that nobody answered, and runs for one that is
\* not on screen any more; so are the answers that are on their way.
AnsweredOnce ==
  /\ \A d \in dialogs : IsForm(d) /\ work[D!Answer(d)] = D!Idle
  /\ \A d \in D!Ids : work[D!Answer(d)] # D!Idle => IsForm(d) /\ shown # d
  /\ \A x \in answers : x[1] \in 1..opened /\ shown # x[1]
\* An action that asked has no other dialog until its answer opens one, which is
\* the last thing that the answer does.
FormIsAlone ==
  \A d \in 1..opened :
    IsForm(d) /\ (work[D!Answer(d)] = D!Idle \/ work[D!Answer(d)].calls # <<>>)
      => \A e \in 1..opened : by[e] = by[d] => e = d

Asking == OfOpener /\ FormIsOwn /\ AnsweredOnce /\ FormIsAlone
DialogsInv == DialogTypes /\ (\A t \in D!Goroutines : WorkFits(t)) /\ Asking

-----------------------------------------------------------------------------
LEMMA Threads ==
  /\ \A a \in Actions : D!Action(a) \in D!Goroutines /\ D!Action(a)[1] = "action" /\ D!Action(a)[2] = a
  /\ \A d \in D!Ids : D!Answer(d) \in D!Goroutines /\ D!Answer(d)[1] = "answer" /\ D!Answer(d)[2] = d
  /\ \A t \in D!Goroutines : (\E a \in Actions : t = D!Action(a)) \/ (\E d \in D!Ids : t = D!Answer(d))
BY DEF D!Action, D!Answer, D!Goroutines

LEMMA IdleType == D!Idle \in Works
BY DEF D!Idle, Works, ActionCalls, Branches

LEMMA DialogBounds == MaxDialogs \in Nat /\ MaxRefusals \in Nat
BY ConstantsAssumption DEF ConstantsAssumption, D!BoundsAssumption

LEMMA DialogsInit == D!Init => DialogsInv
<1> SUFFICES ASSUME D!Init PROVE DialogsInv
  OBVIOUS
<1>1. MaxDialogs \in Nat /\ MaxRefusals \in Nat
  BY DialogBounds
<1>2. \A t \in D!Goroutines : work[t] = D!Idle
  BY DEF D!Init
<1>3. DialogTypes
  BY <1>1, <1>2, IdleType, Threads DEF D!Init, DialogTypes, D!Ids, D!Idle, ActionCalls, HandlerCalls
<1>4. \A t \in D!Goroutines : WorkFits(t)
  <2>1. <<>> \notin BatchCalls /\ <<>> # <<"create", "refresh">>
    BY DEF BatchCalls
  <2> QED BY <1>2, <2>1 DEF D!Init, WorkFits, D!Idle
<1>5. Asking
  <2>1. 1..opened = {} /\ answers = {} /\ dialogs = {}
    BY DEF D!Init
  <2>2. \A t \in D!Goroutines : work[t].calls = <<>> /\ work[t].form = 0
    BY <1>2 DEF D!Idle
  <2>3. FormIsOwn
    <3>1. \A a \in Actions : work[D!Action(a)].calls = <<>> /\ work[D!Action(a)].form = 0
      BY <2>2, Threads
    <3>2. <<>> # <<"form">> /\ <<>> # <<"record">>
      OBVIOUS
    <3> QED BY <3>1, <3>2 DEF FormIsOwn
  <2>4. AnsweredOnce
    BY <1>2, <2>1, Threads DEF AnsweredOnce
  <2> QED BY <2>1, <2>3, <2>4 DEF Asking, OfOpener, FormIsAlone
<1> QED BY <1>3, <1>4, <1>5 DEF DialogsInv

\* What is left after the first call.
LEMMA NextCalls ==
  ASSUME NEW c \in ActionCalls \cup HandlerCalls, c # <<>>
  PROVE  /\ Head(c) = "requests" => c \in {<<"requests", "report", "refresh">>, <<"requests", "refresh", "report">>}
         /\ Head(c) = "report" => c \in {<<"report", "refresh">>, <<"report">>}
         /\ Head(c) = "refresh" => c \in {<<"refresh">>, <<"refresh", "report">>}
         /\ Head(c) = "form" => c = <<"form">>
         /\ Head(c) = "record" => c = <<"record">>
         /\ Head(c) = "tab" => c = <<"tab">>
         /\ Head(c) = "inspect" => c = <<"inspect">>
         /\ Head(c) = "message" => c = <<"message">>
         /\ Head(c) = "detail" => c = <<"detail">>
         /\ Head(c) = "create" => c = <<"create", "refresh">>
BY DEF ActionCalls, HandlerCalls

LEMMA Tails ==
  /\ Tail(<<"requests", "report", "refresh">>) = <<"report", "refresh">>
  /\ Tail(<<"requests", "refresh", "report">>) = <<"refresh", "report">>
  /\ Tail(<<"report", "refresh">>) = <<"refresh">> /\ Tail(<<"refresh", "report">>) = <<"report">>
  /\ Tail(<<"create", "refresh">>) = <<"refresh">>
  /\ \A x : Tail(<<x>>) = <<>>
OBVIOUS

LEMMA SetFacts ==
  ASSUME DialogTypes, NEW t \in D!Goroutines, NEW w \in Works, D!Set(t, w)
  PROVE  /\ work' \in [D!Goroutines -> Works] /\ work'[t] = w
         /\ \A u \in D!Goroutines : u # t => work'[u] = work[u]
BY DEF DialogTypes, D!Set

\* A goroutine goes on with its work and opens no dialog.
LEMMA GoesOnAsking ==
  ASSUME DialogTypes, Asking, NEW t \in D!Goroutines, NEW w \in Works, D!Set(t, w),
         work[t].calls # <<>>, work[t].branch # "none", w.form = work[t].form, w.branch = work[t].branch,
         t[1] = "action" => w.calls \notin {<<"form">>, <<"record">>}
                            /\ (work[t].calls \in HasOpened => w.calls \in HasOpened),
         UNCHANGED <<shown, opened, answers, dialogs, by>>
  PROVE  Asking'
<1>1. /\ work' \in [D!Goroutines -> Works] /\ work'[t] = w
      /\ \A u \in D!Goroutines : u # t => work'[u] = work[u]
  BY SetFacts
<1>2. work[t] # D!Idle /\ w # D!Idle
  BY DEF D!Idle
<1>3. \A u \in D!Goroutines : /\ work'[u].form = work[u].form /\ work'[u].branch = work[u].branch
                              /\ work'[u] = D!Idle <=> work[u] = D!Idle
  BY <1>1, <1>2
<1>4. \A a \in Actions :
        LET u == D!Action(a) IN
        /\ work[u].calls \in HasOpened => work'[u].calls \in HasOpened
        /\ work'[u].calls \in {<<"form">>, <<"record">>} => work'[u].calls = work[u].calls
  BY <1>1, Threads
<1>5. \A d \in D!Ids : work'[D!Answer(d)].calls # <<>> => work[D!Answer(d)].calls # <<>>
  BY <1>1, Threads
<1>6. 1..opened \subseteq D!Ids /\ opened' = opened /\ dialogs \subseteq D!Ids
  BY DialogBounds DEF DialogTypes, D!Ids
<1>7. OfOpener'
  BY <1>3, <1>4, <1>6, Threads DEF Asking, OfOpener
<1>8. FormIsOwn'
  <2> SUFFICES ASSUME NEW a \in Actions
               PROVE  LET v == work'[D!Action(a)] IN
                      /\ v.calls = <<"form">> => v.branch \in {"create", "remove"}
                      /\ v.calls = <<"record">> => v.form # 0 /\ v.form \notin dialogs' /\ work'[D!Answer(v.form)] = D!Idle
                      /\ v.form # 0 => v.branch \in {"create", "remove"} /\ v.form \in 1..opened' /\ by'[v.form] = a
    BY DEF FormIsOwn
  <2> DEFINE u == D!Action(a)
  <2>1. u \in D!Goroutines /\ work'[u].form = work[u].form /\ work'[u].branch = work[u].branch
    BY <1>3, Threads
  <2>2. work'[u].calls \in {<<"form">>, <<"record">>} => work'[u].calls = work[u].calls
    BY <1>4
  <2>3. work[u].form # 0 => D!Answer(work[u].form) \in D!Goroutines
    BY <1>6, Threads DEF Asking, FormIsOwn
  <2> QED BY <1>3, <2>1, <2>2, <2>3 DEF Asking, FormIsOwn
<1>9. \A d \in D!Ids : d \in 1..opened => (IsForm(d)' <=> IsForm(d))
  BY <1>3, <1>7, Threads DEF IsForm, OfOpener
<1>10. AnsweredOnce'
  <2>1. \A d \in D!Ids : IsForm(d) => d \in 1..opened
    BY DEF IsForm
  <2> QED BY <1>3, <1>6, <1>9, <2>1, Threads DEF Asking, AnsweredOnce
<1>11. FormIsAlone'
  BY <1>3, <1>5, <1>6, <1>9, Threads DEF Asking, FormIsAlone
<1> QED BY <1>7, <1>8, <1>10, <1>11 DEF Asking

\* What fits a goroutine goes on to fit it while others work.
LEMMA OthersFit ==
  ASSUME NEW u \in D!Goroutines, WorkFits(u), work'[u] = work[u],
         \A n \in Targets : <<u, n>> \in unlisted' => <<u, n>> \in unlisted
  PROVE  WorkFits(u)'
BY DEF WorkFits, D!At

LEMMA GoesOnWorking ==
  ASSUME DialogsInv, NEW t \in D!Goroutines, NEW w \in Works, D!Set(t, w),
         work[t].calls # <<>>, w.form = work[t].form, w.branch = work[t].branch,
         t[1] = "action" => /\ w.calls \in ActionCalls \ {<<"form">>, <<"record">>}
                            /\ work[t].calls \in HasOpened => w.calls \in HasOpened,
         t[1] = "answer" => w.calls \in HandlerCalls,
         there' \subseteq Targets, refusals' \in 0..MaxRefusals,
         unlisted' \subseteq unlisted \cup {<<t, m>> : m \in Targets},
         UNCHANGED <<shown, opened, answers, dialogs, by>>, WorkFits(t)'
  PROVE  DialogsInv'
<1>1. /\ work' \in [D!Goroutines -> Works] /\ work'[t] = w
      /\ \A u \in D!Goroutines : u # t => work'[u] = work[u]
  BY SetFacts DEF DialogsInv
<1>2. Asking'
  BY GoesOnAsking DEF DialogsInv, WorkFits
<1>3. \A u \in D!Goroutines : WorkFits(u)'
  BY <1>1, OthersFit DEF DialogsInv
<1>4. \A a \in Actions : work'[D!Action(a)].calls \in ActionCalls
  BY <1>1, Threads DEF DialogsInv, DialogTypes
<1>5. \A d \in D!Ids : work'[D!Answer(d)].calls \in HandlerCalls /\ work'[D!Answer(d)].form = 0
  BY <1>1, Threads DEF DialogsInv, DialogTypes
<1>6. DialogTypes'
  BY <1>1, <1>4, <1>5 DEF DialogsInv, DialogTypes
<1> QED BY <1>2, <1>3, <1>6 DEF DialogsInv

\* A call at the head of what is to come.
LEMMA AtFacts ==
  ASSUME DialogTypes, NEW t \in D!Goroutines, NEW c, D!At(t, c)
  PROVE  /\ work[t] \in Works /\ work[t].calls # <<>> /\ Head(work[t].calls) = c
         /\ work[t].calls \in ActionCalls \cup HandlerCalls
         /\ t[1] = "action" => work[t].calls \in ActionCalls
         /\ t[1] = "answer" => work[t].calls \in HandlerCalls /\ work[t].form = 0
         /\ t[1] \in {"action", "answer"}
BY Threads DEF DialogTypes, D!At, Works

LEMMA RequestStep ==
  ASSUME DialogsInv, NEW t \in D!Goroutines, NEW n \in Targets, D!Request(t, n)
  PROVE  DialogsInv'
<1> DEFINE v == work[t]
           rest == v.todo \ {n}
           calls == IF rest = {} THEN Tail(v.calls) ELSE v.calls
<1>1. /\ v \in Works /\ n \in v.todo
      /\ \/ v.calls = <<"requests", "report", "refresh">> /\ t[1] = "action"
         \/ v.calls = <<"requests", "refresh", "report">> /\ t[1] = "answer"
  BY AtFacts, NextCalls DEF DialogsInv, D!Request, ActionCalls, HandlerCalls
<1>2. /\ calls \in Relists /\ calls \in ActionCalls \cup HandlerCalls
      /\ t[1] = "action" => calls \in {<<"requests", "report", "refresh">>, <<"report", "refresh">>}
      /\ t[1] = "answer" => calls \in {<<"requests", "refresh", "report">>, <<"refresh", "report">>}
      /\ rest # {} => calls = v.calls
  BY <1>1, Tails DEF Relists, ActionCalls, HandlerCalls
<1> HIDE DEF calls
<1>3. ASSUME NEW w \in Works, D!Set(t, w), w.calls = calls, w.todo = rest, w.form = v.form, w.branch = v.branch,
             w.targets = v.targets, w.changed \cup w.gone \cup w.failed = v.changed \cup v.gone \cup v.failed \cup {n},
             \/ w.changed = v.changed /\ unlisted' = unlisted
             \/ w.changed = v.changed \cup {n} /\ unlisted' = unlisted \cup {<<t, n>>},
             there' \subseteq Targets, refusals' \in 0..MaxRefusals
      PROVE  DialogsInv'
  <2>1. WorkFits(t) /\ work'[t] = w
    BY <1>3, SetFacts DEF DialogsInv
  <2>2. n \in v.targets
    BY <1>1, <2>1 DEF WorkFits
  <2>3. t[1] = "action" => v.branch # "remove"
    BY <1>1, <2>1 DEF WorkFits, BatchCalls
  <2>4. D!At(t, "requests")' \/ rest = {}
    <3>1. ASSUME rest # {} PROVE D!At(t, "requests")'
      <4>1. work'[t].calls = v.calls
        BY <1>2, <1>3, <2>1, <3>1
      <4>2. v.calls # <<>> /\ Head(v.calls) = "requests"
        BY DEF D!Request, D!At
      <4> QED BY <4>1, <4>2 DEF D!At
    <3> QED BY <3>1
  <2>5. WorkFits(t)'
    <3>1. /\ w.todo \cup w.failed \cup w.gone \cup w.changed \subseteq w.targets
          /\ w.changed \cap w.todo = {}
      BY <1>1, <1>3, <2>1, <2>2 DEF WorkFits
    <3>2. /\ w.branch # "none" /\ w.branch # "create" /\ w.branch \notin {"tab", "inspect"}
          /\ w.calls # <<"create", "refresh">>
      BY <1>1, <1>2, <1>3, <2>1, <2>2 DEF WorkFits
    <3>3. w.calls \in BatchCalls => w.branch = "each"
      <4>1. w.calls \in BatchCalls => t[1] # "answer"
        BY <1>2, <1>3 DEF BatchCalls
      <4> QED BY <1>1, <1>3, <2>1, <4>1 DEF WorkFits, BatchCalls
    <3>4. w.branch \in {"none", "create", "each"} \/ (w.branch = "remove" /\ t[1] = "answer")
            => w.targets = w.todo \cup w.changed \cup w.gone \cup w.failed
      BY <1>1, <1>3, <2>1 DEF WorkFits
    <3>5. \A m \in Targets : <<t, m>> \in unlisted' => m \in w.changed /\ w.calls \in Relists
      BY <1>2, <1>3, <2>1 DEF WorkFits
    <3> QED BY <1>3, <2>1, <2>4, <3>1, <3>2, <3>3, <3>4, <3>5 DEF WorkFits
  <2>6. v.calls \notin HasOpened
    BY <1>1 DEF HasOpened
  <2>7. t[1] = "action" => w.calls \in ActionCalls \ {<<"form">>, <<"record">>}
    BY <1>2, <1>3 DEF ActionCalls
  <2>8. t[1] = "answer" => w.calls \in HandlerCalls
    BY <1>2, <1>3 DEF HandlerCalls
  <2>9. UNCHANGED <<shown, opened, answers, dialogs, by>>
    BY DEF D!Request
  <2>10. unlisted' \subseteq unlisted \cup {<<t, m>> : m \in Targets}
    BY <1>3
  <2>11. work[t].calls # <<>>
    BY DEF D!Request, D!At
  <2> HIDE DEF rest
  <2> QED BY <1>3, <2>10, <2>11, <2>5, <2>6, <2>7, <2>8, <2>9, GoesOnWorking
<1>4. there \subseteq Targets /\ refusals \in 0..MaxRefusals
  BY DEF DialogsInv, DialogTypes
<1> DEFINE next == [v EXCEPT !.todo = rest, !.calls = calls]
<1>5. /\ next \in Works /\ next.todo = rest /\ next.calls = calls /\ next.form = v.form /\ next.branch = v.branch
      /\ next.targets = v.targets /\ next.changed = v.changed /\ next.gone = v.gone /\ next.failed = v.failed
  BY <1>1, <1>2 DEF Works
<1> HIDE DEF next
<1>6. \/ /\ D!Set(t, [next EXCEPT !.gone = @ \cup {n}]) /\ UNCHANGED <<there, unlisted, refusals>>
      \/ /\ D!Set(t, [next EXCEPT !.changed = @ \cup {n}]) /\ there' \subseteq there
         /\ unlisted' = unlisted \cup {<<t, n>>} /\ UNCHANGED refusals
      \/ /\ D!Set(t, [next EXCEPT !.failed = @ \cup {n}]) /\ D!Fails /\ UNCHANGED <<there, unlisted>>
  <2>1. v.branch # "nothing"
    BY <1>1 DEF Works, Branches
  <2> QED BY <2>1 DEF D!Request, D!StillToDo, next, calls
<1>7. CASE D!Set(t, [next EXCEPT !.gone = @ \cup {n}]) /\ UNCHANGED <<there, unlisted, refusals>>
  <2>1. [next EXCEPT !.gone = @ \cup {n}] \in Works
    BY <1>5 DEF Works
  <2> QED BY <1>3, <1>4, <1>5, <1>7, <2>1 DEF Works
<1>8. CASE /\ D!Set(t, [next EXCEPT !.changed = @ \cup {n}]) /\ there' \subseteq there
           /\ unlisted' = unlisted \cup {<<t, n>>} /\ UNCHANGED refusals
  <2>1. [next EXCEPT !.changed = @ \cup {n}] \in Works
    BY <1>5 DEF Works
  <2> QED BY <1>3, <1>4, <1>5, <1>8, <2>1 DEF Works
<1>9. CASE D!Set(t, [next EXCEPT !.failed = @ \cup {n}]) /\ D!Fails /\ UNCHANGED <<there, unlisted>>
  <2>1. [next EXCEPT !.failed = @ \cup {n}] \in Works
    BY <1>5 DEF Works
  <2>2. refusals' \in 0..MaxRefusals
    BY <1>4, <1>9, DialogBounds DEF D!Fails
  <2> QED BY <1>3, <1>4, <1>5, <1>9, <2>1, <2>2 DEF Works
<1> QED BY <1>6, <1>7, <1>8, <1>9

\* The steps that end with another list of calls to come, the targets as they were.
LEMMA CallsReplaced ==
  ASSUME DialogsInv, NEW t \in D!Goroutines, work[t].calls # <<>>,
         NEW calls \in ActionCalls \cup HandlerCalls,
         D!Set(t, [work[t] EXCEPT !.calls = calls]),
         t[1] = "action" => /\ calls \in ActionCalls \ {<<"form">>, <<"record">>}
                            /\ work[t].calls \in HasOpened => calls \in HasOpened,
         t[1] = "answer" => calls \in HandlerCalls,
         calls = <<"create", "refresh">> => work[t].branch = "create",
         calls \in BatchCalls => work[t].branch = "each",
         ~D!At(t, "requests"),
         (unlisted' = unlisted /\ (work[t].calls \in Relists => calls \in Relists)) \/ unlisted' = {},
         refusals' \in 0..MaxRefusals,
         UNCHANGED <<there, shown, opened, answers, dialogs, by>>
  PROVE  DialogsInv'
<1> DEFINE w == [work[t] EXCEPT !.calls = calls]
<1>1. work[t] \in Works /\ WorkFits(t) /\ there \subseteq Targets
  BY DEF DialogsInv, DialogTypes
<1>2. /\ w \in Works /\ w.calls = calls /\ w.form = work[t].form /\ w.branch = work[t].branch
      /\ w.targets = work[t].targets /\ w.todo = work[t].todo /\ w.failed = work[t].failed
      /\ w.gone = work[t].gone /\ w.changed = work[t].changed
  BY <1>1 DEF Works
<1> HIDE DEF w
<1>3. work'[t] = w
  BY <1>2, SetFacts DEF DialogsInv, w
<1>4. WorkFits(t)'
  <2>1. w.todo # {} => w.branch = "remove" /\ t[1] = "action"
    BY <1>1, <1>2 DEF WorkFits
  <2>2. \A m \in Targets : <<t, m>> \in unlisted' => m \in w.changed /\ w.calls \in Relists
    BY <1>1, <1>2 DEF WorkFits
  <2> QED BY <1>1, <1>2, <1>3, <2>1, <2>2 DEF WorkFits
<1>5. D!Set(t, w)
  BY DEF w
<1> QED BY <1>1, <1>2, <1>4, <1>5, GoesOnWorking

LEMMA UnreachableStep ==
  ASSUME DialogsInv, NEW t \in D!Goroutines, D!Unreachable(t)
  PROVE  DialogsInv'
<1> DEFINE v == work[t]
           calls == IF t[1] = "answer" THEN <<"message">> ELSE Tail(v.calls)
           w == [v EXCEPT !.todo = {}, !.failed = v.targets, !.calls = calls]
<1>1. /\ v \in Works /\ v.calls # <<>> /\ v.todo = v.targets /\ WorkFits(t)
      /\ \/ v.calls = <<"requests", "report", "refresh">> /\ t[1] = "action"
         \/ v.calls = <<"requests", "refresh", "report">> /\ t[1] = "answer"
  BY AtFacts, NextCalls DEF DialogsInv, D!Unreachable, ActionCalls, HandlerCalls
<1>2. /\ t[1] = "action" => calls = <<"report", "refresh">>
      /\ t[1] = "answer" => calls = <<"message">>
  BY <1>1, Tails
<1>3. /\ calls \in ActionCalls \cup HandlerCalls
      /\ t[1] = "action" => calls \in ActionCalls \ {<<"form">>, <<"record">>}
      /\ t[1] = "answer" => calls \in HandlerCalls
  BY <1>1, <1>2 DEF ActionCalls, HandlerCalls
<1> HIDE DEF calls
<1>4. /\ w \in Works /\ w.calls = calls /\ w.form = v.form /\ w.branch = v.branch
      /\ w.targets = v.targets /\ w.todo = {} /\ w.failed = v.targets /\ w.gone = v.gone /\ w.changed = v.changed
  BY <1>1, <1>3 DEF Works
<1>5. D!Set(t, w) /\ UNCHANGED <<there, shown, opened, answers, dialogs, by, unlisted>>
  BY DEF D!Unreachable, calls
<1> HIDE DEF w
<1>6. work'[t] = w
  BY <1>4, <1>5, SetFacts DEF DialogsInv
<1>7. v.changed = {}
  BY <1>1 DEF WorkFits
<1>8. WorkFits(t)'
  <2>1. /\ w.branch # "create" \/ w.targets = {}
        /\ w.calls # <<"create", "refresh">> /\ w.branch # "none"
    BY <1>1, <1>2, <1>4 DEF WorkFits
  <2>2. w.calls \in BatchCalls => w.branch = "each"
    <3>1. t[1] = "answer" => w.calls \notin BatchCalls
      BY <1>2, <1>4 DEF BatchCalls
    <3>2. t[1] = "action" => v.branch = "each"
      BY <1>1 DEF WorkFits, BatchCalls
    <3> QED BY <1>1, <1>4, <3>1, <3>2
  <2>3. w.todo \cup w.failed \cup w.gone \cup w.changed \subseteq w.targets
    BY <1>1, <1>4 DEF WorkFits
  <2>4. \A m \in Targets : <<t, m>> \notin unlisted'
    BY <1>1, <1>5, <1>7 DEF WorkFits
  <2> QED BY <1>4, <1>6, <1>7, <2>1, <2>2, <2>3, <2>4 DEF WorkFits
<1>9. refusals' \in 0..MaxRefusals /\ there' \subseteq Targets
  BY <1>5, DialogBounds DEF D!Unreachable, D!Fails, DialogsInv, DialogTypes
<1>10. v.calls \notin HasOpened
  BY <1>1 DEF HasOpened
<1> QED BY <1>1, <1>3, <1>4, <1>5, <1>8, <1>9, <1>10, GoesOnWorking

LEMMA CreateStep == ASSUME DialogsInv, NEW t \in D!Goroutines, D!Create(t) PROVE DialogsInv'
<1>0. /\ work[t] \in Works /\ work[t].calls = <<"create", "refresh">> /\ t[1] = "answer"
  BY AtFacts, NextCalls DEF DialogsInv, D!Create, ActionCalls
<1>1. /\ work[t] \in Works /\ work[t].calls = <<"create", "refresh">> /\ t[1] = "answer" /\ WorkFits(t)
      /\ Tail(work[t].calls) = <<"refresh">>
  BY <1>0, Tails DEF DialogsInv
<1>2. UNCHANGED <<there, shown, opened, answers, dialogs, by, unlisted>>
  BY DEF D!Create
<1>3. <<"refresh">> \in HandlerCalls /\ <<"message">> \in HandlerCalls /\ {<<"refresh">>, <<"message">>} \cap BatchCalls = {}
      /\ <<"create", "refresh">> \notin {<<"refresh">>, <<"message">>} /\ work[t].calls \notin Relists
      /\ work[t].calls # <<>> /\ ~D!At(t, "requests")
  BY <1>1 DEF HandlerCalls, BatchCalls, Relists, D!At
<1>4. CASE D!Set(t, D!Then(t)) /\ UNCHANGED refusals
  <2>1. D!Set(t, [work[t] EXCEPT !.calls = <<"refresh">>])
    BY <1>1, <1>4 DEF D!Then
  <2>2. refusals' \in 0..MaxRefusals
    BY <1>4 DEF DialogsInv, DialogTypes
  <2> QED BY <1>1, <1>2, <1>3, <2>1, <2>2, CallsReplaced
<1>5. CASE D!Fails /\ D!Set(t, [work[t] EXCEPT !.calls = <<"message">>])
  <2>2. refusals' \in 0..MaxRefusals
    BY <1>5, DialogBounds DEF DialogsInv, DialogTypes, D!Fails
  <2> QED BY <1>1, <1>2, <1>3, <1>5, <2>2, CallsReplaced
<1> QED BY <1>4, <1>5 DEF D!Create

LEMMA TabStep == ASSUME DialogsInv, NEW t \in D!Goroutines, D!OpenTab(t) PROVE DialogsInv'
<1>1. work[t] \in Works /\ work[t].calls = <<"tab">> /\ t[1] = "action" /\ Tail(work[t].calls) = <<>>
  <2>1. work[t] \in Works /\ work[t].calls = <<"tab">> /\ t[1] = "action"
    BY AtFacts, NextCalls DEF DialogsInv, D!OpenTab, HandlerCalls
  <2> QED BY <2>1, Tails
<1>2. UNCHANGED <<there, shown, opened, answers, dialogs, by, unlisted>>
  BY DEF D!OpenTab
<1>3. /\ {<<>>, <<"message">>} \subseteq ActionCalls \ {<<"form">>, <<"record">>}
      /\ {<<>>, <<"message">>} \cap BatchCalls = {}
      /\ <<"create", "refresh">> \notin {<<>>, <<"message">>} /\ work[t].calls \notin Relists \cup HasOpened
      /\ work[t].calls # <<>> /\ ~D!At(t, "requests")
  BY <1>1 DEF ActionCalls, BatchCalls, Relists, HasOpened, D!At
<1>4. /\ D!Set(t, [work[t] EXCEPT !.calls = <<>>]) \/ D!Set(t, [work[t] EXCEPT !.calls = <<"message">>])
      /\ UNCHANGED refusals \/ D!Fails
  BY <1>1 DEF D!OpenTab, D!Then
<1>5. refusals' \in 0..MaxRefusals
  BY <1>4, DialogBounds DEF DialogsInv, DialogTypes, D!Fails
<1> QED BY <1>1, <1>2, <1>3, <1>4, <1>5, CallsReplaced

LEMMA InspectStep == ASSUME DialogsInv, NEW t \in D!Goroutines, D!Inspect(t) PROVE DialogsInv'
<1>1. work[t] \in Works /\ work[t].calls = <<"inspect">> /\ t[1] = "action"
  BY AtFacts, NextCalls DEF DialogsInv, D!Inspect, HandlerCalls
<1>2. UNCHANGED <<there, shown, opened, answers, dialogs, by, unlisted>>
  BY DEF D!Inspect
<1>3. /\ {<<"detail">>, <<"message">>} \subseteq ActionCalls \ {<<"form">>, <<"record">>}
      /\ {<<"detail">>, <<"message">>} \cap BatchCalls = {}
      /\ <<"create", "refresh">> \notin {<<"detail">>, <<"message">>} /\ work[t].calls \notin Relists \cup HasOpened
      /\ work[t].calls # <<>> /\ ~D!At(t, "requests")
  BY <1>1 DEF ActionCalls, BatchCalls, Relists, HasOpened, D!At
<1>4. /\ D!Set(t, [work[t] EXCEPT !.calls = <<"detail">>]) \/ D!Set(t, [work[t] EXCEPT !.calls = <<"message">>])
      /\ UNCHANGED refusals \/ D!Fails
  BY DEF D!Inspect
<1>5. refusals' \in 0..MaxRefusals
  BY <1>4, DialogBounds DEF DialogsInv, DialogTypes, D!Fails
<1> QED BY <1>1, <1>2, <1>3, <1>4, <1>5, CallsReplaced

LEMMA RefreshStep == ASSUME DialogsInv, NEW t \in D!Goroutines, D!Refresh(t) PROVE DialogsInv'
<1> DEFINE calls == Tail(work[t].calls)
<1>0. work[t].calls = <<"refresh">> \/ (work[t].calls = <<"refresh", "report">> /\ t[1] = "answer")
  BY AtFacts, NextCalls DEF DialogsInv, D!Refresh, ActionCalls
<1>1. \/ work[t].calls = <<"refresh">> /\ calls = <<>>
      \/ work[t].calls = <<"refresh", "report">> /\ calls = <<"report">> /\ t[1] = "answer"
  BY <1>0, Tails
<1>2. UNCHANGED <<there, shown, opened, answers, dialogs, by>> /\ unlisted' = {} /\ refusals' \in 0..MaxRefusals
  BY DEF D!Refresh, DialogsInv, DialogTypes
<1>3. D!Set(t, [work[t] EXCEPT !.calls = calls])
  BY DEF D!Refresh, D!Then
<1>4. /\ calls \in ActionCalls \cup HandlerCalls /\ calls \in HandlerCalls
      /\ t[1] = "action" => calls \in ActionCalls \ {<<"form">>, <<"record">>} /\ calls \in HasOpened
      /\ calls \notin BatchCalls /\ calls # <<"create", "refresh">>
      /\ work[t].calls # <<>> /\ ~D!At(t, "requests")
  <2>1. CASE work[t].calls = <<"refresh">> /\ calls = <<>>
    BY <2>1 DEF ActionCalls, HandlerCalls, BatchCalls, HasOpened, D!At
  <2>2. CASE work[t].calls = <<"refresh", "report">> /\ calls = <<"report">> /\ t[1] = "answer"
    BY <2>2 DEF ActionCalls, HandlerCalls, BatchCalls, D!At
  <2> QED BY <1>1, <2>1, <2>2
<1> HIDE DEF calls
<1> QED BY <1>2, <1>3, <1>4, CallsReplaced

\* A report that is not needed, or a dialog that the host refuses.
LEMMA PassesOver ==
  ASSUME DialogsInv, NEW t \in D!Goroutines, D!Opens(t) \/ D!Silent(t), D!Set(t, D!Then(t)),
         UNCHANGED <<there, shown, opened, answers, dialogs, by, unlisted, refusals>>
  PROVE  DialogsInv'
<1> DEFINE calls == Tail(work[t].calls)
<1>0. \/ work[t].calls = <<"report", "refresh">> /\ t[1] = "action"
      \/ work[t].calls \in {<<"form">>, <<"report">>, <<"message">>, <<"detail">>}
  BY AtFacts, NextCalls DEF DialogsInv, D!Opens, D!Silent, HandlerCalls
<1>1. \/ work[t].calls = <<"report", "refresh">> /\ calls = <<"refresh">> /\ t[1] = "action"
      \/ work[t].calls \in {<<"form">>, <<"report">>, <<"message">>, <<"detail">>} /\ calls = <<>>
  BY <1>0, Tails
<1>2. refusals' \in 0..MaxRefusals
  BY DEF DialogsInv, DialogTypes
<1>3. D!Set(t, [work[t] EXCEPT !.calls = calls])
  BY DEF D!Then
<1>4. /\ calls \in ActionCalls \cup HandlerCalls /\ calls \in HandlerCalls
      /\ t[1] = "action" => calls \in ActionCalls \ {<<"form">>, <<"record">>} /\ calls \in HasOpened
      /\ calls \notin BatchCalls /\ calls # <<"create", "refresh">>
      /\ work[t].calls \in Relists => calls \in Relists
      /\ work[t].calls # <<>> /\ ~D!At(t, "requests")
  <2>1. CASE work[t].calls = <<"report", "refresh">> /\ calls = <<"refresh">> /\ t[1] = "action"
    BY <2>1 DEF ActionCalls, HandlerCalls, BatchCalls, HasOpened, Relists, D!At
  <2>2. CASE work[t].calls \in {<<"form">>, <<"report">>, <<"message">>, <<"detail">>} /\ calls = <<>>
    <3>1. /\ <<>> \in ActionCalls \cap HandlerCalls \cap HasOpened /\ <<>> \notin BatchCalls
          /\ <<>> \notin {<<"form">>, <<"record">>, <<"create", "refresh">>}
      BY DEF ActionCalls, HandlerCalls, HasOpened, BatchCalls
    <3>2. \A c \in {<<"form">>, <<"report">>, <<"message">>, <<"detail">>} :
            c # <<>> /\ Head(c) # "requests" /\ c \notin Relists
      BY DEF Relists
    <3> QED BY <2>2, <3>1, <3>2 DEF D!At
  <2> QED BY <1>1, <2>1, <2>2
<1> HIDE DEF calls
<1> QED BY <1>2, <1>3, <1>4, CallsReplaced

-----------------------------------------------------------------------------
(* The dialogs.                                                            *)

\* While a goroutine has a dialog to open, the action that it works for shows none.
LEMMA ShowsNone ==
  ASSUME DialogsInv, NEW t \in D!Goroutines, D!Opens(t)
  PROVE  /\ D!Origin(t) \in Actions
         /\ t[1] = "action" => \A d \in 1..opened : by[d] # D!Origin(t)
         /\ t[1] = "answer" => IsForm(t[2]) /\ \A d \in 1..opened : by[d] = D!Origin(t) => d = t[2] /\ shown # d
<1>1. work[t].calls # <<>> /\ work[t].branch # "none" /\ work[t] # D!Idle
  BY DEF D!Opens, D!At, DialogsInv, WorkFits, D!Idle
<1>2. work[t].calls \notin HasOpened
  BY DEF D!Opens, D!At, HasOpened
<1>3. ASSUME NEW a \in Actions, t = D!Action(a)
      PROVE  D!Origin(t) \in Actions /\ \A d \in 1..opened : by[d] # D!Origin(t)
  <2>1. D!Origin(t) = a
    BY <1>3, Threads DEF D!Origin
  <2> QED BY <1>2, <1>3, <2>1 DEF DialogsInv, Asking, OfOpener
<1>4. ASSUME NEW d \in D!Ids, t = D!Answer(d)
      PROVE  D!Origin(t) \in Actions /\ IsForm(d) /\ \A e \in 1..opened : by[e] = D!Origin(t) => e = d /\ shown # e
  <2>1. D!Origin(t) = by[d]
    BY <1>4, Threads DEF D!Origin
  <2>2. IsForm(d) /\ shown # d
    BY <1>1, <1>4 DEF DialogsInv, Asking, AnsweredOnce
  <2>3. d \in 1..opened
    BY <2>2 DEF IsForm
  <2> QED BY <1>1, <1>4, <2>1, <2>2, <2>3 DEF DialogsInv, Asking, OfOpener, FormIsAlone
<1> QED BY <1>3, <1>4, Threads

\* The host opens a dialog.
LEMMA OpensStep ==
  ASSUME DialogsInv, NEW t \in D!Goroutines, D!OpenDialog(t), shown = 0
  PROVE  DialogsInv'
<1> DEFINE n == opened + 1
           v == work[t]
           w == IF D!At(t, "form") THEN [D!Then(t) EXCEPT !.calls = <<"record">> \o @, !.form = n] ELSE D!Then(t)
<1>1. /\ opened \in Nat /\ n \in D!Ids /\ opened' = n /\ shown' = n /\ n \notin 1..opened /\ n # 0
      /\ by' = [by EXCEPT ![n] = D!Origin(t)] /\ D!Set(t, w) /\ D!Opens(t)
      /\ UNCHANGED <<there, answers, dialogs, unlisted, refusals>>
  BY DialogBounds DEF D!OpenDialog, DialogsInv, DialogTypes, D!Ids
<1>2. /\ D!Origin(t) \in Actions
      /\ t[1] = "action" => \A d \in 1..opened : by[d] # D!Origin(t)
      /\ t[1] = "answer" => IsForm(t[2]) /\ \A d \in 1..opened : by[d] = D!Origin(t) => d = t[2] /\ shown # d
  BY <1>1, ShowsNone
<1>3. /\ v \in Works /\ WorkFits(t)
      /\ \/ v.calls = <<"form">> /\ t[1] = "action" /\ D!At(t, "form")
         \/ ~D!At(t, "form") /\ v.calls = <<"report", "refresh">> /\ t[1] = "action"
         \/ ~D!At(t, "form") /\ v.calls \in {<<"report">>, <<"message">>, <<"detail">>}
  BY <1>1, AtFacts, NextCalls DEF DialogsInv, D!Opens, HandlerCalls
<1>4. /\ w \in Works /\ w.branch = v.branch /\ w.targets = v.targets /\ w.todo = v.todo /\ w.failed = v.failed
      /\ w.gone = v.gone /\ w.changed = v.changed
      /\ v.calls = <<"form">> => w.calls = <<"record">> /\ w.form = n
      /\ v.calls = <<"report", "refresh">> => w.calls = <<"refresh">> /\ w.form = v.form
      /\ v.calls \in {<<"report">>, <<"message">>, <<"detail">>} => w.calls = <<>> /\ w.form = v.form
  <2>1. CASE v.calls = <<"form">>
    <3>1. w = [v EXCEPT !.calls = <<"record">>, !.form = n]
      <4>1. Tail(v.calls) = <<>> /\ <<"record">> \o <<>> = <<"record">>
        BY <2>1
      <4>2. D!Then(t) = [v EXCEPT !.calls = <<>>]
        BY <4>1 DEF D!Then
      <4>3. D!At(t, "form")
        BY <2>1 DEF D!At
      <4>4. w = [[v EXCEPT !.calls = <<>>] EXCEPT !.calls = <<"record">> \o @, !.form = n]
        BY <4>2, <4>3
      <4>5. [v EXCEPT !.calls = <<>>].calls = <<>>
        BY <1>3 DEF Works
      <4> HIDE DEF v, w
      <4> QED BY <1>3, <4>1, <4>4, <4>5 DEF Works
    <3>2. <<"record">> \in ActionCalls /\ {<<"report">>, <<"message">>, <<"detail">>, <<"report", "refresh">>} \cap {<<"form">>} = {}
      BY DEF ActionCalls
    <3> QED BY <1>1, <1>3, <2>1, <3>1, <3>2 DEF Works
  <2>2. ASSUME v.calls # <<"form">>, NEW calls \in {<<"refresh">>, <<>>}, Tail(v.calls) = calls
        PROVE  /\ w \in Works /\ w.branch = v.branch /\ w.targets = v.targets /\ w.todo = v.todo /\ w.failed = v.failed
               /\ w.gone = v.gone /\ w.changed = v.changed /\ w.calls = calls /\ w.form = v.form
    <3>1. w = [v EXCEPT !.calls = calls]
      BY <1>3, <2>2 DEF D!Then
    <3>2. calls \in ActionCalls
      BY DEF ActionCalls
    <3> QED BY <1>3, <3>1, <3>2 DEF Works
  <2>3. CASE v.calls = <<"report", "refresh">>
    BY <2>2, <2>3, Tails
  <2>4. CASE v.calls \in {<<"report">>, <<"message">>, <<"detail">>}
    <3>1. <<"report">> # <<"form">> /\ <<"message">> # <<"form">> /\ <<"detail">> # <<"form">>
      OBVIOUS
    <3>2. <<"report">> # <<"report", "refresh">> /\ <<"message">> # <<"report", "refresh">>
          /\ <<"detail">> # <<"report", "refresh">>
      OBVIOUS
    <3>3. Tail(v.calls) = <<>>
      BY <2>4, Tails
    <3> HIDE DEF v, w
    <3> QED BY <2>2, <2>4, <3>1, <3>2, <3>3
  <2> QED BY <1>3, <2>1, <2>3, <2>4
<1> HIDE DEF w
<1>5. /\ work' \in [D!Goroutines -> Works] /\ work'[t] = w
      /\ \A u \in D!Goroutines : u # t => work'[u] = work[u]
  BY <1>1, <1>4, SetFacts DEF DialogsInv
<1>6. by' \in [D!Ids -> Actions \cup {"none"}] /\ by'[n] = D!Origin(t) /\ \A d \in D!Ids : d # n => by'[d] = by[d]
  BY <1>1, <1>2 DEF DialogsInv, DialogTypes
<1>7. 1..opened' = 1..opened \cup {n} /\ 1..opened' \subseteq D!Ids
  BY <1>1, DialogBounds DEF D!Ids
<1>8. /\ t[1] \in {"action", "answer"}
      /\ t[1] = "action" => t = D!Action(D!Origin(t))
      /\ t[1] = "answer" => t[2] \in D!Ids /\ t = D!Answer(t[2]) /\ D!Origin(t) = by[t[2]]
  BY Threads DEF D!Origin
<1>9. /\ v.calls # <<>> /\ v.branch # "none" /\ v # D!Idle /\ w # D!Idle
      /\ ~D!At(t, "requests") /\ w.calls \in HasOpened /\ w.calls # <<"form">>
      /\ w.calls \notin BatchCalls /\ w.calls # <<"create", "refresh">>
      /\ w.form # v.form => t[1] = "action" /\ v.calls = <<"form">> /\ w.form = n
      /\ w.calls = <<"record">> => t[1] = "action" /\ v.calls = <<"form">> /\ w.form = n
      /\ t[1] = "answer" => w.calls = <<>> /\ w.form = v.form
      /\ v.calls \in Relists => w.calls \in Relists
  <2>1. v.calls # <<>> /\ v.branch # "none" /\ ~D!At(t, "requests")
    BY <1>1, <1>3 DEF WorkFits, D!Opens, D!At
  <2>2. v # D!Idle /\ w # D!Idle
    BY <1>4, <2>1 DEF D!Idle
  <2>3. CASE v.calls = <<"form">> /\ t[1] = "action"
    <3>1. /\ <<"record">> \in HasOpened /\ <<"record">> \notin BatchCalls
          /\ <<"record">> \notin {<<"form">>, <<"create", "refresh">>} /\ <<"form">> \notin Relists
      BY DEF HasOpened, BatchCalls, Relists
    <3>2. w.calls = <<"record">> /\ w.form = n
      BY <1>4, <2>3
    <3>3. t[1] # "answer" /\ v.calls \notin Relists
      BY <2>3, <3>1
    <3> HIDE DEF v
    <3> QED BY <2>1, <2>2, <2>3, <3>1, <3>2, <3>3
  <2>4. CASE v.calls = <<"report", "refresh">> /\ t[1] = "action"
    <3>1. /\ <<"refresh">> \in HasOpened \cap Relists /\ <<"refresh">> \notin BatchCalls
          /\ <<"refresh">> \notin {<<"form">>, <<"record">>, <<"create", "refresh">>}
      BY DEF HasOpened, BatchCalls, Relists
    <3> QED BY <1>4, <2>1, <2>2, <2>4, <3>1
  <2>5. CASE v.calls \in {<<"report">>, <<"message">>, <<"detail">>}
    <3>1. \A c \in {<<"report">>, <<"message">>, <<"detail">>} : c \notin Relists
      BY DEF Relists
    <3>2. /\ <<>> \in HasOpened /\ <<>> \notin BatchCalls
          /\ <<>> \notin {<<"form">>, <<"record">>, <<"create", "refresh">>}
      BY DEF HasOpened, BatchCalls
    <3>3. w.calls = <<>> /\ w.form = v.form
      BY <1>4, <2>5
    <3>4. v.calls \notin Relists
      BY <2>5, <3>1
    <3>5. /\ w.calls \in HasOpened /\ w.calls \notin BatchCalls
          /\ w.calls \notin {<<"form">>, <<"record">>, <<"create", "refresh">>}
      BY <3>2, <3>3
    <3>6. w.calls # <<"form">> /\ w.calls # <<"record">> /\ w.calls # <<"create", "refresh">>
      BY <3>5
    <3> HIDE DEF v
    <3> QED BY <2>1, <2>2, <3>3, <3>4, <3>5, <3>6
  <2> QED BY <1>3, <2>3, <2>4, <2>5
<1> HIDE DEF v
<1>10. \A a \in Actions : D!Action(a) # t => work'[D!Action(a)] = work[D!Action(a)]
  BY <1>5, Threads
<1>11. \A d \in 1..opened : /\ d \in D!Ids /\ d # n /\ by'[d] = by[d] /\ by[d] \in Actions
                            /\ D!Action(by[d]) # t /\ work'[D!Action(by[d])] = work[D!Action(by[d])]
                            /\ IsForm(d)' <=> IsForm(d)
  <2> SUFFICES ASSUME NEW d \in 1..opened
               PROVE  /\ d \in D!Ids /\ d # n /\ by'[d] = by[d] /\ by[d] \in Actions
                      /\ D!Action(by[d]) # t /\ work'[D!Action(by[d])] = work[D!Action(by[d])]
                      /\ IsForm(d)' <=> IsForm(d)
    OBVIOUS
  <2>1. d \in D!Ids /\ d # n /\ by'[d] = by[d] /\ by[d] \in Actions
    BY <1>1, <1>6, <1>7 DEF DialogsInv, Asking, OfOpener
  <2>2. D!Action(by[d]) # t
    <3>1. D!Action(by[d]) = t => t[1] = "action" /\ by[d] = D!Origin(t)
      BY <2>1, Threads DEF D!Origin
    <3> QED BY <1>2, <3>1
  <2> QED BY <1>7, <1>10, <2>1, <2>2 DEF IsForm
<1>12. OfOpener'
  <2>1. work'[D!Action(D!Origin(t))].branch # "none" /\ work'[D!Action(D!Origin(t))].calls \in HasOpened
    <3>1. CASE t[1] = "action"
      BY <1>4, <1>5, <1>8, <1>9, <3>1 DEF v
    <3>2. CASE t[1] = "answer"
      <4>1. t[2] \in 1..opened
        BY <1>2, <3>2 DEF IsForm
      <4> QED BY <1>8, <1>11, <3>2, <4>1 DEF DialogsInv, Asking, OfOpener
    <3> QED BY <1>8, <3>1, <3>2
  <2>2. \A d \in 1..opened : work'[D!Action(by'[d])].branch # "none" /\ work'[D!Action(by'[d])].calls \in HasOpened
    BY <1>11 DEF DialogsInv, Asking, OfOpener
  <2> QED BY <1>2, <1>6, <1>7, <1>11, <2>1, <2>2 DEF OfOpener
<1>13. work[D!Answer(n)] = D!Idle /\ work'[D!Answer(n)] = D!Idle /\ n \notin dialogs
  <2>1. ~IsForm(n)
    BY <1>1 DEF IsForm
  <2>2. work[D!Answer(n)] = D!Idle
    BY <1>1, <2>1 DEF DialogsInv, Asking, AnsweredOnce
  <2> QED BY <1>1, <1>5, <1>9, <2>2, Threads DEF v, DialogsInv, DialogTypes
<1>14. FormIsOwn'
  <2> SUFFICES ASSUME NEW a \in Actions
               PROVE  LET x == work'[D!Action(a)] IN
                      /\ x.calls = <<"form">> => x.branch \in {"create", "remove"}
                      /\ x.calls = <<"record">> => x.form # 0 /\ x.form \notin dialogs' /\ work'[D!Answer(x.form)] = D!Idle
                      /\ x.form # 0 => x.branch \in {"create", "remove"} /\ x.form \in 1..opened' /\ by'[x.form] = a
    BY DEF FormIsOwn
  <2>1. CASE D!Action(a) = t
    <3>1. t[1] = "action" /\ D!Origin(t) = a
      BY <2>1, Threads DEF D!Origin
    <3>2. v.form # 0 => FALSE
      BY <1>2, <2>1, <3>1 DEF v, DialogsInv, Asking, FormIsOwn
    <3>3. w.form # 0 => v.calls = <<"form">> /\ w.form = n
      BY <1>9, <3>2
    <3>4. v.calls = <<"form">> => v.branch \in {"create", "remove"}
      BY <2>1 DEF v, DialogsInv, Asking, FormIsOwn
    <3> QED BY <1>1, <1>4, <1>5, <1>6, <1>7, <1>9, <1>13, <2>1, <3>1, <3>3, <3>4
  <2>2. CASE D!Action(a) # t
    <3>1. work'[D!Action(a)] = work[D!Action(a)]
      BY <1>10, <2>2
    <3>2. work[D!Action(a)].form # 0 => work[D!Action(a)].form \in 1..opened
      BY DEF DialogsInv, Asking, FormIsOwn
    <3>3. work[D!Action(a)].calls = <<"record">> => work'[D!Answer(work[D!Action(a)].form)] = D!Idle
      BY <1>5, <1>9, <1>11, <3>2, Threads DEF v, DialogsInv, Asking, FormIsOwn
    <3> QED BY <1>1, <1>7, <1>11, <3>1, <3>2, <3>3 DEF DialogsInv, Asking, FormIsOwn
  <2> QED BY <2>1, <2>2
<1>15. AnsweredOnce'
  <2>1. \A d \in D!Ids : work'[D!Answer(d)] # D!Idle => work[D!Answer(d)] # D!Idle
    BY <1>5, <1>9, Threads DEF v
  <2>2. \A d : IsForm(d) => d \in 1..opened
    BY DEF IsForm
  <2>3. \A d \in dialogs : IsForm(d)' /\ work'[D!Answer(d)] = D!Idle
    BY <1>11, <2>1, <2>2 DEF DialogsInv, Asking, AnsweredOnce
  <2>4. \A d \in D!Ids : work'[D!Answer(d)] # D!Idle => IsForm(d)' /\ shown' # d
    BY <1>1, <1>11, <2>1, <2>2 DEF DialogsInv, Asking, AnsweredOnce
  <2>5. \A x \in answers : x[1] \in 1..opened' /\ shown' # x[1]
    BY <1>1, <1>7, <1>11 DEF DialogsInv, Asking, AnsweredOnce
  <2> QED BY <1>1, <2>3, <2>4, <2>5 DEF AnsweredOnce
<1>16. FormIsAlone'
  <2> SUFFICES ASSUME NEW d \in 1..opened', IsForm(d)',
                      work'[D!Answer(d)] = D!Idle \/ work'[D!Answer(d)].calls # <<>>,
                      NEW e \in 1..opened', by'[e] = by'[d]
               PROVE  e = d
    BY DEF FormIsAlone
  <2>1. CASE d = n
    <3>1. t[1] # "answer"
      BY <1>1, <1>2, <1>6, <1>8, <1>11, <2>1 DEF IsForm
    <3> QED BY <1>2, <1>6, <1>7, <1>8, <1>11, <2>1, <3>1
  <2>2. CASE d # n
    <3>1. d \in 1..opened /\ IsForm(d) /\ D!Answer(d) \in D!Goroutines
      BY <1>7, <1>11, <2>2, Threads
    <3>2. D!Answer(d) # t
      <4>1. D!Answer(d) = t => t[1] = "answer"
        BY <1>11, <3>1, Threads
      <4> QED BY <1>5, <1>9, <4>1
    <3>3. by[d] # D!Origin(t)
      BY <1>2, <1>8, <3>1, <3>2
    <3>4. \A c \in 1..opened : by[c] = by[d] => c = d
      BY <1>5, <3>1, <3>2 DEF DialogsInv, Asking, FormIsAlone
    <3> QED BY <1>6, <1>7, <1>11, <3>1, <3>3, <3>4
  <2> QED BY <2>1, <2>2
<1>17. WorkFits(t)'
  <2>1. w.todo # {} => w.branch = "remove" /\ t[1] = "action"
    BY <1>3, <1>4, <1>9 DEF v, WorkFits
  <2>2. \A m \in Targets : <<t, m>> \in unlisted' => m \in w.changed /\ w.calls \in Relists
    BY <1>1, <1>3, <1>4, <1>9 DEF v, WorkFits
  <2> QED BY <1>3, <1>4, <1>5, <1>9, <2>1, <2>2 DEF v, WorkFits
<1>18. \A u \in D!Goroutines : WorkFits(u)'
  BY <1>1, <1>5, <1>17, OthersFit DEF DialogsInv
<1>19. DialogTypes'
  <2>1. /\ \A a \in Actions : work'[D!Action(a)].calls \in ActionCalls
        /\ \A d \in D!Ids : work'[D!Answer(d)].calls \in HandlerCalls /\ work'[D!Answer(d)].form = 0
    <3>1. HasOpened \subseteq ActionCalls /\ <<>> \in HandlerCalls
      BY DEF HasOpened, ActionCalls, HandlerCalls
    <3>2. \A d \in D!Ids : D!Answer(d) = t => w.calls = <<>> /\ w.form = 0
      BY <1>9, Threads DEF v, DialogsInv, DialogTypes
    <3> QED BY <1>5, <1>9, <3>1, <3>2, Threads DEF DialogsInv, DialogTypes
  <2>2. shown' \in 0..opened' /\ dialogs' \subseteq 1..opened'
    BY <1>1, <1>7 DEF DialogsInv, DialogTypes
  <2> QED BY <1>1, <1>5, <1>6, <2>1, <2>2 DEF DialogsInv, DialogTypes
<1> QED BY <1>12, <1>14, <1>15, <1>16, <1>18, <1>19 DEF DialogsInv, Asking

LEMMA RecordStep == ASSUME DialogsInv, NEW t \in D!Goroutines, D!Record(t) PROVE DialogsInv'
<1> DEFINE w == [work[t] EXCEPT !.calls = <<>>]
<1>1. /\ work[t] \in Works /\ WorkFits(t) /\ work[t].calls = <<"record">> /\ t[1] = "action"
      /\ Tail(work[t].calls) = <<>>
  <2>1. work[t] \in Works /\ WorkFits(t) /\ work[t].calls = <<"record">> /\ t[1] = "action"
    BY AtFacts, NextCalls DEF DialogsInv, D!Record, HandlerCalls
  <2> QED BY <2>1, Tails
<1>2. /\ D!Set(t, w) /\ dialogs' = dialogs \cup {work[t].form}
      /\ UNCHANGED <<there, shown, opened, answers, by, unlisted, refusals>>
  BY <1>1 DEF D!Record, D!Then
<1>3. PICK a \in Actions : t = D!Action(a)
  BY <1>1, Threads
<1>4. /\ w \in Works /\ w.calls = <<>> /\ w.form = work[t].form /\ w.branch = work[t].branch
      /\ w.targets = work[t].targets /\ w.todo = work[t].todo /\ w.failed = work[t].failed
      /\ w.gone = work[t].gone /\ w.changed = work[t].changed
  BY <1>1 DEF Works, ActionCalls
<1> HIDE DEF w
<1>5. /\ work' \in [D!Goroutines -> Works] /\ work'[t] = w
      /\ \A u \in D!Goroutines : u # t => work'[u] = work[u]
  BY <1>2, <1>4, SetFacts DEF DialogsInv
<1>6. /\ work[t].form # 0 /\ work[t].form \notin dialogs /\ work[D!Answer(work[t].form)] = D!Idle
      /\ work[t].form \in 1..opened /\ by[work[t].form] = a
  BY <1>1, <1>3 DEF DialogsInv, Asking, FormIsOwn
<1>7. 1..opened \subseteq D!Ids /\ opened' = opened
  BY <1>2, DialogBounds DEF DialogsInv, DialogTypes, D!Ids
<1>8. \A u \in D!Goroutines : work'[u].form = work[u].form /\ work'[u].branch = work[u].branch
  BY <1>4, <1>5
<1>9. \A d \in D!Ids : work'[D!Answer(d)] = work[D!Answer(d)]
  BY <1>1, <1>5, Threads
<1>10. OfOpener'
  <2>1. \A b \in Actions : work[D!Action(b)].calls \in HasOpened => work'[D!Action(b)].calls \in HasOpened
    BY <1>4, <1>5, Threads DEF HasOpened
  <2> QED BY <1>2, <1>7, <1>8, <2>1, Threads DEF DialogsInv, Asking, OfOpener
<1>11. \A d \in 1..opened : IsForm(d)' <=> IsForm(d)
  BY <1>2, <1>7, <1>8, Threads DEF IsForm, DialogsInv, Asking, OfOpener
<1>12. FormIsOwn'
  <2> SUFFICES ASSUME NEW b \in Actions
               PROVE  LET x == work'[D!Action(b)] IN
                      /\ x.calls = <<"form">> => x.branch \in {"create", "remove"}
                      /\ x.calls = <<"record">> => x.form # 0 /\ x.form \notin dialogs' /\ work'[D!Answer(x.form)] = D!Idle
                      /\ x.form # 0 => x.branch \in {"create", "remove"} /\ x.form \in 1..opened' /\ by'[x.form] = b
    BY DEF FormIsOwn
  <2>1. CASE b = a
    <3>1. <<>> # <<"form">> /\ <<>> # <<"record">>
      OBVIOUS
    <3> QED BY <1>2, <1>3, <1>4, <1>5, <2>1, <3>1 DEF DialogsInv, Asking, FormIsOwn
  <2>2. CASE b # a
    <3>1. D!Action(b) # t
      BY <1>3, <2>2, Threads
    <3>2. work'[D!Action(b)] = work[D!Action(b)]
      BY <1>5, <3>1, Threads
    <3>3. work[D!Action(b)].form # 0 => work[D!Action(b)].form # work[t].form
      BY <1>6, <2>2 DEF DialogsInv, Asking, FormIsOwn
    <3> QED BY <1>2, <1>7, <1>9, <3>2, <3>3 DEF DialogsInv, Asking, FormIsOwn
  <2> QED BY <2>1, <2>2
<1>13. AnsweredOnce'
  <2>1. IsForm(work[t].form)
    BY <1>3, <1>6 DEF IsForm
  <2>2. \A d : IsForm(d) => d \in 1..opened
    BY DEF IsForm
  <2>3. \A d \in dialogs' : IsForm(d)' /\ work'[D!Answer(d)] = D!Idle
    BY <1>2, <1>6, <1>7, <1>9, <1>11, <2>1, <2>2 DEF DialogsInv, Asking, AnsweredOnce
  <2> QED BY <1>2, <1>9, <1>11, <2>2, <2>3 DEF DialogsInv, Asking, AnsweredOnce
<1>14. FormIsAlone'
  BY <1>2, <1>7, <1>9, <1>11 DEF DialogsInv, Asking, FormIsAlone
<1>15. WorkFits(t)'
  <2>1. <<>> \notin BatchCalls /\ <<>> # <<"create", "refresh">> /\ <<"record">> \notin Relists /\ ~D!At(t, "requests")
    BY <1>1 DEF BatchCalls, Relists, D!At
  <2> QED BY <1>1, <1>2, <1>4, <1>5, <2>1 DEF WorkFits
<1>16. \A u \in D!Goroutines : WorkFits(u)'
  BY <1>2, <1>5, <1>15, OthersFit DEF DialogsInv
<1>17. DialogTypes'
  <2>1. dialogs' \subseteq 1..opened'
    BY <1>2, <1>6, <1>7 DEF DialogsInv, DialogTypes
  <2>2. \A b \in Actions : work'[D!Action(b)].calls \in ActionCalls
    BY <1>4, <1>5, Threads DEF DialogsInv, DialogTypes, ActionCalls
  <2> QED BY <1>2, <1>5, <1>9, <2>1, <2>2 DEF DialogsInv, DialogTypes
<1> QED BY <1>10, <1>12, <1>13, <1>14, <1>16, <1>17 DEF DialogsInv, Asking

\* Nobody moves but the host, or a handler goes that will not run.
LEMMA QuietStep ==
  ASSUME DialogsInv, UNCHANGED <<opened, work, by, unlisted>>, there' \subseteq Targets,
         refusals' \in 0..MaxRefusals, dialogs' \subseteq dialogs,
         shown' = shown \/ shown' = 0,
         \A x \in answers' : /\ x \in D!Ids \X {"submit", "cancel"}
                             /\ x \in answers \/ (x[1] = shown /\ shown # 0 /\ shown' = 0)
  PROVE  DialogsInv'
<1>1. /\ opened \in Nat /\ 1..opened \subseteq D!Ids /\ 0 \notin 1..opened /\ shown \in 0..opened
      /\ dialogs \subseteq 1..opened
  BY DialogBounds DEF DialogsInv, DialogTypes, D!Ids
<1>2. DialogTypes'
  BY <1>1 DEF DialogsInv, DialogTypes
<1>3. \A u \in D!Goroutines : WorkFits(u)'
  BY OthersFit DEF DialogsInv
<1>4. OfOpener' /\ FormIsAlone'
  BY DEF DialogsInv, Asking, OfOpener, FormIsAlone, IsForm
<1>5. FormIsOwn'
  BY DEF DialogsInv, Asking, FormIsOwn
<1>6. AnsweredOnce'
  <2>1. \A d : IsForm(d)' <=> IsForm(d)
    BY DEF IsForm
  <2>2. \A d \in D!Ids : work'[D!Answer(d)] # D!Idle => IsForm(d)' /\ shown' # d
    BY <1>1, <2>1 DEF DialogsInv, Asking, AnsweredOnce, IsForm
  <2>3. \A x \in answers' : x[1] \in 1..opened' /\ shown' # x[1]
    BY <1>1 DEF DialogsInv, Asking, AnsweredOnce
  <2> QED BY <2>1, <2>2, <2>3 DEF DialogsInv, Asking, AnsweredOnce
<1> QED BY <1>2, <1>3, <1>4, <1>5, <1>6 DEF DialogsInv, Asking

LEMMA HostStep ==
  ASSUME DialogsInv,
         \/ \E n \in Targets : D!OthersRemove(n)
         \/ \E answer \in {"submit", "cancel"} : D!UserAnswers(answer)
         \/ \E d \in D!Ids : D!DialogCancelled(d)
  PROVE  DialogsInv'
<1>1. ASSUME NEW n \in Targets, D!OthersRemove(n) PROVE DialogsInv'
  BY <1>1, DialogBounds, QuietStep DEF D!OthersRemove, D!Fails, DialogsInv, DialogTypes
<1>2. ASSUME NEW answer \in {"submit", "cancel"}, D!UserAnswers(answer) PROVE DialogsInv'
  <2>1. <<shown, answer>> \in D!Ids \X {"submit", "cancel"}
    BY <1>2, DialogBounds DEF D!UserAnswers, DialogsInv, DialogTypes, D!Ids
  <2> QED BY <1>2, <2>1, QuietStep DEF D!UserAnswers, DialogsInv, DialogTypes
<1>3. ASSUME NEW d \in D!Ids, D!DialogCancelled(d) PROVE DialogsInv'
  BY <1>3, QuietStep DEF D!DialogCancelled, DialogsInv, DialogTypes
<1> QED BY <1>1, <1>2, <1>3

\* What the menus offer is known to runAction, and those that may be for several
\* rows are batches or removes.
LEMMA OfferedKnown ==
  ASSUME NEW action \in D!Offered
  PROVE  /\ D!Branch(action) \in {"create", "remove", "tab", "inspect", "each"}
         /\ D!Branch(action) = "create" <=> action \in D!CreateActions
         /\ action \in D!Multi <=> D!Branch(action) \in {"remove", "each"}
<1>1. action \in D!CreateActions \cup D!Removes \cup D!Tabs \cup D!Inspects \cup D!Requests
  <2>1. CASE action \in D!CreateActions
    BY <2>1
  <2>2. ASSUME NEW kind \in D!Kinds, NEW menu \in D!Menus(kind), action \in menu
        PROVE  action \in D!Removes \cup D!Tabs \cup D!Inspects \cup D!Requests
    <3>1. CASE kind = "container"
      <4>1. PICK s \in D!States : menu = D!ContainerActions(s)
        BY <2>2, <3>1 DEF D!Menus
      <4> QED BY <2>2, <4>1 DEF D!ContainerActions, D!Removes, D!Tabs, D!Inspects, D!Requests
    <3>2. CASE kind = "image"
      BY <2>2, <3>2 DEF D!Menus, D!ImageActions, D!Removes, D!Inspects
    <3>3. CASE kind = "volume"
      BY <2>2, <3>3 DEF D!Menus, D!VolumeActions, D!Removes, D!Inspects
    <3>4. CASE kind = "network"
      BY <2>2, <3>4 DEF D!Menus, D!NetworkActions, D!Inspects, D!Requests
    <3> QED BY <3>1, <3>2, <3>3, <3>4 DEF D!Kinds
  <2> QED BY <2>1, <2>2 DEF D!Offered
<1>2. CASE action \in D!CreateActions
  BY <1>2 DEF D!Branch, D!CreateActions, D!Multi, D!Requests, D!Removes
<1>3. CASE action \in D!Removes
  BY <1>3 DEF D!Branch, D!CreateActions, D!Multi, D!Removes
<1>4. CASE action \in D!Tabs \cup D!Inspects
  BY <1>4 DEF D!Branch, D!CreateActions, D!Multi, D!Requests, D!Removes, D!Tabs, D!Inspects
<1>5. CASE action \in D!Requests
  BY <1>5 DEF D!Branch, D!CreateActions, D!Multi, D!Requests, D!Removes, D!Tabs, D!Inspects
<1> QED BY <1>1, <1>2, <1>3, <1>4, <1>5

\* A goroutine begins, in whose name no dialog was opened.
LEMMA Begins ==
  ASSUME DialogsInv, NEW t \in D!Goroutines, work[t] = D!Idle, NEW w \in Works, D!Set(t, w),
         w.form = 0, w.branch # "none",
         UNCHANGED <<there, shown, opened, by, unlisted, refusals>>,
         answers' \subseteq answers, dialogs' \subseteq dialogs,
         t[1] = "action" => /\ w.calls \in ActionCalls \ {<<"record">>}
                            /\ w.calls = <<"form">> => w.branch \in {"create", "remove"},
         t[1] = "answer" => /\ w.calls \in HandlerCalls \ {<<>>}
                            /\ IsForm(t[2]) /\ shown # t[2] /\ t[2] \in dialogs \ dialogs',
         WorkFits(t)'
  PROVE  DialogsInv'
<1>1. /\ work' \in [D!Goroutines -> Works] /\ work'[t] = w
      /\ \A u \in D!Goroutines : u # t => work'[u] = work[u]
  BY SetFacts DEF DialogsInv
<1>2. work[t].branch = "none" /\ work[t].form = 0
  BY DEF D!Idle
<1>3. w # D!Idle
  BY DEF D!Idle
<1>4. 1..opened \subseteq D!Ids /\ opened' = opened /\ dialogs \subseteq D!Ids
  BY DialogBounds DEF DialogsInv, DialogTypes, D!Ids
<1>5. \A d \in 1..opened : /\ by[d] \in Actions /\ by'[d] = by[d] /\ D!Action(by[d]) # t
                           /\ work'[D!Action(by[d])] = work[D!Action(by[d])] /\ (IsForm(d)' <=> IsForm(d))
  BY <1>1, <1>2, <1>4, Threads DEF DialogsInv, Asking, OfOpener, IsForm
<1>6. \A d : IsForm(d) => d \in 1..opened
  BY DEF IsForm
<1>7. \A d \in D!Ids : D!Answer(d) \in D!Goroutines /\ (D!Answer(d) = t => t[1] = "answer" /\ t[2] = d)
  BY Threads
<1>8. OfOpener'
  BY <1>4, <1>5 DEF DialogsInv, Asking, OfOpener
<1>9. FormIsOwn'
  <2> SUFFICES ASSUME NEW a \in Actions
               PROVE  LET x == work'[D!Action(a)] IN
                      /\ x.calls = <<"form">> => x.branch \in {"create", "remove"}
                      /\ x.calls = <<"record">> => x.form # 0 /\ x.form \notin dialogs' /\ work'[D!Answer(x.form)] = D!Idle
                      /\ x.form # 0 => x.branch \in {"create", "remove"} /\ x.form \in 1..opened' /\ by'[x.form] = a
    BY DEF FormIsOwn
  <2>1. CASE D!Action(a) = t
    BY <1>1, <2>1, Threads
  <2>2. CASE D!Action(a) # t
    <3>1. work'[D!Action(a)] = work[D!Action(a)]
      BY <1>1, <2>2, Threads
    <3>2. work[D!Action(a)].form # 0 => work[D!Action(a)].form \in 1..opened
      BY DEF DialogsInv, Asking, FormIsOwn
    <3>3. work[D!Action(a)].calls = <<"record">> => work'[D!Answer(work[D!Action(a)].form)] = D!Idle
      BY <1>1, <1>4, <1>7, <3>2 DEF DialogsInv, Asking, FormIsOwn
    <3> QED BY <1>4, <3>1, <3>2, <3>3 DEF DialogsInv, Asking, FormIsOwn
  <2> QED BY <2>1, <2>2
<1>10. AnsweredOnce'
  <2>1. \A d \in dialogs' : IsForm(d)' /\ work'[D!Answer(d)] = D!Idle
    BY <1>1, <1>4, <1>5, <1>6, <1>7 DEF DialogsInv, Asking, AnsweredOnce
  <2>2. \A d \in D!Ids : work'[D!Answer(d)] # D!Idle => IsForm(d)' /\ shown' # d
    BY <1>1, <1>5, <1>6, <1>7 DEF DialogsInv, Asking, AnsweredOnce
  <2> QED BY <1>4, <2>1, <2>2 DEF DialogsInv, Asking, AnsweredOnce
<1>11. FormIsAlone'
  <2> SUFFICES ASSUME NEW d \in 1..opened', IsForm(d)',
                      work'[D!Answer(d)] = D!Idle \/ work'[D!Answer(d)].calls # <<>>,
                      NEW e \in 1..opened', by'[e] = by'[d]
               PROVE  e = d
    BY DEF FormIsAlone
  <2>1. work[D!Answer(d)] = D!Idle \/ work[D!Answer(d)].calls # <<>>
    BY <1>1, <1>3, <1>4, <1>7
  <2> QED BY <1>4, <1>5, <2>1 DEF DialogsInv, Asking, FormIsAlone
<1>12. \A u \in D!Goroutines : WorkFits(u)'
  BY <1>1, OthersFit DEF DialogsInv
<1>13. DialogTypes'
  <2>1. /\ \A a \in Actions : work'[D!Action(a)].calls \in ActionCalls
        /\ \A d \in D!Ids : work'[D!Answer(d)].calls \in HandlerCalls /\ work'[D!Answer(d)].form = 0
    BY <1>1, Threads DEF DialogsInv, DialogTypes
  <2> QED BY <1>1, <1>4, <2>1 DEF DialogsInv, DialogTypes
<1> QED BY <1>8, <1>9, <1>10, <1>11, <1>12, <1>13 DEF DialogsInv, Asking

LEMMA InvokeStep ==
  ASSUME DialogsInv, NEW a \in Actions, NEW action \in D!Offered,
         NEW selected \in SUBSET Targets, NEW targets \in SUBSET selected,
         D!InvokeAction(a, action, selected, targets)
  PROVE  DialogsInv'
<1> DEFINE t == D!Action(a)
           b == D!Branch(action)
           calls == D!Calls(b, targets)
           todo == IF action \in D!Multi \/ b = "nothing" THEN targets ELSE {}
           w == [D!Idle EXCEPT !.branch = b, !.calls = calls, !.targets = targets, !.todo = todo]
<1>1. /\ t \in D!Goroutines /\ t[1] = "action" /\ work[t] = D!Idle /\ D!Set(t, w)
      /\ UNCHANGED <<there, shown, opened, answers, dialogs, by, unlisted, refusals>>
      /\ targets \subseteq Targets
  BY Threads DEF D!InvokeAction
<1>2. /\ b \in {"create", "remove", "tab", "inspect", "each"}
      /\ b = "create" => targets = {}
      /\ todo = IF b \in {"remove", "each"} THEN targets ELSE {}
  BY OfferedKnown DEF D!InvokeAction
<1>3. /\ b \in {"create", "remove"} => calls = <<"form">>
      /\ b = "tab" => calls = <<"tab">>
      /\ b = "inspect" => calls = <<"inspect">>
      /\ b = "each" => calls = <<"requests", "report", "refresh">>
  BY DEF D!Calls, D!Asks
<1> HIDE DEF b, calls, todo
<1>4. /\ calls \in ActionCalls /\ calls # <<"record">> /\ calls # <<"create", "refresh">>
      /\ calls \in BatchCalls => b = "each"
      /\ calls = <<"form">> => b \in {"create", "remove"}
      /\ b = "each" => calls # <<>> /\ Head(calls) = "requests"
  <2>1. CASE b \in {"create", "remove"} /\ calls = <<"form">>
    BY <2>1 DEF ActionCalls, BatchCalls
  <2>2. CASE b = "tab" /\ calls = <<"tab">>
    BY <2>2 DEF ActionCalls, BatchCalls
  <2>3. CASE b = "inspect" /\ calls = <<"inspect">>
    BY <2>3 DEF ActionCalls, BatchCalls
  <2>4. CASE b = "each" /\ calls = <<"requests", "report", "refresh">>
    BY <2>4 DEF ActionCalls, BatchCalls
  <2> QED BY <1>2, <1>3, <2>1, <2>2, <2>3, <2>4
<1>5. /\ w \in Works /\ w.calls = calls /\ w.form = 0 /\ w.branch = b /\ w.targets = targets /\ w.todo = todo
      /\ w.failed = {} /\ w.gone = {} /\ w.changed = {}
  BY <1>1, <1>2, <1>4 DEF D!Idle, Works, Branches
<1> HIDE DEF w
<1>6. work'[t] = w
  BY <1>1, <1>5, SetFacts DEF DialogsInv
<1>7. WorkFits(t)'
  <2>1. \A n \in Targets : <<t, n>> \notin unlisted
    <3>1. work[t].calls \notin Relists
      BY <1>1 DEF D!Idle, Relists
    <3> QED BY <1>1, <3>1 DEF DialogsInv, WorkFits
  <2>2. w.todo # {} => D!At(t, "requests")' \/ w.branch = "remove"
    BY <1>2, <1>4, <1>5, <1>6 DEF D!At
  <2> HIDE DEF t
  <2> QED BY <1>1, <1>2, <1>4, <1>5, <1>6, <2>1, <2>2 DEF WorkFits
<1> HIDE DEF t
<1> QED BY <1>1, <1>2, <1>4, <1>5, <1>7, Begins

LEMMA SubmitStep == ASSUME DialogsInv, NEW d \in D!Ids, D!DialogSubmitted(d) PROVE DialogsInv'
<1>1. CASE d \notin dialogs
  <2>1. /\ UNCHANGED <<there, shown, opened, work, by, unlisted, refusals>>
        /\ dialogs' \subseteq dialogs /\ answers' \subseteq answers
    BY <1>1 DEF D!DialogSubmitted
  <2> QED BY <2>1, QuietStep DEF DialogsInv, DialogTypes
<1>2. CASE d \in dialogs
  <2> DEFINE t == D!Answer(d)
             opener == work[D!Action(by[d])]
             calls == D!AnswerCalls(opener.branch)
             w == [D!Idle EXCEPT !.branch = opener.branch, !.calls = calls, !.targets = opener.targets, !.todo = opener.targets]
  <2>1. /\ t \in D!Goroutines /\ t[1] = "answer" /\ t[2] = d /\ D!Set(t, w)
        /\ UNCHANGED <<there, shown, opened, by, unlisted, refusals>>
        /\ dialogs' = dialogs \ {d} /\ answers' \subseteq answers /\ <<d, "submit">> \in answers
    BY <1>2, Threads DEF D!DialogSubmitted
  <2>2. IsForm(d) /\ work[t] = D!Idle /\ shown # d
    BY <1>2, <2>1 DEF DialogsInv, Asking, AnsweredOnce
  <2>3. by[d] \in Actions /\ D!Action(by[d]) \in D!Goroutines /\ opener.form = d /\ d # 0
    BY <2>2, Threads DEF IsForm, DialogsInv, Asking, OfOpener, D!Ids
  <2>4. opener \in Works /\ opener.branch \in {"create", "remove"} /\ (opener.branch = "create" => opener.targets = {})
    <3>1. opener.branch \in {"create", "remove"}
      BY <2>3 DEF DialogsInv, Asking, FormIsOwn
    <3> QED BY <2>3, <3>1 DEF DialogsInv, DialogTypes, WorkFits
  <2>5. /\ calls \in HandlerCalls /\ calls # <<>> /\ calls \notin BatchCalls
        /\ calls = <<"create", "refresh">> => opener.branch = "create"
        /\ opener.branch = "remove" => Head(calls) = "requests"
    <3>1. CASE opener.branch = "create"
      BY <3>1 DEF D!AnswerCalls, HandlerCalls, BatchCalls
    <3>2. CASE opener.branch = "remove"
      BY <3>2 DEF D!AnswerCalls, HandlerCalls, BatchCalls
    <3> QED BY <2>4, <3>1, <3>2
  <2> HIDE DEF calls
  <2>6. /\ w \in Works /\ w.calls = calls /\ w.form = 0 /\ w.branch = opener.branch
        /\ w.targets = opener.targets /\ w.todo = opener.targets /\ w.failed = {} /\ w.gone = {} /\ w.changed = {}
    BY <2>4, <2>5 DEF D!Idle, Works
  <2> HIDE DEF w, opener
  <2>7. work'[t] = w
    BY <2>1, <2>6, SetFacts DEF DialogsInv
  <2>8. WorkFits(t)'
    <3>1. \A n \in Targets : <<t, n>> \notin unlisted
      <4>1. work[t].calls \notin Relists
        BY <2>2 DEF D!Idle, Relists
      <4> QED BY <2>1, <4>1 DEF DialogsInv, WorkFits
    <3>2. w.todo # {} => D!At(t, "requests")'
      BY <2>4, <2>5, <2>6, <2>7 DEF D!At
    <3> HIDE DEF t
    <3> QED BY <2>1, <2>4, <2>5, <2>6, <2>7, <3>1, <3>2 DEF WorkFits
  <2> HIDE DEF t
  <2> QED BY <1>2, <2>1, <2>2, <2>4, <2>5, <2>6, <2>8, Begins
<1> QED BY <1>1, <1>2

\* A dialog that the host refuses is passed over.
LEMMA OpenStep == ASSUME DialogsInv, NEW t \in D!Goroutines, D!OpenDialog(t) PROVE DialogsInv'
<1>1. CASE shown = 0
  BY <1>1, OpensStep
<1>2. CASE shown # 0
  BY <1>2, PassesOver DEF D!OpenDialog
<1> QED BY <1>1, <1>2

LEMMA RunStep == ASSUME DialogsInv, NEW t \in D!Goroutines, D!Run(t) PROVE DialogsInv'
<1>1. CASE D!Report(t)
  BY <1>1, PassesOver DEF D!Report
<1> QED BY <1>1, RequestStep, UnreachableStep, CreateStep, TabStep, InspectStep, RefreshStep, OpenStep, RecordStep DEF D!Run

LEMMA DialogsStep == ASSUME DialogsInv, [D!Next]_D!vars PROVE DialogsInv'
<1>1. CASE UNCHANGED D!vars
  BY <1>1, QuietStep DEF D!vars, DialogsInv, DialogTypes
<1>2. CASE D!Next
  <2>1. CASE \E n \in Targets : D!OthersRemove(n)
    BY <2>1, HostStep
  <2>2. CASE \E a \in {b \in Actions : work[D!Action(b)] = D!Idle} :
               \E action \in D!Offered, selected \in SUBSET Targets :
                 \E targets \in SUBSET selected : D!InvokeAction(a, action, selected, targets)
    BY <2>2, InvokeStep
  <2>3. CASE \E t \in D!Goroutines : D!Run(t)
    BY <2>3, RunStep
  <2>4. CASE \E answer \in {"submit", "cancel"} : D!UserAnswers(answer)
    BY <2>4, HostStep
  <2>5. CASE \E d \in D!Ids : D!DialogSubmitted(d) \/ D!DialogCancelled(d)
    BY <2>5, HostStep, SubmitStep
  <2> QED BY <1>2, <2>1, <2>2, <2>3, <2>4, <2>5 DEF D!Next
<1> QED BY <1>1, <1>2

LEMMA OneDialogByInv == DialogsInv => D!OneDialogPerAction
<1> SUFFICES ASSUME DialogsInv, NEW t \in D!Goroutines, D!Opens(t), shown # 0
             PROVE  by[shown] # D!Origin(t)
  BY DEF D!OneDialogPerAction
<1>1. shown \in 1..opened
  BY DialogBounds DEF DialogsInv, DialogTypes, D!Ids
<1> QED BY <1>1, ShowsNone, Threads

LEMMA DialogTypesByInv == DialogsInv => D!TypeOK
<1> SUFFICES ASSUME DialogsInv PROVE D!TypeOK
  OBVIOUS
<1>1. opened \in Nat /\ (shown \in {0} \cup D!Ids)
  BY DialogBounds DEF DialogsInv, DialogTypes, D!Ids
<1>2. ASSUME NEW t \in D!Goroutines
      PROVE  /\ work[t].branch \in {"none", "create", "remove", "tab", "inspect", "each", "nothing"}
             /\ work[t].targets \subseteq Targets
             /\ work[t].failed \cup work[t].gone \cup work[t].changed \subseteq work[t].targets
  BY DEF DialogsInv, DialogTypes, Works, Branches, WorkFits
<1>3. ASSUME NEW t \in D!Goroutines PROVE work[t].form \in 0..opened
  <2>1. ASSUME NEW a \in Actions, t = D!Action(a) PROVE work[t].form \in 0..opened
    BY <1>1, <2>1 DEF DialogsInv, Asking, FormIsOwn
  <2>2. ASSUME NEW d \in D!Ids, t = D!Answer(d) PROVE work[t].form \in 0..opened
    BY <1>1, <2>2 DEF DialogsInv, DialogTypes
  <2> QED BY <2>1, <2>2, Threads
<1> QED BY <1>1, <1>2, <1>3 DEF D!TypeOK, DialogsInv, DialogTypes

LEMMA NothingSkippedByInv == DialogsInv => D!NothingSkipped
<1> SUFFICES ASSUME DialogsInv, NEW t \in D!Goroutines
             PROVE  LET w == work[t] IN
                    \/ w.targets = w.changed \cup w.gone \cup w.failed
                    \/ w.branch \in {"tab", "inspect"}
                    \/ D!At(t, "requests")
                    \/ w.branch = "remove" /\ t[1] = "action"
  BY DEF D!NothingSkipped
<1>1. WorkFits(t) /\ work[t].branch \in Branches /\ t[1] \in {"action", "answer"}
  BY Threads DEF DialogsInv, DialogTypes, Works
<1> QED BY <1>1 DEF WorkFits, Branches

LEMMA ChangesListedByInv == DialogsInv => D!ChangesListed
<1> SUFFICES ASSUME DialogsInv, NEW t \in D!Goroutines, NEW n \in Targets, <<t, n>> \in unlisted,
                    work[t].calls = <<>> \/ (D!At(t, "report") /\ work[t].branch = "remove")
             PROVE  FALSE
  BY DEF D!ChangesListed
<1>1. work[t].calls \in Relists /\ (work[t].calls \in BatchCalls => work[t].branch = "each")
  BY DEF DialogsInv, WorkFits
<1>2. work[t].calls # <<>>
  BY <1>1 DEF Relists
<1>3. work[t].calls = <<"report", "refresh">>
  BY <1>1, <1>2 DEF Relists, D!At
<1>4. work[t].calls \in BatchCalls
  BY <1>3 DEF BatchCalls
<1> QED BY <1>1, <1>2, <1>4


-----------------------------------------------------------------------------
(***************************************************************************)
(* Settings.                                                               *)

\* The values of a whole set of settings are ones that the user may see.
AsWanted(set) == \A c \in Ctrs : set[S!Name(c)] \in wanted[c]
Busy(g) == at[g] \notin {"idle", "done"}

\* Goroutines ran one after the other.
OneBusy == \A g, h \in S!Goroutines : Busy(g) /\ Busy(h) => g = h
\* Every copy of the settings is one that the user may see.
CopiesWanted ==
  /\ IF file = NoFile THEN \A c \in Ctrs : None \in wanted[c] ELSE AsWanted(file)
  /\ cache # Uncached => AsWanted(cache)
  /\ S!Loaded => AsWanted(settings)
\* So is what a goroutine has in its hands, and while it is saved the copies
\* that were made are the same.
HandsWanted ==
  \A g \in S!Goroutines :
    /\ at[g] \in {"store", "install", "save", "write"} => AsWanted(got[g])
    /\ at[g] \in {"save", "write"} => settings = got[g]
    /\ at[g] = "write" => cache = got[g]

SettingsInv == S!TypeOK /\ (apart => OneBusy /\ CopiesWanted /\ HandsWanted)

LEMMA SettingsInit == ConstantsAssumption /\ S!Init => SettingsInv
<1> SUFFICES ASSUME ConstantsAssumption, S!Init PROVE SettingsInv
  OBVIOUS
<1>1. S!Empty \in [S!Keys -> Values \cup {None}] /\ \A c \in Ctrs : S!Empty[S!Name(c)] = None
  BY DEF S!Empty, S!Keys, S!Name
<1>2. S!TypeOK
  BY <1>1 DEF ConstantsAssumption, S!SettingsAssumption, S!Init, S!TypeOK
<1>3. OneBusy /\ CopiesWanted /\ HandsWanted
  BY <1>1 DEF S!Init, OneBusy, Busy, CopiesWanted, HandsWanted, AsWanted, S!Loaded, S!Goroutines
<1> QED BY <1>2, <1>3 DEF SettingsInv

\* Where a goroutine is and what it holds change for it alone.
LEMMA GotoHold ==
  ASSUME S!TypeOK, NEW g \in S!Goroutines, NEW l, S!Goto(g, l)
  PROVE  /\ at'[g] = l /\ \A h \in S!Goroutines : h # g => at'[h] = at[h]
         /\ \A set : S!Hold(g, set) =>
              got'[g] = set /\ \A h \in S!Goroutines : h # g => got'[h] = got[h]
BY DEF S!TypeOK, S!Goto, S!Hold

\* A goroutine that begins alone is the only one that is busy.
LEMMA BeginsAlone ==
  ASSUME S!TypeOK, NEW g \in S!Goroutines, NEW l, S!Goto(g, l), NEW proper, S!Alone(proper), apart'
  PROVE  /\ apart /\ S!Quiet /\ proper /\ OneBusy'
         /\ \A h \in S!Goroutines : h # g => ~Busy(h) /\ ~Busy(h)'
BY GotoHold DEF S!Alone, S!Quiet, OneBusy, Busy

\* One that goes on stays the only one.
LEMMA GoesOn ==
  ASSUME S!TypeOK, OneBusy, NEW g \in S!Goroutines, Busy(g), NEW l, S!Goto(g, l)
  PROVE  /\ OneBusy'
         /\ \A h \in S!Goroutines : h # g => ~Busy(h) /\ ~Busy(h)'
BY GotoHold DEF OneBusy, Busy

LEMMA LoadStep == ASSUME SettingsInv, NEW o \in Loaders, S!Load(o) PROVE SettingsInv'
<1>0. o \in S!Goroutines /\ at[o] = "idle" /\ UNCHANGED <<S!store, faults, wanted>> /\ S!Alone(TRUE)
  BY DEF S!Goroutines, S!Load
<1>1. S!TypeOK'
  BY <1>0 DEF SettingsInv, S!TypeOK, S!Load, S!Goto, S!Hold, S!Alone, S!store
<1>2. ASSUME apart' PROVE OneBusy' /\ CopiesWanted' /\ HandsWanted'
  <2>1. apart /\ OneBusy' /\ \A h \in S!Goroutines : h # o => ~Busy(h)'
    BY <1>0, <1>2, BeginsAlone DEF SettingsInv, S!Load
  <2>2. \A h \in Loaders : at'[h] = "done" => at[h] = "done"
    BY <1>0, GotoHold DEF SettingsInv, S!Load, S!Goroutines
  <2>3. CopiesWanted'
    BY <1>0, <2>1, <2>2 DEF SettingsInv, CopiesWanted, AsWanted, S!Loaded, S!store
  <2>4. HandsWanted'
    BY <1>0, <2>1, GotoHold DEF SettingsInv, S!Load, HandsWanted, Busy, CopiesWanted, AsWanted, S!store
  <2> QED BY <2>1, <2>3, <2>4
<1> QED BY <1>1, <1>2 DEF SettingsInv

LEMMA ReadFileStep == ASSUME ConstantsAssumption, SettingsInv, NEW o \in Loaders, S!ReadFile(o) PROVE SettingsInv'
<1>0. /\ o \in S!Goroutines /\ at[o] = "read" /\ S!Goto(o, "store")
      /\ UNCHANGED <<S!store, wanted>> /\ (apart' => apart)
  BY DEF S!Goroutines, S!ReadFile, SettingsInv, S!TypeOK
<1>1. S!Empty \in [S!Keys -> Values \cup {None}] /\ \A c \in Ctrs : S!Empty[S!Name(c)] = None
  BY DEF S!Empty, S!Keys, S!Name
<1>a. /\ \E set \in [S!Keys -> Values \cup {None}] : S!Hold(o, set)
      /\ faults' \in 0..MaxFaults /\ apart' \in BOOLEAN
  <2>1. CASE S!Hold(o, IF file = NoFile THEN S!Empty ELSE file) /\ UNCHANGED <<faults, apart>>
    <3>1. (IF file = NoFile THEN S!Empty ELSE file) \in [S!Keys -> Values \cup {None}]
      BY <1>1 DEF SettingsInv, S!TypeOK
    <3> QED BY <2>1, <3>1 DEF SettingsInv, S!TypeOK
  <2>2. CASE S!Failing /\ S!Hold(o, S!Empty) /\ apart' = FALSE
    <3>1. faults' \in 0..MaxFaults
      BY <2>2 DEF SettingsInv, S!TypeOK, S!Failing, ConstantsAssumption, S!SettingsAssumption
    <3> QED BY <1>1, <2>2, <3>1
  <2> QED BY <2>1, <2>2 DEF S!ReadFile
<1>2. S!TypeOK'
  BY <1>0, <1>a DEF SettingsInv, S!TypeOK, S!Goto, S!Hold, S!store
<1>3. ASSUME apart' PROVE OneBusy' /\ CopiesWanted' /\ HandsWanted'
  <2>1. apart /\ OneBusy' /\ \A h \in S!Goroutines : h # o => ~Busy(h)'
    BY <1>0, <1>3, GoesOn DEF SettingsInv, Busy
  <2>2. \A h \in Loaders : at'[h] = "done" => at[h] = "done"
    BY <1>0, GotoHold DEF SettingsInv, S!Goroutines
  <2>3. CopiesWanted'
    BY <1>0, <2>1, <2>2 DEF SettingsInv, CopiesWanted, AsWanted, S!Loaded, S!store
  <2>4. S!Hold(o, IF file = NoFile THEN S!Empty ELSE file)
    BY <1>3 DEF S!ReadFile
  <2>5. AsWanted(got[o])'
    BY <1>0, <1>1, <2>1, <2>4, GotoHold DEF SettingsInv, CopiesWanted, AsWanted
  <2>6. HandsWanted'
    BY <1>0, <2>1, <2>5, GotoHold DEF SettingsInv, HandsWanted, Busy
  <2> QED BY <2>1, <2>3, <2>6
<1> QED BY <1>2, <1>3 DEF SettingsInv

LEMMA StoreCacheStep == ASSUME SettingsInv, NEW o \in Loaders, S!StoreCache(o) PROVE SettingsInv'
<1>0. /\ o \in S!Goroutines /\ at[o] = "store" /\ S!Goto(o, "install") /\ cache' = got[o]
      /\ UNCHANGED <<file, settings, got, faults, wanted, apart>>
  BY DEF S!Goroutines, S!StoreCache
<1>1. S!TypeOK'
  BY <1>0 DEF SettingsInv, S!TypeOK, S!Goto
<1>2. ASSUME apart' PROVE OneBusy' /\ CopiesWanted' /\ HandsWanted'
  <2>1. apart /\ OneBusy' /\ \A h \in S!Goroutines : h # o => ~Busy(h)'
    BY <1>0, <1>2, GoesOn DEF SettingsInv, Busy
  <2>2. \A h \in Loaders : at'[h] = "done" => at[h] = "done"
    BY <1>0, GotoHold DEF SettingsInv, S!Goroutines
  <2>3. CopiesWanted'
    BY <1>0, <2>1, <2>2 DEF SettingsInv, CopiesWanted, HandsWanted, AsWanted, S!Loaded
  <2>4. HandsWanted'
    BY <1>0, <2>1, GotoHold DEF SettingsInv, HandsWanted, Busy, AsWanted
  <2> QED BY <2>1, <2>3, <2>4
<1> QED BY <1>1, <1>2 DEF SettingsInv

LEMMA LoadSettingsStep == ASSUME SettingsInv, NEW o \in Loaders, S!LoadSettings(o) PROVE SettingsInv'
<1>0. /\ o \in S!Goroutines /\ at[o] = "install" /\ S!Goto(o, "done") /\ settings' = got[o]
      /\ UNCHANGED <<file, cache, got, faults, wanted, apart>>
  BY DEF S!Goroutines, S!LoadSettings
<1>1. S!TypeOK'
  BY <1>0 DEF SettingsInv, S!TypeOK, S!Goto
<1>2. ASSUME apart' PROVE OneBusy' /\ CopiesWanted' /\ HandsWanted'
  <2>1. apart /\ OneBusy' /\ \A h \in S!Goroutines : h # o => ~Busy(h)'
    BY <1>0, <1>2, GoesOn DEF SettingsInv, Busy
  <2>2. CopiesWanted'
    BY <1>0, <2>1 DEF SettingsInv, CopiesWanted, HandsWanted, AsWanted
  <2>3. HandsWanted'
    BY <1>0, <2>1, GotoHold DEF SettingsInv, HandsWanted, Busy
  <2> QED BY <2>1, <2>2, <2>3
<1> QED BY <1>1, <1>2 DEF SettingsInv

\* A node whose panel is saved is a container of the session.
LEMMA SavesContainer == ASSUME NEW node \in S!Nodes, S!Saves(node) PROVE node[3] \in Ctrs
<1>1. node \notin {<<>>, <<"docker">>} \cup S!Groups /\ S!ParsesAsInstance(node)
  BY DEF S!Saves, S!ClassOf
<1>2. PICK k \in S!Kinds, c \in Ctrs \cup {"?"} : node = S!InstanceID(k, c)
  BY <1>1 DEF S!Nodes
<1>3. node[3] = c /\ c # "?"
  BY <1>1, <1>2 DEF S!InstanceID, S!ParsesAsInstance, S!ValidDockerID
<1> QED BY <1>2, <1>3

LEMMA PutFacts ==
  ASSUME NEW set \in [S!Keys -> Values \cup {None}], NEW c \in Ctrs, NEW v \in Values,
         NEW new, new = S!Put(set, S!Name(c), v)
  PROVE  /\ new \in [S!Keys -> Values \cup {None}] /\ new[S!Name(c)] = v
         /\ \A d \in Ctrs : d # c => new[S!Name(d)] = set[S!Name(d)]
BY DEF S!Keys, S!Name, S!Put

LEMMA ApplyDetailsStep ==
  ASSUME ConstantsAssumption, SettingsInv, NEW a \in Applies, NEW node \in S!Nodes, NEW v \in Values,
         S!ApplyDetails(a, node, v)
  PROVE  SettingsInv'
<1> PICK c \in Ctrs : c = node[3]
  BY SavesContainer DEF S!ApplyDetails
<1>0. /\ a \in S!Goroutines /\ at[a] = "idle" /\ S!Goto(a, "save") /\ S!Hold(a, settings')
      /\ wanted' = [wanted EXCEPT ![c] = @ \cup {v}] /\ UNCHANGED <<file, cache>>
  BY DEF S!Goroutines, S!ApplyDetails
<1>a. settings \in [S!Keys -> Values \cup {None}]
  BY DEF SettingsInv, S!TypeOK
<1>1. settings' \in [S!Keys -> Values \cup {None}] /\ faults' \in 0..MaxFaults /\ apart' \in BOOLEAN
  <2>1. CASE settings' = S!Put(settings, S!Name(c), v) /\ S!Alone(S!Loaded) /\ UNCHANGED faults
    <3>1. settings' \in [S!Keys -> Values \cup {None}]
      BY <1>0, <1>a, <2>1, PutFacts
    <3>2. apart' \in BOOLEAN
      BY <2>1 DEF S!Alone
    <3> QED BY <2>1, <3>1, <3>2 DEF SettingsInv, S!TypeOK
  <2>2. CASE settings' = S!Put(settings, <<c, "id">>, v) /\ S!Failing /\ apart' = FALSE
    <3>1. settings' \in [S!Keys -> Values \cup {None}]
      BY <1>a, <2>2 DEF S!Put
    <3>2. faults' \in 0..MaxFaults
      BY <2>2 DEF SettingsInv, S!TypeOK, S!Failing, ConstantsAssumption, S!SettingsAssumption
    <3> QED BY <2>2, <3>1, <3>2
  <2> QED BY <2>1, <2>2 DEF S!ApplyDetails
<1>2. S!TypeOK'
  BY <1>0, <1>1 DEF SettingsInv, S!TypeOK, S!Goto, S!Hold
<1>3. ASSUME apart' PROVE OneBusy' /\ CopiesWanted' /\ HandsWanted'
  <2>0. settings' = S!Put(settings, S!Name(c), v) /\ S!Alone(S!Loaded)
    BY <1>3 DEF S!ApplyDetails
  <2>1. apart /\ S!Loaded /\ OneBusy' /\ \A h \in S!Goroutines : h # a => ~Busy(h)'
    BY <1>0, <1>3, <2>0, BeginsAlone DEF SettingsInv
  <2>2. \A d \in Ctrs : wanted[d] \subseteq wanted'[d] /\ v \in wanted'[c]
    BY <1>0 DEF SettingsInv, S!TypeOK
  <2>3. settings'[S!Name(c)] = v /\ \A d \in Ctrs : d # c => settings'[S!Name(d)] = settings[S!Name(d)]
    BY <1>a, <2>0, PutFacts
  <2>4. AsWanted(settings)'
    BY <2>1, <2>2, <2>3 DEF SettingsInv, CopiesWanted, AsWanted
  <2>5. CopiesWanted'
    BY <1>0, <2>1, <2>2, <2>4 DEF SettingsInv, CopiesWanted, AsWanted
  <2>6. HandsWanted'
    BY <1>0, <2>1, <2>4, GotoHold DEF SettingsInv, HandsWanted, Busy, AsWanted
  <2> QED BY <2>1, <2>5, <2>6
<1> QED BY <1>2, <1>3 DEF SettingsInv

LEMMA ApplyNothingStep ==
  ASSUME ConstantsAssumption, SettingsInv, NEW a \in Applies, NEW node \in S!Nodes, S!ApplyNothing(a, node)
  PROVE  SettingsInv'
<1>0. /\ a \in S!Goroutines /\ a \notin Loaders /\ at[a] = "idle" /\ S!Goto(a, "done")
      /\ UNCHANGED <<file, cache, settings, got, faults, wanted, apart>>
  BY DEF S!Goroutines, S!ApplyNothing, S!store, ConstantsAssumption, S!SettingsAssumption
<1>1. S!TypeOK'
  BY <1>0 DEF SettingsInv, S!TypeOK, S!Goto
<1>2. /\ \A h \in S!Goroutines : at'[h] = at[h] \/ (~Busy(h)' /\ ~Busy(h))
      /\ \A h \in Loaders : at'[h] = at[h]
  BY <1>0, GotoHold DEF SettingsInv, Busy, S!Goroutines
<1>3. ASSUME apart' PROVE OneBusy' /\ CopiesWanted' /\ HandsWanted'
  BY <1>0, <1>2, <1>3 DEF SettingsInv, OneBusy, Busy, CopiesWanted, HandsWanted, AsWanted, S!Loaded
<1> QED BY <1>1, <1>3 DEF SettingsInv

LEMMA SaveCacheStep == ASSUME SettingsInv, NEW a \in Applies, S!SaveCache(a) PROVE SettingsInv'
<1>0. /\ a \in S!Goroutines /\ at[a] = "save" /\ S!Goto(a, "write") /\ cache' = got[a]
      /\ UNCHANGED <<file, settings, got, faults, wanted, apart>>
  BY DEF S!Goroutines, S!SaveCache, S!Cached
<1>1. S!TypeOK'
  BY <1>0 DEF SettingsInv, S!TypeOK, S!Goto
<1>2. ASSUME apart' PROVE OneBusy' /\ CopiesWanted' /\ HandsWanted'
  <2>1. apart /\ OneBusy' /\ \A h \in S!Goroutines : h # a => ~Busy(h)'
    BY <1>0, <1>2, GoesOn DEF SettingsInv, Busy
  <2>2. \A h \in Loaders : at'[h] = "done" => at[h] = "done"
    BY <1>0, GotoHold DEF SettingsInv, S!Goroutines
  <2>3. CopiesWanted'
    BY <1>0, <2>1, <2>2 DEF SettingsInv, CopiesWanted, HandsWanted, AsWanted, S!Loaded
  <2>4. HandsWanted'
    BY <1>0, <2>1, GotoHold DEF SettingsInv, HandsWanted, Busy, AsWanted
  <2> QED BY <2>1, <2>3, <2>4
<1> QED BY <1>1, <1>2 DEF SettingsInv
LEMMA WriteFileStep ==
  ASSUME ConstantsAssumption, SettingsInv, NEW a \in Applies, S!WriteFile(a)
  PROVE  SettingsInv'
<1>0. /\ a \in S!Goroutines /\ at[a] = "write" /\ S!Goto(a, "done")
      /\ UNCHANGED <<cache, settings, got, apart>>
  BY DEF S!Goroutines, S!WriteFile
<1>1. \/ /\ file' = got[a] /\ UNCHANGED faults
         /\ wanted' = [c \in Ctrs |->
              IF got[a][S!Name(c)] \in wanted[c] THEN {got[a][S!Name(c)]} ELSE wanted[c]]
      \/ S!Failing /\ UNCHANGED <<file, wanted>>
  BY DEF S!WriteFile
<1>2. S!TypeOK'
  <2>1. faults' \in 0..MaxFaults
    BY <1>1 DEF SettingsInv, S!TypeOK, S!Failing, ConstantsAssumption, S!SettingsAssumption
  <2>2. \A c \in Ctrs : S!Name(c) \in S!Keys
    BY DEF S!Name, S!Keys
  <2>3. wanted' \in [Ctrs -> SUBSET (Values \cup {None})]
    BY <1>0, <1>1, <2>2 DEF SettingsInv, S!TypeOK
  <2> QED BY <1>0, <1>1, <2>1, <2>3 DEF SettingsInv, S!TypeOK, S!Goto
<1>3. ASSUME apart' PROVE OneBusy' /\ CopiesWanted' /\ HandsWanted'
  <2>1. apart /\ OneBusy' /\ \A h \in S!Goroutines : h # a => ~Busy(h)'
    BY <1>0, <1>3, GoesOn DEF SettingsInv, Busy
  <2>2. AsWanted(got[a]) /\ settings = got[a] /\ cache = got[a]
    BY <1>0, <2>1 DEF SettingsInv, HandsWanted
  <2>3. HandsWanted'
    BY <1>0, <2>1, GotoHold DEF SettingsInv, HandsWanted, Busy
  <2>4. CASE file' = got[a]
    <3>1. \A c \in Ctrs : got[a][S!Name(c)] \in wanted'[c]
      BY <1>1, <2>2, <2>4 DEF AsWanted
    <3>2. file' # NoFile
      BY <1>0, <2>4 DEF SettingsInv, S!TypeOK, ConstantsAssumption, S!SettingsAssumption
    <3>3. CopiesWanted'
      BY <1>0, <2>2, <2>4, <3>1, <3>2 DEF CopiesWanted, AsWanted
    <3> QED BY <2>1, <2>3, <3>3
  <2>5. CASE UNCHANGED <<file, wanted>>
    <3>1. CopiesWanted'
      BY <1>0, <2>1, <2>2, <2>5 DEF SettingsInv, CopiesWanted, AsWanted
    <3> QED BY <2>1, <2>3, <3>1
  <2> QED BY <1>1, <2>4, <2>5
<1> QED BY <1>2, <1>3 DEF SettingsInv

LEMMA RestartStep == ASSUME ConstantsAssumption, SettingsInv, S!Restart PROVE SettingsInv'
<1>0. /\ cache' = Uncached /\ settings' = S!Empty /\ got' = [g \in S!Goroutines |-> S!Empty]
      /\ at' = [g \in S!Goroutines |-> IF g \in Loaders \/ at[g] = "idle" THEN "idle" ELSE "done"]
      /\ UNCHANGED <<file, wanted, apart>>
  BY DEF S!Restart
<1>1. S!Empty \in [S!Keys -> Values \cup {None}]
  BY DEF S!Empty
<1>2. faults' \in 0..MaxFaults
  BY DEF S!Restart, SettingsInv, S!TypeOK, S!Failing, ConstantsAssumption, S!SettingsAssumption
<1>3. S!TypeOK'
  BY <1>0, <1>1, <1>2 DEF SettingsInv, S!TypeOK
<1>4. /\ \A g \in S!Goroutines : at'[g] \in {"idle", "done"}
      /\ \A o \in Loaders : at'[o] = "idle"
  BY <1>0 DEF S!Goroutines
<1>5. ASSUME apart' PROVE OneBusy' /\ CopiesWanted' /\ HandsWanted'
  BY <1>0, <1>4, <1>5 DEF SettingsInv, OneBusy, Busy, CopiesWanted, HandsWanted, AsWanted, S!Loaded
<1> QED BY <1>3, <1>5 DEF SettingsInv

LEMMA SettingsStep == ASSUME ConstantsAssumption, SettingsInv, [S!Next]_S!vars PROVE SettingsInv'
<1>1. CASE UNCHANGED S!vars
  <2>1. UNCHANGED <<file, cache, settings, at, got, faults, wanted, apart>>
    BY <1>1 DEF S!vars, S!store
  <2> QED BY <2>1 DEF SettingsInv, S!TypeOK, OneBusy, Busy, CopiesWanted, HandsWanted, AsWanted, S!Loaded
<1>2. CASE S!Next
  BY <1>2, LoadStep, ReadFileStep, StoreCacheStep, LoadSettingsStep, ApplyDetailsStep, ApplyNothingStep,
     SaveCacheStep, WriteFileStep, RestartStep DEF S!Next
<1> QED BY <1>1, <1>2

LEMMA SettingsKeptByInv == SettingsInv => S!TypeOK /\ S!SettingsKept
BY DEF SettingsInv, CopiesWanted, AsWanted, S!SettingsKept

-----------------------------------------------------------------------------
(***************************************************************************)
(* Codec.                                                                  *)

SizeOf(f) == HeaderLen + f.length
WireByte == [of : C!Frames, place : Nat]

\* pos[i] is how many bytes of the stream come before frame i.
Starts(pos) ==
  /\ pos \in [1..Len(written) + 1 -> Nat]
  /\ \A i \in 1..Len(written) : pos[i + 1] = pos[i] + SizeOf(written[i])
  /\ \A i, j \in 1..Len(written) + 1 : i <= j => pos[i] <= pos[j]

\* What is on the wire is the stream after its first m frames, up to where it ended.
OnWire(m, pos) ==
  /\ Len(wire) <= pos[Len(written) + 1] - pos[m + 1]
  /\ ~ended => Len(wire) = pos[Len(written) + 1] - pos[m + 1]
  /\ \A i \in m + 1..Len(written) : \A p \in 1..SizeOf(written[i]) :
       pos[i] - pos[m + 1] + p <= Len(wire)
         => wire[pos[i] - pos[m + 1] + p] = [of |-> written[i], place |-> p]

Taken(m) == m \in 0..Len(written) /\ \E pos : Starts(pos) /\ OnWire(m, pos)

\* The wire starts where a frame does: after the last one that was read, or after
\* the one whose payload broke the rules.
AtFrame == \E m : Taken(m) /\ (m = Len(read) \/ (result = "violation" /\ m = Len(read) + 1))

\* What was read is the beginning of what was written, and keeps the rules.
ReadRight ==
  /\ Len(read) <= Len(written)
  /\ \A i \in 1..Len(read) : read[i] = written[i] /\ C!Allowed(read[i]) /\ C!GrantOK(read[i])

\* No byte is added once the writer ended.
CodecInv ==
  /\ C!TypeOK /\ wire \in Seq(WireByte)
  /\ ReadRight /\ AtFrame
  /\ result \in {"EOF", "UnexpectedEOF"} => ended
  /\ result = "EOF" => wire = <<>>

LEMMA TakenStays ==
  ASSUME NEW m, Taken(m), wire' = wire, written' = written, ended' = ended PROVE Taken(m)'
<1>1. PICK pos : Starts(pos) /\ OnWire(m, pos)
  BY DEF Taken
<1>2. Starts(pos)'
  BY <1>1 DEF Starts
<1>3. OnWire(m, pos)'
  BY <1>1 DEF OnWire
<1> QED BY <1>2, <1>3 DEF Taken

LEMMA Lengths == HeaderLen \in Nat \ {0} /\ MaxFrameLength \in Nat
BY ConstantsAssumption DEF ConstantsAssumption, C!LengthAssumption

LEMMA Sizes == ASSUME NEW f \in C!Frames PROVE f.length \in Nat /\ SizeOf(f) \in Nat \ {0}
<1>1. f.length \in 0..MaxFrameLength + 1
  BY DEF C!Frames
<1> QED BY <1>1, Lengths DEF SizeOf

\* The bytes of a frame, one after the other.
LEMMA BytesOfFrame ==
  ASSUME NEW f \in C!Frames
  PROVE  /\ C!Bytes(f) \in Seq(WireByte) /\ Len(C!Bytes(f)) = SizeOf(f)
         /\ \A i \in 1..SizeOf(f) : C!Bytes(f)[i] = [of |-> f, place |-> i]
<1>1. SizeOf(f) \in Nat /\ C!Bytes(f) = [i \in 1..SizeOf(f) |-> [of |-> f, place |-> i]]
  BY Sizes DEF SizeOf, C!Bytes
<1>2. \A i \in 1..SizeOf(f) : [of |-> f, place |-> i] \in WireByte
  BY <1>1 DEF WireByte
<1> QED BY <1>1, <1>2

\* The stream goes on where a frame does.
LEMMA FirstOnWire ==
  ASSUME CodecInv, NEW m, Taken(m), wire # <<>>
  PROVE  m + 1 \in 1..Len(written) /\ wire[1] = [of |-> written[m + 1], place |-> 1]
<1>1. PICK pos : Starts(pos) /\ OnWire(m, pos)
  BY DEF Taken
<1>2. m \in 0..Len(written) /\ Len(written) \in Nat /\ Len(wire) \in Nat \ {0}
  BY DEF Taken, CodecInv, C!TypeOK
<1>3. \A i \in 1..Len(written) + 1 : pos[i] \in Nat
  BY <1>1 DEF Starts
<1>4. m # Len(written)
  BY <1>1, <1>2, <1>3 DEF OnWire
<1>5. m + 1 \in 1..Len(written) /\ pos[m + 1] \in Nat
  BY <1>2, <1>3, <1>4
<1>6. written[m + 1] \in C!Frames
  BY <1>5 DEF CodecInv, C!TypeOK
<1>7. 1 \in 1..SizeOf(written[m + 1]) /\ pos[m + 1] - pos[m + 1] + 1 = 1 /\ m + 1 \in m + 1..Len(written)
  BY <1>2, <1>5, <1>6, Sizes
<1> QED BY <1>1, <1>2, <1>5, <1>7 DEF OnWire

\* A frame that is written comes after what is on the wire.
LEMMA WrittenGoesLast ==
  ASSUME CodecInv, NEW f \in C!Frames, C!WriteFrame(f), NEW m, Taken(m) PROVE Taken(m)'
<1>0. PICK n, size : n = Len(written) /\ size = SizeOf(f)
  OBVIOUS
<1>1. /\ ~ended /\ ~ended' /\ wire' = wire \o C!Bytes(f) /\ written' = Append(written, f)
  BY DEF C!WriteFrame
<1>2. PICK pos : Starts(pos) /\ OnWire(m, pos)
  BY DEF Taken
<1>3. m \in 0..n /\ n \in Nat /\ \A i \in 1..n : written[i] \in C!Frames
  BY <1>0 DEF Taken, CodecInv, C!TypeOK
<1>4. /\ Len(written') = n + 1 /\ written'[n + 1] = f /\ \A i \in 1..n : written'[i] = written[i]
  BY <1>0, <1>1, <1>3 DEF CodecInv, C!TypeOK
<1>5. size \in Nat \ {0} /\ \A i \in 1..n + 1 : pos[i] \in Nat
  BY <1>0, <1>2, Sizes DEF Starts
<1>6. PICK longer \in [1..n + 2 -> Nat] :
        longer[n + 2] = pos[n + 1] + size /\ \A i \in 1..n + 1 : longer[i] = pos[i]
  <2>1. \E l : l = [i \in 1..n + 2 |-> IF i <= n + 1 THEN pos[i] ELSE pos[n + 1] + size]
    OBVIOUS
  <2>2. PICK l : l = [i \in 1..n + 2 |-> IF i <= n + 1 THEN pos[i] ELSE pos[n + 1] + size]
    BY <2>1
  <2>3. l \in [1..n + 2 -> Nat] /\ l[n + 2] = pos[n + 1] + size /\ \A i \in 1..n + 1 : l[i] = pos[i]
    BY <1>3, <1>5, <2>2
  <2> QED BY <2>3
<1>7. /\ \A i \in 1..n : pos[i + 1] = pos[i] + SizeOf(written[i])
      /\ \A i, j \in 1..n + 1 : i <= j => pos[i] <= pos[j]
  BY <1>0, <1>2 DEF Starts
<1>8. /\ wire \in Seq(WireByte) /\ Len(wire) \in Nat /\ Len(wire') = Len(wire) + size
      /\ \A q \in 1..Len(wire) : wire'[q] = wire[q]
      /\ \A q \in 1..size : wire'[Len(wire) + q] = [of |-> f, place |-> q]
  <2>1. wire \in Seq(WireByte) /\ Len(wire) \in Nat
    BY DEF CodecInv
  <2>2. C!Bytes(f) \in Seq(WireByte) /\ Len(C!Bytes(f)) = size /\ \A i \in 1..size : C!Bytes(f)[i] = [of |-> f, place |-> i]
    BY <1>0, BytesOfFrame
  <2>3. /\ Len(wire \o C!Bytes(f)) = Len(wire) + Len(C!Bytes(f))
        /\ \A q \in 1..Len(wire) : (wire \o C!Bytes(f))[q] = wire[q]
        /\ \A q \in 1..Len(C!Bytes(f)) : (wire \o C!Bytes(f))[Len(wire) + q] = C!Bytes(f)[q]
    BY <2>1, <2>2
  <2> QED BY <1>1, <2>1, <2>2, <2>3
<1>9. /\ Len(wire) = pos[n + 1] - pos[m + 1]
      /\ \A i \in m + 1..n : \A p \in 1..SizeOf(written[i]) :
           pos[i] - pos[m + 1] + p <= Len(wire) => wire[pos[i] - pos[m + 1] + p] = [of |-> written[i], place |-> p]
  BY <1>0, <1>1, <1>2 DEF OnWire
<1>10. Starts(longer)'
  <2>1. \A i \in 1..n + 1 : longer[i + 1] = longer[i] + SizeOf(written'[i])
    <3> SUFFICES ASSUME NEW i \in 1..n + 1 PROVE longer[i + 1] = longer[i] + SizeOf(written'[i])
      OBVIOUS
    <3>1. CASE i = n + 1
      <4>1. i + 1 = n + 2 /\ n + 1 \in 1..n + 1
        BY <1>3, <3>1
      <4>2. longer[i + 1] = pos[n + 1] + size /\ longer[i] = pos[n + 1] /\ written'[i] = f
        BY <1>4, <1>6, <3>1, <4>1
      <4> QED BY <1>0, <4>2
    <3>2. CASE i # n + 1
      <4>1. i \in 1..n /\ i \in 1..n + 1 /\ i + 1 \in 1..n + 1
        BY <1>3, <3>2
      <4> QED BY <1>4, <1>6, <1>7, <4>1
    <3> QED BY <3>1, <3>2
  <2>2. \A i, j \in 1..n + 2 : i <= j => longer[i] <= longer[j]
    <3> SUFFICES ASSUME NEW i \in 1..n + 2, NEW j \in 1..n + 2, i <= j PROVE longer[i] <= longer[j]
      OBVIOUS
    <3>1. CASE j = n + 2 /\ i # n + 2
      <4>1. i \in 1..n + 1 /\ n + 1 \in 1..n + 1 /\ i <= n + 1
        BY <1>3, <3>1
      <4> QED BY <1>5, <1>6, <1>7, <3>1, <4>1
    <3>2. CASE j # n + 2
      <4>1. i \in 1..n + 1 /\ j \in 1..n + 1
        BY <1>3, <3>2
      <4> QED BY <1>6, <1>7, <4>1
    <3>3. CASE i = n + 2
      BY <1>3, <1>5, <1>6, <3>3
    <3> QED BY <3>1, <3>2, <3>3
  <2>3. 1..Len(written') = 1..n + 1 /\ 1..Len(written') + 1 = 1..n + 2
    BY <1>3, <1>4
  <2> QED BY <1>6, <2>1, <2>2, <2>3 DEF Starts
<1>11. OnWire(m, longer)'
  <2>1. Len(wire') = longer[n + 2] - longer[m + 1]
    BY <1>3, <1>5, <1>6, <1>8, <1>9
  <2>2. ASSUME NEW i \in m + 1..n + 1, NEW p \in 1..SizeOf(written'[i])
        PROVE  wire'[longer[i] - longer[m + 1] + p] = [of |-> written'[i], place |-> p]
    <3>0. m + 1 \in 1..n + 1 /\ i \in 1..n + 1
      BY <1>3
    <3>1. CASE i = n + 1
      <4>1. written'[i] = f /\ p \in 1..size
        BY <1>0, <1>4, <3>1
      <4>2. longer[i] = pos[n + 1] /\ longer[m + 1] = pos[m + 1]
        BY <1>6, <3>0, <3>1
      <4>3. longer[i] - longer[m + 1] + p = Len(wire) + p
        BY <1>9, <4>2
      <4> QED BY <1>8, <4>1, <4>3
    <3>2. CASE i # n + 1
      <4>1. i \in m + 1..n /\ i \in 1..n /\ i + 1 \in 1..n + 1 /\ n + 1 \in 1..n + 1 /\ i + 1 <= n + 1 /\ m + 1 <= i
        BY <1>3, <3>0, <3>2
      <4>2. written'[i] = written[i] /\ SizeOf(written[i]) \in Nat /\ p \in 1..SizeOf(written[i])
        BY <1>3, <1>4, <4>1, Sizes
      <4>3. pos[i] - pos[m + 1] + p \in 1..Len(wire)
        <5>1. pos[i + 1] <= pos[n + 1] /\ pos[m + 1] <= pos[i] /\ pos[i + 1] = pos[i] + SizeOf(written[i])
          BY <1>7, <3>0, <4>1
        <5>2. pos[i] \in Nat /\ pos[m + 1] \in Nat /\ pos[n + 1] \in Nat /\ pos[i + 1] \in Nat
          BY <1>5, <3>0, <4>1
        <5>3. Len(wire) = pos[n + 1] - pos[m + 1] /\ p \in Nat /\ p >= 1 /\ p <= SizeOf(written[i])
          BY <1>9, <4>2
        <5> QED BY <4>2, <5>1, <5>2, <5>3
      <4>4. wire[pos[i] - pos[m + 1] + p] = [of |-> written[i], place |-> p]
        BY <1>8, <1>9, <4>1, <4>2, <4>3
      <4> QED BY <1>6, <1>8, <3>0, <4>2, <4>3, <4>4
    <3> QED BY <3>1, <3>2
  <2>3. Len(wire') \in Nat
    BY <1>5, <1>8
  <2>4. Len(written') + 1 = n + 2 /\ m + 1..Len(written') = m + 1..n + 1
    BY <1>3, <1>4
  <2>5. Len(wire') = longer[Len(written') + 1] - longer[m + 1]
    BY <2>1, <2>4
  <2>6. \A i \in m + 1..Len(written') : \A p \in 1..SizeOf(written'[i]) :
          wire'[longer[i] - longer[m + 1] + p] = [of |-> written'[i], place |-> p]
    BY <2>2, <2>4
  <2> QED BY <2>3, <2>5, <2>6 DEF OnWire
<1>12. m \in 0..Len(written')
  BY <1>3, <1>4
<1> QED BY <1>10, <1>11, <1>12 DEF Taken

LEMMA WriteStep == ASSUME CodecInv, NEW f \in C!Frames, C!WriteFrame(f) PROVE CodecInv'
<1>1. /\ ~ended /\ wire' = wire \o C!Bytes(f) /\ written' = Append(written, f)
      /\ UNCHANGED <<ended, read, result>>
  BY DEF C!WriteFrame
<1>2. wire \in Seq(WireByte) /\ C!Bytes(f) \in Seq(WireByte) /\ written \in Seq(C!Frames)
  BY BytesOfFrame DEF CodecInv, C!TypeOK
<1>3. wire' \in Seq(WireByte) /\ written' \in Seq(C!Frames) /\ Len(written') = Len(written) + 1
      /\ Len(read) \in Nat /\ Len(written) \in Nat /\ \A i \in 1..Len(written) : written'[i] = written[i]
  BY <1>1, <1>2 DEF CodecInv, C!TypeOK
<1>4. \A i \in DOMAIN wire' : wire'[i].of \in C!Frames /\ wire'[i].place \in 1..HeaderLen + wire'[i].of.length
  <2>1. /\ Len(C!Bytes(f)) = SizeOf(f) /\ SizeOf(f) \in Nat
        /\ \A i \in 1..SizeOf(f) : C!Bytes(f)[i] = [of |-> f, place |-> i]
    BY BytesOfFrame, Sizes
  <2>2. DOMAIN wire' = 1..Len(wire) + SizeOf(f) /\ DOMAIN wire = 1..Len(wire) /\ Len(wire) \in Nat
    BY <1>1, <1>2, <2>1
  <2>3. ASSUME NEW i \in DOMAIN wire'
        PROVE  wire'[i].of \in C!Frames /\ wire'[i].place \in 1..HeaderLen + wire'[i].of.length
    <3>1. CASE i <= Len(wire)
      <4>1. i \in DOMAIN wire /\ wire'[i] = wire[i]
        BY <1>1, <1>2, <2>2, <3>1
      <4> QED BY <4>1 DEF CodecInv, C!TypeOK
    <3>2. CASE i > Len(wire)
      <4>1. i - Len(wire) \in 1..SizeOf(f) /\ wire'[i] = C!Bytes(f)[i - Len(wire)]
        BY <1>1, <1>2, <2>1, <2>2, <3>2
      <4>2. wire'[i] = [of |-> f, place |-> i - Len(wire)]
        BY <2>1, <4>1
      <4>3. wire'[i].of = f /\ wire'[i].place = i - Len(wire)
        BY <4>2
      <4> QED BY <4>1, <4>3 DEF SizeOf
    <3> QED BY <2>2, <3>1, <3>2
  <2> QED BY <2>3
<1>5. C!TypeOK'
  BY <1>1, <1>3, <1>4 DEF CodecInv, C!TypeOK
<1>6. \A m : Taken(m) => Taken(m)'
  BY WrittenGoesLast
<1>7. AtFrame'
  BY <1>1, <1>6 DEF CodecInv, AtFrame
<1>8. result' \in {"EOF", "UnexpectedEOF"} => ended'
  BY <1>1 DEF CodecInv
<1>9. result' # "EOF"
  BY <1>1 DEF CodecInv
<1>10. ReadRight'
  <2>1. Len(read') <= Len(written')
    BY <1>1, <1>3 DEF CodecInv, ReadRight
  <2>2. \A i \in 1..Len(read) : i \in 1..Len(written)
    BY <1>3 DEF CodecInv, ReadRight
  <2>3. \A i \in 1..Len(read) : read[i] = written'[i] /\ C!Allowed(read[i]) /\ C!GrantOK(read[i])
    BY <1>3, <2>2 DEF CodecInv, ReadRight
  <2> QED BY <1>1, <2>1, <2>3 DEF ReadRight, C!Allowed, C!GrantOK
<1> QED BY <1>3, <1>5, <1>7, <1>8, <1>9, <1>10 DEF CodecInv

LEMMA StreamEndStep == ASSUME CodecInv, NEW n \in 0..Len(wire), C!End(n) PROVE CodecInv'
<1>1. ~ended /\ ended' = TRUE /\ wire' = SubSeq(wire, 1, n) /\ UNCHANGED <<written, read, result>>
  BY DEF C!End
<1>2. /\ wire \in Seq(WireByte) /\ Len(wire) \in Nat
      /\ wire' \in Seq(WireByte) /\ Len(wire') = n /\ \A i \in 1..n : i \in 1..Len(wire) /\ wire'[i] = wire[i]
  BY <1>1 DEF CodecInv
<1>3. C!TypeOK'
  <2>1. DOMAIN wire = 1..Len(wire) /\ DOMAIN wire' = 1..n
    BY <1>2
  <2>2. \A i \in DOMAIN wire' : wire'[i].of \in C!Frames /\ wire'[i].place \in 1..HeaderLen + wire'[i].of.length
    BY <1>2, <2>1 DEF CodecInv, C!TypeOK
  <2>3. ended' \in BOOLEAN
    BY <1>1
  <2> QED BY <1>1, <2>2, <2>3 DEF CodecInv, C!TypeOK
<1>4. ASSUME NEW m, Taken(m) PROVE Taken(m)'
  <2>1. PICK pos : Starts(pos) /\ OnWire(m, pos)
    BY <1>4 DEF Taken
  <2>2. Starts(pos)'
    BY <1>1, <2>1 DEF Starts
  <2>3. m \in 0..Len(written) /\ Len(written) \in Nat
    BY <1>4 DEF Taken, CodecInv, C!TypeOK
  <2>4. \A i \in 1..Len(written) + 1 : pos[i] \in Nat
    BY <2>1 DEF Starts
  <2>5. Len(wire') <= pos[Len(written) + 1] - pos[m + 1]
    BY <1>2, <2>1, <2>3, <2>4 DEF OnWire
  <2>6. ASSUME NEW i \in m + 1..Len(written), NEW p \in 1..SizeOf(written[i]), pos[i] - pos[m + 1] + p <= n
        PROVE  wire'[pos[i] - pos[m + 1] + p] = [of |-> written[i], place |-> p]
    <3>1. i \in 1..Len(written) /\ i \in 1..Len(written) + 1 /\ m + 1 \in 1..Len(written) + 1 /\ m + 1 <= i
      BY <2>3
    <3>2. SizeOf(written[i]) \in Nat
      BY <3>1, Sizes DEF CodecInv, C!TypeOK
    <3>3. pos[m + 1] <= pos[i] /\ pos[i] \in Nat /\ pos[m + 1] \in Nat
      BY <2>1, <2>4, <3>1 DEF Starts
    <3>4. pos[i] - pos[m + 1] + p \in 1..n
      BY <2>6, <3>2, <3>3
    <3>5. pos[i] - pos[m + 1] + p <= Len(wire)
      BY <1>2, <3>4
    <3> QED BY <1>2, <2>1, <3>4, <3>5 DEF OnWire
  <2>7. OnWire(m, pos)'
    BY <1>1, <1>2, <2>5, <2>6 DEF OnWire
  <2> QED BY <1>1, <1>4, <2>2, <2>7 DEF Taken
<1>5. result # "EOF"
  BY <1>1 DEF CodecInv
<1>6. AtFrame'
  BY <1>1, <1>4 DEF CodecInv, AtFrame
<1>7. ReadRight'
  BY <1>1 DEF CodecInv, ReadRight, C!Allowed, C!GrantOK
<1>8. ended'
  BY <1>1
<1> QED BY <1>1, <1>2, <1>3, <1>5, <1>6, <1>7, <1>8 DEF CodecInv

LEMMA Difference == \A a, b, c \in Nat : b <= a => a - b + c \in Nat
OBVIOUS

\* A frame that is taken off the wire leaves it where the next one starts.
LEMMA FrameTaken ==
  ASSUME CodecInv, NEW m, Taken(m), m + 1 \in 1..Len(written), NEW f, f = written[m + 1],
         SizeOf(f) <= Len(wire), Len(wire') = Len(wire) - SizeOf(f),
         \A q \in 1..Len(wire') : wire'[q] = wire[q + SizeOf(f)],
         UNCHANGED <<written, ended>>
  PROVE  Taken(m + 1)'
<1>1. PICK pos : Starts(pos) /\ OnWire(m, pos)
  BY DEF Taken
<1>2. Starts(pos)'
  BY <1>1 DEF Starts
<1>3. m \in Nat /\ Len(written) \in Nat /\ Len(wire) \in Nat /\ SizeOf(f) \in Nat /\ f \in C!Frames
  BY Sizes DEF Taken, CodecInv, C!TypeOK
<1>5. \A i \in 1..Len(written) + 1 : pos[i] \in Nat
  BY <1>1 DEF Starts
<1>6. pos[m + 2] = pos[m + 1] + SizeOf(f) /\ m + 2 \in 1..Len(written) + 1
  <2>1. pos[(m + 1) + 1] = pos[m + 1] + SizeOf(f)
    BY <1>1 DEF Starts
  <2> QED BY <1>3, <2>1
<1>a. pos[m + 2] = pos[m + 1] + SizeOf(f) /\ SizeOf(f) \in Nat
      /\ pos[m + 1] \in Nat /\ pos[m + 2] \in Nat /\ pos[Len(written) + 1] \in Nat
  BY <1>3, <1>5, <1>6
<1>b. Len(wire') = Len(wire) - SizeOf(f) /\ Len(wire) \in Nat /\ Len(wire') \in Nat
  BY <1>3
<1>7. /\ Len(wire') <= pos[Len(written) + 1] - pos[m + 2]
      /\ ~ended => Len(wire') = pos[Len(written) + 1] - pos[m + 2]
  <2>1. /\ Len(wire) <= pos[Len(written) + 1] - pos[m + 1]
        /\ ~ended => Len(wire) = pos[Len(written) + 1] - pos[m + 1]
    BY <1>1 DEF OnWire
  <2>2. Len(wire') <= pos[Len(written) + 1] - pos[m + 2]
    BY <1>a, <1>b, <2>1
  <2>3. ASSUME Len(wire) = pos[Len(written) + 1] - pos[m + 1] PROVE Len(wire') = pos[Len(written) + 1] - pos[m + 2]
    BY <1>a, <1>b, <2>3
  <2> QED BY <2>1, <2>2, <2>3
<1>8. ASSUME NEW i \in m + 2..Len(written), NEW p \in 1..SizeOf(written[i]), pos[i] - pos[m + 2] + p <= Len(wire')
      PROVE  wire'[pos[i] - pos[m + 2] + p] = [of |-> written[i], place |-> p]
  <2>1. i \in m + 1..Len(written) /\ i \in 1..Len(written) + 1 /\ i \in 1..Len(written) /\ m + 2 <= i
    BY <1>3
  <2>2. SizeOf(written[i]) \in Nat
    BY <2>1, Sizes DEF CodecInv, C!TypeOK
  <2>3. pos[m + 2] <= pos[i] /\ pos[i] \in Nat /\ pos[m + 1] \in Nat /\ pos[m + 2] \in Nat
    BY <1>1, <1>5, <1>6, <2>1 DEF Starts
  <2>4. p \in Nat /\ p >= 1
    BY <2>2
  <2>5. /\ pos[i] - pos[m + 2] + p \in 1..Len(wire')
        /\ pos[i] - pos[m + 1] + p = (pos[i] - pos[m + 2] + p) + SizeOf(f)
    <3>1. Len(wire') \in Nat /\ pos[i] \in Nat /\ SizeOf(f) \in Nat /\ pos[m + 1] \in Nat /\ pos[m + 2] \in Nat
      BY <1>a, <1>b, <2>3
    <3>2. pos[m + 2] = pos[m + 1] + SizeOf(f) /\ pos[m + 2] <= pos[i] /\ pos[i] - pos[m + 2] + p <= Len(wire')
      BY <1>a, <1>8, <2>3
    <3>3. pos[i] - pos[m + 1] + p = (pos[i] - pos[m + 2] + p) + SizeOf(f)
      BY <2>4, <3>1, <3>2
    <3>4. pos[i] - pos[m + 2] + p \in Nat
      BY <2>4, <3>1, <3>2, Difference
    <3>5. pos[i] - pos[m + 2] + p >= 1
      BY <2>4, <3>1, <3>2
    <3> QED BY <3>1, <3>2, <3>3, <3>4, <3>5
  <2>6. pos[i] - pos[m + 1] + p <= Len(wire)
    BY <1>3, <1>b, <2>5
  <2>7. wire[pos[i] - pos[m + 1] + p] = [of |-> written[i], place |-> p]
    BY <1>1, <2>1, <2>6 DEF OnWire
  <2> QED BY <2>5, <2>7
<1>9. OnWire(m + 1, pos)'
  <2>1. (m + 1) + 1 = m + 2
    BY <1>3
  <2> QED BY <1>7, <1>8, <2>1 DEF OnWire
<1>10. m + 1 \in 0..Len(written')
  BY <1>3
<1> QED BY <1>2, <1>9, <1>10 DEF Taken

\* A read ends the reader, or takes one whole frame off the wire.
LEMMA ReadCases ==
  ASSUME CodecInv, C!ReadFrame, NEW f, f = Head(wire).of
  PROVE  \/ /\ UNCHANGED <<wire, read>>
            /\ \/ result' = "violation"
               \/ ended /\ result' = "UnexpectedEOF"
               \/ ended /\ result' = "EOF" /\ wire = <<>>
         \/ /\ Len(wire) >= HeaderLen + f.length /\ wire # <<>> /\ C!Allowed(f) /\ f \in C!Frames
            /\ wire' \in Seq(WireByte) /\ Len(wire') = Len(wire) - (HeaderLen + f.length)
            /\ \A q \in 1..Len(wire') : wire'[q] = wire[q + (HeaderLen + f.length)]
            /\ \/ C!GrantOK(f) /\ result' = "ok" /\ read' = Append(read, f)
               \/ result' = "violation" /\ read' = read
<1> DEFINE rest == SubSeq(wire, HeaderLen + 1, Len(wire))
<1>1. CASE C!ReadFull(wire, HeaderLen) # "ok"
  BY <1>1 DEF C!ReadFrame, C!ReadFull
<1>2. CASE C!ReadFull(wire, HeaderLen) = "ok" /\ ~C!Allowed(f)
  BY <1>2 DEF C!ReadFrame
<1>3. CASE C!ReadFull(wire, HeaderLen) = "ok" /\ C!Allowed(f) /\ C!Payload(rest, f.length) # "ok"
  <2>1. /\ UNCHANGED <<wire, read>> /\ ended /\ result' = C!Payload(rest, f.length)
    BY <1>3 DEF C!ReadFrame
  <2>2. Len(wire) >= HeaderLen /\ wire \in Seq(WireByte) /\ HeaderLen \in Nat \ {0}
    BY <1>3, Lengths DEF C!ReadFull, CodecInv
  <2>3. wire # <<>> /\ 1 \in DOMAIN wire /\ Head(wire) = wire[1]
    BY <2>2
  <2>4. f.length \in Nat
    BY <2>3, Sizes DEF CodecInv, C!TypeOK
  <2>5. rest \in Seq(WireByte)
    BY <2>2
  <2>6. C!Payload(rest, f.length) = "UnexpectedEOF"
    BY <1>3, <2>4, <2>5 DEF C!Payload, C!ReadFull
  <2> QED BY <2>1, <2>6
<1>4. CASE C!ReadFull(wire, HeaderLen) = "ok" /\ C!Allowed(f) /\ C!Payload(rest, f.length) = "ok"
  <2>1. /\ wire' = SubSeq(rest, f.length + 1, Len(rest))
        /\ result' = IF C!GrantOK(f) THEN "ok" ELSE "violation"
        /\ read' = IF C!GrantOK(f) THEN Append(read, f) ELSE read
    BY <1>4 DEF C!ReadFrame
  <2>2. Len(wire) >= HeaderLen /\ wire \in Seq(WireByte) /\ HeaderLen \in Nat \ {0} /\ Len(wire) \in Nat
    BY <1>4, Lengths DEF C!ReadFull, CodecInv
  <2>3. wire # <<>> /\ 1 \in DOMAIN wire /\ Head(wire) = wire[1]
    BY <2>2
  <2>4. f \in C!Frames /\ f.length \in Nat
    BY <2>3, Sizes DEF CodecInv, C!TypeOK
  <2>5. /\ rest \in Seq(WireByte) /\ Len(rest) = Len(wire) - HeaderLen /\ Len(rest) \in Nat
        /\ \A q \in 1..Len(rest) : rest[q] = wire[q + HeaderLen]
    BY <2>2
  <2>6. Len(rest) >= f.length
    BY <1>4 DEF C!Payload, C!ReadFull
  <2> HIDE DEF rest
  <2>7. /\ wire' \in Seq(WireByte) /\ Len(wire') = Len(rest) - f.length
        /\ \A q \in 1..Len(wire') : q + f.length \in 1..Len(rest) /\ wire'[q] = rest[q + f.length]
    <3> DEFINE k == f.length
               after == SubSeq(rest, k + 1, Len(rest))
    <3>1. k \in Nat /\ Len(rest) \in Nat /\ k + 1 \in 1..Len(rest) + 1 /\ rest \in Seq(WireByte)
      BY <2>4, <2>5, <2>6
    <3> HIDE DEF k
    <3>2. after \in Seq(WireByte) /\ Len(after) = Len(rest) - k
      BY <3>1
    <3>3. \A q \in 1..Len(rest) - k : q + k \in 1..Len(rest) /\ after[q] = rest[q + k]
      BY <3>1
    <3>4. wire' = after
      BY <2>1 DEF k
    <3> HIDE DEF after
    <3> QED BY <3>2, <3>3, <3>4 DEF k
  <2>8. /\ Len(wire) >= HeaderLen + f.length
        /\ Len(wire') = Len(wire) - (HeaderLen + f.length)
    BY <2>2, <2>4, <2>5, <2>6, <2>7
  <2>9. ASSUME NEW q \in 1..Len(wire') PROVE wire'[q] = wire[q + (HeaderLen + f.length)]
    <3>1. wire'[q] = wire[(q + f.length) + HeaderLen]
      BY <2>5, <2>7
    <3>2. (q + f.length) + HeaderLen = q + (HeaderLen + f.length)
      BY <2>2, <2>4
    <3> QED BY <3>1, <3>2
  <2> QED BY <1>4, <2>1, <2>3, <2>4, <2>7, <2>8, <2>9
<1> QED BY <1>1, <1>2, <1>3, <1>4

LEMMA ReadStep == ASSUME CodecInv, C!ReadFrame PROVE CodecInv'
<1>1. result = "ok" /\ UNCHANGED <<written, ended>>
  BY DEF C!ReadFrame
<1>2. PICK m : m = Len(read) /\ Taken(m)
  BY <1>1 DEF CodecInv, AtFrame
<1>3. /\ m \in Nat /\ read \in Seq(C!Frames) /\ written \in Seq(C!Frames)
      /\ wire \in Seq(WireByte) /\ Len(wire) \in Nat /\ DOMAIN wire = 1..Len(wire)
  BY <1>2 DEF CodecInv, C!TypeOK
<1>4. PICK f : f = Head(wire).of
  OBVIOUS
<1>5. CASE /\ UNCHANGED <<wire, read>>
           /\ \/ result' = "violation"
              \/ ended /\ result' = "UnexpectedEOF"
              \/ ended /\ result' = "EOF" /\ wire = <<>>
  <2>1. Taken(m)'
    BY <1>1, <1>2, <1>5, TakenStays
  <2>2. C!TypeOK'
    BY <1>1, <1>5 DEF CodecInv, C!TypeOK
  <2>3. AtFrame'
    BY <1>2, <1>5, <2>1 DEF AtFrame
  <2>4. result' \in {"EOF", "UnexpectedEOF"} => ended'
    BY <1>1, <1>5
  <2>5. result' = "EOF" => wire' = <<>>
    BY <1>5
  <2>6. ReadRight' /\ wire' \in Seq(WireByte)
    BY <1>1, <1>5 DEF CodecInv, ReadRight, C!Allowed, C!GrantOK
  <2> QED BY <2>2, <2>3, <2>4, <2>5, <2>6 DEF CodecInv
<1>6. CASE /\ Len(wire) >= HeaderLen + f.length /\ wire # <<>> /\ C!Allowed(f) /\ f \in C!Frames
           /\ wire' \in Seq(WireByte) /\ Len(wire') = Len(wire) - (HeaderLen + f.length)
           /\ \A q \in 1..Len(wire') : wire'[q] = wire[q + (HeaderLen + f.length)]
           /\ \/ C!GrantOK(f) /\ result' = "ok" /\ read' = Append(read, f)
              \/ result' = "violation" /\ read' = read
  <2>1. m + 1 \in 1..Len(written) /\ f = written[m + 1]
    <3>1. m + 1 \in 1..Len(written) /\ wire[1] = [of |-> written[m + 1], place |-> 1]
      BY <1>2, <1>6, FirstOnWire
    <3>2. Head(wire) = wire[1]
      BY <1>3, <1>6
    <3> QED BY <1>4, <3>1, <3>2
  <2>2. Taken(m + 1)'
    BY <1>1, <1>2, <1>6, <2>1, FrameTaken DEF SizeOf
  <2>3. wire' \in Seq(WireByte) /\ \A i \in DOMAIN wire' : wire'[i].of \in C!Frames /\ wire'[i].place \in 1..HeaderLen + wire'[i].of.length
    <3>1. f.length \in Nat
      BY <1>6, Sizes
    <3>2. wire' \in Seq(WireByte) /\ DOMAIN wire' = 1..Len(wire')
      BY <1>6
    <3>3. \A i \in DOMAIN wire' : i + (HeaderLen + f.length) \in DOMAIN wire /\ wire'[i] = wire[i + (HeaderLen + f.length)]
      <4>1. HeaderLen + f.length \in Nat /\ Len(wire') = Len(wire) - (HeaderLen + f.length) /\ Len(wire') \in Nat
        BY <1>3, <1>6, <3>1, <3>2, Lengths
      <4>2. ASSUME NEW i \in 1..Len(wire') PROVE i + (HeaderLen + f.length) \in 1..Len(wire)
        BY <1>3, <4>1
      <4> QED BY <1>3, <1>6, <3>2, <4>2
    <3> QED BY <3>2, <3>3 DEF CodecInv, C!TypeOK
  <2>4. /\ read' \in Seq(C!Frames)
        /\ \/ result' = "ok" /\ Len(read') = m + 1
           \/ result' = "violation" /\ Len(read') = m
    <3>1. Len(Append(read, f)) = m + 1 /\ Append(read, f) \in Seq(C!Frames)
      BY <1>2, <1>3, <1>6
    <3> QED BY <1>2, <1>3, <1>6, <3>1
  <2>5. C!TypeOK'
    BY <1>1, <2>3, <2>4 DEF CodecInv, C!TypeOK
  <2>6. AtFrame'
    BY <2>2, <2>4 DEF AtFrame
  <2>7. Len(read') <= Len(written')
    BY <1>1, <1>3, <2>1, <2>4
  <2>8. \A i \in 1..Len(read') : read'[i] = written'[i] /\ C!Allowed(read'[i]) /\ C!GrantOK(read'[i])
    <3>1. CASE read' = read
      BY <1>1, <3>1 DEF CodecInv, ReadRight
    <3>2. CASE read' = Append(read, f) /\ C!GrantOK(f)
      <4>1. Len(read') = m + 1 /\ read'[m + 1] = f /\ \A i \in 1..m : read'[i] = read[i]
        BY <1>2, <1>3, <1>6, <3>2
      <4>2. ASSUME NEW i \in 1..m + 1, i # m + 1 PROVE i \in 1..Len(read)
        BY <1>2, <1>3, <4>2
      <4> QED BY <1>1, <1>2, <1>6, <2>1, <3>2, <4>1, <4>2 DEF CodecInv, ReadRight
    <3> QED BY <1>6, <3>1, <3>2
  <2>9. ReadRight'
    BY <2>7, <2>8 DEF ReadRight, C!Allowed, C!GrantOK
  <2>10. (result' \in {"EOF", "UnexpectedEOF"} => ended') /\ (result' = "EOF" => wire' = <<>>)
    BY <2>4
  <2> QED BY <2>3, <2>5, <2>6, <2>9, <2>10 DEF CodecInv
<1> QED BY <1>4, <1>5, <1>6, ReadCases

LEMMA CodecInit == C!Init => CodecInv
<1> SUFFICES ASSUME C!Init PROVE CodecInv
  OBVIOUS
<1>1. wire = <<>> /\ written = <<>> /\ ended = FALSE /\ read = <<>> /\ result = "ok"
  BY DEF C!Init
<1>2. C!TypeOK
  <2>1. ended \in BOOLEAN
    BY <1>1
  <2>2. /\ written \in Seq(C!Frames) /\ read \in Seq(C!Frames) /\ DOMAIN wire = {}
        /\ result \in {"ok", "EOF", "UnexpectedEOF", "violation"}
    BY <1>1
  <2> QED BY <2>1, <2>2 DEF C!TypeOK
<1>3. Taken(0)
  <2>1. \E pos : pos = [i \in 1..1 |-> 0]
    OBVIOUS
  <2>2. PICK pos : pos = [i \in 1..1 |-> 0]
    BY <2>1
  <2>3. Len(written) = 0 /\ Len(wire) = 0
    BY <1>1
  <2>4. pos \in [1..1 -> Nat] /\ pos[1] = 0
    BY <2>2
  <2>5. Starts(pos)
    BY <2>3, <2>4 DEF Starts
  <2>6. OnWire(0, pos)
    BY <2>3, <2>4 DEF OnWire
  <2> QED BY <2>3, <2>5, <2>6 DEF Taken
<1>4. AtFrame /\ ReadRight
  BY <1>1, <1>3 DEF AtFrame, ReadRight
<1> QED BY <1>1, <1>2, <1>4 DEF CodecInv

LEMMA CodecStep == ASSUME CodecInv, [C!Next]_C!vars PROVE CodecInv'
<1>1. CASE UNCHANGED C!vars
  <2>1. wire' = wire /\ written' = written /\ ended' = ended /\ read' = read /\ result' = result
    BY <1>1 DEF C!vars
  <2>2. \A m : Taken(m) => Taken(m)'
    BY <2>1, TakenStays
  <2>3. AtFrame'
    BY <2>1, <2>2 DEF CodecInv, AtFrame
  <2>4. C!TypeOK'
    BY <2>1 DEF CodecInv, C!TypeOK
  <2>5. (result' \in {"EOF", "UnexpectedEOF"} => ended') /\ (result' = "EOF" => wire' = <<>>)
    BY <2>1 DEF CodecInv
  <2>6. ReadRight' /\ wire' \in Seq(WireByte)
    BY <2>1 DEF CodecInv, ReadRight, C!Allowed, C!GrantOK
  <2> QED BY <2>3, <2>4, <2>5, <2>6 DEF CodecInv
<1>2. CASE C!Next
  BY <1>2, WriteStep, StreamEndStep, ReadStep DEF C!Next
<1> QED BY <1>1, <1>2

LEMMA FramesWholeByInv == ASSUME CodecInv PROVE C!FramesWhole
<1>1. /\ read \in Seq(C!Frames) /\ written \in Seq(C!Frames) /\ Len(read) \in Nat /\ Len(read) <= Len(written)
      /\ DOMAIN read = 1..Len(read)
  BY DEF CodecInv, ReadRight, C!TypeOK
<1>2. C!IsPrefix(read, written)
  <2>1. /\ SubSeq(read, 1, Len(read)) \in Seq(C!Frames) /\ SubSeq(written, 1, Len(read)) \in Seq(C!Frames)
        /\ Len(SubSeq(read, 1, Len(read))) = Len(read) /\ Len(SubSeq(written, 1, Len(read))) = Len(read)
        /\ \A i \in 1..Len(read) : /\ SubSeq(read, 1, Len(read))[i] = read[i]
                                   /\ SubSeq(written, 1, Len(read))[i] = written[i]
    BY <1>1
  <2>2. \A i \in 1..Len(read) : SubSeq(read, 1, Len(read))[i] = SubSeq(written, 1, Len(read))[i]
    BY <2>1 DEF CodecInv, ReadRight
  <2>3. SubSeq(read, 1, Len(read)) = SubSeq(written, 1, Len(read))
    BY <1>1, <2>1, <2>2
  <2> QED BY <1>1, <2>3 DEF C!IsPrefix
<1>3. wire # <<>> => wire[1].place = 1
  <2>1. ASSUME wire # <<>> PROVE wire[1].place = 1
    <3>1. PICK m : Taken(m)
      BY DEF CodecInv, AtFrame
    <3>2. wire[1] = [of |-> written[m + 1], place |-> 1]
      BY <2>1, <3>1, FirstOnWire
    <3> QED BY <3>2
  <2> QED BY <2>1
<1> QED BY <1>1, <1>2, <1>3 DEF CodecInv, ReadRight, C!FramesWhole
-----------------------------------------------------------------------------
(* The whole: the part that runs keeps what holds of it.                   *)

LEMMA OnlyOneMoves ==
  ASSUME [Next]_vars
  PROVE  /\ part' = part
         /\ part = "refresh" => [R!Next]_R!vars
         /\ part = "tree" => [T!Next]_T!vars
         /\ part = "dialogs" => [D!Next]_D!vars
         /\ part = "settings" => [S!Next]_S!vars
         /\ part = "codec" => [C!Next]_C!vars
<1>1. CASE UNCHANGED vars
  <2>1. UNCHANGED <<part, refreshVars, treeVars, dialogVars, settingVars, codecVars>>
    BY <1>1 DEF vars
  <2>2. UNCHANGED R!vars
    BY <2>1 DEF refreshVars, R!vars, R!daemon, R!burst, R!host, R!fields, R!run, R!history
  <2>3. UNCHANGED D!vars /\ UNCHANGED S!vars
    BY <2>1 DEF dialogVars, settingVars, D!vars, S!vars, S!store
  <2>4. UNCHANGED T!vars /\ UNCHANGED C!vars
    BY <2>1 DEF treeVars, codecVars, T!vars, C!vars
  <2> QED BY <2>1, <2>2, <2>3, <2>4
<1>2. CASE Next
  BY <1>2 DEF Next
<1> QED BY <1>1, <1>2

LEMMA RefreshInvariant == Spec => [](part = "refresh" => RefreshInv)
<1>1. Init => (part = "refresh" => RefreshInv)
  BY RefreshInit DEF Init
<1>2. (part = "refresh" => RefreshInv) /\ [Next]_vars => (part = "refresh" => RefreshInv)'
  BY OnlyOneMoves, RefreshingStep
<1> QED BY <1>1, <1>2, PTL DEF Spec

LEMMA TreeInvariant == Spec => [](part = "tree" => TreeInv)
<1>1. Init => (part = "tree" => TreeInv)
  BY TreeInit DEF Init
<1>2. (part = "tree" => TreeInv) /\ [Next]_vars => (part = "tree" => TreeInv)'
  BY OnlyOneMoves, TreeStep
<1> QED BY <1>1, <1>2, PTL DEF Spec

LEMMA DialogsInvariant == Spec => [](part = "dialogs" => DialogsInv)
<1>1. Init => (part = "dialogs" => DialogsInv)
  BY DialogsInit DEF Init
<1>2. (part = "dialogs" => DialogsInv) /\ [Next]_vars => (part = "dialogs" => DialogsInv)'
  BY OnlyOneMoves, DialogsStep
<1> QED BY <1>1, <1>2, PTL DEF Spec

LEMMA SettingsInvariant == Spec => [](part = "settings" => SettingsInv)
<1>1. Init => (part = "settings" => SettingsInv)
  BY ConstantsAssumption, SettingsInit DEF Init
<1>2. (part = "settings" => SettingsInv) /\ [Next]_vars => (part = "settings" => SettingsInv)'
  BY ConstantsAssumption, OnlyOneMoves, SettingsStep
<1> QED BY <1>1, <1>2, PTL DEF Spec

LEMMA CodecInvariant == Spec => [](part = "codec" => CodecInv)
<1>1. Init => (part = "codec" => CodecInv)
  BY CodecInit DEF Init
<1>2. (part = "codec" => CodecInv) /\ [Next]_vars => (part = "codec" => CodecInv)'
  BY OnlyOneMoves, CodecStep
<1> QED BY <1>1, <1>2, PTL DEF Spec

LEMMA OneOfParts == Spec => [](part \in {"refresh", "tree", "dialogs", "settings", "codec"})
<1>1. Init => part \in {"refresh", "tree", "dialogs", "settings", "codec"}
  BY ConstantsAssumption DEF ConstantsAssumption, Init
<1>2. /\ part \in {"refresh", "tree", "dialogs", "settings", "codec"} /\ [Next]_vars
      => (part \in {"refresh", "tree", "dialogs", "settings", "codec"})'
  BY OnlyOneMoves
<1> QED BY <1>1, <1>2, PTL DEF Spec

\* Every row the user sees resolves, and so does one that was clicked when its
\* message is handled, however many goroutines publish side by side and overtake
\* one another between Remember and the host's call: what a goroutine is about to
\* show is remembered from the one step to the other (OnItsWay; publish, Resolve).
THEOREM RowsResolve == Spec => []Actionable
<1>1. (part = "refresh" => RefreshInv) => Actionable
  BY RefreshKeptByInv DEF Actionable
<1> QED BY <1>1, RefreshInvariant, PTL

\* No event is lost in a burst, between the timer's firing and its flush, during
\* the flush or beside another one (followEvents, flush).
THEOREM BurstsKept == Spec => []EventKept
<1>1. (part = "refresh" => RefreshInv) => EventKept
  BY RefreshKeptByInv DEF EventKept
<1> QED BY <1>1, RefreshInvariant, PTL

\* A branch that is open for both sides and empty is being fetched, or was refused
\* by the host: none was published before its parent and dropped for good, and a
\* late parent only makes the host observe again (refreshAll, publish).
THEOREM NoBranchForgotten == Spec => []FilledOrComing
<1>1. (part = "refresh" => RefreshInv) => FilledOrComing
  BY RefreshKeptByInv DEF FilledOrComing
<1> QED BY <1>1, RefreshInvariant, PTL

\* An action never asks or reports over a dialog of its own, whatever the order
\* in which dialog.open, the handler's record and the answer come
\* (runAction, openDialog, DialogSubmitted).
THEOREM DialogsAlone == Spec => []OneDialogPerAction
<1>1. (part = "dialogs" => DialogsInv) => OneDialogPerAction
  BY OneDialogByInv DEF OneDialogPerAction
<1> QED BY <1>1, DialogsInvariant, PTL

\* A batch that is over has changed, found gone or reported every target of the
\* selection, for every number of targets and of failures (runOverTargets,
\* removeEach).
THEOREM BatchesWhole == Spec => []NothingSkipped
<1>1. (part = "dialogs" => DialogsInv) => NothingSkipped
  BY NothingSkippedByInv DEF NothingSkipped
<1> QED BY <1>1, DialogsInvariant, PTL

\* What an action changed is listed before it ends, and for a remove before its
\* report (removeEach, refreshAll).
THEOREM ListedBeforeReport == Spec => []ChangesListed
<1>1. (part = "dialogs" => DialogsInv) => ChangesListed
  BY ChangesListedByInv DEF ChangesListed
<1> QED BY <1>1, DialogsInvariant, PTL

\* What the user saved stays in the file, the cache and the connection, if no two
\* goroutines overlapped and no read failed (ApplyDetails, Store).
THEOREM SavesLast == Spec => []SettingsKept
<1>1. (part = "settings" => SettingsInv) => SettingsKept
  BY SettingsKeptByInv DEF SettingsKept
<1> QED BY <1>1, SettingsInvariant, PTL

\* A dot tells the truth of what did not change while its branch was made, though
\* the branch is made of several answers (containerNodes, imageNodes, volumeNodes).
THEOREM DotsTellTruth == Spec => []DotsTrue
<1>1. (part = "tree" => TreeInv) => DotsTrue
  BY DEF TreeInv, DotsTrue
<1> QED BY <1>1, TreeInvariant, PTL

\* Frames are read whole and in order, whatever the lengths and kinds that precede
\* them and wherever the stream ends (ReadFrame).
THEOREM FramesReadWhole == Spec => []FramesWhole
<1>1. (part = "codec" => CodecInv) => FramesWhole
  BY FramesWholeByInv DEF FramesWhole
<1> QED BY <1>1, CodecInvariant, PTL

\* Every variable of every part has its type (the fields of Connection, Service and
\* Store, and the frames of ReadFrame).
THEOREM TypesOfParts == Spec => []TypeOK
<1>1. part \in {"refresh", "tree", "dialogs", "settings", "codec"}
      /\ (part = "refresh" => RefreshInv) /\ (part = "tree" => TreeInv)
      /\ (part = "dialogs" => DialogsInv) /\ (part = "settings" => SettingsInv)
      /\ (part = "codec" => CodecInv)
      => TypeOK
  <2>1. (part = "refresh" => RefreshInv) => (part = "refresh" => R!TypeOK)
    BY RefreshTypesByInv
  <2>2. (part = "dialogs" => DialogsInv) => (part = "dialogs" => D!TypeOK)
    BY DialogTypesByInv
  <2>3. (part = "settings" => SettingsInv) => (part = "settings" => S!TypeOK)
    BY ConstantsAssumption, SettingsKeptByInv
  <2>4. (part = "tree" => TreeInv) => (part = "tree" => T!TypeOK)
    BY DEF TreeInv
  <2>5. (part = "codec" => CodecInv) => (part = "codec" => C!TypeOK)
    BY DEF CodecInv
  <2> QED BY <2>1, <2>2, <2>3, <2>4, <2>5 DEF TypeOK
<1> QED BY <1>1, OneOfParts, RefreshInvariant, TreeInvariant, DialogsInvariant, SettingsInvariant,
           CodecInvariant, PTL
=============================================================================
