----------------------------- MODULE Settings ------------------------------
(***************************************************************************)
(* The preferences of containers: details.go (ApplyDetails, DescribeNode), *)
(* the settings of connection.go, infra/settings/store.go with its cache   *)
(* and the file at the host. One session, whose id names the file; every   *)
(* observe loads the settings and every save of the panel writes them all, *)
(* each on a goroutine of its own. The plugin may be restarted: the file   *)
(* stays, and the host resends the observe.                                *)
(*                                                                         *)
(* A setting is a value; the fields of ResourceSettings, their defaults    *)
(* and the limits of parseTail are left out. None is what a container that *)
(* was never configured has.                                               *)
(***************************************************************************)
EXTENDS Domain, FiniteSets

CONSTANTS Containers, Values, None,
          Uncached, NoFile,
          Observes, Applies,  \* goroutines: the observes, the saves of the panel
          MaxFaults           \* bound: calls that fail, and restarts

\* The key is the name, or the short id when the daemon does not tell the name.
Keys == Containers \X {"name", "id"}

\* What is assumed of the constants; an instance checks it.
SettingsAssumption ==
  Observes \cap Applies = {} /\ NoFile \notin [Keys -> Values \cup {None}] /\ MaxFaults \in Nat
Name(c) == <<c, "name">>
Empty == [k \in Keys |-> None]

VARIABLES
  file,     \* at the host
  cache,    \* Store.cache
  settings, \* Connection.settings
  at, got,  \* where each goroutine is, and the settings in its hands
  faults,   \* bound: failures and restarts so far
  wanted,   \* history: the values that a container may have by what was answered
  apart     \* history: no two goroutines ran at once, no read or lookup failed, and
            \* no panel was saved before an observe had loaded the settings

store == <<file, cache, settings>>
vars == <<store, at, got, faults, wanted, apart>>

Goroutines == Observes \cup Applies

Init ==
  /\ file = NoFile /\ cache = Uncached /\ settings = Empty
  /\ at = [g \in Goroutines |-> "idle"] /\ got = [g \in Goroutines |-> Empty]
  /\ faults = 0 /\ wanted = [c \in Containers |-> {None}] /\ apart = TRUE

Quiet == \A g \in Goroutines : at[g] \in {"idle", "done"}
Loaded == \E o \in Observes : at[o] = "done"
Goto(g, label) == at' = [at EXCEPT ![g] = label]
Hold(g, set) == got' = [got EXCEPT ![g] = set]
Alone(proper) == apart' = (apart /\ Quiet /\ proper)
Failing == faults < MaxFaults /\ faults' = faults + 1

-----------------------------------------------------------------------------
(* Observe: Load, then LoadSettings.                                       *)

\* Load asks the cache.
Load(o) ==
  /\ at[o] = "idle" /\ Alone(TRUE)
  /\ IF cache = Uncached THEN Goto(o, "read") /\ UNCHANGED got
                         ELSE Goto(o, "install") /\ Hold(o, cache)
  /\ UNCHANGED <<store, faults, wanted>>
\* It reads the file. A missing one, and one that cannot be read, are no settings.
ReadFile(o) ==
  /\ at[o] = "read" /\ Goto(o, "store")
  /\ \/ Hold(o, IF file = NoFile THEN Empty ELSE file) /\ UNCHANGED <<faults, apart>>
     \/ Failing /\ Hold(o, Empty) /\ apart' = FALSE
  /\ UNCHANGED <<store, wanted>>
\* What it read is cached.
StoreCache(o) ==
  /\ at[o] = "store" /\ Goto(o, "install") /\ cache' = got[o]
  /\ UNCHANGED <<file, settings, got, faults, wanted, apart>>
LoadSettings(o) ==
  /\ at[o] = "install" /\ Goto(o, "done") /\ settings' = got[o]
  /\ UNCHANGED <<file, cache, got, faults, wanted, apart>>

-----------------------------------------------------------------------------
(* ApplyDetails.                                                           *)

\* PutSettings: the new value of one container, and a copy of them all.
Put(set, key, v) == [set EXCEPT ![key] = v]
\* The nodes whose panel the host may save: what it has in its tree, or had once.
Nodes ==
  {<<>>, <<"docker">>} \cup Groups \cup {InstanceID(k, c) : k \in Kinds, c \in Containers \cup {"?"}}
Saves(node) == ClassOf(node) = "instance" /\ node[2] = "container"
\* The panel of a container is saved, under the name that containerName finds.
ApplyDetails(a, node, v) ==
  LET c == node[3] IN
  /\ Saves(node)
  /\ at[a] = "idle" /\ Goto(a, "save")
  /\ \/ settings' = Put(settings, Name(c), v) /\ Alone(Loaded) /\ UNCHANGED faults
     \/ settings' = Put(settings, <<c, "id">>, v) /\ Failing /\ apart' = FALSE
  /\ Hold(a, settings')
  /\ wanted' = [wanted EXCEPT ![c] = @ \cup {v}]
  /\ UNCHANGED <<file, cache>>
\* Other nodes have nothing to save.
ApplyNothing(a, node) ==
  /\ ~Saves(node)
  /\ at[a] = "idle" /\ Goto(a, "done") /\ UNCHANGED <<store, got, faults, wanted, apart>>

\* Mutant: Save leaves the cache as it was read.
Cached_AsRead(set) == cache
Cached(set) == set
\* Save: the cache, and then the file.
SaveCache(a) ==
  /\ at[a] = "save" /\ Goto(a, "write") /\ cache' = Cached(got[a])
  /\ UNCHANGED <<file, settings, got, faults, wanted, apart>>
\* The file is written, and the save answered: the value is the one wanted.
WriteFile(a) ==
  /\ at[a] = "write" /\ Goto(a, "done") /\ UNCHANGED <<cache, settings, got, apart>>
  /\ \/ /\ file' = got[a] /\ UNCHANGED faults
        /\ wanted' = [c \in Containers |->
             IF got[a][Name(c)] \in wanted[c] THEN {got[a][Name(c)]} ELSE wanted[c]]
     \/ Failing /\ UNCHANGED <<file, wanted>>

\* The plugin ends and is started again.
Restart ==
  /\ Failing /\ cache' = Uncached /\ settings' = Empty
  /\ at' = [g \in Goroutines |-> IF g \in Observes \/ at[g] = "idle" THEN "idle" ELSE "done"]
  /\ got' = [g \in Goroutines |-> Empty] /\ UNCHANGED <<file, wanted, apart>>

-----------------------------------------------------------------------------
Run(g) == Load(g) \/ ReadFile(g) \/ StoreCache(g) \/ LoadSettings(g) \/ SaveCache(g) \/ WriteFile(g)

Next ==
  \/ \E o \in Observes : Load(o) \/ ReadFile(o) \/ StoreCache(o) \/ LoadSettings(o)
  \/ \E a \in Applies : \/ \E node \in Nodes : ApplyNothing(a, node) \/ \E v \in Values : ApplyDetails(a, node, v)
                        \/ SaveCache(a) \/ WriteFile(a)
  \/ Restart

Spec == Init /\ [][Next]_vars

-----------------------------------------------------------------------------
\* Every variable has its type; what is in a goroutine's hands is a whole set
\* of settings (Store, Connection.settings).
TypeOK ==
  LET Sets == [Keys -> Values \cup {None}] IN
  /\ file \in Sets \cup {NoFile} /\ cache \in Sets \cup {Uncached} /\ settings \in Sets
  /\ at \in [Goroutines -> {"idle", "read", "store", "install", "save", "write", "done"}]
  /\ got \in [Goroutines -> Sets] /\ faults \in 0..MaxFaults
  /\ wanted \in [Containers -> SUBSET (Values \cup {None})] /\ apart \in BOOLEAN

\* What the user saved stays: if nothing overlapped, the session shows for every
\* container the value last saved, or one whose save did not succeed, after any
\* number of observes, failed writes and restarts, and so would the next process
\* (ApplyDetails, "this is where the values become durable").
SettingsKept ==
  apart /\ Quiet => \A c \in Containers :
    /\ Loaded => settings[Name(c)] \in wanted[c]
    /\ IF file = NoFile THEN None \in wanted[c] ELSE file[Name(c)] \in wanted[c]

=============================================================================
