------------------------------- MODULE Tree --------------------------------
(***************************************************************************)
(* usecase/tree.go: the rows of a branch and their dots, made from several *)
(* answers of a daemon that goes on changing in between. containerNodes    *)
(* lists the containers and then inspects some of them; imageNodes,        *)
(* volumeNodes and networkNodes are given their objects and then the       *)
(* containers, both listed by refreshBranch. A container uses one object   *)
(* of the branch at hand, whose tags play a part for images only. The      *)
(* networks that Docker makes, which are always neutral, are left out.     *)
(***************************************************************************)
EXTENDS Domain, FiniteSets

CONSTANTS Containers, Objects, Tags,
          Absent,      \* of a container that is not there, and of a row
          MaxChanges,  \* bound: changes at the daemon
          MaxFailures  \* bound: calls that fail

\* What is assumed of the constants; an instance checks it.
ObjectsAssumption == Objects # {} /\ MaxChanges \in Nat /\ MaxFailures \in Nat

VARIABLES
  ctrs,     \* the containers: state, health, exit code, object and tag
  tag,      \* the object that each tag names
  branch, step,  \* the branch that is refreshed, and the next step of it
  listed,   \* its first answer
  rows,     \* the tones of the rows of the last refresh
  changes, failures, \* bounds
  held,     \* history: the containers that have not changed since the first list
  failed    \* history: a later call of this refresh failed

vars == <<ctrs, tag, branch, step, listed, rows, changes, failures, held, failed>>
\* A health check is of a container that runs or did, and an exit code of one that did.
Container ==
  {c \in [state : States, health : Healths, exit : ExitCodes, uses : Objects, tag : Tags] :
     /\ c.health # "none" => c.state \in {"running", "exited"}
     /\ c.exit # 0 => c.state \in {"exited", "dead"}}

Init ==
  /\ ctrs = [c \in Containers |-> Absent] /\ tag = [t \in Tags |-> CHOOSE o \in Objects : TRUE]
  /\ branch = "none" /\ step = "idle" /\ listed = ctrs /\ rows = <<>>
  /\ changes = 0 /\ failures = 0 /\ held = {} /\ failed = FALSE

(* The daemon (external).                                                  *)
MayChange == changes < MaxChanges /\ changes' = changes + 1
\* A container starts, stops, fails its check or goes; a new one uses the object
\* that its tag names.
ContainerChanges(c) ==
  /\ MayChange /\ held' = held \ {c}
  /\ \E new \in {Absent} \cup Container :
       /\ new # Absent => IF ctrs[c] = Absent THEN new.uses = tag[new.tag]
                          ELSE new.uses = ctrs[c].uses /\ new.tag = ctrs[c].tag
       /\ ctrs' = [ctrs EXCEPT ![c] = new]
  /\ UNCHANGED <<tag, branch, step, listed, rows, failures, failed>>
\* A tag is given to another object.
Retag(t, i) ==
  /\ MayChange /\ tag[t] # i /\ tag' = [tag EXCEPT ![t] = i]
  /\ UNCHANGED <<ctrs, branch, step, listed, rows, failures, held, failed>>

-----------------------------------------------------------------------------
Fails == failures < MaxFailures /\ failures' = failures + 1 /\ failed' = TRUE
Succeeds == UNCHANGED <<failures, failed>>

\* The first list of a refresh. One that fails is the error of the branch.
List(b) ==
  /\ step = "idle" /\ branch' = b
  /\ step' = IF b = "containers" THEN "inspect" ELSE "users"
  /\ listed' = ctrs /\ rows' = <<>> /\ failed' = FALSE
  /\ held' = {c \in Containers : ctrs[c] # Absent}
  /\ UNCHANGED <<ctrs, tag, changes, failures>>

\* Mutant: a container that has stopped is not looked at.
needsDetail_Running(state) == state = "running"
needsDetail(state) == state \in {"running", "exited"}

\* containerNodes: the inspect of a container whose list entry can hide
\* something. One that fails leaves no health and the exit code 0.
Plain(c) == [listed[c] EXCEPT !.health = "none", !.exit = 0]
Row(c, detail) == rows' = [r \in DOMAIN rows \cup {c} |-> IF r = c THEN ContainerTone(detail) ELSE rows[r]]
Inspect(c) ==
  /\ step = "inspect" /\ listed[c] # Absent /\ c \notin DOMAIN rows
  /\ \/ ~needsDetail(listed[c].state) /\ Row(c, Plain(c)) /\ Succeeds
     \/ /\ needsDetail(listed[c].state) /\ ctrs[c] # Absent /\ Succeeds
        /\ Row(c, [listed[c] EXCEPT !.health = ctrs[c].health, !.exit = ctrs[c].exit])
     \/ /\ needsDetail(listed[c].state) /\ Row(c, Plain(c))
        /\ IF ctrs[c] = Absent THEN Succeeds ELSE Fails
  /\ UNCHANGED <<ctrs, tag, branch, step, listed, changes, held>>
ContainerNodes ==
  /\ step = "inspect" /\ \A c \in Containers : listed[c] = Absent \/ c \in DOMAIN rows
  /\ step' = "idle"
  /\ UNCHANGED <<ctrs, tag, branch, listed, rows, changes, failures, held, failed>>

\* Mutant: a container is matched by the tag it was started with.
Uses_Tag(c, i) == tag[ctrs[c].tag] = i
Uses(c, i) == ctrs[c].uses = i
Tagged(i) == \E t \in Tags : tag[t] = i
Mark(used, i) ==
  CASE branch = "images" -> ImageTone(used, Tagged(i))
    [] branch = "volumes" -> VolumeTone(used)
    [] branch = "networks" -> NetworkTone(used, FALSE)
\* The rows of the other groups, by what the containers, which are listed
\* second, use. Without that list there are no users.
Marked(users) == rows' = [i \in Objects |-> Mark(\E c \in users : Uses(c, i), i)]
ListUsers ==
  /\ step = "users" /\ step' = "idle"
  /\ \/ Marked({c \in Containers : ctrs[c] # Absent}) /\ Succeeds
     \/ Marked({}) /\ Fails
  /\ UNCHANGED <<ctrs, tag, branch, listed, changes, held>>

-----------------------------------------------------------------------------
Next ==
  \/ \E c \in Containers : ContainerChanges(c) \/ Inspect(c)
  \/ \E t \in Tags, i \in Objects : Retag(t, i)
  \/ \E b \in GroupNames : List(b)
  \/ ContainerNodes \/ ListUsers

Spec == Init /\ [][Next]_vars

-----------------------------------------------------------------------------
Tones == {"ok", "warn", "error", "busy", "neutral", "unknown"}

\* Every variable has its type (tree.go).
TypeOK ==
  /\ ctrs \in [Containers -> Container \cup {Absent}] /\ tag \in [Tags -> Objects]
  /\ branch \in {"none"} \cup GroupNames /\ step \in {"idle", "inspect", "users"}
  /\ listed \in [Containers -> Container \cup {Absent}]
  /\ DOMAIN rows \in (SUBSET Containers) \cup {Objects}
  /\ \A r \in DOMAIN rows : rows[r] \in Tones
  /\ changes \in 0..MaxChanges /\ failures \in 0..MaxFailures
  /\ held \subseteq Containers /\ failed \in BOOLEAN

\* A container that did not change since it was listed.
Steady(c) == c \in held /\ ctrs[c] # Absent

\* A dot tells the truth of what did not change while its branch was made, if no
\* call failed: a container shows the tone of its state, health and exit code
\* ("One inspect per container is the price of a dot that tells the truth"), and
\* what it uses is in use, wherever the tag of an image went (imageNodes, "the id
\* is what must be compared").
DotsTrue ==
  ~failed => \A c \in Containers : Steady(c) =>
    /\ branch = "containers" /\ c \in DOMAIN rows => rows[c] = ContainerTone(ctrs[c])
    /\ branch # "containers" /\ rows # <<>> => rows[ctrs[c].uses] = "ok"
=============================================================================
