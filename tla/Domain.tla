------------------------------ MODULE Domain -------------------------------
(***************************************************************************)
(* internal/domain and usecase/actions.go: what node ids name, what the    *)
(* dot of a row says, which actions a row offers, and what runAction does  *)
(* with each of them. Pure operators, used by Tree, Dialogs and Settings.  *)
(*                                                                         *)
(* A node id is the sequence of the parts between its slashes. The case of *)
(* letters, which every comparison of a state ignores, is left out.        *)
(***************************************************************************)
EXTENDS Naturals, Sequences

Kinds == {"container", "image", "volume", "network"}
GroupNames == {"containers", "images", "volumes", "networks"}

\* dockerIDPattern, of which "?" stands for what it refuses.
ValidDockerID(id) == id \notin {"", "?"}

InstanceID(kind, id) == <<"docker", kind, id>>
ParsesAsInstance(node) ==
  /\ Len(node) = 3 /\ node[1] = "docker" /\ node[2] \in Kinds /\ ValidDockerID(node[3])
Groups == {<<"docker", name>> : name \in GroupNames}
ClassOf(node) ==
  IF node = <<>> THEN "connection"
  ELSE IF node = <<"docker">> THEN "docker"
  ELSE IF node \in Groups THEN "group"
  ELSE IF ParsesAsInstance(node) THEN "instance" ELSE "unknown"

-----------------------------------------------------------------------------
(* The dots.                                                               *)

FixedTone == [paused |-> "warn", restarting |-> "busy", removing |-> "busy",
              created |-> "neutral", dead |-> "error", other |-> "unknown"]
States == DOMAIN FixedTone \cup {"running", "exited"}
Healths == {"none", "starting", "unhealthy"}   \* and healthy, which is drawn as none
ExitCodes == {0, 1}

RunningTone(health) ==
  IF health = "starting" THEN "busy" ELSE IF health = "unhealthy" THEN "warn" ELSE "ok"
ExitedTone(code) == IF code = 0 THEN "neutral" ELSE "error"
ContainerTone(c) ==
  IF c.state = "running" THEN RunningTone(c.health)
  ELSE IF c.state = "exited" THEN ExitedTone(c.exit) ELSE FixedTone[c.state]

ImageTone(used, tagged) == IF used THEN "ok" ELSE IF tagged THEN "neutral" ELSE "warn"
VolumeTone(used) == IF used THEN "ok" ELSE "warn"
NetworkTone(used, builtIn) == IF builtIn THEN "neutral" ELSE VolumeTone(used)

-----------------------------------------------------------------------------
(* The menus, and what runAction does with an action.                      *)

ContainerActions(state) ==
  LET running == state = "running"
      paused == state = "paused" IN
  {"container.logs", "container.console", "container.inspect", "container.remove"}
    \cup (IF running \/ paused THEN {"container.restart", "container.kill"}
                               ELSE {"container.start"})
    \cup (IF running THEN {"container.stop", "container.pause"} ELSE {})
    \cup (IF paused THEN {"container.resume"} ELSE {})
ImageActions == {"image.inspect", "image.remove"}
VolumeActions == {"volume.inspect", "volume.remove"}
NetworkActions(builtIn) ==
  {"network.inspect"} \cup (IF builtIn THEN {} ELSE {"network.remove"})
CreateActions == {"volume.create", "network.create"}

\* The menus that rows of one kind can have.
Menus(kind) ==
  IF kind = "container" THEN {ContainerActions(s) : s \in States}
  ELSE IF kind = "image" THEN {ImageActions}
  ELSE IF kind = "volume" THEN {VolumeActions}
  ELSE {NetworkActions(b) : b \in BOOLEAN}

Removes == {"container.remove", "image.remove", "volume.remove"}
Tabs == {"container.logs", "container.console"}
Inspects == {"container.inspect", "image.inspect", "volume.inspect", "network.inspect"}
Requests == {"container.start", "container.stop", "container.restart", "container.kill",
             "container.pause", "container.resume", "network.remove"}
\* The actions that rows publish for a selection of several.
Multi == Requests \cup Removes

\* The branch of runAction that an action takes. A request that runOverTargets
\* does not know is nothing to do.
Branch(action) ==
  IF action \in CreateActions THEN "create"
  ELSE IF action \in Removes THEN "remove"
  ELSE IF action \in Tabs THEN "tab"
  ELSE IF action \in Inspects THEN "inspect"
  ELSE IF action \in Requests THEN "each" ELSE "nothing"

=============================================================================
