------------------------------- MODULE Parts -------------------------------
(***************************************************************************)
(* The smaller parts beside one another: the tree of a session (Refresh),  *)
(* the rows of a branch (Tree), the actions and dialogs (Dialogs), the     *)
(* panel (Settings) and the frame readers (Codec). They share nothing: in  *)
(* every behaviour one of them runs, so that their state spaces add up and *)
(* what holds of each holds of the whole.                                  *)
(***************************************************************************)
EXTENDS Naturals, Sequences

CONSTANTS MayRun,  \* those of "refresh", "tree", "dialogs", "settings", "codec" that may run
          Docker, Containers, NodeGroups, None, Error, Missing,
          Budgets, MaxObserves, MaxStreams, MaxFlushes,
          Ctrs, Objects, Tags, Absent, MaxChanges, MaxFailures,
          Actions, Targets, MaxDialogs, MaxRefusals,
          Values, Uncached, NoFile, Loaders, Applies, MaxFaults,
          HeaderLen, MaxFrameLength, CreditPayloadLen, MaxFrames

VARIABLES
  part,
  now, feed, call, up, pending, timer, fired, expanded, tree, sent, watching,
  observed, resolved, closed, phase, job, told, asked, left, clicked, refused,
  ctrs, tag, branch, step, listed, rows, changes, failures, held, failed,
  there, shown, opened, answers, dialogs, work, by, unlisted, refusals,
  file, cache, settings, at, got, faults, wanted, apart,
  wire, written, ended, read, result

R == INSTANCE Refresh WITH Groups <- NodeGroups
T == INSTANCE Tree WITH Containers <- Ctrs
D == INSTANCE Dialogs
S == INSTANCE Settings WITH Containers <- Ctrs, Observes <- Loaders
C == INSTANCE Codec

ASSUME ConstantsAssumption ==
  /\ MayRun \subseteq {"refresh", "tree", "dialogs", "settings", "codec"}
  /\ R!NodesAssumption /\ R!BudgetsAssumption /\ R!SnapshotsAssumption /\ T!ObjectsAssumption
  /\ D!BoundsAssumption /\ S!SettingsAssumption /\ C!LengthAssumption

Init ==
  /\ part \in MayRun
  /\ R!Init /\ (part # "refresh" => left = CHOOSE b \in Budgets : TRUE)
  /\ T!Init /\ D!Init /\ S!Init /\ C!Init

refreshVars == <<now, feed, call, up, pending, timer, fired, expanded, tree, sent, watching,
                 observed, resolved, closed, phase, job, told, asked, left, clicked, refused>>
treeVars == <<ctrs, tag, branch, step, listed, rows, changes, failures, held, failed>>
dialogVars == <<there, shown, opened, answers, dialogs, work, by, unlisted, refusals>>
settingVars == <<file, cache, settings, at, got, faults, wanted, apart>>
codecVars == <<wire, written, ended, read, result>>
vars == <<part, refreshVars, treeVars, dialogVars, settingVars, codecVars>>

Next ==
  \/ part = "refresh" /\ R!Next /\ UNCHANGED <<part, treeVars, dialogVars, settingVars, codecVars>>
  \/ part = "tree" /\ T!Next /\ UNCHANGED <<part, refreshVars, dialogVars, settingVars, codecVars>>
  \/ part = "dialogs" /\ D!Next /\ UNCHANGED <<part, refreshVars, treeVars, settingVars, codecVars>>
  \/ part = "settings" /\ S!Next /\ UNCHANGED <<part, refreshVars, treeVars, dialogVars, codecVars>>
  \/ part = "codec" /\ C!Next /\ UNCHANGED <<part, refreshVars, treeVars, dialogVars, settingVars>>

Spec == Init /\ [][Next]_vars
FairSpec == Spec /\ (part = "refresh" => R!Fairness)

-----------------------------------------------------------------------------
(* The properties, stated and explained in the modules of the parts. Each  *)
(* is about the part that runs; the variables of the others stay initial.  *)

\* Every variable of every part has its type (the fields of Connection, Service
\* and Store, and the frames of ReadFrame).
TypeOK ==
  CASE part = "refresh" -> R!TypeOK [] part = "tree" -> T!TypeOK [] part = "dialogs" -> D!TypeOK
    [] part = "settings" -> S!TypeOK [] part = "codec" -> C!TypeOK
\* No event of followEvents is lost in a burst.
EventKept == part = "refresh" => R!EventKept
\* A branch that is open and shows nothing is being fetched (refreshAll).
FilledOrComing == part = "refresh" => R!FilledOrComing
\* Every row the user sees or has clicked resolves (publish, Remember, Resolve).
Actionable == part = "refresh" => R!Actionable
\* Once nothing changes, the tree shows what the daemon has (reconcile).
TreeCatchesUp == part = "refresh" => R!TreeCatchesUp
\* The dots of what did not change while a branch was made are true (tree.go).
DotsTrue == part = "tree" => T!DotsTrue
\* The host never refuses a dialog of an action for another one of it (runAction).
OneDialogPerAction == part = "dialogs" => D!OneDialogPerAction
\* Every target of a batch is changed, gone or reported (runOverTargets, removeEach).
NothingSkipped == part = "dialogs" => D!NothingSkipped
\* What an action changed is listed again before it ends (removeEach).
ChangesListed == part = "dialogs" => D!ChangesListed
\* What the user saved stays, if nothing overlapped (ApplyDetails, Store).
SettingsKept == part = "settings" => S!SettingsKept
\* Frames are read whole, in order and up to a clean end (ReadFrame, Demux).
FramesWhole == part = "codec" => C!FramesWhole
=============================================================================
