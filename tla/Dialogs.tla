------------------------------ MODULE Dialogs ------------------------------
(***************************************************************************)
(* internal/usecase: the actions of the user and the dialogs that ask for  *)
(* and report them. runAction, runOverTargets and reportBatch of           *)
(* service.go, and dialogs.go. A goroutine runs each action and each       *)
(* answer of a form; the host shows one dialog at a time and refuses to    *)
(* open another, and tells of the answers in messages of their own.        *)
(*                                                                         *)
(* A target is one resolved node. A tab is opened in module Surfaces; a    *)
(* refresh is module Refresh, and is here one step that lists everything.  *)
(***************************************************************************)
EXTENDS Domain, FiniteSets

CONSTANTS Actions,      \* actions that the user invokes
          Targets,
          MaxDialogs,   \* bound: dialogs the host opens
          MaxRefusals   \* bound: requests and clients that fail, targets others remove

\* What is assumed of the constants; an instance checks it.
BoundsAssumption == MaxDialogs \in Nat /\ MaxRefusals \in Nat

Ids == 1..MaxDialogs
Action(a) == <<"action", a>>
Answer(d) == <<"answer", d>>
Goroutines == {Action(a) : a \in Actions} \cup {Answer(d) : d \in Ids}

VARIABLES
  there,    \* the daemon: the targets that exist
  shown,    \* the host: the dialog on screen, or 0
  opened,   \* the host: dialogs opened so far
  answers,  \* the host: answers that are not handled yet, <<dialog, answer>>
  dialogs,  \* Service.dialogs: the forms whose handler is recorded
  work,     \* what each goroutine has to do
  by,       \* history: the action that each dialog belongs to
  unlisted, \* history: <<goroutine, target>>, changed and not listed since
  refusals  \* bound: those so far

vars == <<there, shown, opened, answers, dialogs, work, by, unlisted, refusals>>

\* The calls to come, the form that was opened, the targets, those not yet
\* requested, the failures, and what became of the others.
Idle == [calls |-> <<>>, form |-> 0, branch |-> "none", targets |-> {}, todo |-> {},
         failed |-> {}, gone |-> {}, changed |-> {}]

Init ==
  /\ there = Targets /\ shown = 0 /\ opened = 0 /\ answers = {} /\ dialogs = {}
  /\ work = [t \in Goroutines |-> Idle] /\ by = [d \in Ids |-> "none"]
  /\ unlisted = {} /\ refusals = 0

Fails == refusals < MaxRefusals /\ refusals' = refusals + 1

\* Somebody else removes a target (external).
OthersRemove(n) ==
  /\ n \in there /\ there' = there \ {n} /\ Fails
  /\ UNCHANGED <<shown, opened, answers, dialogs, work, by, unlisted>>

-----------------------------------------------------------------------------
Set(t, w) == work' = [work EXCEPT ![t] = w]
Then(t) == [work[t] EXCEPT !.calls = Tail(@)]
At(t, call) == work[t].calls # <<>> /\ Head(work[t].calls) = call

\* Mutant: a question for every target.
Asks_Each(targets) == [n \in 1..Cardinality(targets) |-> "form"]
\* One question for the selection.
Asks(targets) == <<"form">>
\* runAction, by its branches.
Calls(branch, targets) ==
  CASE branch = "create" -> <<"form">>
    [] branch = "remove" -> Asks(targets)
    [] branch = "tab" -> <<"tab">>
    [] branch = "inspect" -> <<"inspect">>
    [] branch \in {"each", "nothing"} -> <<"requests", "report", "refresh">>

\* Mutant: a remove is reported before the tree is refreshed.
AnswerCalls_ReportFirst(branch) ==
  IF branch = "create" THEN <<"create", "refresh">> ELSE <<"requests", "report", "refresh">>
\* The handlers of the create forms, and removeEach.
AnswerCalls(branch) ==
  IF branch = "create" THEN <<"create", "refresh">> ELSE <<"requests", "refresh", "report">>

\* The host invokes an action of the rows' menus; more than one row only for
\* those that say so. A node that does not resolve is left out.
Offered == CreateActions \cup UNION {UNION Menus(kind) : kind \in Kinds}
InvokeAction(a, action, selected, targets) ==
  LET branch == Branch(action) IN
  /\ work[Action(a)] = Idle
  /\ action \in Offered /\ (Cardinality(selected) > 1 => action \in Multi)
  /\ selected = {} <=> action \in CreateActions
  /\ targets \subseteq selected /\ (targets = {} => branch = "create")
  /\ Set(Action(a), [Idle EXCEPT !.branch = branch, !.calls = Calls(branch, targets),
       !.targets = targets, !.todo = IF action \in Multi \/ branch = "nothing" THEN targets ELSE {}])
  /\ UNCHANGED <<there, shown, opened, answers, dialogs, by, unlisted, refusals>>

\* Mutant: the first refusal ends the batch.
StillToDo_UnlessRefused(w, n, refused) == IF refused THEN {} ELSE w.todo \ {n}
StillToDo(w, n, refused) == w.todo \ {n}
\* One request of a batch: done, or gone already, or refused. One that is done
\* for an action that is no remove may leave the target or not. An action that
\* runOverTargets does not know returns at the first target, and reports nothing.
Request(t, n) ==
  LET w == work[t]
      after(refused) == [w EXCEPT !.todo = StillToDo(w, n, refused),
                           !.calls = IF StillToDo(w, n, refused) = {} THEN Tail(@) ELSE @] IN
  /\ At(t, "requests") /\ n \in w.todo
  /\ \/ /\ n \notin there \/ w.branch = "nothing"
        /\ Set(t, IF w.branch = "nothing" THEN [w EXCEPT !.todo = {}, !.calls = Tail(@)]
                  ELSE [after(FALSE) EXCEPT !.gone = @ \cup {n}])
        /\ UNCHANGED <<there, unlisted, refusals>>
     \/ /\ n \in there /\ w.branch # "nothing"
        /\ there' \in IF w.branch = "remove" THEN {there \ {n}} ELSE {there, there \ {n}}
        /\ Set(t, [after(FALSE) EXCEPT !.changed = @ \cup {n}])
        /\ unlisted' = unlisted \cup {<<t, n>>} /\ UNCHANGED refusals
     \/ /\ n \in there /\ w.branch # "nothing" /\ Fails
        /\ Set(t, [after(TRUE) EXCEPT !.failed = @ \cup {n}])
        /\ UNCHANGED <<there, unlisted>>
  /\ UNCHANGED <<shown, opened, answers, dialogs, by>>

\* Control fails before the first request: one failure for a batch, the error
\* of an answer, which gets a message.
Unreachable(t) ==
  LET w == work[t] IN
  /\ At(t, "requests") /\ w.todo = w.targets /\ Fails
  /\ Set(t, [w EXCEPT !.todo = {}, !.failed = w.targets,
               !.calls = IF t[1] = "answer" THEN <<"message">> ELSE Tail(@)])
  /\ UNCHANGED <<there, shown, opened, answers, dialogs, by, unlisted>>

\* The request of a create form.
Create(t) ==
  /\ At(t, "create")
  /\ \/ Set(t, Then(t)) /\ UNCHANGED refusals
     \/ Fails /\ Set(t, [work[t] EXCEPT !.calls = <<"message">>])
  /\ UNCHANGED <<there, shown, opened, answers, dialogs, by, unlisted>>

\* openLogSurface and openConsoleSurface: the tab (module Surfaces), or a message
\* that there is none.
OpenTab(t) ==
  /\ At(t, "tab")
  /\ \/ Set(t, Then(t)) /\ UNCHANGED refusals
     \/ Fails /\ Set(t, [work[t] EXCEPT !.calls = <<"message">>])
  /\ UNCHANGED <<there, shown, opened, answers, dialogs, by, unlisted>>

\* openInspectDialog: a detail, or a message that there is none.
Inspect(t) ==
  /\ At(t, "inspect")
  /\ \/ Set(t, [work[t] EXCEPT !.calls = <<"detail">>]) /\ UNCHANGED refusals
     \/ Fails /\ Set(t, [work[t] EXCEPT !.calls = <<"message">>])
  /\ UNCHANGED <<there, shown, opened, answers, dialogs, by, unlisted>>

\* refreshAll.
Refresh(t) ==
  /\ At(t, "refresh") /\ Set(t, Then(t)) /\ unlisted' = {}
  /\ UNCHANGED <<there, shown, opened, answers, dialogs, by, refusals>>

-----------------------------------------------------------------------------
(* Dialogs.                                                                *)

\* reportBatch: what was gone is no failure, and no failure no report.
Silent(t) == At(t, "report") /\ work[t].failed = {}
Report(t) ==
  /\ Silent(t) /\ Set(t, Then(t))
  /\ UNCHANGED <<there, shown, opened, answers, dialogs, by, unlisted, refusals>>

Opens(t) ==
  /\ \E call \in {"form", "report", "message", "detail"} : At(t, call)
  /\ ~Silent(t)
Origin(t) == IF t[1] = "action" THEN t[2] ELSE by[t[2]]
\* openDialog: dialog.open, which the host refuses while it shows another. A
\* form has its handler to record.
OpenDialog(t) ==
  /\ Opens(t)
  /\ IF shown = 0
     THEN /\ opened < MaxDialogs
          /\ opened' = opened + 1 /\ shown' = opened + 1
          /\ by' = [by EXCEPT ![opened + 1] = Origin(t)]
          /\ Set(t, IF At(t, "form")
                    THEN [Then(t) EXCEPT !.calls = <<"record">> \o @, !.form = opened + 1]
                    ELSE Then(t))
     ELSE Set(t, Then(t)) /\ UNCHANGED <<shown, opened, by>>
  /\ UNCHANGED <<there, answers, dialogs, unlisted, refusals>>
\* Its end: the answer of the host is back, and the handler is recorded.
Record(t) ==
  /\ At(t, "record") /\ Set(t, Then(t)) /\ dialogs' = dialogs \cup {work[t].form}
  /\ UNCHANGED <<there, shown, opened, answers, by, unlisted, refusals>>

\* The user closes the dialog, and the host tells of it (external).
UserAnswers(answer) ==
  /\ shown # 0 /\ shown' = 0 /\ answers' = answers \cup {<<shown, answer>>}
  /\ UNCHANGED <<there, opened, dialogs, work, by, unlisted, refusals>>

\* The answer takes the handler out, and runs it for the targets of the form.
\* One that finds none does nothing.
DialogSubmitted(d) ==
  LET asked == work[Action(by[d])] IN
  /\ <<d, "submit">> \in answers /\ answers' = answers \ {<<d, "submit">>}
  /\ dialogs' = dialogs \ {d}
  /\ IF d \in dialogs
     THEN Set(Answer(d), [Idle EXCEPT !.branch = asked.branch, !.calls = AnswerCalls(asked.branch),
                            !.targets = asked.targets, !.todo = asked.targets])
     ELSE UNCHANGED work
  /\ UNCHANGED <<there, shown, opened, by, unlisted, refusals>>
DialogCancelled(d) ==
  /\ <<d, "cancel">> \in answers /\ answers' = answers \ {<<d, "cancel">>}
  /\ dialogs' = dialogs \ {d}
  /\ UNCHANGED <<there, shown, opened, work, by, unlisted, refusals>>

-----------------------------------------------------------------------------
Run(t) ==
  \/ \E n \in Targets : Request(t, n)
  \/ Unreachable(t) \/ Create(t) \/ OpenTab(t) \/ Inspect(t) \/ Refresh(t)
  \/ Report(t) \/ OpenDialog(t) \/ Record(t)

Next ==
  \/ \E n \in Targets : OthersRemove(n)
  \/ \E a \in {b \in Actions : work[Action(b)] = Idle} :
       \E action \in Offered, selected \in SUBSET Targets :
         \E targets \in SUBSET selected : InvokeAction(a, action, selected, targets)
  \/ \E t \in Goroutines : Run(t)
  \/ \E answer \in {"submit", "cancel"} : UserAnswers(answer)
  \/ \E d \in Ids : DialogSubmitted(d) \/ DialogCancelled(d)

Spec == Init /\ [][Next]_vars

-----------------------------------------------------------------------------
\* Every variable has its type; a handler is recorded for dialogs that were
\* opened, and none for one whose answer was handled (openDialog).
TypeOK ==
  /\ there \subseteq Targets /\ shown \in {0} \cup Ids /\ opened \in {0} \cup Ids
  /\ answers \subseteq Ids \X {"submit", "cancel"} /\ dialogs \subseteq 1..opened
  /\ \A t \in Goroutines : LET w == work[t] IN
       /\ w.branch \in {"none", "create", "remove", "tab", "inspect", "each", "nothing"}
       /\ w.targets \subseteq Targets /\ w.form \in 0..opened
       /\ w.failed \cup w.gone \cup w.changed \subseteq w.targets
  /\ by \in [Ids -> Actions \cup {"none"}] /\ unlisted \subseteq Goroutines \X Targets
  /\ refusals \in 0..MaxRefusals

\* An action never asks or reports while a dialog of its own is up, so that the
\* host never refuses it for what it did itself: one question and one report for
\* the whole selection, the report after the answer (runAction, "a per-node loop
\* that opens a dialog each time gets exactly one through").
OneDialogPerAction ==
  \A t \in Goroutines : Opens(t) /\ shown # 0 => by[shown] # Origin(t)

\* A selection is one operation: when a batch is over, every target of it was
\* changed, was gone already or is in the report, whatever failed or was removed
\* by others on the way, and no action of a menu falls through runAction
\* ("so the menu and the dispatcher cannot drift apart").
NothingSkipped ==
  \A t \in Goroutines : LET w == work[t] IN
    \/ w.targets = w.changed \cup w.gone \cup w.failed
    \/ w.branch \in {"tab", "inspect"}           \* of the first target only
    \/ At(t, "requests")
    \/ w.branch = "remove" /\ t[1] = "action"    \* done by the answer

\* What an action changed is listed again before it ends, and for a remove
\* before its report opens, however others refresh beside it (removeEach, "leaves
\* the tree while the user reads why the rest did not").
ChangesListed ==
  \A t \in Goroutines :
    work[t].calls = <<>> \/ (At(t, "report") /\ work[t].branch = "remove")
      => \A n \in Targets : <<t, n>> \notin unlisted

=============================================================================
