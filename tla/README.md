# A verification of the Docker discovery plugin

The plugin is a child process of an SSH client (the *host*). It talks to it over
stdin and stdout, and through it to the Docker daemons of the machines the user
is connected to. This directory models the program in TLA+: each module is a
translation of the code, TLC checks it on small instances, and TLAPS proves the
most important invariants for every instance.

## The system

```
  host  ==== one pipe pair, framed ====  ipc.Client
                                          |      |
                          JSON-RPC calls  |      |  data, credit, channel.close
                                          |      |
  presentation.Handlers -- Service        |   chanbus.Manager -- Channel (one per stream)
                            |   |  \______|         |
                            |   Connection -------- dockerapi.Client (HTTP/1.1 on a Channel)
                            |     (one per SSH session)
                       surfaces, dialogs, settings
```

| Part | State | Operations | What makes it correct |
|---|---|---|---|
| `ipc.Client` (infra/ipc) | ids and table of pending calls, closed/done, the write lock | Serve (one reader), Call, Notify, one goroutine per inbound message, close | a call gets its own answer and returns; the table holds the calls under way; the reader never waits for a handler or a caller |
| `chanbus.Channel` | queue, frame being read, outbound credit, consumed frames, closed | Read, Write, Close; Deliver, AddCredit, CloseRemote | the bytes arrive once, in order and to the end; credit is conserved both ways; nobody sleeps through a wakeup; one close notification |
| `chanbus.Manager` | the map from ids to channels | OpenExec, Deliver, Credit, HostClosed, CloseAll, CloseChannel | only open channels are in the map; no frame of an open channel is lost; the host's close reaches its channel |
| `dockerapi.Client` | request lock, buffered reader, version | requests, streams, exec hijack, Negotiate | a response goes to its request; the lock is released; no byte is lost in the hijack |
| `Connection` (usecase) | control client, observed set, resolved ids, settings, closed | Control, OpenStream, markGone, Close, Resolve, PutSettings | one control client; no daemon connection without an owner; nothing after the end |
| event watcher | one per session: once, cancel; debounce timer, pending branches | ensureEventWatcher, watchEvents, followEvents, reconcile, stopWatchers | one per session; it stops when the session does; no event is lost in a burst, and the tree is right in the end |
| `Service` | maps of connections, watchers, surfaces, dialogs, console inputs | Observe, InvokeAction, surface and dialog events, forget, Shutdown | a session leaves nothing behind; a tab's stream ends with the tab; a dialog's answer is acted on once |
| settings `Store` | one file per session, at the host | Load, Save | no change is lost |
| `domain`, `tree.go`, `actions.go` | none | ids, statuses, menus, the tree | a node id parses to what it was made from; an action is offered only when it can work |

Everything runs concurrently: the reader, a goroutine per inbound message, one
per action and per observe, two per watcher, one per log or console tab, and
the timers. They meet in three places, which is where the hard behaviours are:
the locks of `Channel`, `Manager`, `Client`, `Connection` and `Service`, each
of which is released before anything that may block; the pipe, whose order the
goroutines that handle its messages do not keep; and the host, which closes
channels, answers late, refuses sessions and asks for a shutdown at any time.
`PROJECT.json` lists the hazards one by one, each at the line where it bites.

Nothing is persisted but the settings file: a plugin that restarts starts empty
and is sent its observes again. `Refresh` begins there, and `Settings` restarts
at any time.

## The modules

| Module | Models | Abstraction |
|---|---|---|
| `ByteStream` | the promise of a channel to the layers above | a byte is its position in the stream |
| `Channel` | chanbus/channel.go, and the host's end of the flow control | a critical section is one step; Broadcast, the grant, the frame write and the close notification, which follow the unlock, are steps of their own; a data frame is the interval of positions it carries |
| `ChannelProofs` | theorems about `Channel`; that it implements `ByteStream` | |
| `IpcClient` | ipc/client.go | the steps between locks and channel operations, the write lock held over a write that waits; payloads are identified by who sent what; both pipes are bounded |
| `ChannelManager` | chanbus/manager.go with the message order of the pipe | a Channel is open or closed, which is what its own module shows of it |
| `Session` | connection.go, events.go and service.go: the life of a session | one session id; a daemon connection is live, dead or closed |
| `DockerClient` | dockerapi/client.go, stream.go and hijack.go: exchanges over one channel | a response is its head, data and end; bufio reads ahead as far as it likes; the daemon answers in order |
| `Surfaces` | surfaces.go, surface.stop, SurfaceClosed and Shutdown of service.go | a log's stream is an http body with its lock, a console's is the channel; output is counted |
| `Refresh` | publish.go, events.go, and the observed and resolved ids of connection.go: the tree of a session | what the daemon has of a group is a version number, a snapshot is the versions it was made from |
| `Domain` | domain/node.go, status.go, actions.go: ids, dots, menus, the branches of runAction | operators without state; a node id is the sequence of its parts; no labels or tooltips |
| `Tree` | tree.go: rows made from several answers of a daemon that changes | a container has a state, a health, an exit code and one object it uses |
| `Dialogs` | runAction, runOverTargets and reportBatch of service.go, and dialogs.go | a goroutine is the list of its calls to come; forms are asked or answered, their fields are data |
| `Settings` | ApplyDetails, the settings of connection.go, settings/store.go and the file | a setting is one value |
| `Codec` | ReadFrame, WriteFrame, DecodeCredit; Demux reads its frames the same way | a byte is its frame and its place in it |
| `Parts` | instances of `Refresh`, `Tree`, `Dialogs`, `Settings` and `Codec` side by side | they share nothing; in each behaviour one of them runs |
| `MCParts` | the constants of `Parts` for TLC: the scenarios of `Refresh` | |
| `PartsProofs` | theorems about the five, and from them about `Parts` | |
| `IpcClientProofs`, `ChannelManagerProofs`, `DockerClientProofs`, `SessionProofs`, `SurfacesProofs` | theorems about the module each is named after | |
| `SequenceLemmas` | lemmas about sequences that several of them need: what Append, Tail, SubSeq and concatenation leave where, and how often a value occurs | |

Names are the code's wherever TLA+ allows it. `PROJECT.json` ("map") gives the
lines behind every definition. The host and the daemon are external: their
actions (`Host...`) are read from how the code uses them.

`Channel` and `ChannelManager` compose by abstraction: `Channel` is shown to
implement `ByteStream` and to tell the host of a close once, and the manager
uses it as an object with two states. `DockerClient` reads what a `ByteStream`
gives it. `Session` uses a dockerapi client as a thing that is live, dead or
closed, and `Surfaces` uses the body of a stream: its lock, its Close that reads
to the end, and the request lock that rides on it. The reader of `IpcClient`
appears in `Channel` and `ChannelManager` as the process that takes messages off
the pipe in order and gives channel.close to a goroutine of its own.

In `Channel`, `remotePC` is that goroutine; `framePC` keeps the reader inside
Deliver or AddCredit until their Broadcast. `sent`, `got` and `failed` are the
history of the stream, and are what `ByteStream` sees. `closed` and `closeErr`
are one variable, because the code sets them together.

In `IpcClient`, a goroutine that writes a frame is between its test of `done`,
made under the write lock, and the end of its write (`writing`, `replying`): it
holds the lock for as long as the pipe is full and does not test again. Such a
write fails only when the host has gone (`broken`).

In `DockerClient`, `kind` is the exchange a goroutine is in and `foreign` is a
history variable: somebody took a piece of another's response. One module serves
the three uses of a client; which one is chosen in the initial state. A daemon
may refuse any request and goes on with a stream for as long as it likes.

In `Surfaces`, `pc[r][t]` is the goroutine in role `r` of tab `t`. `unlocked` is
the flag inside do's unlock and the request lock with it; it is tested and set
in two steps, because nothing guards it, and the second of two that find it
unset ends the program (`fatal`).

In `Refresh`, a goroutine has a `phase` and a `job`: the branches of its refresh
that are still to come, the one at hand, what is still to be listed of it and
what was, and its `stage`. publish is two steps: `Remember` enters the rows into
`resolved`, and `Publish` is the call to the host, before which the snapshots of
any other goroutine may arrive. `tree`, `expanded` and `sent` are the host: it
replaces a branch by a snapshot, drops one for a branch that is not open or not
there, sheds what a failed Docker node no longer holds, and may shed the groups
when the Docker node is published after them (`Late`, as the comment of
refreshAll has it), which it tells the plugin by another observe. It may refuse a
call, and then publishes nothing; `refused` is the history of that, until a later
snapshot of the branch gets through. The user acts on a row (`Click`), and its
message is handled later (`InvokeAction`), when the row may have left the tree.
`told` and `asked` are history: what the
daemon's events said and what was listed since. The Docker node's own row, which
refreshRoot publishes and which is always there, is left out. `Budgets` bounds
what may happen, by scenarios that are kept apart.

In `Dialogs`, `calls` is what a goroutine has to do, taken from the branch of
runAction or the handler of the dialog; `Domain` derives the branch from the
action's id, and the actions from the menus of the rows. `by`, `unlisted` and
the results in `work` are history. `there` is what exists at the daemon, which
others change too. A log or console action opens its tab or a message that says
why not (`OpenTab`; the tab itself is `Surfaces`), and an action that
runOverTargets does not know does nothing at the first target. A refresh is one
step here, and `Refresh` is its detail. In `Tree`, `held` is the set of containers that have not changed since the first
answer, of which alone the dots can be right. In `Settings`, `wanted` holds the
values that a container may show by what was answered to the user.

In `Session`, a goroutine is a pair (its role and what started it); `on` is the
Connection it works on, `held` the client in its hands, `taken` what forget or
Shutdown took from the maps. After an unlock, closing a client that nobody else
can reach any more is part of the step before. refreshAll goes through Control
any number of times; its first use is a step of Observe and further ones are
those of the refresher, which stands for reconcile and for the flushes of
followEvents and may tick at any time. A refresh that gets a live client counts
as having published. The unguarded read of `w.cancel` by forget and
stopWatchers finds what was written by then; both orders with its write are
explored.

## The runs

| Run | Shows | Instance |
|---|---|---|
| `channel_inbound` | inbound credit is conserved and reopens (`InboundWindow`, `WindowReopens`), the stream is in order (`InOrder`), one close notification (`CloseToldOnce`), a parked reader wakes (`ReaderWakes`), the channel implements `ByteStream` | two closers, window 4, frames of 0 and 2 bytes, buffers of 1 and 4, 4 bytes |
| `channel_outbound` | outbound credit is conserved (`OutboundWindow`), no wakeup is lost (`NoLostWakeup`), a parked writer wakes (`WriterWakes`) | two writers of up to two chunks, one closer, window 2 |
| `ipc_client` | `OwnAnswer`, `PendingExact`, `CallsReturn`, `RequestsAnswered` | one caller with two calls, a request whose handler may call back and a notification, one repeated answer, pipes of one frame |
| `manager` | `MapHoldsOpenChannels`, `ToldOnce`, `NoFrameLost`, `HostCloseArrives` | two channels, two frames each |
| `manager_early_close` | **violated**: `HostCloseArrives` | the same, with a host that may close at once |
| `docker_client` | `OwnResponse`, `ShellComplete`, `ExchangesEnd` | two goroutines with two exchanges each, or one with a stream or an exec; two pieces of data |
| `surfaces` | `NoOrphanStream`, `ReadyIsTracked`, `WorkEnds`, `ConsoleTabStops` | a log and a console, one of them closed by the user, a Shutdown, one piece of output waiting |
| `surfaces_log` | **violated**: `LogTabStops` | one log |
| `session` | `TypeOK`, `NoOrphanClient`, `OneWatcher` | two observes with a watcher each, two Connections, two channels |
| `session_ends` | `SessionForgotten` | one observe and one action, two Connections, three channels |
| `session_stale` | **violated**: `ControlRecovers` | one observe, two channels |
| `parts` | `Refresh`: `EventKept`, `FilledOrComing`, `Actionable`, `TreeCatchesUp`; `Tree`: `DotsTrue`; `Dialogs`: `OneDialogPerAction`, `NothingSkipped`, `ChangesListed`; `Settings`: `SettingsKept`; `Codec`: `FramesWhole`; the types of all (`TypeOK`) | two groups and two flushes, seven scenarios, at most three observes; a container and two images with a tag; two actions on two targets, three dialogs, one refusal or removal by others; two observes and two saves with two values, one failure or restart; two frames of up to two bytes |

Where a module has no `TypeOK` of its own in a run, another of its invariants
includes it (`PendingExact`, `MapHoldsOpenChannels`, `OwnResponse`,
`ReadyIsTracked`).

What the invariants of `parts` say, in words: no event is lost between a timer and its
flush, beside another flush or behind a failed call; no branch that is open
stays empty because it was published too early or its parent too late, unless
the host refused a snapshot; every row on screen or clicked resolves, whichever
snapshot was remembered or shown last; and, whatever was lost or overtaken, the tree is right in the end. An action
never meets a dialog of its own; each target of a batch was changed, was gone or
is reported; what an action changed is listed before it ends. Saves that do not
overlap last, through failed writes, observes and restarts.

The bounds are large enough for what the properties are about. A window of four
is the code's own, with two grants per window; zero-length frames and buffers
smaller and larger than a frame cover the cases of Read; two closers and the
host make every order of close. Outbound, two writers and a window of two is
the least in which one writer takes the credit that woke another. One-frame
pipes are the smallest the host can have and the most likely to jam. Two
channels let the host answer in the other order than it was asked. Two observes
are what a race for the control client, a second watcher, or an observe across
forget takes; the channels that the host opens before it only fails dials
(`MaxClients`) suffice for two control clients at once, or a control client, a
watcher's stream and a third that loses. Two exchanges of two goroutines are
what it takes to meet another's response, and bodies of two pieces can be left
half read. One waiting piece of output is as many as a blocked Read needs to be
let go, and tabs share nothing but Shutdown, which takes two to be stopped one
after the other; that the user closes one of the two is enough for a close to
meet a Shutdown that stops the other. Two calls of one caller are a call that
was given up and the next one, which its late answer must not reach.

In `Refresh`, two groups are the least of which one can wait while the other is
published, and Containers is listed for the marks of the other as well; that
some are open at first and others not is part of the scenario. Each
scenario is about things that can go wrong together: a change while the
user opens or closes branches; two events, whose flushes overlap; a failed call,
to the daemon or to the host, among an event; a host that sheds a group whose
parent comes late, beside an event or an observe of the user; an action on a row
while the daemon changes, refreshed beside the reconcile loop; a stream
that ends and opens again, with the end of the session in between. Three observes
are the first one, one of the user and one of a host that sheds. Three dialogs are a question, its
report and one of another action.
One fault in `Settings` is a read, a lookup or a write that fails, or a restart.
Two frames show whether the second is read from its first byte, and a header and
payload of two bytes can be cut within and between.

The runs do not check for deadlock: each of these systems may stop, after the
pipe ended or the session closed. What must not stop is stated as liveness.

### Fairness

A goroutine that can run does (weak fairness of its own steps), and so do
timers. The reader handles every message after the finitely many before it:
strong fairness in `Channel`, where another message may be taken in between.
The host takes what is on its pipe, answers calls and returns credit, which the
liveness of the plugin rests on by design; it is never assumed to send data, to
close, to grant more, or to let a dial succeed. No caller is assumed to call,
no context to end. After a host unbinds a session, its channels are assumed to
be seen as ended by whoever reads them; `manager_early_close` shows the one
case in which this is not so. In `DockerClient` a daemon answers and ends what
is not a stream, and a goroutine that waits for the lock gets it: Go's mutex
hands itself over to one that has waited. In `Surfaces` a call to the host ends,
by its answer or its timeout of five seconds; no container has to end. In
`Refresh` a message is handled, a call to the daemon is answered or fails, and
the timers and the ticker tick; no stream of events has to open or to deliver.

### What the violations say

* `manager_early_close`. OpenExec makes the map entry only after the answer of
  channel.open has travelled to its goroutine. The host's channel.close is
  handled on a goroutine of its own, finds no entry and is dropped. A command
  that cannot start is closed by the host right after it was opened, and its
  reader then waits for ever. Data cannot be lost this way (`NoFrameLost`),
  because the daemon is silent until it is written to.
* `surfaces_log`. stop closes a tab's response body and then its client. The
  body's Close waits for the pump's Read, and then reads a followed log to its
  end. For a container that runs on, that is never, so closing the tab leaves
  the channel open and its goroutine waiting; Shutdown, which stops the tabs one
  after the other, waits in the same place for a log tab that is still open.
  Closing the client first would end all of them.
* `session_stale`. Nothing clears a control client whose channel has closed
  except the end of the session.

Some disagreements were read in the code and have no run of their own:

* OpenStream does not look at `closed`. Observe starts the watcher even when its
  refresh was refused, so every refused session is dialed twice, and an observe
  in flight across Shutdown can open a channel after CloseAll. `Session` makes
  both steps.
* When the list of containers fails, the rows of images, volumes and networks
  are not without a usage dot, as the comment in refreshBranch has it, but are
  all shown as unused or dangling. `DotsTrue` is about refreshes in which no
  call failed. For the same reason a failed inspect shows a container that
  exited with an error as one that exited well.
* Two saves of the panel, or a save and an observe, can overlap, and then the
  older set of settings can be the one that stays; a read of the file that fails
  is cached as no settings, which the next save writes over the file.
* The comment of refreshAll warns of a parent that is published after its child,
  but flush does just that: it refreshes the groups of a burst and then the Docker
  node for its counts (events.go:106-111). In `Refresh` the host may shed the
  groups then; `FilledOrComing` and `TreeCatchesUp` hold because it observes again.
* The settings are kept by session id, although the store speaks of a file per
  connection.
* A report is refused, and lost, while the dialog of another action is up.
* An observe set that is handled late replaces a newer one until the next.
* The design document says that "Ids are resolved against the snapshot this session
  last published" and that an id that resolves to nothing is refused
  (2026-08-05-docker-discovery-design.md:168-171). Remember only adds, so a row
  stays resolvable for as long as the session lives, and an action on one that
  left the tree long ago goes to the daemon. The code is the better of the two for
  the user: two goroutines can remember in one order and reach the host in the
  other, so a table of the last snapshot alone would refuse a row that is on
  screen. `Actionable` says that the code never does; its mutant
  (`Remembered_Last`) is the document's rule, and TLC shows it refusing one.

## The proofs

Every invariant that a passing run checks is also a theorem, for every value of the
constants that the assumptions named in the modules allow, and so is the
refinement of `ByteStream`. The bounds (`MaxCalls`, `MaxFrames`, `MaxData`,
`MaxClosed`, `PipeSize`...) are arbitrary natural numbers there, so none of them
matters to a result.

| Module | Theorem | States | For every |
|---|---|---|---|
| `ChannelProofs` | `TypeCorrect` | `TypeOK` | number of writers and closers, window, modulus above it, frame and buffer size |
| | `OutboundConserved` | `OutboundWindow` | |
| | `InboundConserved` | `InboundWindow` | |
| | `NeverStalls` | `WindowReopens` | |
| | `WakeupsKept` | `NoLostWakeup` | |
| | `ClosedOnce` | `CloseToldOnce` | |
| | `StreamInOrder` | `InOrder` | the same |
| | `ChannelImplementsByteStream` | `ImplementsByteStream` | |
| `IpcClientProofs` | `TableIsExact` | `PendingExact` | number of callers, handlers, calls and repeated answers, length of the pipes |
| | `AnswersAreOwn` | `OwnAnswer` | |
| `ChannelManagerProofs` | `MapIsExact` | `MapHoldsOpenChannels` | finite number of channels, number of frames, a host that closes early or not |
| | `HostToldOnce` | `ToldOnce` | |
| | `EveryFrameArrives` | `NoFrameLost` | |
| `DockerClientProofs` | `ResponsesAreOwn` | `OwnResponse` | number of goroutines and exchanges, length of bodies and of output |
| | `ShellFromFirstByte` | `ShellComplete` | |
| `SessionProofs` | `TypeCorrect` | `TypeOK` | number of observes, actions, Connections and channels |
| | `OneOwnerEach` | `NoOrphanClient` | |
| | `WatcherIsUnique` | `OneWatcher` | |
| `SurfacesProofs` | `StreamHasOwner` | `NoOrphanStream` | number of logs and consoles |
| | `ReadyMeansTracked` | `ReadyIsTracked` | |
| `PartsProofs` | `TypesOfParts` | `TypeOK` | all of the below |
| | `RowsResolve` | `Actionable` | finite or infinite set of groups, budget of events, observes, actions, failures, sheds and streams, number of flushes |
| | `BurstsKept` | `EventKept` | |
| | `NoBranchForgotten` | `FilledOrComing` | |
| | `DotsTellTruth` | `DotsTrue` | number of containers, objects, tags and changes |
| | `DialogsAlone` | `OneDialogPerAction` | number of actions, targets and dialogs |
| | `BatchesWhole` | `NothingSkipped` | |
| | `ListedBeforeReport` | `ChangesListed` | |
| | `SavesLast` | `SettingsKept` | number of containers, values, observes and saves |
| | `FramesReadWhole` | `FramesWhole` | header, limit and length of a credit payload, number of frames |

The assumptions on the constants are the obvious ones: bounds are natural
numbers, `NoWatcher`, `Free` and the like are not goroutines, a goroutine that
calls is not one that handles, a log is not a console, the window is positive
and below the modulus, a snapshot is none of the two marks for no snapshot, and
the observes of `Refresh` suffice for its budget, each failure or late parent of
which may make the host send one more. The goroutines of `Channel` and `ChannelManager` are
finitely many, because their invariants count them or their frames.

None of the invariants is inductive as it stands. Each module has one inductive
invariant (`Channel` has a second one for the stream), which TLC checked on the
instance of its run before it was proved;
every proof has one lemma per action, or per group of actions that move in the
same way, and then the theorems.

*`Channel`: `ChannelInv`.* The types and the four invariants, with

* `ChunksLeft` (a writer inside Write has a chunk left), without which the count
  of chunks could go below zero, and `OutboundWindow`, without which
  `credit + n` could wrap; so types and credit are proved together;
* for `InboundWindow`, `GrantHeld` (only a reader between its unlock and
  GrantCredit holds a grant). With `ParkedDrained` (a parked reader left no
  frame half read) and `BatchBelowHalf` (fewer than half a window of frames
  wait for their grant) it gives `WindowReopens`: if nothing else is anywhere,
  what the host does not have is less than a window;
* nothing more for `NoLostWakeup`: every change that opens a loop test leaves
  its author at a Broadcast;
* for `CloseToldOnce`, a count of the closers between mark and notification.

*The stream: `StreamInv`.* `InOrder` with `WithinSent` (nothing lies beyond what
was sent), `RemoteIsLast` (the host's close is handled behind its last frame)
and `EndIsLast` (a reader that was told of the end has nothing more to read).
From these the refinement is a step of `ByteStream` or a stutter for each action:
sending, delivering, and the end, which `RemoteIsLast` allows only when
everything was delivered.

*`IpcClient`: `IInv`.* A call gets its own answer because whatever carries an id,
a request on its way, an answer on its way back, in resume's hands or in a slot,
belongs to the call that has this id if it is still under way (`Carried`). This
is inductive only with the exact table (`PendingExact`: ids are below the
counter and are not used again), with `SlotOwnID`, with `IDWhileInCall`, and
with `MessagesOnce`, which keeps a handler from being started twice.

*`ChannelManager`: `MInv`.* `NoFrameLost` is an equation between the frames
received, those on the pipe and those sent; it survives the gap before the map
entry because nothing is sent on a channel without an object (`Sent`), and the
two races for an id are excluded by `Named` (an id has one goroutine) and
`GivenOnce` (the host gives it once, and until its answer is read nobody has
it). `Told` (who told the host has closed the object and is done) gives
`ToldOnce`, and `TakenOut` says what CloseAll and HostClosed hold.

*`DockerClient`: `DInv`.* What matters is `Pending`, the buffer followed by the
wire: read-ahead moves the border and leaves `Pending` as it is. While a
goroutine holds the lock, everything pending is its own (`OwnPieces`) and has
the shape that is expected where it is (`Shape`: a head, data, and an end that
is last; or an upgrade and numbered output). That nothing is left when the lock
is free needs the daemon too (`Daemon`): the request of the holder is on its
way, being answered with no end sent, or answered with the end as the last piece
pending. So the goroutine that has taken the end leaves an empty connection, and
an upgrade leaves exactly the output from the first piece on. `Alone` excludes a
goroutine that would enter while the shell has the connection.

*`Session`: `SInv`.* `NoOrphanClient` is existence and uniqueness of an owner; the
invariant has both, for goroutines (`held`) and Connections (`control`), and
that no client is in both (`Owned`); `HeldWhile` ties what a goroutine holds to
where it is. `OneWatcher` follows from `InMap`: a watcher that follows or is
about to be forgotten, and one that is about to be started, are the entry of the
map, of which there is one; `Started` is what once.Do gives.

*`Surfaces`: `TInv`.* `NotYet` (the goroutines that could close a tab have not run
before their cause) and `Tracks` (a tab about to be ready is in the table unless
it was taken out) carry both results; `OfItsKind` keeps consoles out of the
steps that need a body.

*The parts.* A step of `Parts` is a step of the part that runs and leaves the
others alone (`OnlyOneMoves`), so that an invariant of each is one of the whole.

*`Refresh`: `RefreshInv`.* `EventKept` is inductive with `ToldIsPast` alone: an
event is of a version the daemon has, so a list that is made after it shows no
older one. `Actionable` is not inductive, because the step that shows a row is not
the one that remembers it: `OnItsWay` says that a goroutine between the two has
its rows in the table still, whatever others remember and publish meanwhile.
`FilledOrComing` rests on the order in which a refresh
publishes. A group can be open at the host while the Docker node has no snapshot
only when the host has just resent what was open (`Restoring`): then nobody runs
but the first observe, and its refresh still has the Docker node to fetch, as it
is the first of the branches; every other refresh finds the node there
(`ParentsFirst`), or the host refused it. A group that a late parent removes is
not open any more until an observe brings it back. That the host can always answer
a failed or a late node with a new observe is counted by `ObservesCounted`:
observes sent, observes to come, failures to come or on their way to the host, and
late parents to come.

*`Tree`: `TreeInv`.* `DotsTrue` with the fact that what has not changed is as it was
listed, and `PlainTone`: the states that containerNodes does not inspect are those
whose tone depends on neither health nor exit code.

*`Dialogs`: `DialogsInv`.* `WorkFits` ties what a goroutine has still to do to its
branch and targets: every target is to come, changed, gone or failed, and what was
changed but not listed belongs to one that still has its refresh to do. `Asking` is
why an action is alone with its dialog: a dialog belongs to an action that opens
no other (`OfOpener`), a form is the only one of its action until it was answered
and its handler is through (`FormIsAlone`), and a handler starts at most once
(`AnsweredOnce`), also for an answer that came before the handler's record.

*`Settings`: `SettingsInv`.* If nothing overlapped, one goroutine is busy
(`OneBusy`), every copy of the settings (file, cache, connection) is one the user
may see, and so is what that goroutine holds between its steps.

*`Codec`: `CodecInv`.* The position of each written frame on the stream exists
(`Starts`), the wire is the stream after the frames that were taken, up to where it
was cut (`OnWire`), and it starts at the frame after the last one read, or after
the one whose payload broke the rules (`AtFrame`).

### What is only model-checked

* Everything temporal: `ReaderWakes`, `WriterWakes`, `CallsReturn`,
  `RequestsAnswered`, `HostCloseArrives`, `ExchangesEnd`, `WorkEnds`,
  `ConsoleTabStops`, `SessionForgotten` and `TreeCatchesUp`. Liveness under
  fairness is beyond the proof system.
* Nothing else. `Domain` has no theorem of its own: its operators have no state,
  and the proofs about `Tree` and `Dialogs` expand them.

## What is left

The surfaces' keystrokes and resizes, the reads of DescribeNode, and an abstract
specification of a session that `Session` would implement; `Channel` is the one
component whose promise is a module of its own. The hazards that no property
covers are listed in `PROJECT.json`, each with the reason.

## Not modelled

The packaging tool writes an archive once. The request parameters and JSON types
of resources.go are data: what a request does to the client is `DockerClient`.
handlers.go decodes parameters and calls the service. Keystrokes and resizes of
a console change nothing in the plugin; labels, tooltips, the fields of forms,
the summary of an inspect and the wording of errors are text.
