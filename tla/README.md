# A verification of the Citadel agent

The Citadel agent (`citadel-internal-service`) is a process on a user's machine
that holds the user's sessions with a Citadel server. Browser windows and other
clients talk to it over localhost; it talks to the server and to peers through
the Citadel SDK. This directory holds TLA+ models of the agent's concurrent
core, the TLC runs that check them, and TLAPS proofs about them. Paths below
are relative to the repository; `kernel/` is
`citadel-internal-service/src/kernel/` and `messenger/` is
`citadel-internal-service-connector/src/messenger/`.

Run a model with `tlc -config X.cfg M` and a proof with `tlapm M.tla`; both need
the TLA+ community modules on their path. `PROJECT.json` lists, for every run,
what it checks; for every definition that models code, the lines it models; the
hazards the properties are aimed at; and, for every property, a plausible bug
(an operator ready in the module) that makes TLC report it.

## The system and its parts

| Part | State it keeps | Operations | Interacts with | Hard about it |
|---|---|---|---|---|
| Session (`kernel/reconnect/link.rs`, `cid_scoped_state.rs`, `requests/connect.rs`, `deregister.rs`, `peer/disconnect.rs`) | `server_connection_map`: per account a `Connection` with a link state and a `Handoff` generation | sign in, take over, disconnect, deregister, claim, drop report | SDK (calls, event stream), windows, supervisor | every handler awaits the SDK in the middle and finds another state after |
| Reconnect (`kernel/reconnect`) | one task per drop; the attempt lock | wake, check, dial, install, give up | session, sign-in, supervisor's force | old tasks that are still asleep, late reports, give-up against sign-in |
| Supervisor (`kernel/supervisor`) | a pure core per account; tasks out; answers and signals queued | link and peer signals, probe, dial, tick, network change | session by signals, SDK by tasks | answers overtaken by signals, probes of a link that is gone, timers |
| Membership (`kernel/session_subscribers.rs`, `membership.rs`, `requests/connection_management*.rs`) | the ordered windows of each session | attach, claim, release, take over, close | session map, roles sent to windows | decide and act around an await, a window that closes meanwhile |
| Hosting (`kernel/membership_hosting.rs`, `migration_guard.rs`, `ilm/registry.rs`) | slots of hosted ILMs and supervisors, tickets | host, load, stop | membership, ILM | a load that ends after its account was stopped |
| ILM storage (`messenger/backend*.rs`, `kernel/ilm/{channel,backlog}.rs`) | one blob per queue in the agent's store | store, clear, read pending | the store, over the connection | read-modify-write over a round trip; lost connections |
| Messenger (`messenger/mod.rs`, `backend_channel.rs`, `wire/`, `connector.rs`) | routes, pending frames, backends, the requests waiting for replies | multiplex, route, send, poll, drop, stop | windows, ILM, the agent | routes registered and dropped while frames arrive; replies nobody may be left waiting for |
| Browser client (`citadel-internal-service-wasm-client`) | one connection, its stream and its messengers | init, restart, close, next_message, open | messenger, the page | every call awaits, and a restart replaces what it held |
| Files (`kernel/requests/file`, `staged_uploads.rs`, `pulled_*.rs`, `picked_files.rs`, `revfs_correlation.rs`) | the browser-transfer root and what is reserved of it; offers; pulls and reads | stage, send, offer, respond, delete, pick, pull, read | SDK, windows, the file system | several tasks on one budget; streams without a request id; reads of a file that is replaced |
| Peers (`kernel/requests/peer`, `inbound_connect`, `peer_path*.rs`, `responses/peer_*.rs`) | the peer's entry, path, pending offer and registrations | dial, answer, register, disconnect | SDK, windows, supervisor | agent and window answer the same offer; a channel that comes up as its predecessor's end is reported |
| Groups (`kernel/requests/group`, `group_channels.rs`, `pending_group_invites.rs`, `responses/group_*.rs`) | channels by group, departed marks, invitations | create, invite, join, message, kick, leave, end | SDK (two paths), windows | a departure is heard of twice, once of them late |
| Conversations (`kernel/conversations`) | pages and metadata in the store | send, receive, edit, delete, react, read, clear, expire | ILM, peers' agents, windows | several writes per operation; redelivery; crashes between |
| Updater (`updater/`, `kernel/updates.rs`) | the offer, the staged files, the swap, the marker of a version put back | check, stage, install, watch, put back | sessions, the file system, processes | three processes that may each end anywhere |
| Request gate (`kernel/requests/mod.rs`) | none: reads who is attached, recovering, hosted | one decision per request | every handler | a hundred variants, with exemptions |
| Media calls, notices, apps, telemetry, STUN, TypeScript client, signatures | various | mostly one request, one answer | | I/O, cryptography, declarations |

`PROJECT.json` ("components") lists every part with its files and status.

What makes each modelled part correct:

* **Session and reconnect** - an account is never both signed in and signed out;
  a mark (`SigningIn`, `Ending`) is never left behind by a handler that
  returned; a session that says it is reconnecting has somebody reconnecting
  it, one connect at a time, and settles; a live link is not torn down by a late
  report about its predecessor.
* **Supervisor** - it never waits for an answer that will not come; windows know
  of an outage; a wanted peer is being dialled or will be; the loop does not
  spin.
* **Membership and hosting** - a window that was put out is told so; windows
  that took a session under the lock are not displaced by another that also
  did; a stopped ILM stays stopped.
* **ILM storage** - a message reported stored stays until it is cleared, and no
  call keeps the gate for ever.
* **Messenger and client** - a frame is read at most once and lost only with a
  handle; no reply goes astray and nobody waits for one that cannot come;
  the page is told truly of its connection.
* **Files** - the budget adds up, what is sent is whole, every payload leaves or is
  left to the next start; a page's chunks are of one file, under the name it asked for.
* **Peers and groups** - offers and registrations get one answer; windows are told
  the truth about their groups; no membership or invitation is lost.
* **Conversations** - what ILM was told to retire is stored, once, counted truly
  and changed by its sender only.
* **Updater** - a working agent is at the target and runs, and a version that
  failed is not tried again by itself, but for the I/O errors the code only logs.

## The modules

| Module | What it is |
|---|---|
| `SessionLink` | one account's session, its reconnects and the handlers that race with them |
| `SupervisorCore` | the supervisor's decisions: pure operators on a core record |
| `Supervisor` | the supervisor at work: extends the core with the loop, tasks, session and peers |
| `Membership` | windows, sessions, hosted ILMs and supervisors |
| `IlmStore` | one message queue in the store |
| `Messenger`, `Mailbox` | the client's messenger, and what it promises an ILM |
| `WasmClient` | the browser's client and its restarts |
| `Sends`, `Offers`, `FileNames` | files on their way out; offers, deletions and picks; the names of files |
| `Pulls` | files pulled from a peer, and the page's reads of them |
| `Peers`, `Groups` | one session's peer; its groups |
| `Gate` | which request reaches its handler: operators only |
| `Conversations`, `Commands` | the store of one conversation; what agents say of it, operators only |
| `Updater` | the updater on one machine |
| `MC*` | model values, small policies, symmetry, and instances put side by side for TLC |
| `*_proofs` | theorems and their proofs |
| `AccountsInv` | the inductive invariants `Accounts_proofs` is about |

### SessionLink

One action is one section of code between two awaits, or under one acquisition
of the map's lock. A CID is permanent per account, so the map is modelled at one
key. The entry is `link`, `instance` (which SDK session the link is), `life`
(which `Connection`, hence which `Handoff`) and `gen` (the handoff generation).
The SDK is external: it holds one session per account (`sdk`), refuses a second,
and reports ends (`reports`, a set the kernel takes from in any order). A report names the session that ended or, when it answers a
`disconnect()` by CID, none. Reconnect tasks are `run[r]`, created by `Spawn` from
`spawning`; the pending handlers are `con` (Connect and its takeover), `dis`,
`dereg`, `claim` and `force`.

| Code | Actions |
|---|---|
| `reconnect/task.rs` `run`, `attempt` | `RunWake`, `RunCheck`, `RunDialed`, `RunDialFailed`, `RunInstall`, `RunClose`, `RunFail` |
| `reconnect/mod.rs` `begin`, `spawn`; `responses/disconnect.rs` | `HandleReport`, `HandleRefusal`, `RemoveEnding`, `Spawn` |
| `requests/connect.rs` | `ConnectStart` ... `ConnectInsert`, `ConnectUnreadable` |
| `reconnect/takeover.rs` | `TakeOverMark`, `TakeOverLock`, `TakeOverDialed`, `HandBack`, `TakeOverInstall`, `TakeOverClose` |
| `requests/peer/disconnect.rs`, `deregister.rs`, `connection_management*.rs` | `Disconnect*`, `DisconnectOrphan*`, `Deregister*`, `Claim*` |
| `supervisor/adapters/server_link.rs` | `Probe`, `ForceStart`, `ForceLock`, `ForceAbandon`, `ForceRestart` |

`Requests` selects which handlers an instance has beside Connect, so that each
run asks about a few of them in depth.

### SupervisorCore and Supervisor

`SupervisorCore` follows `kernel/supervisor/core` handler by handler: each maps a
core record to a core record and a set of commands, then `Stepped` runs `Drive`
as the code does after every input. Jitter is a function chosen freely per step.
`Supervisor` adds `shell.rs`: one iteration of the loop takes the oldest signal,
the oldest answer, a network change or a due wake-up (`RecvSignal`, `RecvDone`,
`RecvNetwork`, `Tick`), in any order, and starts tasks (`Execute`). Tasks end in
their own time (`ProbeSend`, `ProbeEnds`, `ForceEnds`, `ForceRefused`,
`DialConnects`, `DialEnds`). The session changes its link first and signals it
after (`LinkDrops`, `LinkInstalled`, then `LinkSignalled`).

### Membership

A session keeps an ordered set of windows, primary first. The set is shared: a
handler that cloned it may change it after the session has left the map, so a
task records which life's set it holds. A step of a task is what it does under
one lock. Requests are `Declare`, `Attach`, `Claim`, `Connect`, `Release`,
`Close`, `DisconnectOrphan`, `Logout` and `End`; their sections are the actions in
`Steps`. Hosting follows `ilm/registry.rs`: `Host` reserves a slot with a ticket,
`Loaded` installs or finds its reservation gone, `StopIlm` empties the slot.
Four variables are history (`door`, `owed`, `stopped`, `unhosted`). `Displace` reads
who is there and releases them in one step, where `migration_guard.rs` does so one
after the other: a window that comes between is one that comes after.

### IlmStore

`blob` is the value under the key, or `Absent`; `gate` is the backend's mutex; a
call goes gate, read, (init,) write, done. Reads of the pending messages skip
the gate and, finding no value, write an empty one (`Initialize`). `Refuse` is an
error answer of the agent. `Lose` ends the connection: everything waiting fails,
a write already at the agent becomes `late` and may still land (`LandLate`), and
the next backend has a new gate. `tried`, `owed`, `gone` and `raced` are history.
`TypeOK` has, beside the types, who holds the gate: a mutation that has passed it,
until its own answer or its failure (`Gated`).

### Messenger and Mailbox

One task owns the connection (`Task`: take a frame, route or queue it, send, poll);
multiplex (`Open`, `TakePending`, `Flush`, `NewBackend`, `Load`) and `Drop` run on other threads in a
native client and between the task's steps in a browser: the variable `browser`
says which, and both are initial states. `handle[h]` is a multiplex call and then
the ILM's end of it; `ask[h]` is its storage request. The agent is external: it
sends frames, answers requests in any order, or goes away. `Mailbox` is the
abstract specification: per account a set of frames kept, read at most once, given
up only when a handle closes. `KeepsItsPromise` is the refinement, with
`box[c]` mapped to everything on its way to `c`'s ILM: queued, in the router's hand,
in an inbox, or taken by a multiplex call that has not returned. What `RouteFrame`
forwards to the application (a notification carried in a frame) leaves the messenger
and is no state of it.

### WasmClient

One thread: an action is what runs between two awaits. A connection is the number
of the `init` or `restart` that made it. `Overlap` lets a restart begin before the
one before it returned; the page's own code does not do that, and with it the
properties fail (below). A close that finds no state still
moves the generation on and clears the sink before it fails. The panic hook, which reports the death of the whole module, is left out.

### Sends, Offers, FileNames, Pulls

`Sends`: each request directory goes through writing, staging, the SDK's transfer
and removal; `in_flight` and `root_bytes` are what the cap goes by. A chunk whose append
fails may be half written; a removal may fail, as the start's sweep may, and leave
what it was about: after its timer has fired nothing else will remove it, and it is an
`orphan`. `Crash` loses the tables and keeps the disk, as a restart finds it. `Offers`: the handle of an
offered transfer from its arrival to its answer, the delivery to windows that come
and go, the one pending deletion, and picked files with their age limit.
`FileNames` is `sanitize_file_name` on sequences of character classes. `Pulls`: a
`Download` takes its place in the queue of its scope (`FifoByScope`) under the lock, and
`Sends` sends it, or gives the place back, after the lock is released; so two downloads
may be sent in the other order than their places (`disturbed`). A record has its
generation and goes when it expires or when more than `MaxKept` are there; a read leaves
the lock to touch the disk (`BeginRead`, `Identify`, `ReadConfined`, `Settle`). `InPlace`
says whether a save may overwrite a file that a read has open.

### Peers and Groups

A caller's `task` goes from one await to the next: a dial is `PeerConnect`,
`QuerySdk`, `ClearStale`, `FindTarget`, `SetTurn`, `ConnectToPeer`; an answer, the
agent's own or a window's, is `AnswerChecks`, `AnswerTakes`, `AnswerSets`,
`AnswerSends`. The SDK's channel comes up in two steps (`peer_path_up`,
`upsert_peer_connection`) and its end in two (`DisconnectReported`,
`cleanup_reported_peer`). In `Groups` a channel is a number; a departure reaches
the channel's receiver (`ReceiverFlags`, then `ReceiverTells`) and the kernel
(`GroupEvent`) in any order, and the session's entry comes and goes under them. The
server's answer to a leave (`LeaveRoomResponse`) comes to the kernel on its own, before
or after the leave's handler has flagged the channel, and is shown to the windows as it
is: `LeaveNoticeHasLeave` is what holds of it, `LeaveNoticeIsCurrent` what does not. In
`Peers` a registration the peer accepted may still be answered as failed, when the
target's information is not found (`register.rs:131`), and a window that declines one is
answered with a success (`RespondedWasAccepted`).

### Conversations and Commands

One operation at a time holds the conversation's lock; `op` is the operation and the
writes it has left, each a step (`Write`) that may fail (`WriteFails`) or be the last
(`Crash`). After an arriving message the peer's name may be written under the same lock
(`set_peer_username`); a message of a stranger who is not let in, and the notice of a
screenshot where the account asks for none, are retired without a write (`Hide`, `screenshot`).
`acked` is what ILM was told to retire; `announced`, `removed` and `owned` are history.

A window may record a message as it has it, and patch any status where the ladder allows
it: the handler (`requests.rs:130`) checks only whose message it is. `ByWindow` are the ids of
the messages it records or makes pending, `Indices` the indices it gives them, and
`Uncounted` says whether it records a message of the peer's as not delivered yet. What the
code promises of the agent's own sends is claimed of the ids outside `ByWindow`, whatever
the windows do with the others.

`Commands` has no state: CBOR with its header widths,
the command a payload is, and the stored page, with round trips that TLC evaluates
as assumptions (`WrittenIsRead`, `NumbersKeepTheirKind`, `BuiltIsUnderstood`,
`PagesSurvive`) in the `ilm_store` run. The header widths are there for the first two:
a number at the end of a width must come back as itself and as a number. No state
property depends on them.

### Updater

`engine` is the running agent's; `target`, `backup` (the `.previous` file), `incoming`,
`cache` and the markers are files; a watchdog per version is a process of its own. The
swap is one action per file operation (`SwapCopies`, `SwapForgets`, `SwapKeeps`,
`SwapPuts`), any of which may fail (`SwapFails`); `works` says which version starts.

| What may go wrong | Where | Excused in |
|---|---|---|
| a process is cut short, or the old agent does not exit in time (`crashes`) | `Crash`, `ParentStuck` | `TargetRuns`, `AgentIsUp` |
| an install, or an agent the user starts, begins under another install's watch (`overlap`) | `StartWatchdog`, `Restart` | `TargetRuns`, `AgentIsUp` |
| the rename that puts the previous version back fails ("restore", `swap.rs:116`, `watchdog.rs:112`) | `restored` | `TargetRuns`, `AgentIsUp` |
| the watchdog's plan cannot be written down after the swap ("plan", `swap.rs:112`) | `StartWatchdog` | `TargetRuns`, `AgentIsUp` |
| the marker of a failed version cannot be written ("marker", `watch_os.rs:64`, `staging.rs:150`) | `mark_failed` | `NoInstallLoop`, of that version only |
| the restored agent cannot be started ("respawn", `watchdog.rs:85`) | `Respawn` | `AgentIsUp` |

The last four are I/O errors that the code logs or returns and does nothing more
about; `errors` keeps which happened, of which version, up to `MaxErrors`. A whole agent
at the target and the staged offer's files (`StagedIsThere`) hold whatever goes wrong.
The conditions a release must meet (`OnlyTheRelease`, `OnlyOwnInstalls`) are assumptions
that TLC evaluates.

### Gate

`handle_request` decides for each of the request variants, over small facts: three
CIDs, who is attached, in recovery or hosted. Its properties are
assumptions (`OnlyTheAttached`, `NoKeyOpensASession`, `ReservedStaysReserved`,
`RecoveryOnly`, `RefusalsAreTold`), evaluated when the `peers` run starts.

## The runs

Numbers are distinct states.

| Run | Checks | Bounds and what happens within them |
|---|---|---|
| `session_requests` | `OneAttempt`, `EndingOwned`, `ReconnectingDriven`, `LiveLinkKept` | two runs, two SDK sessions, one entry; the supervisor's force, Deregister and ClaimSession all at once, drops whose text reads like a refusal; 2.0 million |
| `session_settles` | `TypeOK`, `SignedOutExclusive`, `SigningInOwned`, `ReconnectSettles` | two entries in turn, Disconnect and DisconnectOrphan, fairness of the tasks; 631,000 |
| `session_noticed` | refutes `UpLinkNoticed` | no request but Connect |
| `supervisor_link` | `TypeOK`, `ForceIsAnswered`, `ProbeIsOut`, `OutageIsShown` | no peer; clock to 5 with an interval of 2, so two probes can be missed and a third one sent; one drop, one network change, both seeds |
| `supervisor_live` | `ForceSettles` | the same to time 3, with fairness |
| `supervisor_peers` | `WantedPeerIsDialled`, `TickSpendsItsWake` | one peer with two events of its own, dials that fail, one drop |
| `membership` | `TypeOK`, `StoppedStaysStopped`, `DisplacedAreTold`, `LockedDoorsExclude` | three windows, two accounts with two sessions each in turn, two handlers at once, four requests or closes; 723,000 |
| `ilm_store` | `TypeOK`, `KeptUnlessRaced`, `MutationEnds` | two messages, three calls at once, one lost connection; 60,000 |
| `messenger` | `TypeOK`, `BrowserStrandsNothing`, `StoppedLeavesNoWaiter`, `RepliesStayInside`, `KeepsItsPromise`, `RequestSettles` | one account, two multiplex calls, two frames or requests of the agent's, one storage request, both kinds of client; 570,000 |
| `files` | `PayloadsAccounted`, `TransfersSound`, `PayloadLeaves`, `KeptOfferWasTold` | two directories that together exceed the cap of 2, one upload id, removals that fail, one crash; one offer, two windows, two paths with room for one pick; 641,000 |
| `peers` | `PeersSound`, `GroupsSound`, `PullsSound` | two callers, two offers, two connections, one registration, one end; one group, two channels, two pieces of news, two SDK sessions; two pulls of two files with room for one record, sent in either order, two readers, another account; 2.1 million up to symmetry |
| `accounts` | `UpdaterSound`, `ConversationsSound`, `ClientSound` | three versions, one crash, one I/O error; pages of two messages, an old record that fills one or none, two ids of the peer's and two own, one of each the windows', three operations, one fault; two inits, two receivers, two openers, three responses; 3.3 million |

`files`, `peers` and `accounts` put components side by side that read none of each
other's state: the variable `part` picks one per behaviour, so that one run asks all
their questions without multiplying their states.

**Why these bounds.** The races are between two runs, or a run and a handler,
over an entry that was replaced once: two runs, two lives and two or three SDK
sessions give every such pair, including a task that outlives the entry it was
started for. In Membership a displacement needs one window in, one coming in and
one that comes in meanwhile; two tasks are a handler and the one that overtakes
it. In IlmStore a lost update needs two mutations, and the third call is the
ungated read. A second multiplex is what takes the first one's place; two
directories and a cap of two make the budget run out; two dials and two offers
are the agent and a window answering one while the next arrives; a conversation
rolls over to its next page with the first new message when the old record fills a
page, a fault falls between the page's write and the metadata's, and two operations
are left for a redelivery and what follows it; three versions are the one that runs, the one
that fails and the one after it. A chunk of one byte is never half written: the files
with chunks of two and a cap of three were searched apart (1.5 million states, safety
only), and the theorem has chunks of any size. Where a property is proved (below) the bounds do not matter.
Symmetry is over identical reconnect tasks, windows, accounts, handlers, callers,
paths and readers, in
runs without liveness only.

Deadlock is checked except in the supervisor's runs, whose clock has a bound:
they stop when it is used up; and in the runs after `ilm_store`, whose requests
have a bound and whose session may end for good. In Membership `Rest` lets the agent idle only when
no handler is under way, so a handler that cannot go on is reported.

**Fairness.** `SessionLink`: a spawned task runs, a sleep ends, an attempt ends (it
has a timeout in `reconnect/task.rs`), and the attempt lock is tokio's fair mutex,
so a waiter gets it (strong fairness of `RunCheck`). Nothing is assumed of the
user, the network or the SDK: the link may drop again at any time, within the
bounds. `Supervisor`: the loop's `select!` takes what is ready, the session sends
the signals it owes, and a force ends. `IlmStore`: the agent answers every LocalDB
request it gets (`backend_channel.rs`, `send_and_wait`), and the gate is a fair
mutex. `Messenger`: its task runs, a caller's thread runs, the agent answers a
request while the connection is there. `Sends`: a task that writes or removes runs
on, and a directory reaches its age limit; nothing is assumed of the SDK's transfer,
whose end may never come.

## What is proved

The theorems hold for every value of the constants that satisfies the assumptions
named in the modules (`BoundsAssumption` of SessionLink, `PolicyAssumption` and
`PowersOfTwo` of SupervisorCore, with finitely many peers, `SupervisorAssumption`,
`MembershipAssumption`, `IlmStoreAssumption`, `BoundsAreNat` with finitely many
accounts and `NoneIsApart` of Messenger, `SendBounds`, `BoundsAreNat` and
`CallersApart` of Peers, `PullsAssumption`, `ClientAssumption`, `ConversationsAssumption`,
`BoundsAreNat` of Updater): numbers are natural, a page has room for a message, the
sets a program holds in a table are finite, and a missing value is none of the values.
Five theorems have a hypothesis of their own, on what the page, the user or the SDK does
or left behind: `FreshIds` (`TransfersAreSound`, `PayloadsAreAccounted`), `~Overlap`
(`ClientIsSound`), `~Returns` and `~InPlace` (`PullsAreSound`: a saved file replaces the one
before it) and `LegacyOwners \subseteq {"none",
"own"}` (`ConversationsAreSound`: a record kept under the peer alone is this account's
or nobody's); "Known gaps" says what happens without it.
A theorem names the property its run checks, except `ClientKeepsOrder`, which
holds without the hypothesis of `ClientIsSound`.

| Theorem | Says | Argument |
|---|---|---|
| `SessionLink_proofs` `TypeCorrect` | `[]TypeOK` | with `HandBackRoom`: a takeover is marked only while a generation is left to hand back to |
| `SignedOutIsExclusive` | `[]SignedOutExclusive` | inductive as it stands: give-up and sign-in each change both parts under the map's lock |
| `EndingIsOwned`, `SigningInIsOwned` | the marks have owners | inductive over the types |
| `ReconnectingIsDriven` | `[]ReconnectingDriven` | a run leaves only when it is not the entry's generation or the entry is no longer Reconnecting; every step that makes an entry Reconnecting owes a spawn |
| `OneAttemptAtATime` | `[]OneAttempt` | pairwise exclusion (`Apart`) by the attempt lock of one life |
| `LiveLinkIsKept` | `LiveLinkKept` | `ReportsArePast`: a report that names a session names one that ended, so never the one that lives |
| `Supervisor_proofs` `TypeCorrect`, `ForcesAreAnswered`, `ProbesAreOut`, `OutagesAreShown`, `WantedPeersAreDialled` | the five invariants of the supervisor's runs | three layers: each handler of the core keeps one promise (`Handled`: a mark it sets comes with the command that starts the thing); the shell gives each such command a task (`ExecuteStarts`); `Inv` follows marks, tasks and answers through the queues |
| `TicksSpend` | `TickSpendsItsWake` | after `Drive` nothing that `NextWake` names is due: every delay is at least one, by `PowersOfTwo` |
| `Membership_proofs` `StoppedStarts` | `[]StoppedStaysStopped` | tickets are handed out once, slots in use hold distinct ones, a load installs only where its ticket still stands |
| `TypeCorrect` | `[]TypeOK` | `Base`: what every handler carries from step to step |
| `DisplacedTold` | `[]DisplacedAreTold` | `ComesOnce`: a connection that comes is owed nothing yet; `OwedAreTold`: one that was put out has a handler about to tell it |
| `DoorsExclude` | `LockedDoorsExclude` | `LockHeld`: who decided under the map's lock holds it until it has acted; `AimsAreOpen`: what it decided still stands then |
| `IlmStore_proofs` `TypeCorrect`, `KeptUnlessRacedHolds` | `[]TypeOK`, `[]KeptUnlessRaced` | `Inv`: who is past the gate holds it, which is `TypeOK`'s other half; calls under way are about different messages; unless a write landed that no gate held, the value a call is to write is what its change makes of the value that is there now |
| `Messenger_proofs` `TypeCorrect`, `QueueIsEmptied`, `NobodyLeftWaiting`, `RepliesAreClaimed` | the four invariants of the `messenger` run | a frame is in one place: on the wire, in the router's hand, queued, taken by a multiplex call, in one channel, or read; a request is under way once, and its asker waits |
| `KeepsThePromise` | `Spec => KeepsItsPromise` | the refinement of `Mailbox`: every action is one of its steps or a stutter, given that a frame is in one place |
| `Peers_proofs` `PeersAreSound` | `[]PeersSound` | `OfferOnce`, `RegOnce`: what was taken out of its place is held by one task, and answered at most once with those that hold it |
| `GroupsAreSound` | `[]GroupsSound` | `OutIsFlagged`: what the windows were told of is flagged before; `EventsNameGroups` with `LeaveNoticeHasLeave`: a leave's notice is of a channel flagged or about to be; `OwedIsKept`: an unanswered invitation is listed; `LeftWereAsked`: only channels a request asked for are left |
| `PullsAreSound` | `~Returns` and `~InPlace` imply `[]PullsSound` | `InOrder`: the queue is what is on its way in streams, at the peer and not yet sent, one after the other, while nothing disturbed it; `ReadsKnown`, `OneWanted`, `BegunIsAll`: the page waits for one read, of a record of that generation |
| `Files_proofs` `TransfersAreSound` | `FreshIds` implies `[]TransfersSound` | `Good`: what each place of a directory says of its bytes, and what the table's entry says of its directory |
| `PayloadsAreAccounted` | `FreshIds` implies `[]PayloadsAccounted` | the in-flight sum as part of `Sound`; the cap by a ledger, below |
| `OffersAreTold` | `KeptOfferWasTold` | only a delivery keeps an offer |
| `Accounts_proofs` `UpdatesAreSound` | `[]UpdaterSound` | `UpdaterInv`: one install followed through engine, swap and watchdog, and who is there to undo it, or which error kept them from it, at each step |
| `ClientIsSound`, `ClientKeepsOrder` | `~Overlap` implies `[]ClientSound`; two of its parts without it | `Calls`, `Handles`, `HeldOnce`, `Order`: a part for each call, the handles, who holds a stream, and what was given |
| `ConversationsAreSound` | `LegacyOwners \subseteq {"none", "own"}` implies `[]ConversationsSound` | `ConversationInv`: `Kept` whatever failed, `Faultless` while nothing did, below |

None of the larger invariants is inductive as its run states it. `KeptUnlessRaced`
does not say that a snapshot is still current; `ForceIsAnswered` not that the held
number is a probe's, without which a link's signal would abort a dial;
`DisplacedAreTold` not that a new connection finds no debt. The strengthenings are in
the proof modules and in `AccountsInv`, with one lemma per action.

**The cap.** `CapHolds` bounds the bytes on disk, but a reservation is judged by what
was on disk and in flight when it was measured, and uploads race. The invariant
(`Ledger`) orders the reservations as they were made, which the state does not show,
so it says there is an order `n`. A reservation granted left room for itself, for all
of those before it that are still open, and for what was on disk; one not yet
measured saw in flight at least what those before it may still write
(`OpenIsCovered`, from `InFlightIsOwed`). Bytes that land on a file whose reservation
was returned meanwhile are kept apart as `x`, at most a chunk for each. TLC checked
this invariant with `x` and `n` as history variables before it was proved.

**A conversation.** `ConversationsSound` speaks of the store between operations, but an
operation is several writes, and a fault may cut it anywhere. So `ConversationInv` speaks
of two stores: the one there is (`ViewNow`) and the one there will be when the writes
left in `op` are made (`ViewAhead`). `WriteIs` is what makes this work: a write changes
the first and not the second. Only two kinds of step are then left to look at. A begin
changes only what is ahead, from what is there; each operation's writes are computed
from the view it read, and of one of three kinds: it changes pages and drops from them
only what counts as removed (`Trims`), drops everything (`Clears`), or adds a message, page
before pointer (`Appends`). An end, by a fault, forgets what is ahead, so all that must
hold after one is in `Kept` and holds of `ViewNow` at every write: what was handled is
reached, and the newest two pages share no message. Counting, announcing and the end of
a send need every write to be made; they are `Faultless`, which speaks of `ViewAhead`
and is only claimed while `faults = 0`. The counts are proved by maps between the
positions before and after (`Grows`, `Comes`), since a count over pages of any number is
an induction the provers do not have. For the same reason the model says `Picked` where
it could say `SelectSeq`; TLC evaluates that they agree (`PickedIsSelectSeq`).

**Sums.** `Files_proofs` proves what it needs of `SumFunction` (it exists on every
finite set, changes with one argument, is monotone and additive) by taking a least
set on which the claim fails. The library's induction theorems have an operator as
parameter, which the installed provers cannot instantiate; its well-founded orderings
have none.

**What the proofs found.** Attempts that failed changed the models:

* `AgentIsUp` was false: one install, or an agent started by the user, under the watch
  of another install can leave no agent. It now excludes that case (`overlap`); as it
  was it is `AgentIsUpThen` below.
* `PageIsOneFile` was false with four reads: it holds of a page that starts over at
  offset 0 when it asks for a file again, which is what `Pulls` now has.
* The queue of pulls drops a place that has aged together with those before it, and
  the invitations kept are a set, as in the code.
* A session that ends and comes back while a read of it runs reuses its generations
  (`Returns`).

Only model-checked: the liveness properties (`ReconnectSettles`, `ForceSettles`,
`MutationEnds`, `RequestSettles`, `PayloadLeaves`), since the prover has neither
fairness nor ENABLED. Every invariant and every action property of the passing runs
has a theorem. What the operators of `Gate`, `Commands` and `FileNames` compute is evaluated over bounded
inputs; the `ilm_store` run evaluates the assumptions of `Commands`.

## Known gaps: what the code says and does not keep

Each of the following is a definition of its module that TLC refutes; the ones that
quote a comment of the code say so there. One has a run, the others are shown by the
cfg named, with its properties replaced (a definition of an instance is named in the
MC module first, as `X == part = "groups" => G!X`).

| Definition | Shown by | What happens |
|---|---|---|
| `UpLinkNoticed` | run `session_noticed` | the SDK session ends between its connect and the entry's insertion (or the new link's); the report finds no such link and is consumed, and the link is Up with nothing behind it and no report to come (`connect.rs:481`) |
| `WantedRunIsOwn` | SessionLinkSettles.cfg | generations restart with every `Connection`: a run asleep since a removed entry passes `attempt_wanted` on the new one (`reconnect/task.rs:228`) |
| `ClaimSparesReconnect` | SessionLinkSettles.cfg, `Requests = {"ClaimSession"}` | the claim asks the SDK, a drop begins a reconnect, the claim removes the entry (`connection_management_claim_sdk.rs:57`) |
| `AbandonsTheProbedLink` | SessionLinkSettles.cfg, `Requests = {"Disconnect", "ForceReconnect"}` | a plain Connect takes no attempt lock: it replaces the session between the force's check and its abandon (`server_link.rs:68`) |
| `StatusIsTheLinks` | SupervisorLink.cfg | the seed reads a Reconnecting link, an install signals Up, and the seed's signal, sent after the lock is dropped, comes after it: the core stays Reconnecting on a link that is up (`adapters/mod.rs:100`) |
| `OldProbeIsSilent` | SupervisorLive.cfg | an answer already queued when the link's signal aborts the probe still counts as a miss (`shell.rs:161`) |
| `RestoredIsBack` | SupervisorPeers.cfg, `MaxDrops = 0` | a dial's success handled after the loss of the connection it made marks the peer connected (`core/handlers.rs:129`) |
| `ProbesWithoutAWatch` | SupervisorLink.cfg, `HasWatch = FALSE` | a supervisor seeded Up schedules no first probe without a network change or link signal (`core/drive.rs:55`) |
| `OlderPageKeptOut` | Membership.cfg, two windows | the guard is asked once, before the handler awaits: the account is hosted meanwhile, and the older page joins after the others were displaced (`migration_guard.rs:31`) |
| `HostEndsWithSession` | Membership.cfg | a declare hosts an account after a DisconnectOrphan has removed and stopped it (`membership_hosting.rs:71`) |
| `JoinedIsHosted` | Membership.cfg | a sign-in that resumes a session makes a declared window a member and hosts nothing (`reconnect/takeover.rs:136`) |
| `MembersAreLive` | Membership.cfg | a window closes before its Connect lands: a member whose connection is gone (`connect.rs:469`) |
| `RolesAreCurrent` | Membership.cfg, two windows | two announcements: the older snapshot is sent last (`session_route.rs:97`) |
| `ClaimTakesFromNobody` | Membership.cfg | a Connect's take-over holds no map lock and falls between a claim's decision and its act |
| `KeptUntilCleared` | IlmStore.cfg | a pending read finds no queue, a store makes one and is answered, the read's `initialize_map` overwrites it with an empty one, outside the gate (`backend.rs:157`) |
| `NothingStranded` | Messenger.cfg | in a native client a multiplex between the router's look-up and its queueing leaves the frame behind (`messenger/mod.rs:503`) |
| `LiveHandleIsRouted` | Messenger.cfg | the drop of an account's older handle removes the route of its newer one (`messenger/mod.rs:815`) |
| `StreamIsCurrent` | Accounts.cfg | a receiver that held the replaced stream puts it back while another holds the new one (`wasm-client/src/lib.rs:771`) |
| `ClientSound` | Accounts.cfg, `Overlap = TRUE` | a restart begun before the last one returned has taken the sink: the client that returns first cannot send |
| `EveryPayloadLeaves` | Files.cfg | a crash leaves a payload younger than the age limit, or its last removal fails: nothing removes it until the next start after that limit |
| `SentIsWhole` | Files.cfg, `FreshIds = FALSE` | an upload id used again after its first upload was pruned: the first one's last chunk, still being written, is counted to the second, which is then sent a chunk short |
| `ToldCanAnswer` | Files.cfg | windows show an offer of the server's, or of a peer that has left meanwhile: its answer finds nothing |
| `NamesNeverEndWithDot` | Files.cfg | of `a. .` the dots are trimmed once, before the last spaces (`upload.rs`, `sanitize_file_name`) |
| `EveryStreamIsItsOwn` | Peers.cfg | a stream carries no request id: after a refusal, or a wait beyond the limit, a stream takes the name of the request before it (`revfs_correlation.rs:67`); two downloads at once take their places under the lock and are sent after it, in either order, and their streams are exchanged (`download.rs:104`) |
| `PageIsOurs` | Peers.cfg | another account saves under the same name between the pull's end and its record |
| `PageIsOneFile` | Peers.cfg, `Returns = TRUE` | the generations of a new session start over: a read that outlives its session settles the new session's record |
| `PageIsOneFile` | Peers.cfg, `InPlace = TRUE` | the file's identity is checked before its bytes are read (`read_pulled.rs:145`): if a save writes into it in between, the page mixes two |
| `RespondedWasAccepted` | Peers.cfg | a window that declines a registration is answered `PeerRegisterSuccess` (`respond_register.rs:71`) |
| `AnswerIsForItsOffer` | Peers.cfg | the agent decides on one offer, a second replaces it, and the decision is sent for the second |
| `LiveConnectionKept`, `PathIsKnown` | Peers.cfg | an end reported without its connection's name removes the entry, or the path, of the connection that came after (`responses/peer_event.rs:88`) |
| `RelayOnlyHeld` | Peers.cfg | the relay configuration is the session's: a second dial resets it between the first one's setting and its connect (`requests/peer/turn.rs:71`) |
| `HostedConversationsGuarded` | Peers.cfg | the gate guards single keys; clearing the records of CID 0 clears hosted accounts' conversation pages too |
| `NothingSentAfterLeave` | Peers.cfg | a message that passed the look-up is sent after the leave |
| `LeaveNoticeIsCurrent` | Peers.cfg | a `LeaveRoomResponse` marks nothing: windows are shown it before the channel is flagged, or after the group was joined again (`group_event.rs:145`) |
| `MemberIsLive` | Peers.cfg | a late removal on the kernel's path names only the group, and marks the channel that came after (`responses/group_event.rs:181`) |
| `EntryReceives` | Peers.cfg | a channel still waiting when its SDK session drops is put into the reconnecting entry, where nothing receives from it until its successor comes |
| `NoneLeft` | Peers.cfg | a channel a request asked for, arriving when there is no session, is dropped and its group left |
| `AutoInstallSignsNobodyOut` | Accounts.cfg | a sign-in between the decision to install when idle and the exit is lost |
| `AgentIsUpThen` | Accounts.cfg | an agent started, or an install begun, under the watch of another install: its watchdog takes it for its own, or two share a backup, and they end with no agent running |
| `AgentIsUpAnyway` | Accounts.cfg | the restored agent cannot be started, or the previous version not put back: it is logged (`watchdog.rs:85`) |
| `NoInstallLoopAnyway` | Accounts.cfg | the marker could not be written: the version that was put back is installed again (`watch_os.rs:64`) |
| `SettingAgrees` | Accounts.cfg, `MaxSets = 2` | two changes of the setting: the store keeps one, the engine the other |
| `HandledIsListed`, `NoSendIsStranded` | Accounts.cfg | a fault after the page's write: a conversation without metadata, a message that stays pending |
| `IndicesAreApart`, `NothingIsPending` | Accounts.cfg | a window records an own message with an index in use, or makes a failed one pending with no send under way (`requests.rs:130`, `store_rules.rs:66`) |
| `UnreadIsCounted` | Accounts.cfg, `Uncounted = TRUE` | a window records a message of the peer's as sent, and its delivery is not counted |
| `OnlyOwnRecords` | Accounts.cfg, `LegacyOwners = {"other"}` | a page is read from the old key without asking whose it is, which only the metadata's reader does (`store.rs:21`) |

A `Connection` put in the map without a channel strands its entry (`stranded` in
SessionLink); a peer's loss clears the mark of a dial that is out, so two may run
(`core/handlers.rs:69`); two watchdogs that overlap share one backup file (`overlap` in
`TargetRuns`). Read in the code and not modelled: a message sent again when more than
two pages came after it is stored twice, and a delete does not lower the unread
count.

## What is not modelled, and why

* **Media calls and notices**: left for the plan below.
* **Apps** (key-value, network, http): permission checks per request and proxied I/O.
* **Telemetry, STUN, server addresses**: bounded queues nothing else depends on, a
  probe of public servers, parsing.
* **Types, macros, app SDK, TypeScript client, the service binary**: declarations,
  wrappers and start-up.
* **Signatures and ids, sign-in records**: cryptography and encrypted storage; the
  updater models what must have been verified, not how.
* **Sockets, framing and the origin check** of the connector.

The SDK and ILM's own retransmission are libraries, modelled only by how the agent
uses them. Within the modelled parts: the settings a Connect carries, message wording
and contents, password and token checks (a request that is refused changes nothing
and is no step), and more than one peer, group or conversation at a time, between
which the code shares no state but the locks modelled.

## Plan

Done: every module above, the refinement of Mailbox, and the theorems listed. Next:

1. **Session and supervisor composed** - the supervisor's abstract session refined by
   SessionLink.
2. **Media calls and notices** - invitations that cross, hang-up against answer.
