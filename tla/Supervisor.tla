---------------------------- MODULE Supervisor ----------------------------
(***************************************************************************)
(* One account's supervisor at work: the loop that joins the core to its   *)
(* ports (kernel/supervisor/shell.rs, shell_effects.rs), the tasks its     *)
(* commands start (adapters/), and the session and peers they act on.      *)
(*                                                                         *)
(* The loop takes one ready thing at a time, in any order: the oldest      *)
(* signal, the oldest answer, a change of the network, a due wake-up.  So  *)
(* an answer may be handled after signals sent later than it, and each     *)
(* answer is stamped with the time its task ended.                         *)
(*                                                                         *)
(* The session (kernel/reconnect) is modelled by what it tells the         *)
(* supervisor: it changes the link first and sends the signal after, with  *)
(* no lock held over both.                                                 *)
(***************************************************************************)
EXTENDS SupervisorCore, Sequences

CONSTANTS
    ProbeTimeout,      \* policy.rs: how long one probe may take
    InterestCeiling,   \* policy.rs: the longest one interest holds
    HasWatch,          \* does the OS report network changes (IfWatch or NoWatch)
    Seeds,             \* the links a supervisor may be started on
    Jitter,            \* the values a draw of the jitter may take
    MaxTime,           \* bound: the clock
    MaxDrops,          \* bound: drops of the server link
    MaxChanges,        \* bound: network changes
    MaxPeerEvents,     \* bound: events of the peers that the dials do not cause
    MaxTasks           \* bound: tasks out at once

ASSUME SupervisorAssumption ==
    /\ ProbeTimeout \in Nat /\ InterestCeiling \in Nat /\ HasWatch \in BOOLEAN
    /\ Seeds \subseteq {"Up", "Reconnecting"} /\ Jitter \subseteq Nat
    /\ MaxTime \in Nat /\ MaxDrops \in Nat /\ MaxChanges \in Nat
    /\ MaxPeerEvents \in Nat /\ MaxTasks \in Nat \ {0}

VARIABLES
    core,      \* the core
    clock,     \* the supervisor's clock
    signals,   \* what the agent's code told the supervisor, oldest first
    done,      \* what ended tasks answered, oldest first
    tasks,     \* the tasks out: Shell.effects
    held,      \* the task whose AbortHandle Shell.probe holds, or 0
    shown,     \* the last word the windows had about the server link
    entry,     \* the session's link and the instance it is
    unsent,    \* link changes made and not yet signalled
    probed,    \* KernelLink.probed: the instance the latest probe was sent on
    conns,     \* the path of each live peer connection, or "none"
    drops, changes, events   \* how much of each bound is used

world == <<entry, unsent, conns, drops, changes, events>>
vars == <<core, clock, signals, done, tasks, held, shown, probed, world>>

-----------------------------------------------------------------------------
(* Shell::execute.  A force carries the instance it is about.  The mark    *)
(* `old` on a probe serves OldProbeIsSilent only: the link was signalled   *)
(* since it was sent.                                                      *)

FreeIds == 1..MaxTasks \ {t.id : t \in tasks}

ProbeTask(id) == [id |-> id, kind |-> "probe", sent |-> FALSE, at |-> clock,
                   old |-> FALSE]
ForceTask(id) == [id |-> id, kind |-> "force", target |-> probed]
DialTask(id, p) == [id |-> id, kind |-> "dial", peer |-> p, up |-> FALSE]

\* A command that starts a task; the others end within the call.
Starts == {"probe", "force", "dial"}

TaskOf(cmd, id) ==
    CASE cmd[1] = "probe" -> ProbeTask(id)
      [] cmd[1] = "force" -> ForceTask(id)
      [] cmd[1] = "dial"  -> DialTask(id, cmd[2])

\* The tasks out once the shell, left with `left`, has done what `cmds` say.  A
\* step starts one probe at most.
Execute(cmds, left) ==
    LET new == {cmd \in cmds : cmd[1] \in Starts} IN
    /\ Cardinality(new) <= Cardinality(FreeIds)
    /\ LET ids == CHOOSE f \in [new -> FreeIds] : \A a, b \in new : f[a] = f[b] => a = b
       IN  /\ tasks' = left \cup {TaskOf(cmd, ids[cmd]) : cmd \in new}
           /\ held' = IF ToServer("probe") \in new THEN ids[ToServer("probe")]
                      ELSE IF \E t \in left : t.id = held THEN held ELSE 0
    /\ shown' = IF ToServer("Healing") \in cmds THEN "Healing"
                ELSE IF ToServer("Healed") \in cmds THEN "Healed" ELSE shown

Jitters == [Peers -> Jitter]

\* Shell::apply of an input whose handler makes handled[jit] of the core, keeping
\* the tasks in left.
Apply(handled, left) ==
    \E jit \in Jitters :
        LET out == Stepped(handled[jit], jit)
        IN  core' = out.core /\ Execute(out.cmds, left)

-----------------------------------------------------------------------------
(* The loop: shell.rs run, signal, finished.                               *)

Quietly == UNCHANGED <<clock, probed, world>>

Old(x) == IF x.kind = "probe" THEN [x EXCEPT !.old = TRUE] ELSE x

\* The link's signal aborts the held probe; an answer already queued stays.
LinkSignal(s) ==
    /\ Apply([jit \in Jitters |-> LinkChanged(At(core, clock), s.state, jit)],
             {Old(t) : t \in {u \in tasks : u.id # held}})
    /\ done' = [i \in DOMAIN done |-> Old(done[i])]

PeerSignal(s) ==
    LET p == s.peer
        c == At(core, clock)
        H(jit) ==
            CASE s.kind = "PeerUp"        -> PeerUp(c, p, s.path, jit[p])
              [] s.kind = "PeerPath"      -> PeerPath(c, p, s.path, jit[p])
              [] s.kind = "PeerLost"      -> PeerLost(c, p, jit[p])
              [] s.kind = "PeerReleased"  -> PeerReleased(c, p, jit[p])
              [] s.kind = "PeerReachable" -> PeerReachable(c, p)
              \* an interest carries no time of its own
              [] s.kind = "Interest"      -> Interest(At(core, core.now), p, clock + s.ttl)
    IN  Apply([jit \in Jitters |-> H(jit)], tasks) /\ UNCHANGED done

RecvSignal ==
    /\ signals # <<>>
    /\ signals' = Tail(signals)
    /\ LET s == Head(signals) IN
       IF s.kind = "Link" THEN LinkSignal(s) ELSE PeerSignal(s)
    /\ Quietly

RecvProbe(d) == Apply([jit \in Jitters |-> Probed(At(core, d.at), d.outcome, jit)], tasks)
RecvDial(d) ==
    Apply([jit \in Jitters |-> Dialed(At(core, d.at), d.peer, d.outcome, jit[d.peer])], tasks)
RecvForceFailed(d) == Apply([jit \in Jitters |-> ForceFailed(At(core, d.at))], tasks)

RecvDone ==
    /\ done # <<>>
    /\ done' = Tail(done)
    /\ LET d == Head(done) IN
       CASE d.kind = "probe" -> RecvProbe(d)
         [] d.kind = "dial"  -> RecvDial(d)
         [] d.kind = "force" -> RecvForceFailed(d)
    /\ UNCHANGED signals /\ Quietly

\* next_change answers: the OS reports a burst of events as one change.
RecvNetwork ==
    /\ HasWatch /\ changes < MaxChanges
    /\ Apply([jit \in Jitters |-> NetworkChanged(At(core, clock))], tasks)
    /\ changes' = changes + 1
    /\ UNCHANGED <<clock, signals, done, probed, entry, unsent, conns, drops, events>>

Tick ==
    /\ NextWake(core) # None /\ NextWake(core) <= clock
    /\ Apply([jit \in Jitters |-> Settle(At(core, clock))], tasks)
    /\ UNCHANGED <<signals, done>> /\ Quietly

\* The ILM queue is read every backlog_poll; a read that says nothing new
\* changes nothing, so only the others are steps.
ReadBacklog ==
    /\ events < MaxPeerEvents /\ events' = events + 1
    /\ \E pending \in SUBSET Peers :
          /\ pending # {p \in Peers : core.peers[p].backlog}
          /\ Apply([jit \in Jitters |-> Backlog(At(core, core.now), pending)], tasks)
    /\ UNCHANGED <<clock, signals, done, probed, entry, unsent, conns, drops, changes>>

-----------------------------------------------------------------------------
(* The tasks: adapters/server_link.rs and adapters/dialer.rs.              *)

Keep == UNCHANGED <<core, clock, held, shown, unsent, drops, changes, events>>

Signal(s) == signals' = Append(signals, s)
Answer(t, d) == tasks' = tasks \ {t} /\ done' = Append(done, d)

ProbeAnswer(t, o) ==
    Answer(t, [kind |-> "probe", at |-> clock, outcome |-> o, old |-> t.old])

\* probe: the first poll reads the link and names it, or gives up.
ProbeSend(t) ==
    /\ t.kind = "probe" /\ ~t.sent
    /\ IF entry.link = "Up"
       THEN /\ probed' = entry.inst
            /\ tasks' = (tasks \ {t}) \cup {[t EXCEPT !.sent = TRUE]}
            /\ UNCHANGED done
       ELSE ProbeAnswer(t, "Error") /\ UNCHANGED probed
    /\ UNCHANGED <<signals, entry, conns>> /\ Keep

ProbeEnds(t) ==
    /\ t.kind = "probe" /\ t.sent
    /\ \E o \in {"Ok", "Error"} \cup {x \in {"Timeout"} : clock >= t.at + ProbeTimeout} :
          ProbeAnswer(t, o)
    /\ UNCHANGED <<signals, entry, conns, probed>> /\ Keep

\* force_reconnect found the link it is about and ended it: the reconnect's
\* own mark and signal follow (reconnect/force.rs, task.rs).
ForceEnds(t) ==
    /\ t.kind = "force" /\ entry = [link |-> "Up", inst |-> t.target]
    /\ tasks' = tasks \ {t}
    /\ entry' = [entry EXCEPT !.link = "Reconnecting"]
    /\ unsent' = unsent \cup {"Reconnecting"}
    /\ conns' = [p \in Peers |-> "none"]
    /\ UNCHANGED <<core, clock, signals, done, held, shown, probed, drops, changes, events>>

ForceRefusedSilently(t) ==
    /\ t.kind = "force"
    /\ tasks' = tasks \ {t}
    /\ UNCHANGED <<done, signals, entry, conns, probed>> /\ Keep

\* The probed link is no longer the session's, or the SDK would not end it.
ForceRefused(t) ==
    /\ t.kind = "force"
    /\ Answer(t, [kind |-> "force", at |-> clock])
    /\ UNCHANGED <<signals, entry, conns, probed>> /\ Keep

\* The dial's connection is made; its PeerUp is sent before the dial returns.
DialConnects(t) ==
    /\ t.kind = "dial" /\ ~t.up /\ entry.link = "Up" /\ conns[t.peer] = "none"
    /\ \E path \in {"relay", "direct"} :
          /\ conns' = [conns EXCEPT ![t.peer] = path]
          /\ Signal([kind |-> "PeerUp", peer |-> t.peer, path |-> path])
    /\ tasks' = (tasks \ {t}) \cup {[t EXCEPT !.up = TRUE]}
    /\ UNCHANGED <<done, entry, probed>> /\ Keep

\* What outcome_of makes of the dial's response.
DialEnds(t) ==
    /\ t.kind = "dial"
    /\ \E o \in {"Connected", "InProgress", "Failed"} :
          /\ t.up => o = "Connected"
          /\ o = "Connected" => t.up \/ conns[t.peer] # "none"
          /\ Answer(t, [kind |-> "dial", at |-> clock, peer |-> t.peer, outcome |-> o])
    /\ UNCHANGED <<signals, entry, conns, probed>> /\ Keep

-----------------------------------------------------------------------------
(* The session and the peers, as the supervisor meets them.                *)

Around == UNCHANGED <<core, clock, done, tasks, held, shown, probed>>

\* A drop is reported: task::begin marks the entry, task::spawn signals later.
LinkDrops ==
    /\ entry.link = "Up" /\ drops < MaxDrops
    /\ entry' = [entry EXCEPT !.link = "Reconnecting"]
    /\ unsent' = unsent \cup {"Reconnecting"}
    /\ conns' = [p \in Peers |-> "none"]
    /\ drops' = drops + 1
    /\ UNCHANGED <<signals, changes, events>> /\ Around

\* put_link: a run that spawn started, or a window's takeover, installs a link.
\* The attempt lock is held until its signal is sent.
LinkInstalled ==
    /\ entry.link = "Reconnecting" /\ "Up" \notin unsent
    /\ entry' = [link |-> "Up", inst |-> entry.inst + 1]
    /\ unsent' = unsent \cup {"Up"}
    /\ UNCHANGED <<signals, conns, drops, changes, events>> /\ Around

LinkSignalled ==
    \E s \in unsent :
        /\ unsent' = unsent \ {s}
        /\ Signal([kind |-> "Link", state |-> s])
        /\ UNCHANGED <<entry, conns, drops, changes, events>> /\ Around

PeerEvent == events < MaxPeerEvents /\ events' = events + 1
             /\ UNCHANGED <<entry, unsent, drops, changes>>

\* peer_event.rs Disconnect and requests/peer/disconnect.rs.
PeerEnds(p) ==
    /\ PeerEvent /\ conns[p] # "none" /\ conns' = [conns EXCEPT ![p] = "none"]
    /\ \E kind \in {"PeerLost", "PeerReleased"} : Signal([kind |-> kind, peer |-> p])
    /\ Around

\* peer_path.rs forward: the connection's path changed.
PathChanges(p) ==
    /\ PeerEvent /\ conns[p] # "none"
    /\ LET path == IF conns[p] = "relay" THEN "direct" ELSE "relay" IN
       /\ conns' = [conns EXCEPT ![p] = path]
       /\ Signal([kind |-> "PeerPath", peer |-> p, path |-> path])
    /\ Around

\* peer_event.rs PostConnect and PostRegister: the peer asked for us.
PeerAsks(p) ==
    /\ PeerEvent /\ entry.link = "Up"
    /\ Signal([kind |-> "PeerReachable", peer |-> p])
    /\ UNCHANGED conns /\ Around

\* The peer's request was accepted, or a window dialled: PathWatch::forward.
PeerArrives(p) ==
    /\ PeerEvent /\ entry.link = "Up" /\ conns[p] = "none"
    /\ \E path \in {"relay", "direct"} :
          /\ conns' = [conns EXCEPT ![p] = path]
          /\ Signal([kind |-> "PeerUp", peer |-> p, path |-> path])
    /\ Around

\* requests/notices.rs: a window has the peer open.
WindowOpens(p) ==
    /\ PeerEvent
    /\ Signal([kind |-> "Interest", peer |-> p, ttl |-> InterestCeiling])
    /\ UNCHANGED conns /\ Around

Advance ==
    /\ clock < MaxTime /\ clock' = clock + 1
    /\ UNCHANGED <<core, signals, done, tasks, held, shown, probed, world>>

-----------------------------------------------------------------------------
\* Supervisors::start and seed_supervisor: a core that believes the link up,
\* and, when the link is mid-reconnect, a signal yet to be sent that says so.
Init ==
    /\ core = NewCore /\ clock = 0 /\ signals = <<>> /\ done = <<>>
    /\ tasks = {} /\ held = 0 /\ shown = "Healed" /\ probed = 0
    /\ \E s \in Seeds : /\ entry = [link |-> s, inst |-> 1]
                        /\ unsent = {s} \ {"Up"}
    /\ conns = [p \in Peers |-> "none"]
    /\ drops = 0 /\ changes = 0 /\ events = 0

LoopNext == RecvSignal \/ RecvDone \/ RecvNetwork \/ Tick \/ ReadBacklog

TaskNext ==
    \E t \in tasks : \/ ProbeSend(t) \/ ProbeEnds(t) \/ ForceEnds(t) \/ ForceRefused(t)
                     \/ DialConnects(t) \/ DialEnds(t)

SessionNext == LinkDrops \/ LinkInstalled \/ LinkSignalled

PeerNext == \E p \in Peers : \/ PeerEnds(p) \/ PathChanges(p) \/ PeerAsks(p)
                             \/ PeerArrives(p) \/ WindowOpens(p)

Next == LoopNext \/ TaskNext \/ SessionNext \/ PeerNext \/ Advance

Spec == Init /\ [][Next]_vars

\* tokio polls what is ready, the loop's select! takes every ready branch in
\* time, and a force waits only for the attempt lock, which its holders free
\* (SessionLink).
Fairness ==
    /\ WF_vars(RecvSignal) /\ WF_vars(RecvDone) /\ WF_vars(LinkSignalled)
    /\ WF_vars(\E t \in tasks : ForceEnds(t) \/ ForceRefused(t))

FairSpec == Spec /\ Fairness

-----------------------------------------------------------------------------
Outcomes == {"Ok", "Error", "Timeout"}

PeerRec ==
    [connected : BOOLEAN, path : {"none", "relay", "direct"},
     since : Int, lostAt : Int, backlog : BOOLEAN, interest : Int,
     dialAt : Nat, dialTries : 0..AttemptCap, dialOut : BOOLEAN,
     failed : 0..UnreachableAfter + AttemptCap,
     upgradeAt : Nat, upgradeTries : 0..AttemptCap,
     saidDialing : BOOLEAN, saidDegraded : BOOLEAN]

ProbeRec == [nextAt : Int, inFlight : BOOLEAN, missed : 0..MissedProbes - 1, recheck : BOOLEAN]

CoreRec ==
    [link : {"Up", "Reconnecting", "Ended"}, now : 0..MaxTime, probe : ProbeRec,
     peers : [Peers -> PeerRec], healing : BOOLEAN, forcing : BOOLEAN,
     afterChange : BOOLEAN]

TypeOK ==
    /\ core \in CoreRec
    /\ clock \in 0..MaxTime
    /\ tasks \subseteq ([id : 1..MaxTasks, kind : {"probe"}, sent : BOOLEAN, at : 0..MaxTime,
                         old : BOOLEAN]
                 \cup [id : 1..MaxTasks, kind : {"force"}, target : Nat]
                 \cup [id : 1..MaxTasks, kind : {"dial"}, peer : Peers, up : BOOLEAN])
    /\ held \in 0..MaxTasks /\ shown \in {"Healing", "Healed"}
    /\ entry \in [link : {"Up", "Reconnecting"}, inst : Nat] /\ probed \in Nat
    /\ unsent \subseteq {"Up", "Reconnecting"}
    /\ conns \in [Peers -> {"none", "relay", "direct"}]

\* Tasks and answers of a kind that the core still waits for.
Awaited(kind) == (\E t \in tasks : t.kind = kind) \/ (\E i \in DOMAIN done : done[i].kind = kind)
LinkNews == unsent # {} \/ \E i \in DOMAIN signals : signals[i].kind = "Link"

\* core/mod.rs, `forcing`: "ForceReconnect is out and not yet answered by the
\* link dropping or failing".  A force in progress always has an answer coming:
\* its task, its failure, or word of the link; else the core would never probe
\* or dial again.
ForceIsAnswered == core.forcing => Awaited("force") \/ LinkNews

\* core/mod.rs, `forcing`: a force is over in the end, however late its failure or
\* the word of the link comes, and probing resumes.
ForceSettles == core.forcing ~> ~core.forcing

\* core/mod.rs, Probe: a probe the core takes for out is out, or its answer is
\* queued; else the link is never probed again.
ProbeIsOut == core.probe.inFlight => Awaited("probe")

\* core/link.rs: while the core holds the link for lost, the last word the windows
\* had is Healing, through any order of answers and signals.
OutageIsShown == core.link = "Reconnecting" => shown = "Healing"

\* drive.rs: a due wake-up is spent.  After a Tick nothing that NextWake names is
\* due any more, so the loop does not spin.
TickSpendsItsWake == [][Tick => NextWake(core') = None \/ NextWake(core') > clock]_vars

\* drive.rs: a peer the user or the queue wants, and the core holds for
\* disconnected, has a dial out or a wake-up set while the core watches the link.
WantedPeerIsDialled ==
    \A p \in Peers :
        LET e == core.peers[p] IN
        Watching(core) /\ DialPeers /\ ~e.connected /\ Wanted(e, core.now) =>
            \/ e.dialOut /\ \/ \E t \in tasks : t.kind = "dial" /\ t.peer = p
                            \/ \E i \in DOMAIN done : done[i].kind = "dial" /\ done[i].peer = p
            \/ NextWake(core) # None /\ NextWake(core) <= e.dialAt

-----------------------------------------------------------------------------
(* What comments of the code say and the code does not keep.  TLC refutes  *)
(* each; README, "Known gaps", gives the bounds and the counterexamples.   *)

\* shell_tests.rs, of a probe whose link has gone: "Its answer must be gone with
\* the link it was sent on, or it would count as a miss and ask for another probe
\* at once."
OldProbeIsSilent ==
    [][done # <<>> /\ done' = Tail(done) /\ Head(done).kind = "probe" /\ Head(done).old
         => core'.probe.missed <= core.probe.missed]_vars

\* core/peer.rs, lost_at: "When a connected peer was last lost; cleared when it is
\* back."  It is cleared for a peer that has a connection, or whose loss is queued.
RestoredIsBack ==
    \A p \in Peers :
        core.peers[p].connected =>
            \/ conns[p] # "none"
            \/ LinkNews
            \/ \E i \in DOMAIN signals : signals[i].kind \in {"PeerLost", "PeerReleased"}

\* types.rs, LinkStatus: "Where the account's server link stands, as
\* `kernel/reconnect` reports it."  Once all is said, the core has the link's state.
StatusIsTheLinks == ~LinkNews => core.link = entry.link

\* adapters/mod.rs, NoWatch: "With no network watch the supervisor still probes and
\* dials".  A link up for longer than an interval is being probed or about to be.
ProbesWithoutAWatch ==
    Watching(core) /\ ~LinkNews /\ clock > ProbeInterval =>
        core.probe.inFlight \/ NextWake(core) # None
=============================================================================
