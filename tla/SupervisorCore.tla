-------------------------- MODULE SupervisorCore --------------------------
(***************************************************************************)
(* The supervisor's decisions (kernel/supervisor/core): a deterministic    *)
(* state machine, one per hosted account, that takes an input stamped with *)
(* a time and returns commands.  It holds no variables: a core is a        *)
(* record, and every operator here maps a core to a core and the set of    *)
(* commands the step emits.                                                *)
(*                                                                         *)
(* Times are numbers of the supervisor's clock and None is Rust's Option   *)
(* None.  A peer the core has no entry for is a fresh entry: both are due  *)
(* at once and neither is wanted.  The jitter of one step is a function    *)
(* from peers to numbers, standing for the generator's draws: a step draws *)
(* at most once for a peer.                                                *)
(***************************************************************************)
EXTENDS Integers, FiniteSets

CONSTANTS
    Peers,             \* the peers of the account
    NoPeer,            \* the peer of a command about the server link
    ProbeInterval,     \* policy.rs: how often a quiet link is probed
    MissedProbes,      \* consecutive missed probes that end the link
    DialBackoff,       \* [initial, max] of the dial schedule
    UnreachableAfter,  \* failed dials after which a peer is unreachable
    UnreachableBackoff,
    UpgradeBackoff,
    StableAfter,       \* how long a route must hold before its backoff resets
    RedialWindow,      \* how long a lost peer is redialled with no other reason
    JitterPermille,
    DialPeers,         \* does this supervisor dial peers
    AttemptCap         \* bound: attempts past it all wait the backoff's maximum

Backoffs == {DialBackoff, UnreachableBackoff, UpgradeBackoff}

ASSUME PolicyAssumption ==
    /\ NoPeer \notin Peers /\ IsFiniteSet(Peers)
    /\ ProbeInterval \in Nat \ {0} /\ MissedProbes \in Nat \ {0}
    /\ UnreachableAfter \in Nat \ {0} /\ StableAfter \in Nat /\ RedialWindow \in Nat
    /\ JitterPermille \in 0..999 /\ DialPeers \in BOOLEAN /\ AttemptCap \in Nat
    /\ \A b \in Backoffs : /\ b.initial \in Nat \ {0} /\ b.max \in Nat \ {0}
                           /\ b.initial * 2^AttemptCap >= b.max

\* Arithmetic that the provers do not know.
ASSUME PowersOfTwo == \A n \in 0..AttemptCap : 2^n \in Nat \ {0}

None == -1

-----------------------------------------------------------------------------
(* The state: core/mod.rs and core/peer.rs.                                *)

NewProbe == [nextAt |-> None, inFlight |-> FALSE, missed |-> 0, recheck |-> FALSE]

NewPeer ==
    [connected |-> FALSE, path |-> "none", since |-> None, lostAt |-> None,
     backlog |-> FALSE, interest |-> None,
     dialAt |-> 0, dialTries |-> 0, dialOut |-> FALSE, failed |-> 0,
     upgradeAt |-> 0, upgradeTries |-> 0, saidDialing |-> FALSE, saidDegraded |-> FALSE]

NewCore ==
    [link |-> "Up", now |-> 0, probe |-> NewProbe, peers |-> [p \in Peers |-> NewPeer],
     healing |-> FALSE, forcing |-> FALSE, afterChange |-> FALSE]

\* What a step gives: the core it leaves and the commands it emits.
Out(c, cmds) == [core |-> c, cmds |-> cmds]

ToServer(name) == <<name, NoPeer>>
If(b, cmd) == IF b THEN {cmd} ELSE {}
Least(a, b) == IF a <= b THEN a ELSE b
Bump(n) == Least(n + 1, AttemptCap)   \* saturating_add, at the model's cap

\* Rng::delay: the backoff doubled n times and capped, less its jitter.
Delay(b, n, j) ==
    LET capped == Least(b.initial * 2^n, b.max)
        span   == (capped * JitterPermille) \div 1000
    IN  capped - (IF span = 0 THEN 0 ELSE j % span)

\* Millis::since saturates at zero.
Held(p, now) == p.since # None /\ (IF now >= p.since THEN now - p.since ELSE 0) >= StableAfter

InUse(p, now) == p.backlog \/ (p.interest # None /\ p.interest > now)
Wanted(p, now) ==
    \/ InUse(p, now)
    \/ p.lostAt # None /\ (IF now >= p.lostAt THEN now - p.lostAt ELSE 0) < RedialWindow
OnRelay(p) == p.connected /\ p.path = "relay"

\* The core watches the link, dials and upgrades only when this holds.
Watching(c) == c.link = "Up" /\ ~c.forcing

-----------------------------------------------------------------------------
(* The server link: core/link.rs.                                          *)

NetworkChanged(c) ==
    LET out == c.probe.inFlight IN
    Out([c EXCEPT !.afterChange = TRUE,
                  !.probe.missed = 0,
                  !.probe.recheck = @ \/ (Watching(c) /\ out),
                  !.probe.inFlight = @ \/ Watching(c)],
        {ToServer("rebind")} \cup If(Watching(c) /\ ~out, ToServer("probe")))

RearmRelayed(c, jit) ==
    IF ~c.afterChange THEN Out(c, {}) ELSE
    Out([c EXCEPT !.afterChange = FALSE,
                  !.peers = [p \in Peers |->
                      IF OnRelay(@[p])
                      THEN [@[p] EXCEPT !.upgradeTries = 0,
                                        !.upgradeAt = c.now + Delay(UpgradeBackoff, 0, jit[p])]
                      ELSE @[p]]],
        {<<"upgrade", p>> : p \in {q \in Peers : OnRelay(c.peers[q])}})

ProbedOk(c, jit) ==
    LET r == RearmRelayed([c EXCEPT !.probe.missed = 0,
                                    !.probe.nextAt = c.now + ProbeInterval], jit)
    IN  Out([r.core EXCEPT !.healing = FALSE],
            r.cmds \cup If(c.healing, ToServer("Healed")))

ProbedTimeoutLate(c) ==
    IF c.probe.missed + 1 <= MissedProbes
    THEN Out([c EXCEPT !.probe.missed = @ + 1, !.probe.inFlight = TRUE], {ToServer("probe")})
    ELSE Out([c EXCEPT !.probe.missed = 0, !.forcing = TRUE, !.healing = TRUE],
             {ToServer("force")} \cup If(~c.healing, ToServer("Healing")))

ProbedTimeout(c) ==
    IF c.probe.missed + 1 < MissedProbes
    THEN Out([c EXCEPT !.probe.missed = @ + 1, !.probe.inFlight = TRUE], {ToServer("probe")})
    ELSE Out([c EXCEPT !.probe.missed = 0, !.afterChange = FALSE,
                       !.forcing = TRUE, !.healing = TRUE],
             {ToServer("force")} \cup If(~c.healing, ToServer("Healing")))

ProbedAnyLink(c, outcome, jit) ==
    LET idle == [c EXCEPT !.probe.inFlight = FALSE] IN
    CASE outcome = "Ok"      -> ProbedOk(idle, jit)
      [] outcome = "Error"   -> Out(idle, {})
      [] outcome = "Timeout" -> ProbedTimeout(idle)

Probed(c, outcome, jit) ==
    LET idle == [c EXCEPT !.probe.inFlight = FALSE] IN
    CASE c.link # "Up"                      -> Out(idle, {})
      [] c.link = "Up" /\ c.probe.recheck   ->
           Out([c EXCEPT !.probe.recheck = FALSE, !.probe.inFlight = TRUE],
               {ToServer("probe")})
      [] OTHER ->
           CASE outcome = "Ok"      -> ProbedOk(idle, jit)
             [] outcome = "Error"   ->
                  Out([idle EXCEPT !.probe.nextAt = c.now + ProbeInterval], {})
             [] outcome = "Timeout" -> ProbedTimeout(idle)

\* `probe = Default::default()`, armed one interval from now.
Rearmed(now) == [NewProbe EXCEPT !.nextAt = now + ProbeInterval]

ForceFailedStillForcing(c) == Out([c EXCEPT !.probe = Rearmed(c.now)], {})
ForceFailed(c) == Out([c EXCEPT !.forcing = FALSE, !.probe = Rearmed(c.now)], {})

\* Core::lost for one entry.
LostPeer(p, now, j) ==
    LET gone == [p EXCEPT !.connected = FALSE, !.path = "none", !.since = None,
                          !.dialOut = FALSE]
    IN  CASE ~p.connected -> gone
          [] p.connected /\ Held(p, now) ->
               [gone EXCEPT !.dialTries = 0, !.dialAt = now, !.lostAt = now]
          [] p.connected /\ ~Held(p, now) ->
               [gone EXCEPT !.dialAt = now + Delay(DialBackoff, p.dialTries, j),
                            !.dialTries = Bump(@), !.lostAt = now]

LoseLinkKeepingProbe(c, jit) ==
    Out([c EXCEPT !.link = "Reconnecting", !.forcing = FALSE, !.healing = TRUE],
        If(~c.healing, ToServer("Healing")))

LoseLink(c, jit) ==
    Out([c EXCEPT !.link = "Reconnecting", !.forcing = FALSE, !.probe = NewProbe,
                  !.healing = TRUE,
                  !.peers = [p \in Peers |-> IF @[p].connected
                                             THEN LostPeer(@[p], c.now, jit[p]) ELSE @[p]]],
        If(~c.healing, ToServer("Healing")))

LinkChanged(c, state, jit) ==
    CASE state = "Up" ->
           Out([c EXCEPT !.link = "Up", !.forcing = FALSE, !.healing = FALSE,
                         !.probe = Rearmed(c.now)],
               If(c.healing, ToServer("Healed")))
      [] state = "Reconnecting" -> LoseLink(c, jit)
      [] state = "Ended" ->
           Out([c EXCEPT !.link = "Ended", !.peers = [p \in Peers |-> NewPeer]], {})

-----------------------------------------------------------------------------
(* The peers: core/handlers.rs.                                            *)

SetPeer(c, p, e) == [c EXCEPT !.peers[p] = e]

\* Tick: a path that has held forgets its upgrade backoff.
Settle(c) ==
    Out([c EXCEPT !.peers = [p \in Peers |->
            IF @[p].connected /\ Held(@[p], c.now) /\ @[p].path # "relay"
            THEN [@[p] EXCEPT !.upgradeTries = 0] ELSE @[p]]], {})

PeerLost(c, p, j) == Out(SetPeer(c, p, LostPeer(c.peers[p], c.now, j)), {})

PeerReleased(c, p, j) ==
    Out(SetPeer(c, p, [LostPeer(c.peers[p], c.now, j) EXCEPT !.lostAt = None,
                                                             !.interest = None]), {})

PeerReachable(c, p) ==
    Out(SetPeer(c, p, [c.peers[p] EXCEPT !.failed = 0, !.dialTries = 0,
                          !.dialAt = IF c.peers[p].connected THEN @ ELSE c.now]), {})

OnPath(e, path, now, j) ==
    [e EXCEPT !.path = path,
              !.upgradeAt = IF path = "relay" /\ ~OnRelay(e)
                            THEN now + Delay(UpgradeBackoff, e.upgradeTries, j) ELSE @]

PeerPath(c, p, path, j) == Out(SetPeer(c, p, OnPath(c.peers[p], path, c.now, j)), {})

PeerUp(c, p, path, j) ==
    LET e == [c.peers[p] EXCEPT !.connected = TRUE, !.since = c.now, !.dialOut = FALSE,
                                !.failed = 0, !.saidDialing = FALSE,
                                !.saidDegraded = FALSE, !.lostAt = None]
    IN  Out(SetPeer(c, p, OnPath(e, path, c.now, j)),
            If(c.peers[p].lostAt # None, <<"PeerRestored", p>>))

DialFailed(c, p, j) ==
    LET e      == c.peers[p]
        failed == Least(e.failed + 1, UnreachableAfter + AttemptCap)
        wait   == IF failed >= UnreachableAfter
                  THEN Delay(UnreachableBackoff, failed - UnreachableAfter, j)
                  ELSE Delay(DialBackoff, e.dialTries, j)
    IN  Out(SetPeer(c, p, [e EXCEPT !.dialOut = FALSE, !.failed = failed,
                                    !.dialAt = c.now + wait, !.dialTries = Bump(@),
                                    !.saidDegraded = TRUE]),
            If(~e.saidDegraded, <<"Degraded", p>>))

DialedStillOut(c, p, outcome, j) ==
    LET e == c.peers[p] IN
    CASE outcome = "Connected"  -> PeerUp(c, p, "relay", j)
      [] outcome = "InProgress" ->
           Out(SetPeer(c, p, [e EXCEPT
                   !.dialAt = c.now + Delay(DialBackoff, e.dialTries, j)]), {})
      [] outcome = "Failed"     -> DialFailed(c, p, j)

Dialed(c, p, outcome, j) ==
    LET e    == c.peers[p]
        idle == SetPeer(c, p, [e EXCEPT !.dialOut = FALSE]) IN
    CASE outcome = "Connected" ->
           IF e.connected THEN Out(idle, {}) ELSE PeerUp(idle, p, "relay", j)
      [] outcome = "InProgress" ->
           Out(SetPeer(idle, p, [idle.peers[p] EXCEPT
                   !.dialAt = c.now + Delay(DialBackoff, e.dialTries, j)]), {})
      [] outcome = "Failed" -> DialFailed(c, p, j)

Backlog(c, pending) ==
    Out([c EXCEPT !.peers = [p \in Peers |-> [@[p] EXCEPT !.backlog = p \in pending]]], {})

Interest(c, p, until) ==
    Out(SetPeer(c, p, [c.peers[p] EXCEPT !.interest = IF @ > until THEN @ ELSE until]), {})

-----------------------------------------------------------------------------
(* What is due: core/drive.rs.  Every step ends with it.                   *)

DialDue(p, now) == DialPeers /\ ~p.connected /\ ~p.dialOut /\ Wanted(p, now)
UpgradeDue(p, now) == OnRelay(p) /\ InUse(p, now)

DrivePeerUnpaced(p, now, j) ==
    LET dials == DialDue(p, now) /\ p.dialAt <= now
    IN  [p EXCEPT !.dialOut = @ \/ dials, !.saidDialing = @ \/ dials]

DrivePeer(p, now, j) ==
    LET dials    == DialDue(p, now) /\ p.dialAt <= now
        upgrades == UpgradeDue(p, now) /\ p.upgradeAt <= now
    IN  [p EXCEPT !.dialOut = @ \/ dials,
                  !.saidDialing = @ \/ dials,
                  !.upgradeTries = IF upgrades THEN Bump(@) ELSE @,
                  !.upgradeAt = IF upgrades
                                THEN now + Delay(UpgradeBackoff, Bump(p.upgradeTries), j)
                                ELSE @]

Drive(c, jit) ==
    IF ~Watching(c) THEN Out(c, {}) ELSE
    LET now    == c.now
        armed  == IF c.probe.nextAt = None THEN now + ProbeInterval ELSE c.probe.nextAt
        probes == ~c.probe.inFlight /\ armed <= now
        dialed == {p \in Peers : DialDue(c.peers[p], now) /\ c.peers[p].dialAt <= now}
        raised == {p \in Peers : UpgradeDue(c.peers[p], now) /\ c.peers[p].upgradeAt <= now}
    IN  Out([c EXCEPT !.probe.nextAt = armed,
                      !.probe.inFlight = @ \/ probes,
                      !.peers = [p \in Peers |-> DrivePeer(@[p], now, jit[p])]],
            If(probes, ToServer("probe"))
              \cup {<<"PeerDialing", p>> : p \in {q \in dialed : ~c.peers[q].saidDialing}}
              \cup {<<"dial", p>> : p \in dialed}
              \cup {<<"upgrade", p>> : p \in raised})

\* Core::next_wake: the earliest time something becomes due with no input.
NextWake(c) ==
    LET times == IF ~Watching(c) THEN {} ELSE
            {t \in {c.probe.nextAt} : t # None /\ ~c.probe.inFlight}
              \cup {c.peers[p].dialAt : p \in {q \in Peers : DialDue(c.peers[q], c.now)}}
              \cup {c.peers[p].upgradeAt : p \in {q \in Peers : UpgradeDue(c.peers[q], c.now)}}
    IN  IF times = {} THEN None ELSE CHOOSE t \in times : \A u \in times : t <= u

-----------------------------------------------------------------------------
(* Core::step.  `handled` is what the input's handler made of the core     *)
(* whose clock the input had moved.                                        *)

At(c, now) == [c EXCEPT !.now = now]

Stepped(handled, jit) ==
    LET driven == Drive(handled.core, jit)
    IN  Out(driven.core, handled.cmds \cup driven.cmds)
=============================================================================
