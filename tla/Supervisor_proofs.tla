------------------------- MODULE Supervisor_proofs -------------------------
(***************************************************************************)
(* The supervisor, for any number of peers, any policy and any bound.      *)
(*                                                                         *)
(* The argument has three layers.  Each handler of the core keeps one      *)
(* promise, Handled: a mark it sets on itself (forcing, inFlight, dialOut) *)
(* comes with the command that starts the thing, and what it holds to have *)
(* said it says.  Shell::execute gives every such command a task of its    *)
(* own (ExecuteStarts).  So every mark has a task or an answer behind it,  *)
(* and the invariant Inv follows the two through the queues; the held      *)
(* number has to be a probe's, or the link's signal would abort a dial.    *)
(***************************************************************************)
EXTENDS Supervisor, FiniteSetTheorems, FunctionTheorems, WellFoundedInduction, TLAPS

-----------------------------------------------------------------------------
(* Arithmetic and sets.                                                    *)

\* A delay of any schedule is at least one.
LEMMA DelayIsPositive ==
    ASSUME NEW b \in Backoffs, NEW n \in 0..AttemptCap, NEW j \in Nat
    PROVE  Delay(b, n, j) \in Nat \ {0}
<1>1. PICK q \in Nat \ {0} : q = 2^n
  BY PowersOfTwo
<1>2. b.initial \in Nat \ {0} /\ b.max \in Nat \ {0} /\ JitterPermille \in 0..999
  BY PolicyAssumption
<1>3. b.initial * q \in Nat \ {0}
  BY <1>1, <1>2
<1>4. PICK capped \in Nat \ {0} : capped = Least(b.initial * 2^n, b.max)
  BY <1>1, <1>2, <1>3 DEF Least
<1>5. PICK span \in Nat : span = (capped * JitterPermille) \div 1000
  BY <1>2
<1>6. span < capped
  BY <1>2, <1>5
<1>7. span # 0 => j % span \in 0..(span - 1)
  OBVIOUS
<1> QED
  BY <1>4, <1>5, <1>6, <1>7 DEF Delay

LEMMA LeastNatural ==
    ASSUME NEW T, T \subseteq Nat, T # {}
    PROVE  \E x \in T : \A y \in T : x <= y
<1>1. IsWellFoundedOn({ss \in Nat \X Nat : ss[1] < ss[2]}, Nat)
  BY NatLessThanWellFounded, Zenon DEF OpToRel
<1>2. PICK x \in T : \A y \in T : <<y, x>> \notin {ss \in Nat \X Nat : ss[1] < ss[2]}
  BY <1>1, WFMin, Zenon
<1>3. ASSUME NEW y \in T PROVE x <= y
  <2>1. <<y, x>> \notin {ss \in Nat \X Nat : ss[1] < ss[2]}
    BY <1>2
  <2>2. x \in Nat /\ y \in Nat
    OBVIOUS
  <2>3. ~(y < x)
    BY <2>1, <2>2
  <2> QED
    BY <2>2, <2>3
<1> QED
  BY <1>3

\* As many numbers as are asked for can be given, each once.
LEMMA NumbersEnough ==
    ASSUME NEW S, NEW T, IsFiniteSet(S), IsFiniteSet(T), Cardinality(S) <= Cardinality(T)
    PROVE  \E f \in [S -> T] : \A a, b \in S : f[a] = f[b] => a = b
<1>1. PICK n \in Nat : n = Cardinality(S)
  BY FS_CardinalityType
<1>2. PICK m \in Nat : m = Cardinality(T)
  BY FS_CardinalityType
<1>3. ExistsBijection(1..n, S) /\ ExistsBijection(1..m, T)
  BY <1>1, <1>2, FS_CardinalityType
<1>4. ExistsInjection(1..n, 1..m)
  BY <1>1, <1>2, Fun_NatInjLeq
<1>5. ExistsInjection(S, 1..n) /\ ExistsInjection(1..m, T)
  BY <1>3, Fun_ExistsBijSymmetric, Fun_ExistsBijEquiv
<1>6. ExistsInjection(S, T)
  BY <1>4, <1>5, Fun_ExistsInjTransitive
<1> QED
  BY <1>6 DEF ExistsInjection, Injection, IsInjective

-----------------------------------------------------------------------------
(* One peer's entry: core/peer.rs and core/handlers.rs.                    *)

\* Within its bound, an attempt more.
LEMMA BumpType == \A n \in 0..AttemptCap : Bump(n) \in 0..AttemptCap
BY PolicyAssumption DEF Bump, Least

LEMMA BackoffIs == {DialBackoff, UnreachableBackoff, UpgradeBackoff} = Backoffs
BY DEF Backoffs

\* A lost peer's dial is given up with it.
LEMMA LostPeerType ==
    ASSUME NEW e \in PeerRec, NEW now \in Nat, NEW j \in Nat
    PROVE  LostPeer(e, now, j) \in PeerRec /\ ~LostPeer(e, now, j).dialOut
<1>1. PICK f : f = LostPeer(e, now, j)
  OBVIOUS
<1>2. CASE ~e.connected
  <2>1. f = [connected |-> FALSE, path |-> "none", since |-> None, lostAt |-> e.lostAt,
             backlog |-> e.backlog, interest |-> e.interest, dialAt |-> e.dialAt,
             dialTries |-> e.dialTries, dialOut |-> FALSE, failed |-> e.failed,
             upgradeAt |-> e.upgradeAt, upgradeTries |-> e.upgradeTries,
             saidDialing |-> e.saidDialing, saidDegraded |-> e.saidDegraded]
    BY <1>1, <1>2 DEF LostPeer, PeerRec
  <2>2. f \in PeerRec /\ ~f.dialOut
    BY <2>1 DEF PeerRec, None
  <2> QED
    BY <1>1, <2>2
<1>3. CASE e.connected /\ Held(e, now)
  <2>1. f = [connected |-> FALSE, path |-> "none", since |-> None, lostAt |-> now,
             backlog |-> e.backlog, interest |-> e.interest, dialAt |-> now, dialTries |-> 0,
             dialOut |-> FALSE, failed |-> e.failed, upgradeAt |-> e.upgradeAt,
             upgradeTries |-> e.upgradeTries, saidDialing |-> e.saidDialing,
             saidDegraded |-> e.saidDegraded]
    BY <1>1, <1>3 DEF LostPeer, PeerRec
  <2>2. f \in PeerRec /\ ~f.dialOut
    BY <2>1, PolicyAssumption DEF PeerRec, None
  <2> QED
    BY <1>1, <2>2
<1>4. CASE e.connected /\ ~Held(e, now)
  <2>d. PICK d \in Nat : d = Delay(DialBackoff, e.dialTries, j)
    BY DelayIsPositive, BackoffIs DEF PeerRec
  <2>b. PICK n \in 0..AttemptCap : n = Bump(e.dialTries)
    BY BumpType DEF PeerRec
  <2>1. f = [connected |-> FALSE, path |-> "none", since |-> None, lostAt |-> now,
             backlog |-> e.backlog, interest |-> e.interest, dialAt |-> now + d, dialTries |-> n,
             dialOut |-> FALSE, failed |-> e.failed, upgradeAt |-> e.upgradeAt,
             upgradeTries |-> e.upgradeTries, saidDialing |-> e.saidDialing,
             saidDegraded |-> e.saidDegraded]
    BY <1>1, <1>4, <2>d, <2>b DEF LostPeer, PeerRec
  <2>2. f \in PeerRec /\ ~f.dialOut
    BY <2>1 DEF PeerRec, None
  <2> QED
    BY <1>1, <2>2
<1> QED
  BY <1>2, <1>3, <1>4 DEF PeerRec

LEMMA OnPathType ==
    ASSUME NEW e \in PeerRec, NEW path \in {"relay", "direct"}, NEW now \in Nat, NEW j \in Nat
    PROVE  OnPath(e, path, now, j) \in PeerRec /\ OnPath(e, path, now, j).dialOut = e.dialOut
<1>1. PICK f : f = OnPath(e, path, now, j)
  OBVIOUS
<1>2. PICK n \in Nat : n = IF path = "relay" /\ ~OnRelay(e)
                           THEN now + Delay(UpgradeBackoff, e.upgradeTries, j) ELSE e.upgradeAt
  BY DelayIsPositive, BackoffIs DEF PeerRec
<1>3. f = [connected |-> e.connected, path |-> path, since |-> e.since, lostAt |-> e.lostAt,
           backlog |-> e.backlog, interest |-> e.interest, dialAt |-> e.dialAt,
           dialTries |-> e.dialTries, dialOut |-> e.dialOut, failed |-> e.failed, upgradeAt |-> n,
           upgradeTries |-> e.upgradeTries, saidDialing |-> e.saidDialing,
           saidDegraded |-> e.saidDegraded]
  BY <1>1, <1>2 DEF OnPath, PeerRec
<1>4. f \in PeerRec /\ f.dialOut = e.dialOut
  BY <1>3 DEF PeerRec
<1> QED
  BY <1>1, <1>4

\* Driving an entry starts a dial where one is due, and sets what is due in the
\* future.
LEMMA DrivePeerType ==
    ASSUME NEW e \in PeerRec, NEW now \in Nat, NEW j \in Nat
    PROVE  /\ DrivePeer(e, now, j) \in PeerRec
           /\ DrivePeer(e, now, j).dialOut <=> e.dialOut \/ (DialDue(e, now) /\ e.dialAt <= now)
           /\ DialDue(DrivePeer(e, now, j), now) => DrivePeer(e, now, j).dialAt > now
           /\ UpgradeDue(DrivePeer(e, now, j), now) => DrivePeer(e, now, j).upgradeAt > now
<1>1. PICK d \in Nat \ {0} : d = Delay(UpgradeBackoff, Bump(e.upgradeTries), j)
  BY DelayIsPositive, BackoffIs, BumpType DEF PeerRec
<1>2. PICK f : f = DrivePeer(e, now, j)
  OBVIOUS
<1>3. /\ f.connected = e.connected /\ f.path = e.path /\ f.since = e.since /\ f.lostAt = e.lostAt
      /\ f.backlog = e.backlog /\ f.interest = e.interest /\ f.dialAt = e.dialAt
      /\ f.dialTries = e.dialTries /\ f.failed = e.failed /\ f.saidDegraded = e.saidDegraded
  BY <1>2 DEF DrivePeer, PeerRec
<1>4. f.dialOut <=> e.dialOut \/ (DialDue(e, now) /\ e.dialAt <= now)
  BY <1>2 DEF DrivePeer, PeerRec
<1>5. f.upgradeAt = IF UpgradeDue(e, now) /\ e.upgradeAt <= now THEN now + d ELSE e.upgradeAt
  BY <1>1, <1>2 DEF DrivePeer, PeerRec
<1>6. f \in PeerRec
  <2>1. PICK n \in 0..AttemptCap : n = IF UpgradeDue(e, now) /\ e.upgradeAt <= now
                                       THEN Bump(e.upgradeTries) ELSE e.upgradeTries
    BY BumpType DEF PeerRec
  <2>2. PICK at \in Nat : at = f.upgradeAt
    BY <1>5 DEF PeerRec
  <2>3. PICK a \in BOOLEAN : a = (e.dialOut \/ (DialDue(e, now) /\ e.dialAt <= now))
    OBVIOUS
  <2>4. PICK b \in BOOLEAN : b = (e.saidDialing \/ (DialDue(e, now) /\ e.dialAt <= now))
    OBVIOUS
  <2>5. f = [connected |-> e.connected, path |-> e.path, since |-> e.since, lostAt |-> e.lostAt,
             backlog |-> e.backlog, interest |-> e.interest, dialAt |-> e.dialAt,
             dialTries |-> e.dialTries, dialOut |-> a, failed |-> e.failed, upgradeAt |-> at,
             upgradeTries |-> n, saidDialing |-> b, saidDegraded |-> e.saidDegraded]
    BY <1>1, <1>2, <1>5, <2>1, <2>2, <2>3, <2>4 DEF DrivePeer, PeerRec
  <2> QED
    BY <2>5 DEF PeerRec
<1>7. DialDue(f, now) => f.dialAt > now
  BY <1>3, <1>4 DEF DialDue, Wanted, InUse, PeerRec
<1>8. UpgradeDue(f, now) => f.upgradeAt > now
  BY <1>3, <1>5 DEF UpgradeDue, OnRelay, InUse, PeerRec
<1> QED
  BY <1>2, <1>4, <1>6, <1>7, <1>8

-----------------------------------------------------------------------------
(* The core: what each handler leaves and asks for.                        *)

\* A core whose wake-up is a time of the clock, or none.
Fine(c) == c \in CoreRec /\ c.probe.nextAt \in Nat \cup {None}

Commands ==
    {ToServer(w) : w \in {"rebind", "probe", "force", "Healing", "Healed"}}
    \cup {<<w, p>> : w \in {"PeerRestored", "Degraded", "PeerDialing", "dial", "upgrade"}, p \in Peers}

\* While the core holds the link for lost, it holds that it has said so.
Heals(c) == c.link = "Reconnecting" => c.healing

\* A mark the core sets on itself for something out comes with the command that
\* starts it.
Asked(o, c) ==
    /\ o.core.forcing => c.forcing \/ ToServer("force") \in o.cmds
    /\ o.core.probe.inFlight => c.probe.inFlight \/ ToServer("probe") \in o.cmds
    /\ \A p \in Peers : o.core.peers[p].dialOut => c.peers[p].dialOut \/ <<"dial", p>> \in o.cmds

\* What it holds to have said it has said.
Said(o, c) ==
    /\ Heals(o.core)
    /\ o.core.healing => (c.healing /\ ToServer("Healed") \notin o.cmds) \/ ToServer("Healing") \in o.cmds

Handled(o, c) == Fine(o.core) /\ o.cmds \in SUBSET Commands /\ Asked(o, c) /\ Said(o, c)

LEMMA ServerCommands ==
    /\ \A w \in {"rebind", "probe", "force", "Healing", "Healed"} : ToServer(w) \in Commands
    /\ \A w, v : ToServer(w) = ToServer(v) => w = v
    /\ \A w, v : \A p \in Peers : ToServer(w) # <<v, p>>
BY PolicyAssumption DEF Commands, ToServer

LEMMA PeerCommands ==
    \A p \in Peers, w \in {"PeerRestored", "Degraded", "PeerDialing", "dial", "upgrade"} : <<w, p>> \in Commands
BY DEF Commands

\* The fields of a core.
LEMMA CoreIs ==
    ASSUME NEW c, Fine(c)
    PROVE  /\ c.link \in {"Up", "Reconnecting", "Ended"} /\ c.now \in 0..MaxTime /\ c.now \in Nat
           /\ c.peers \in [Peers -> PeerRec]
           /\ c.healing \in BOOLEAN /\ c.forcing \in BOOLEAN /\ c.afterChange \in BOOLEAN
           /\ c.probe \in ProbeRec
           /\ c.probe.nextAt \in Nat \cup {None} /\ c.probe.missed \in 0..(MissedProbes - 1)
           /\ c.probe.inFlight \in BOOLEAN /\ c.probe.recheck \in BOOLEAN
BY SupervisorAssumption DEF Fine, CoreRec, ProbeRec

LEMMA FineCore ==
    ASSUME NEW link \in {"Up", "Reconnecting", "Ended"}, NEW now \in 0..MaxTime,
           NEW peers \in [Peers -> PeerRec], NEW healing \in BOOLEAN, NEW forcing \in BOOLEAN,
           NEW after \in BOOLEAN, NEW next \in Nat \cup {None}, NEW out \in BOOLEAN,
           NEW missed \in 0..(MissedProbes - 1), NEW recheck \in BOOLEAN
    PROVE  Fine([link |-> link, now |-> now,
                 probe |-> [nextAt |-> next, inFlight |-> out, missed |-> missed, recheck |-> recheck],
                 peers |-> peers, healing |-> healing, forcing |-> forcing, afterChange |-> after])
BY DEF Fine, CoreRec, ProbeRec, None

LEMMA AtType ==
    ASSUME NEW c, Fine(c), NEW now \in 0..MaxTime
    PROVE  /\ Fine(At(c, now)) /\ At(c, now).now = now
           /\ At(c, now).link = c.link /\ At(c, now).probe = c.probe /\ At(c, now).peers = c.peers
           /\ At(c, now).healing = c.healing /\ At(c, now).forcing = c.forcing
<1>1. PICK d : d = At(c, now)
  OBVIOUS
<1>2. d = [link |-> c.link, now |-> now, probe |-> c.probe, peers |-> c.peers,
           healing |-> c.healing, forcing |-> c.forcing, afterChange |-> c.afterChange]
  BY <1>1 DEF At, Fine, CoreRec
<1>3. Fine(d)
  BY <1>2, CoreIs DEF Fine, CoreRec
<1> QED
  BY <1>1, <1>2, <1>3

LEMMA WithPeers ==
    ASSUME NEW c, Fine(c), NEW ps \in [Peers -> PeerRec]
    PROVE  /\ Fine([c EXCEPT !.peers = ps])
           /\ [c EXCEPT !.peers = ps].peers = ps /\ [c EXCEPT !.peers = ps].now = c.now
           /\ [c EXCEPT !.peers = ps].link = c.link /\ [c EXCEPT !.peers = ps].probe = c.probe
           /\ [c EXCEPT !.peers = ps].healing = c.healing /\ [c EXCEPT !.peers = ps].forcing = c.forcing
<1>1. PICK d : d = [c EXCEPT !.peers = ps]
  OBVIOUS
<1>2. d = [link |-> c.link, now |-> c.now, probe |-> c.probe, peers |-> ps,
           healing |-> c.healing, forcing |-> c.forcing, afterChange |-> c.afterChange]
  BY <1>1 DEF Fine, CoreRec
<1>3. Fine(d)
  BY <1>2, CoreIs DEF Fine, CoreRec
<1> QED
  BY <1>1, <1>2, <1>3

LEMMA SetPeerType ==
    ASSUME NEW c, Fine(c), NEW p \in Peers, NEW e \in PeerRec
    PROVE  /\ Fine(SetPeer(c, p, e)) /\ SetPeer(c, p, e).peers[p] = e
           /\ \A q \in Peers \ {p} : SetPeer(c, p, e).peers[q] = c.peers[q]
           /\ SetPeer(c, p, e).link = c.link /\ SetPeer(c, p, e).probe = c.probe
           /\ SetPeer(c, p, e).healing = c.healing /\ SetPeer(c, p, e).forcing = c.forcing
           /\ SetPeer(c, p, e).now = c.now
<1>1. PICK ps \in [Peers -> PeerRec] : ps = [c.peers EXCEPT ![p] = e]
  BY CoreIs
<1>2. SetPeer(c, p, e) = [c EXCEPT !.peers = ps]
  BY <1>1 DEF SetPeer
<1> QED
  BY <1>1, <1>2, WithPeers, CoreIs

\* A handler that leaves the link and the probe as they are.
LEMMA OnlyPeers ==
    ASSUME NEW c, Fine(c), Heals(c), NEW o, Fine(o.core), o.core.link = c.link,
           o.core.probe = c.probe, o.core.healing = c.healing, o.core.forcing = c.forcing,
           NEW w \in {"PeerRestored", "Degraded", "upgrade"},
           o.cmds \subseteq {<<w, p>> : p \in Peers},
           \A p \in Peers : o.core.peers[p].dialOut => c.peers[p].dialOut
    PROVE  Handled(o, c)
<1>1. o.cmds \in SUBSET Commands
  BY PeerCommands
<1>2. ToServer("Healed") \notin o.cmds
  BY ServerCommands
<1> QED
  BY <1>1, <1>2 DEF Handled, Asked, Said, Heals

LEMMA NetworkChangedAsks ==
    ASSUME NEW c, Fine(c), Heals(c)
    PROVE  Handled(NetworkChanged(c), c)
<1>1. PICK o : o = NetworkChanged(c)
  OBVIOUS
<1>2. PICK out \in BOOLEAN : out = (c.probe.inFlight \/ Watching(c))
  OBVIOUS
<1>3. PICK re \in BOOLEAN : re = (c.probe.recheck \/ (Watching(c) /\ c.probe.inFlight))
  OBVIOUS
<1>4. o.core = [link |-> c.link, now |-> c.now,
                probe |-> [nextAt |-> c.probe.nextAt, inFlight |-> out, missed |-> 0, recheck |-> re],
                peers |-> c.peers, healing |-> c.healing, forcing |-> c.forcing, afterChange |-> TRUE]
  BY <1>1, <1>2, <1>3 DEF NetworkChanged, Out, Fine, CoreRec, ProbeRec
<1>5. o.cmds = {ToServer("rebind")} \cup If(Watching(c) /\ ~c.probe.inFlight, ToServer("probe"))
  BY <1>1 DEF NetworkChanged, Out
<1>6. Fine(o.core)
  <2>1. 0 \in 0..(MissedProbes - 1)
    BY PolicyAssumption
  <2> QED
    BY <1>4, <2>1, CoreIs DEF Fine, CoreRec, ProbeRec
<1>7. o.cmds \in SUBSET Commands /\ ToServer("Healed") \notin o.cmds
  BY <1>5, ServerCommands DEF If
<1>8. Asked(o, c)
  <2>1. o.core.probe.inFlight => c.probe.inFlight \/ ToServer("probe") \in o.cmds
    <3>1. o.core.probe.inFlight = out
      BY <1>4
    <3>2. CASE c.probe.inFlight
      BY <3>2
    <3>3. CASE Watching(c) /\ ~c.probe.inFlight
      BY <1>5, <3>3 DEF If
    <3> QED
      BY <1>2, <3>1, <3>2, <3>3
  <2> QED
    BY <1>4, <2>1 DEF Asked
<1>9. Said(o, c)
  BY <1>4, <1>7 DEF Said, Heals
<1> QED
  BY <1>1, <1>6, <1>7, <1>8, <1>9 DEF Handled

LEMMA RearmRelayedKeeps ==
    ASSUME NEW c, Fine(c), NEW jit \in Jitters
    PROVE  /\ Fine(RearmRelayed(c, jit).core)
           /\ RearmRelayed(c, jit).core.link = c.link /\ RearmRelayed(c, jit).core.probe = c.probe
           /\ RearmRelayed(c, jit).core.healing = c.healing /\ RearmRelayed(c, jit).core.forcing = c.forcing
           /\ RearmRelayed(c, jit).cmds \subseteq {<<"upgrade", p>> : p \in Peers}
           /\ \A p \in Peers : RearmRelayed(c, jit).core.peers[p].dialOut = c.peers[p].dialOut
<1>1. CASE ~c.afterChange
  BY <1>1 DEF RearmRelayed, Out
<1>2. CASE c.afterChange
  <2>1. PICK ps : ps = [p \in Peers |->
                           IF OnRelay(c.peers[p])
                           THEN [c.peers[p] EXCEPT !.upgradeTries = 0,
                                                   !.upgradeAt = c.now + Delay(UpgradeBackoff, 0, jit[p])]
                           ELSE c.peers[p]]
    OBVIOUS
  <2>2. ASSUME NEW p \in Peers PROVE ps[p] \in PeerRec /\ ps[p].dialOut = c.peers[p].dialOut
    <3>1. c.peers[p] \in PeerRec /\ jit[p] \in Nat
      BY CoreIs, SupervisorAssumption DEF Jitters
    <3>2. PICK n \in Nat : n = c.now + Delay(UpgradeBackoff, 0, jit[p])
      <4>1. 0 \in 0..AttemptCap
        BY PolicyAssumption
      <4>2. Delay(UpgradeBackoff, 0, jit[p]) \in Nat
        BY <3>1, <4>1, DelayIsPositive, BackoffIs
      <4> QED
        BY <4>2, CoreIs
    <3>3. PICK e \in PeerRec : e = c.peers[p]
      BY <3>1
    <3>4. PICK f : f = [e EXCEPT !.upgradeTries = 0, !.upgradeAt = n]
      OBVIOUS
    <3>5. f = [connected |-> e.connected, path |-> e.path, since |-> e.since, lostAt |-> e.lostAt,
               backlog |-> e.backlog, interest |-> e.interest, dialAt |-> e.dialAt,
               dialTries |-> e.dialTries, dialOut |-> e.dialOut, failed |-> e.failed,
               upgradeAt |-> n, upgradeTries |-> 0, saidDialing |-> e.saidDialing,
               saidDegraded |-> e.saidDegraded]
      BY <3>4 DEF PeerRec
    <3>6. f \in PeerRec /\ f.dialOut = e.dialOut
      BY <3>5, PolicyAssumption DEF PeerRec
    <3>7. ps[p] = IF OnRelay(e) THEN f ELSE e
      BY <2>1, <3>2, <3>3, <3>4
    <3> QED
      BY <3>3, <3>6, <3>7
  <2>3. ps \in [Peers -> PeerRec]
    BY <2>1, <2>2
  <2>4. RearmRelayed(c, jit).core =
           [link |-> c.link, now |-> c.now, probe |-> c.probe, peers |-> ps, healing |-> c.healing,
            forcing |-> c.forcing, afterChange |-> FALSE]
    BY <1>2, <2>1 DEF RearmRelayed, Out, Fine, CoreRec
  <2>5. RearmRelayed(c, jit).cmds \subseteq {<<"upgrade", p>> : p \in Peers}
    BY <1>2 DEF RearmRelayed, Out
  <2>6. Fine(RearmRelayed(c, jit).core)
    BY <2>3, <2>4, CoreIs DEF Fine, CoreRec
  <2> QED
    BY <2>2, <2>4, <2>5, <2>6
<1> QED
  BY <1>1, <1>2, CoreIs

\* The core once a probe has ended.
Answered(c) == [c EXCEPT !.probe.inFlight = FALSE]

LEMMA AnsweredType ==
    ASSUME NEW c, Fine(c)
    PROVE  /\ Fine(Answered(c)) /\ Answered(c).link = c.link /\ Answered(c).now = c.now
           /\ Answered(c).peers = c.peers /\ Answered(c).healing = c.healing
           /\ Answered(c).forcing = c.forcing /\ ~Answered(c).probe.inFlight
           /\ Answered(c).probe.missed = c.probe.missed
<1>1. PICK d : d = Answered(c)
  OBVIOUS
<1>2. d = [link |-> c.link, now |-> c.now,
           probe |-> [nextAt |-> c.probe.nextAt, inFlight |-> FALSE, missed |-> c.probe.missed,
                      recheck |-> c.probe.recheck],
           peers |-> c.peers, healing |-> c.healing, forcing |-> c.forcing,
           afterChange |-> c.afterChange]
  BY <1>1 DEF Answered, Fine, CoreRec, ProbeRec
<1>3. Fine(d)
  BY <1>2, CoreIs DEF Fine, CoreRec, ProbeRec
<1> QED
  BY <1>1, <1>2, <1>3

\* A probe that ended well: the next is set, and the windows hear of it.
LEMMA ProbedOkAsks ==
    ASSUME NEW c, Fine(c), c.link = "Up", ~c.probe.inFlight, NEW jit \in Jitters
    PROVE  Handled(ProbedOk(c, jit), c) /\ ~ProbedOk(c, jit).core.probe.inFlight
<1>1. PICK d : d = [c EXCEPT !.probe.missed = 0, !.probe.nextAt = c.now + ProbeInterval]
  OBVIOUS
<1>2. d = [link |-> c.link, now |-> c.now,
           probe |-> [nextAt |-> c.now + ProbeInterval, inFlight |-> c.probe.inFlight, missed |-> 0,
                      recheck |-> c.probe.recheck],
           peers |-> c.peers, healing |-> c.healing, forcing |-> c.forcing,
           afterChange |-> c.afterChange]
  BY <1>1 DEF Fine, CoreRec, ProbeRec
<1>3. Fine(d)
  <2>1. 0 \in 0..(MissedProbes - 1) /\ c.now + ProbeInterval \in Nat
    BY CoreIs, PolicyAssumption
  <2> QED
    BY <1>2, <2>1, CoreIs DEF Fine, CoreRec, ProbeRec
<1>4. PICK r : r = RearmRelayed(d, jit)
  OBVIOUS
<1>5. /\ Fine(r.core) /\ r.core.link = "Up" /\ ~r.core.probe.inFlight /\ r.core.forcing = c.forcing
      /\ r.cmds \subseteq {<<"upgrade", p>> : p \in Peers}
      /\ \A p \in Peers : r.core.peers[p].dialOut = c.peers[p].dialOut
  <2>1. d.link = "Up" /\ ~d.probe.inFlight /\ d.forcing = c.forcing /\ d.peers = c.peers
    BY <1>2
  <2> QED
    BY <1>3, <1>4, <2>1, RearmRelayedKeeps
<1>6. PICK o : o = ProbedOk(c, jit)
  OBVIOUS
<1>7. o.core = [r.core EXCEPT !.healing = FALSE] /\ o.cmds = r.cmds \cup If(c.healing, ToServer("Healed"))
  BY <1>1, <1>4, <1>6 DEF ProbedOk, Out
<1>8. o.core = [link |-> r.core.link, now |-> r.core.now, probe |-> r.core.probe, peers |-> r.core.peers,
                healing |-> FALSE, forcing |-> r.core.forcing, afterChange |-> r.core.afterChange]
  BY <1>5, <1>7 DEF Fine, CoreRec
<1>9. Fine(o.core)
  BY <1>5, <1>8, CoreIs DEF Fine, CoreRec
<1>10. o.cmds \in SUBSET Commands
  <2>1. r.cmds \subseteq Commands
    BY <1>5, PeerCommands
  <2>2. If(c.healing, ToServer("Healed")) \subseteq Commands
    BY ServerCommands DEF If
  <2> QED
    BY <1>7, <2>1, <2>2
<1>11. Asked(o, c) /\ Said(o, c) /\ ~o.core.probe.inFlight
  BY <1>5, <1>8 DEF Asked, Said, Heals
<1> QED
  BY <1>6, <1>9, <1>10, <1>11 DEF Handled

\* A probe that timed out: another one, or the link is forced.
LEMMA ProbedTimeoutAsks ==
    ASSUME NEW c, Fine(c), Heals(c), ~c.probe.inFlight
    PROVE  /\ Handled(ProbedTimeout(c), c)
           /\ ProbedTimeout(c).core.probe.inFlight => ToServer("probe") \in ProbedTimeout(c).cmds
<1>1. PICK o : o = ProbedTimeout(c)
  OBVIOUS
<1>2. CASE c.probe.missed + 1 < MissedProbes
  <2>1. o.core = [link |-> c.link, now |-> c.now,
                  probe |-> [nextAt |-> c.probe.nextAt, inFlight |-> TRUE, missed |-> c.probe.missed + 1,
                             recheck |-> c.probe.recheck],
                  peers |-> c.peers, healing |-> c.healing, forcing |-> c.forcing,
                  afterChange |-> c.afterChange]
    BY <1>1, <1>2 DEF ProbedTimeout, Out, Fine, CoreRec, ProbeRec
  <2>2. o.cmds = {ToServer("probe")}
    BY <1>1, <1>2 DEF ProbedTimeout, Out
  <2>3. Fine(o.core)
    <3>1. c.probe.missed + 1 \in 0..(MissedProbes - 1)
      BY <1>2, CoreIs, PolicyAssumption
    <3> QED
      BY <2>1, <3>1, CoreIs DEF Fine, CoreRec, ProbeRec
  <2>4. o.cmds \in SUBSET Commands /\ ToServer("Healed") \notin o.cmds
    BY <2>2, ServerCommands
  <2>5. Asked(o, c) /\ Said(o, c)
    BY <2>1, <2>2, <2>4 DEF Asked, Said, Heals
  <2> QED
    BY <1>1, <2>2, <2>3, <2>4, <2>5 DEF Handled
<1>3. CASE ~(c.probe.missed + 1 < MissedProbes)
  <2>1. o.core = [link |-> c.link, now |-> c.now,
                  probe |-> [nextAt |-> c.probe.nextAt, inFlight |-> c.probe.inFlight, missed |-> 0,
                             recheck |-> c.probe.recheck],
                  peers |-> c.peers, healing |-> TRUE, forcing |-> TRUE, afterChange |-> FALSE]
    BY <1>1, <1>3 DEF ProbedTimeout, Out, Fine, CoreRec, ProbeRec
  <2>2. o.cmds = {ToServer("force")} \cup If(~c.healing, ToServer("Healing"))
    BY <1>1, <1>3 DEF ProbedTimeout, Out
  <2>3. Fine(o.core)
    <3>1. 0 \in 0..(MissedProbes - 1)
      BY PolicyAssumption
    <3> QED
      BY <2>1, <3>1, CoreIs DEF Fine, CoreRec, ProbeRec
  <2>4. o.cmds \in SUBSET Commands /\ ToServer("Healed") \notin o.cmds
    BY <2>2, ServerCommands DEF If
  <2>5. Asked(o, c)
    BY <2>1, <2>2 DEF Asked
  <2>6. c.healing \/ ToServer("Healing") \in o.cmds
    BY <2>2 DEF If
  <2>7. Said(o, c)
    BY <2>1, <2>4, <2>6 DEF Said, Heals
  <2>8. ~o.core.probe.inFlight
    BY <2>1
  <2> QED
    BY <1>1, <2>3, <2>4, <2>5, <2>7, <2>8 DEF Handled
<1> QED
  BY <1>2, <1>3

\* A probe's answer: nothing is out any more, unless it asks for another.
LEMMA ProbedAsks ==
    ASSUME NEW c, Fine(c), Heals(c), NEW outcome \in Outcomes, NEW jit \in Jitters
    PROVE  /\ Handled(Probed(c, outcome, jit), c)
           /\ Probed(c, outcome, jit).core.probe.inFlight => ToServer("probe") \in Probed(c, outcome, jit).cmds
<1>1. PICK o : o = Probed(c, outcome, jit)
  OBVIOUS
<1>i. PICK d : d = Answered(c)
  OBVIOUS
<1>2. /\ Fine(d) /\ d.link = c.link /\ d.now = c.now /\ d.peers = c.peers /\ d.healing = c.healing
      /\ d.forcing = c.forcing /\ ~d.probe.inFlight /\ Heals(d)
  BY <1>i, AnsweredType DEF Heals
<1>3. ASSUME NEW q, Handled(q, d), q.core.probe.inFlight => ToServer("probe") \in q.cmds
      PROVE  Handled(q, c)
  BY <1>2, <1>3 DEF Handled, Asked, Said
<1>4. ASSUME o.core = d, o.cmds = {}
      PROVE  Handled(o, c) /\ ~o.core.probe.inFlight
  BY <1>2, <1>4 DEF Handled, Asked, Said
<1>5. CASE c.link # "Up"
  <2>1. o.core = d /\ o.cmds = {}
    BY <1>1, <1>5, <1>i DEF Probed, Out, Answered
  <2> QED
    BY <1>1, <1>4, <2>1
<1>6. CASE c.link = "Up" /\ c.probe.recheck
  <2>1. o.core = [link |-> c.link, now |-> c.now,
                  probe |-> [nextAt |-> c.probe.nextAt, inFlight |-> TRUE, missed |-> c.probe.missed,
                             recheck |-> FALSE],
                  peers |-> c.peers, healing |-> c.healing, forcing |-> c.forcing,
                  afterChange |-> c.afterChange]
    BY <1>1, <1>6 DEF Probed, Out, Fine, CoreRec, ProbeRec
  <2>2. o.cmds = {ToServer("probe")}
    BY <1>1, <1>6 DEF Probed, Out
  <2>3. Fine(o.core)
    BY <2>1, CoreIs DEF Fine, CoreRec, ProbeRec
  <2>4. o.cmds \in SUBSET Commands /\ ToServer("Healed") \notin o.cmds
    BY <2>2, ServerCommands
  <2>5. Asked(o, c) /\ Said(o, c)
    BY <2>1, <2>2, <2>4 DEF Asked, Said, Heals
  <2> QED
    BY <1>1, <2>2, <2>3, <2>4, <2>5 DEF Handled
<1>7. CASE c.link = "Up" /\ ~c.probe.recheck /\ outcome = "Ok"
  <2>1. o = ProbedOk(d, jit)
    BY <1>1, <1>7, <1>i DEF Probed, Answered
  <2>2. Handled(o, d) /\ ~o.core.probe.inFlight
    BY <1>2, <1>7, <2>1, ProbedOkAsks
  <2> QED
    BY <1>1, <1>3, <2>2
<1>8. CASE c.link = "Up" /\ ~c.probe.recheck /\ outcome = "Timeout"
  <2>1. o = ProbedTimeout(d)
    BY <1>1, <1>8, <1>i DEF Probed, Answered
  <2>2. Handled(o, d) /\ (o.core.probe.inFlight => ToServer("probe") \in o.cmds)
    BY <1>2, <2>1, ProbedTimeoutAsks
  <2> QED
    BY <1>1, <1>3, <2>2
<1>9. CASE c.link = "Up" /\ ~c.probe.recheck /\ outcome = "Error"
  <2>1. o.core = [link |-> c.link, now |-> c.now,
                  probe |-> [nextAt |-> c.now + ProbeInterval, inFlight |-> FALSE,
                             missed |-> c.probe.missed, recheck |-> c.probe.recheck],
                  peers |-> c.peers, healing |-> c.healing, forcing |-> c.forcing,
                  afterChange |-> c.afterChange]
    BY <1>1, <1>9 DEF Probed, Out, Fine, CoreRec, ProbeRec
  <2>2. o.cmds = {}
    BY <1>1, <1>9 DEF Probed, Out
  <2>3. Fine(o.core)
    <3>1. c.now + ProbeInterval \in Nat
      BY CoreIs, PolicyAssumption
    <3> QED
      BY <2>1, <3>1, CoreIs DEF Fine, CoreRec, ProbeRec
  <2>4. Asked(o, c) /\ Said(o, c) /\ ~o.core.probe.inFlight
    BY <2>1, <2>2 DEF Asked, Said, Heals
  <2> QED
    BY <1>1, <2>2, <2>3, <2>4 DEF Handled
<1> QED
  BY <1>5, <1>6, <1>7, <1>8, <1>9 DEF Outcomes

LEMMA RearmedType ==
    ASSUME NEW now \in Nat
    PROVE  /\ Rearmed(now) \in ProbeRec /\ Rearmed(now).nextAt \in Nat /\ ~Rearmed(now).inFlight
           /\ NewProbe \in ProbeRec /\ NewProbe.nextAt = None /\ ~NewProbe.inFlight
<1>1. now + ProbeInterval \in Nat /\ now + ProbeInterval \in Int /\ 0 \in 0..(MissedProbes - 1) /\ None \in Int
  BY PolicyAssumption DEF None
<1>2. PICK b \in ProbeRec : b = NewProbe
  BY <1>1 DEF NewProbe, ProbeRec
<1>3. b.nextAt = None /\ b.inFlight = FALSE /\ b.missed = 0 /\ b.recheck = FALSE
  BY <1>2 DEF NewProbe
<1>4. PICK f : f = [b EXCEPT !.nextAt = now + ProbeInterval]
  OBVIOUS
<1>5. f \in ProbeRec /\ f.nextAt = now + ProbeInterval /\ f.inFlight = FALSE
  BY <1>1, <1>3, <1>4 DEF ProbeRec
<1>6. f = Rearmed(now)
  BY <1>2, <1>4 DEF Rearmed
<1> QED
  BY <1>1, <1>2, <1>3, <1>5, <1>6

\* The force failed: nothing is out, and probing starts over.
LEMMA ForceFailedAsks ==
    ASSUME NEW c, Fine(c), Heals(c)
    PROVE  Handled(ForceFailed(c), c) /\ ~ForceFailed(c).core.forcing /\ ForceFailed(c).cmds = {}
<1>1. PICK o : o = ForceFailed(c)
  OBVIOUS
<1>2. o.core = [link |-> c.link, now |-> c.now, probe |-> Rearmed(c.now), peers |-> c.peers,
                healing |-> c.healing, forcing |-> FALSE, afterChange |-> c.afterChange]
  BY <1>1 DEF ForceFailed, Out, Fine, CoreRec
<1>3. o.cmds = {}
  BY <1>1 DEF ForceFailed, Out
<1>4. Fine(o.core)
  BY <1>2, CoreIs, RearmedType DEF Fine, CoreRec
<1>5. Asked(o, c) /\ Said(o, c) /\ ~o.core.forcing
  BY <1>2, <1>3, CoreIs, RearmedType DEF Asked, Said, Heals
<1> QED
  BY <1>1, <1>3, <1>4, <1>5 DEF Handled

\* Word of the link, either way: no force and no probe is out.
LEMMA LinkChangedAsks ==
    ASSUME NEW c, Fine(c), Heals(c), NEW state \in {"Up", "Reconnecting"}, NEW jit \in Jitters
    PROVE  /\ Handled(LinkChanged(c, state, jit), c)
           /\ ~LinkChanged(c, state, jit).core.forcing
           /\ ~LinkChanged(c, state, jit).core.probe.inFlight
<1>1. PICK o : o = LinkChanged(c, state, jit)
  OBVIOUS
<1>2. CASE state = "Up"
  <2>1. o.core = [link |-> "Up", now |-> c.now, probe |-> Rearmed(c.now), peers |-> c.peers,
                  healing |-> FALSE, forcing |-> FALSE, afterChange |-> c.afterChange]
    BY <1>1, <1>2 DEF LinkChanged, Out, Fine, CoreRec
  <2>2. o.cmds = If(c.healing, ToServer("Healed"))
    BY <1>1, <1>2 DEF LinkChanged, Out
  <2>3. Fine(o.core)
    BY <2>1, CoreIs, RearmedType DEF Fine, CoreRec
  <2>4. o.cmds \in SUBSET Commands
    BY <2>2, ServerCommands DEF If
  <2>5. ~o.core.forcing /\ ~o.core.probe.inFlight /\ o.core.peers = c.peers
    BY <2>1, CoreIs, RearmedType
  <2>6. Said(o, c)
    BY <2>1 DEF Said, Heals
  <2> QED
    BY <1>1, <2>3, <2>4, <2>5, <2>6 DEF Handled, Asked
<1>3. CASE state = "Reconnecting"
  <2>1. PICK ps : ps = [p \in Peers |-> IF c.peers[p].connected
                                        THEN LostPeer(c.peers[p], c.now, jit[p]) ELSE c.peers[p]]
    OBVIOUS
  <2>2. ASSUME NEW p \in Peers PROVE ps[p] \in PeerRec /\ (ps[p].dialOut => c.peers[p].dialOut)
    <3>1. c.peers[p] \in PeerRec /\ jit[p] \in Nat /\ c.now \in Nat
      BY CoreIs, SupervisorAssumption DEF Jitters
    <3>2. LostPeer(c.peers[p], c.now, jit[p]) \in PeerRec /\ ~LostPeer(c.peers[p], c.now, jit[p]).dialOut
      BY <3>1, LostPeerType
    <3> QED
      BY <2>1, <3>1, <3>2
  <2>3. ps \in [Peers -> PeerRec]
    BY <2>1, <2>2
  <2>4. o.core = [link |-> "Reconnecting", now |-> c.now, probe |-> NewProbe, peers |-> ps,
                  healing |-> TRUE, forcing |-> FALSE, afterChange |-> c.afterChange]
    BY <1>1, <1>3, <2>1 DEF LinkChanged, LoseLink, Out, Fine, CoreRec
  <2>5. o.cmds = If(~c.healing, ToServer("Healing"))
    BY <1>1, <1>3 DEF LinkChanged, LoseLink, Out
  <2>6. Fine(o.core)
    BY <2>3, <2>4, CoreIs, RearmedType DEF Fine, CoreRec
  <2>7. o.cmds \in SUBSET Commands /\ ToServer("Healed") \notin o.cmds
    BY <2>5, ServerCommands DEF If
  <2>8. ~o.core.forcing /\ ~o.core.probe.inFlight /\ o.core.peers = ps
    BY <2>4, CoreIs, RearmedType
  <2>9. c.healing \/ ToServer("Healing") \in o.cmds
    BY <2>5 DEF If
  <2>10. Said(o, c)
    BY <2>4, <2>7, <2>9 DEF Said, Heals
  <2> QED
    BY <1>1, <2>2, <2>6, <2>7, <2>8, <2>10 DEF Handled, Asked
<1> QED
  BY <1>2, <1>3

-----------------------------------------------------------------------------
(* The handlers about peers.                                               *)

LEMMA SettleAsks ==
    ASSUME NEW c, Fine(c), Heals(c)
    PROVE  Handled(Settle(c), c) /\ Settle(c).core.now = c.now /\ Settle(c).cmds = {}
<1>1. PICK ps : ps = [p \in Peers |->
                         IF c.peers[p].connected /\ Held(c.peers[p], c.now) /\ c.peers[p].path # "relay"
                         THEN [c.peers[p] EXCEPT !.upgradeTries = 0] ELSE c.peers[p]]
  OBVIOUS
<1>2. ASSUME NEW p \in Peers PROVE ps[p] \in PeerRec /\ ps[p].dialOut = c.peers[p].dialOut
  <2>1. PICK e \in PeerRec : e = c.peers[p]
    BY CoreIs
  <2>2. 0 \in 0..AttemptCap
    BY PolicyAssumption
  <2>3. [e EXCEPT !.upgradeTries = 0] \in PeerRec /\ [e EXCEPT !.upgradeTries = 0].dialOut = e.dialOut
    BY <2>2 DEF PeerRec
  <2> QED
    BY <1>1, <2>1, <2>3
<1>3. ps \in [Peers -> PeerRec]
  BY <1>1, <1>2
<1>4. PICK o : o = Settle(c)
  OBVIOUS
<1>5. o.core = [c EXCEPT !.peers = ps] /\ o.cmds = {}
  BY <1>1, <1>4 DEF Settle, Out
<1>6. /\ Fine(o.core) /\ o.core.link = c.link /\ o.core.probe = c.probe /\ o.core.healing = c.healing
      /\ o.core.forcing = c.forcing /\ o.core.peers = ps /\ o.core.now = c.now
  BY <1>3, <1>5, WithPeers
<1>7. o.cmds \subseteq {<<"upgrade", p>> : p \in Peers}
  BY <1>5
<1>8. \A p \in Peers : o.core.peers[p].dialOut => c.peers[p].dialOut
  BY <1>2, <1>6
<1> QED
  BY <1>4, <1>5, <1>6, <1>7, <1>8, OnlyPeers

\* One entry replaced, its dial no more out than before.
LEMMA OneEntry ==
    ASSUME NEW c, Fine(c), Heals(c), NEW p \in Peers, NEW e \in PeerRec, e.dialOut => c.peers[p].dialOut,
           NEW w \in {"PeerRestored", "Degraded", "upgrade"}, NEW cmds,
           cmds \subseteq {<<w, q>> : q \in Peers}
    PROVE  Handled(Out(SetPeer(c, p, e), cmds), c)
<1>1. PICK o : o = Out(SetPeer(c, p, e), cmds)
  OBVIOUS
<1>2. o.core = SetPeer(c, p, e) /\ o.cmds = cmds
  BY <1>1 DEF Out
<1>3. /\ Fine(o.core) /\ o.core.link = c.link /\ o.core.probe = c.probe /\ o.core.healing = c.healing
      /\ o.core.forcing = c.forcing
      /\ o.core.peers[p] = e /\ \A q \in Peers \ {p} : o.core.peers[q] = c.peers[q]
  BY <1>2, SetPeerType
<1>4. \A q \in Peers : o.core.peers[q].dialOut => c.peers[q].dialOut
  BY <1>3
<1> QED
  BY <1>1, <1>2, <1>3, <1>4, OnlyPeers

LEMMA NothingSaid == {} \subseteq {<<"upgrade", q>> : q \in Peers}
OBVIOUS

\* An entry and a draw of its jitter.
LEMMA EntryOf ==
    ASSUME NEW c, Fine(c), NEW p \in Peers
    PROVE  c.peers[p] \in PeerRec /\ c.now \in Nat
BY CoreIs

LEMMA PeerLostAsks ==
    ASSUME NEW c, Fine(c), Heals(c), NEW p \in Peers, NEW j \in Nat
    PROVE  Handled(PeerLost(c, p, j), c)
<1>1. LostPeer(c.peers[p], c.now, j) \in PeerRec /\ ~LostPeer(c.peers[p], c.now, j).dialOut
  BY EntryOf, LostPeerType
<1> QED
  BY <1>1, OneEntry, NothingSaid DEF PeerLost

LEMMA PeerReleasedAsks ==
    ASSUME NEW c, Fine(c), Heals(c), NEW p \in Peers, NEW j \in Nat
    PROVE  Handled(PeerReleased(c, p, j), c)
<1>1. PICK e \in PeerRec : e = LostPeer(c.peers[p], c.now, j) /\ ~e.dialOut
  BY EntryOf, LostPeerType
<1>2. PICK f : f = [e EXCEPT !.lostAt = None, !.interest = None]
  OBVIOUS
<1>3. f = [connected |-> e.connected, path |-> e.path, since |-> e.since, lostAt |-> None,
           backlog |-> e.backlog, interest |-> None, dialAt |-> e.dialAt,
           dialTries |-> e.dialTries, dialOut |-> e.dialOut, failed |-> e.failed,
           upgradeAt |-> e.upgradeAt, upgradeTries |-> e.upgradeTries,
           saidDialing |-> e.saidDialing, saidDegraded |-> e.saidDegraded]
  BY <1>2 DEF PeerRec
<1>4. f \in PeerRec /\ ~f.dialOut
  BY <1>1, <1>3 DEF PeerRec, None
<1>5. PeerReleased(c, p, j) = Out(SetPeer(c, p, f), {})
  BY <1>1, <1>2 DEF PeerReleased
<1> QED
  BY <1>4, <1>5, OneEntry, NothingSaid

LEMMA PeerReachableAsks ==
    ASSUME NEW c, Fine(c), Heals(c), NEW p \in Peers
    PROVE  Handled(PeerReachable(c, p), c)
<1>1. PICK e \in PeerRec : e = c.peers[p]
  BY EntryOf
<1>2. PICK n \in Nat : n = IF e.connected THEN e.dialAt ELSE c.now
  BY EntryOf DEF PeerRec
<1>3. PICK f : f = [e EXCEPT !.failed = 0, !.dialTries = 0, !.dialAt = IF e.connected THEN @ ELSE c.now]
  OBVIOUS
<1>4. f = [connected |-> e.connected, path |-> e.path, since |-> e.since, lostAt |-> e.lostAt,
           backlog |-> e.backlog, interest |-> e.interest, dialAt |-> n,
           dialTries |-> 0, dialOut |-> e.dialOut, failed |-> 0,
           upgradeAt |-> e.upgradeAt, upgradeTries |-> e.upgradeTries,
           saidDialing |-> e.saidDialing, saidDegraded |-> e.saidDegraded]
  BY <1>2, <1>3 DEF PeerRec
<1>5. f \in PeerRec /\ (f.dialOut => c.peers[p].dialOut)
  <2>1. 0 \in 0..AttemptCap /\ 0 \in 0..(UnreachableAfter + AttemptCap)
    BY PolicyAssumption
  <2> QED
    BY <1>1, <1>4, <2>1 DEF PeerRec
<1>6. PeerReachable(c, p) = Out(SetPeer(c, p, f), {})
  BY <1>1, <1>3 DEF PeerReachable
<1> QED
  BY <1>5, <1>6, OneEntry, NothingSaid

LEMMA PeerPathAsks ==
    ASSUME NEW c, Fine(c), Heals(c), NEW p \in Peers, NEW path \in {"relay", "direct"}, NEW j \in Nat
    PROVE  Handled(PeerPath(c, p, path, j), c)
<1>1. PICK e \in PeerRec : e = c.peers[p]
  BY EntryOf
<1>2. PICK now \in Nat : now = c.now
  BY EntryOf
<1>3. PICK f \in PeerRec : f = OnPath(e, path, now, j) /\ f.dialOut = e.dialOut
  BY OnPathType
<1>4. PeerPath(c, p, path, j) = Out(SetPeer(c, p, f), {})
  BY <1>1, <1>2, <1>3 DEF PeerPath
<1> QED
  BY <1>1, <1>3, <1>4, OneEntry, NothingSaid

LEMMA PeerUpAsks ==
    ASSUME NEW c, Fine(c), Heals(c), NEW p \in Peers, NEW path \in {"relay", "direct"}, NEW j \in Nat
    PROVE  Handled(PeerUp(c, p, path, j), c) /\ ~PeerUp(c, p, path, j).core.peers[p].dialOut
<1>1. PICK e \in PeerRec : e = c.peers[p]
  BY EntryOf
<1>2. PICK now \in Nat : now = c.now
  BY EntryOf
<1>3. PICK f : f = [e EXCEPT !.connected = TRUE, !.since = now, !.dialOut = FALSE, !.failed = 0,
                             !.saidDialing = FALSE, !.saidDegraded = FALSE, !.lostAt = None]
  OBVIOUS
<1>4. f = [connected |-> TRUE, path |-> e.path, since |-> now, lostAt |-> None,
           backlog |-> e.backlog, interest |-> e.interest, dialAt |-> e.dialAt,
           dialTries |-> e.dialTries, dialOut |-> FALSE, failed |-> 0,
           upgradeAt |-> e.upgradeAt, upgradeTries |-> e.upgradeTries,
           saidDialing |-> FALSE, saidDegraded |-> FALSE]
  BY <1>3 DEF PeerRec
<1>5. f \in PeerRec /\ ~f.dialOut
  <2>1. 0 \in 0..(UnreachableAfter + AttemptCap)
    BY PolicyAssumption
  <2> QED
    BY <1>4, <2>1 DEF PeerRec, None
<1>o. OnPath(f, path, now, j) \in PeerRec /\ OnPath(f, path, now, j).dialOut = f.dialOut
  BY <1>5, OnPathType, Zenon
<1>6. PICK g \in PeerRec : g = OnPath(f, path, now, j) /\ ~g.dialOut
  BY <1>5, <1>o
<1>7. PICK cmds : cmds = If(c.peers[p].lostAt # None, <<"PeerRestored", p>>)
  OBVIOUS
<1>8. PeerUp(c, p, path, j) = Out(SetPeer(c, p, g), cmds)
  BY <1>1, <1>2, <1>3, <1>6, <1>7 DEF PeerUp
<1>9. cmds \subseteq {<<"PeerRestored", q>> : q \in Peers}
  BY <1>7 DEF If
<1>10. Handled(Out(SetPeer(c, p, g), cmds), c)
  BY <1>6, <1>9, OneEntry
<1>11. Out(SetPeer(c, p, g), cmds).core.peers[p] = g
  BY SetPeerType DEF Out
<1> QED
  BY <1>6, <1>8, <1>10, <1>11

LEMMA DialFailedAsks ==
    ASSUME NEW c, Fine(c), Heals(c), NEW p \in Peers, NEW j \in Nat
    PROVE  Handled(DialFailed(c, p, j), c) /\ ~DialFailed(c, p, j).core.peers[p].dialOut
<1>1. PICK e \in PeerRec : e = c.peers[p]
  BY EntryOf
<1>2. PICK now \in Nat : now = c.now
  BY EntryOf
<1>t. e.failed \in 0..(UnreachableAfter + AttemptCap) /\ e.dialTries \in 0..AttemptCap
  BY DEF PeerRec
<1>3. PICK failed \in 0..(UnreachableAfter + AttemptCap) :
          failed = Least(e.failed + 1, UnreachableAfter + AttemptCap)
  BY <1>t, PolicyAssumption DEF Least
<1>4. failed >= UnreachableAfter => failed - UnreachableAfter \in 0..AttemptCap
  BY <1>3, PolicyAssumption
<1>5. PICK wait \in Nat : wait = IF failed >= UnreachableAfter
                                 THEN Delay(UnreachableBackoff, failed - UnreachableAfter, j)
                                 ELSE Delay(DialBackoff, e.dialTries, j)
  BY <1>t, <1>4, DelayIsPositive, BackoffIs
<1>6. PICK n \in 0..AttemptCap : n = Bump(e.dialTries)
  BY <1>t, BumpType
<1>7. PICK f : f = [e EXCEPT !.dialOut = FALSE, !.failed = failed, !.dialAt = now + wait,
                             !.dialTries = Bump(@), !.saidDegraded = TRUE]
  OBVIOUS
<1>8. f = [connected |-> e.connected, path |-> e.path, since |-> e.since, lostAt |-> e.lostAt,
           backlog |-> e.backlog, interest |-> e.interest, dialAt |-> now + wait,
           dialTries |-> n, dialOut |-> FALSE, failed |-> failed,
           upgradeAt |-> e.upgradeAt, upgradeTries |-> e.upgradeTries,
           saidDialing |-> e.saidDialing, saidDegraded |-> TRUE]
  BY <1>6, <1>7 DEF PeerRec
<1>9. f \in PeerRec /\ ~f.dialOut
  BY <1>8 DEF PeerRec
<1>10. PICK cmds : cmds = If(~e.saidDegraded, <<"Degraded", p>>)
  OBVIOUS
<1>11. DialFailed(c, p, j) = Out(SetPeer(c, p, f), cmds)
  BY <1>1, <1>2, <1>3, <1>5, <1>7, <1>10 DEF DialFailed
<1>12. cmds \subseteq {<<"Degraded", q>> : q \in Peers}
  BY <1>10 DEF If
<1>13. Handled(Out(SetPeer(c, p, f), cmds), c)
  BY <1>9, <1>12, OneEntry
<1>14. Out(SetPeer(c, p, f), cmds).core.peers[p] = f
  BY <1>9, SetPeerType DEF Out
<1> QED
  BY <1>9, <1>11, <1>13, <1>14

\* A dial's answer, whatever it says: that dial is not out any more.
LEMMA DialedAsks ==
    ASSUME NEW c, Fine(c), Heals(c), NEW p \in Peers, NEW j \in Nat,
           NEW outcome \in {"Connected", "InProgress", "Failed"}
    PROVE  Handled(Dialed(c, p, outcome, j), c) /\ ~Dialed(c, p, outcome, j).core.peers[p].dialOut
<1>1. PICK e \in PeerRec : e = c.peers[p]
  BY EntryOf
<1>2. PICK now \in Nat : now = c.now
  BY EntryOf
<1>3. PICK f \in PeerRec : f = [e EXCEPT !.dialOut = FALSE]
  BY DEF PeerRec
<1>4. ~f.dialOut /\ f.dialTries = e.dialTries
  BY <1>3 DEF PeerRec
<1>5. PICK idle : idle = SetPeer(c, p, f)
  OBVIOUS
<1>6. /\ Fine(idle) /\ idle.peers[p] = f /\ idle.link = c.link /\ idle.probe = c.probe
      /\ idle.healing = c.healing /\ idle.forcing = c.forcing /\ idle.now = c.now
      /\ \A q \in Peers \ {p} : idle.peers[q] = c.peers[q]
  BY <1>5, SetPeerType
<1>7. Heals(idle)
  BY <1>6 DEF Heals
<1>8. \A q \in Peers : idle.peers[q].dialOut => c.peers[q].dialOut
  BY <1>4, <1>6
<1>9. ASSUME NEW o, Handled(o, idle) PROVE Handled(o, c)
  BY <1>6, <1>8, <1>9 DEF Handled, Asked, Said
<1>10. CASE outcome = "Connected" /\ e.connected
  <2>1. Dialed(c, p, outcome, j) = Out(SetPeer(c, p, f), {})
    BY <1>1, <1>3, <1>5, <1>10 DEF Dialed
  <2>2. Handled(Out(SetPeer(c, p, f), {}), c)
    BY <1>4, OneEntry, NothingSaid
  <2>3. Out(SetPeer(c, p, f), {}).core.peers[p] = f
    BY SetPeerType DEF Out
  <2> QED
    BY <1>4, <2>1, <2>2, <2>3
<1>11. CASE outcome = "Connected" /\ ~e.connected
  <2>1. Dialed(c, p, outcome, j) = PeerUp(idle, p, "relay", j)
    BY <1>1, <1>3, <1>5, <1>11 DEF Dialed
  <2>2. Handled(PeerUp(idle, p, "relay", j), idle) /\ ~PeerUp(idle, p, "relay", j).core.peers[p].dialOut
    BY <1>6, <1>7, PeerUpAsks
  <2> QED
    BY <1>9, <2>1, <2>2
<1>12. CASE outcome = "InProgress"
  <2>1. PICK d \in Nat : d = Delay(DialBackoff, e.dialTries, j)
    BY DelayIsPositive, BackoffIs DEF PeerRec
  <2>2. PICK g : g = [f EXCEPT !.dialAt = now + d]
    OBVIOUS
  <2>3. g \in PeerRec /\ g.dialOut = f.dialOut
    BY <2>2 DEF PeerRec
  <2>4. Dialed(c, p, outcome, j) = Out(SetPeer(idle, p, g), {})
    BY <1>1, <1>2, <1>3, <1>5, <1>6, <1>12, <2>1, <2>2 DEF Dialed
  <2>5. Handled(Out(SetPeer(idle, p, g), {}), idle)
    BY <1>4, <1>6, <1>7, <2>3, OneEntry, NothingSaid
  <2>6. Out(SetPeer(idle, p, g), {}).core.peers[p] = g
    BY <1>6, <2>3, SetPeerType DEF Out
  <2> QED
    BY <1>4, <1>9, <2>3, <2>4, <2>5, <2>6
<1>13. CASE outcome = "Failed"
  <2>1. Dialed(c, p, outcome, j) = DialFailed(c, p, j)
    BY <1>13 DEF Dialed
  <2> QED
    BY <2>1, DialFailedAsks
<1> QED
  BY <1>10, <1>11, <1>12, <1>13

LEMMA InterestAsks ==
    ASSUME NEW c, Fine(c), Heals(c), NEW p \in Peers, NEW until \in Nat
    PROVE  Handled(Interest(c, p, until), c)
<1>1. PICK e \in PeerRec : e = c.peers[p]
  BY EntryOf
<1>2. PICK n \in Int : n = IF e.interest > until THEN e.interest ELSE until
  BY DEF PeerRec
<1>3. PICK f : f = [e EXCEPT !.interest = n]
  OBVIOUS
<1>4. f \in PeerRec /\ f.dialOut = e.dialOut
  BY <1>3 DEF PeerRec
<1>5. Interest(c, p, until) = Out(SetPeer(c, p, f), {})
  BY <1>1, <1>2, <1>3 DEF Interest
<1> QED
  BY <1>1, <1>4, <1>5, OneEntry, NothingSaid

LEMMA BacklogAsks ==
    ASSUME NEW c, Fine(c), Heals(c), NEW pending \in SUBSET Peers
    PROVE  Handled(Backlog(c, pending), c)
<1>1. PICK ps : ps = [p \in Peers |-> [c.peers[p] EXCEPT !.backlog = p \in pending]]
  OBVIOUS
<1>2. ASSUME NEW p \in Peers PROVE ps[p] \in PeerRec /\ ps[p].dialOut = c.peers[p].dialOut
  <2>1. PICK e \in PeerRec : e = c.peers[p]
    BY CoreIs
  <2>b. (p \in pending) \in BOOLEAN
    OBVIOUS
  <2>2. PICK b \in BOOLEAN : b = (p \in pending)
    BY <2>b, Zenon
  <2>3. [e EXCEPT !.backlog = b] \in PeerRec /\ [e EXCEPT !.backlog = b].dialOut = e.dialOut
    BY DEF PeerRec
  <2>4. ps[p] = [e EXCEPT !.backlog = b]
    BY <1>1, <2>1, <2>2
  <2> QED
    BY <2>1, <2>3, <2>4
<1>3. ps \in [Peers -> PeerRec]
  BY <1>1, <1>2
<1>4. PICK o : o = Backlog(c, pending)
  OBVIOUS
<1>5. o.core = [c EXCEPT !.peers = ps] /\ o.cmds = {}
  BY <1>1, <1>4 DEF Backlog, Out
<1>6. /\ Fine(o.core) /\ o.core.link = c.link /\ o.core.probe = c.probe /\ o.core.healing = c.healing
      /\ o.core.forcing = c.forcing /\ o.core.peers = ps
  BY <1>3, <1>5, WithPeers
<1>7. o.cmds \subseteq {<<"upgrade", p>> : p \in Peers}
  BY <1>5
<1>8. \A p \in Peers : o.core.peers[p].dialOut => c.peers[p].dialOut
  BY <1>2, <1>6
<1> QED
  BY <1>4, <1>6, <1>7, <1>8, OnlyPeers

-----------------------------------------------------------------------------
(* What is due: core/drive.rs.                                             *)

\* Nothing is due now: all that a wake-up is set for lies ahead.
Spent(c) ==
    Watching(c) =>
        /\ c.probe.nextAt \in Nat /\ (~c.probe.inFlight => c.probe.nextAt > c.now)
        /\ \A p \in Peers : /\ DialDue(c.peers[p], c.now) => c.peers[p].dialAt > c.now
                            /\ UpgradeDue(c.peers[p], c.now) => c.peers[p].upgradeAt > c.now

LEMMA DriveSpends ==
    ASSUME NEW c, Fine(c), NEW jit \in Jitters
    PROVE  LET o == Drive(c, jit) IN
           /\ Fine(o.core) /\ o.core.now = c.now /\ o.core.link = c.link
           /\ o.core.healing = c.healing /\ o.core.forcing = c.forcing
           /\ o.cmds \in SUBSET Commands
           /\ ToServer("Healed") \notin o.cmds
           /\ Asked(o, c) /\ Spent(o.core)
<1>1. PICK o : o = Drive(c, jit)
  OBVIOUS
<1>2. CASE ~Watching(c)
  <2>1. o.core = c /\ o.cmds = {}
    BY <1>1, <1>2 DEF Drive, Out
  <2>2. Asked(o, c) /\ Spent(o.core)
    BY <1>2, <2>1 DEF Asked, Spent
  <2> QED
    BY <1>1, <2>1, <2>2
<1>3. CASE Watching(c)
  <2>1. PICK now \in Nat : now = c.now
    BY CoreIs
  <2>2. PICK armed \in Nat : armed = IF c.probe.nextAt = None THEN now + ProbeInterval ELSE c.probe.nextAt
    BY CoreIs, PolicyAssumption
  <2>3. PICK due \in BOOLEAN : due = (~c.probe.inFlight /\ armed <= now)
    OBVIOUS
  <2>4. PICK out \in BOOLEAN : out = (c.probe.inFlight \/ (~c.probe.inFlight /\ armed <= now))
    OBVIOUS
  <2>5. PICK ps : ps = [p \in Peers |-> DrivePeer(c.peers[p], now, jit[p])]
    OBVIOUS
  <2>6. PICK dialed : dialed = {p \in Peers : DialDue(c.peers[p], now) /\ c.peers[p].dialAt <= now}
    OBVIOUS
  <2>7. ASSUME NEW p \in Peers
        PROVE  /\ ps[p] \in PeerRec /\ (ps[p].dialOut => c.peers[p].dialOut \/ p \in dialed)
               /\ DialDue(ps[p], now) => ps[p].dialAt > now
               /\ UpgradeDue(ps[p], now) => ps[p].upgradeAt > now
    <3>1. PICK e \in PeerRec : e = c.peers[p]
      BY CoreIs
    <3>2. PICK j \in Nat : j = jit[p]
      BY SupervisorAssumption DEF Jitters
    <3>3. ps[p] = DrivePeer(e, now, j)
      BY <2>5, <3>1, <3>2
    <3>4. /\ DrivePeer(e, now, j) \in PeerRec
          /\ DrivePeer(e, now, j).dialOut <=> e.dialOut \/ (DialDue(e, now) /\ e.dialAt <= now)
          /\ DialDue(DrivePeer(e, now, j), now) => DrivePeer(e, now, j).dialAt > now
          /\ UpgradeDue(DrivePeer(e, now, j), now) => DrivePeer(e, now, j).upgradeAt > now
      BY DrivePeerType
    <3> QED
      BY <2>6, <3>1, <3>3, <3>4
  <2>8. ps \in [Peers -> PeerRec]
    BY <2>5, <2>7
  <2>9. o.core = [link |-> c.link, now |-> c.now,
                  probe |-> [nextAt |-> armed, inFlight |-> out, missed |-> c.probe.missed,
                             recheck |-> c.probe.recheck],
                  peers |-> ps, healing |-> c.healing, forcing |-> c.forcing,
                  afterChange |-> c.afterChange]
    BY <1>1, <1>3, <2>1, <2>2, <2>4, <2>5 DEF Drive, Out, Fine, CoreRec, ProbeRec
  <2>10. PICK raised : raised = {p \in Peers : UpgradeDue(c.peers[p], now) /\ c.peers[p].upgradeAt <= now}
    OBVIOUS
  <2>11. o.cmds = If(due, ToServer("probe"))
                    \cup {<<"PeerDialing", p>> : p \in {q \in dialed : ~c.peers[q].saidDialing}}
                    \cup {<<"dial", p>> : p \in dialed}
                    \cup {<<"upgrade", p>> : p \in raised}
    BY <1>1, <1>3, <2>1, <2>2, <2>3, <2>6, <2>10 DEF Drive, Out
  <2>12. Fine(o.core)
    BY <2>8, <2>9, CoreIs DEF Fine, CoreRec, ProbeRec
  <2>13. dialed \subseteq Peers /\ raised \subseteq Peers
    BY <2>6, <2>10
  <2>14. ASSUME NEW k \in o.cmds PROVE k \in Commands /\ k # ToServer("Healed")
    <3>1. CASE k \in If(due, ToServer("probe"))
      BY <3>1, ServerCommands DEF If
    <3>2. CASE \E p \in Peers : k = <<"PeerDialing", p>>
      BY <3>2, PeerCommands, ServerCommands
    <3>3. CASE \E p \in Peers : k = <<"dial", p>>
      BY <3>3, PeerCommands, ServerCommands
    <3>4. CASE \E p \in Peers : k = <<"upgrade", p>>
      BY <3>4, PeerCommands, ServerCommands
    <3> QED
      BY <2>11, <2>13, <3>1, <3>2, <3>3, <3>4
  <2>15. Asked(o, c)
    <3>1. due => ToServer("probe") \in o.cmds
      BY <2>11 DEF If
    <3>2. out => c.probe.inFlight \/ due
      BY <2>3, <2>4
    <3>3. o.core.probe.inFlight = out /\ o.core.forcing = c.forcing /\ o.core.peers = ps
      BY <2>9
    <3>4. \A p \in dialed : <<"dial", p>> \in o.cmds
      BY <2>11
    <3> QED
      BY <2>7, <3>1, <3>2, <3>3, <3>4 DEF Asked
  <2>16. Spent(o.core)
    <3>a. ~out => ~(armed <= now)
      BY <2>4, Zenon
    <3>1. ~out => armed > now
      BY <3>a
    <3>2. /\ o.core.probe.nextAt = armed /\ o.core.probe.inFlight = out /\ o.core.now = now
          /\ o.core.peers = ps
      BY <2>1, <2>9
    <3> QED
      BY <2>7, <3>1, <3>2 DEF Spent
  <2> QED
    BY <1>1, <2>9, <2>12, <2>14, <2>15, <2>16
<1> QED
  BY <1>2, <1>3

\* Core::step: the handler, and what is due after it.
LEMMA SteppedSpends ==
    ASSUME NEW c, NEW h, Handled(h, c), NEW jit \in Jitters
    PROVE  LET o == Stepped(h, jit) IN
           /\ Handled(o, c) /\ Spent(o.core) /\ o.core.now = h.core.now
           /\ h.cmds \subseteq o.cmds
           /\ o.core.forcing = h.core.forcing
           /\ o.core.probe.inFlight => h.core.probe.inFlight \/ ToServer("probe") \in o.cmds
           /\ \A p \in Peers : o.core.peers[p].dialOut => h.core.peers[p].dialOut \/ <<"dial", p>> \in o.cmds
<1>1. PICK o : o = Stepped(h, jit)
  OBVIOUS
<1>2. PICK d : d = Drive(h.core, jit)
  OBVIOUS
<1>3. o.core = d.core /\ o.cmds = h.cmds \cup d.cmds
  BY <1>1, <1>2 DEF Stepped, Out
<1>4. Fine(h.core) /\ h.cmds \in SUBSET Commands /\ Asked(h, c) /\ Said(h, c)
  BY DEF Handled
<1>5. /\ Fine(d.core) /\ d.core.now = h.core.now /\ d.core.link = h.core.link
      /\ d.core.healing = h.core.healing /\ d.core.forcing = h.core.forcing
      /\ d.cmds \in SUBSET Commands
      /\ ToServer("Healed") \notin d.cmds
      /\ Asked(d, h.core) /\ Spent(d.core)
  BY <1>2, <1>4, DriveSpends
<1>6. /\ o.core.probe.inFlight => h.core.probe.inFlight \/ ToServer("probe") \in o.cmds
      /\ \A p \in Peers : o.core.peers[p].dialOut => h.core.peers[p].dialOut \/ <<"dial", p>> \in o.cmds
  BY <1>3, <1>5 DEF Asked
<1>7. Asked(o, c)
  BY <1>3, <1>4, <1>5, <1>6 DEF Asked
<1>8. Said(o, c)
  BY <1>3, <1>4, <1>5 DEF Said, Heals
<1> QED
  BY <1>1, <1>3, <1>4, <1>5, <1>6, <1>7, <1>8 DEF Handled

\* The times Core::next_wake takes the least of.
WakeTimes(c) ==
    IF ~Watching(c) THEN {} ELSE
    {t \in {c.probe.nextAt} : t # None /\ ~c.probe.inFlight}
      \cup {c.peers[p].dialAt : p \in {q \in Peers : DialDue(c.peers[q], c.now)}}
      \cup {c.peers[p].upgradeAt : p \in {q \in Peers : UpgradeDue(c.peers[q], c.now)}}

LEMMA WakeIsLeast ==
    ASSUME NEW c, Fine(c)
    PROVE  /\ WakeTimes(c) \subseteq Nat
           /\ WakeTimes(c) = {} => NextWake(c) = None
           /\ WakeTimes(c) # {} => /\ NextWake(c) \in WakeTimes(c)
                                  /\ \A u \in WakeTimes(c) : NextWake(c) <= u
<1>t. PICK times : times = WakeTimes(c)
  OBVIOUS
<1>1. NextWake(c) = IF times = {} THEN None ELSE CHOOSE t \in times : \A u \in times : t <= u
  BY <1>t DEF NextWake, WakeTimes
<1>2. \A p \in Peers : c.peers[p].dialAt \in Nat /\ c.peers[p].upgradeAt \in Nat
  <2>1. \A e \in PeerRec : e.dialAt \in Nat /\ e.upgradeAt \in Nat
    BY DEF PeerRec
  <2> QED
    BY <2>1, CoreIs
<1>3. times \subseteq Nat
  BY <1>t, <1>2, CoreIs DEF WakeTimes
<1>4. times # {} => \E t \in times : \A u \in times : t <= u
  BY <1>3, LeastNatural, Zenon
<1> QED
  BY <1>t, <1>1, <1>3, <1>4

LEMMA SpentWake ==
    ASSUME NEW c, Fine(c), Spent(c)
    PROVE  NextWake(c) = None \/ NextWake(c) > c.now
<1>1. \A t \in WakeTimes(c) : t > c.now
  BY DEF Spent, WakeTimes
<1> QED
  BY <1>1, WakeIsLeast

LEMMA DueDialWakes ==
    ASSUME NEW c, Fine(c), Watching(c), NEW p \in Peers, DialDue(c.peers[p], c.now)
    PROVE  NextWake(c) # None /\ NextWake(c) <= c.peers[p].dialAt
<1>1. c.peers[p].dialAt \in WakeTimes(c)
  BY DEF WakeTimes
<1>2. /\ WakeTimes(c) \subseteq Nat /\ NextWake(c) \in WakeTimes(c)
      /\ \A u \in WakeTimes(c) : NextWake(c) <= u
  BY <1>1, WakeIsLeast, Zenon
<1>3. NextWake(c) \in Nat
  BY <1>2
<1> QED
  BY <1>1, <1>2, <1>3 DEF None

-----------------------------------------------------------------------------
(* Shell::execute.                                                         *)

TaskRec ==
    [id : 1..MaxTasks, kind : {"probe"}, sent : BOOLEAN, at : 0..MaxTime, old : BOOLEAN]
    \cup [id : 1..MaxTasks, kind : {"force"}, target : Nat]
    \cup [id : 1..MaxTasks, kind : {"dial"}, peer : Peers, up : BOOLEAN]

\* The task whose AbortHandle Shell.probe holds is a probe: the link's signal
\* aborts no dial and no force.
HeldIsProbe == \A t \in tasks : t.id = held => t.kind = "probe"

LEMMA FiniteCommands ==
    ASSUME NEW cmds \in SUBSET Commands
    PROVE  IsFiniteSet({cmd \in cmds : cmd[1] \in Starts})
<1>1. PICK D : D = {<<"dial", p>> : p \in Peers}
  OBVIOUS
<1>2. PICK f : f = [p \in Peers |-> <<"dial", p>>]
  OBVIOUS
<1>3. f \in Surjection(Peers, D)
  BY <1>1, <1>2 DEF Surjection
<1>4. IsFiniteSet(D)
  BY <1>3, FS_Surjection, PolicyAssumption
<1>5. IsFiniteSet(D \cup {ToServer("probe")})
  BY <1>4, FS_AddElement
<1>6. IsFiniteSet((D \cup {ToServer("probe")}) \cup {ToServer("force")})
  BY <1>5, FS_AddElement
<1>7. {cmd \in cmds : cmd[1] \in Starts} \subseteq (D \cup {ToServer("probe")}) \cup {ToServer("force")}
  BY <1>1 DEF Commands, Starts, ToServer
<1> QED
  BY <1>6, <1>7, FS_Subset

\* A command's task.
LEMMA TaskOfType ==
    ASSUME NEW cmd \in Commands, cmd[1] \in Starts, NEW id \in 1..MaxTasks, clock \in 0..MaxTime,
           probed \in Nat
    PROVE  /\ TaskOf(cmd, id) \in TaskRec /\ TaskOf(cmd, id).id = id
           /\ TaskOf(cmd, id).kind = cmd[1]
           /\ cmd[1] = "dial" => TaskOf(cmd, id).peer = cmd[2]
           /\ cmd[1] = "probe" => cmd = ToServer("probe")
<1>1. CASE cmd = ToServer("probe")
  <2>1. TaskOf(cmd, id) = [id |-> id, kind |-> "probe", sent |-> FALSE, at |-> clock, old |-> FALSE]
        /\ cmd[1] = "probe"
    BY <1>1 DEF TaskOf, ToServer, ProbeTask
  <2>2. TaskOf(cmd, id) \in TaskRec
    BY <2>1 DEF TaskRec
  <2> QED
    BY <1>1, <2>1, <2>2
<1>2. CASE cmd = ToServer("force")
  <2>1. TaskOf(cmd, id) = [id |-> id, kind |-> "force", target |-> probed] /\ cmd[1] = "force"
    BY <1>2 DEF TaskOf, ToServer, ForceTask
  <2> QED
    BY <2>1 DEF TaskRec
<1>3. ASSUME NEW p \in Peers, cmd = <<"dial", p>>
      PROVE  /\ TaskOf(cmd, id) \in TaskRec /\ TaskOf(cmd, id).id = id
             /\ TaskOf(cmd, id).kind = cmd[1] /\ TaskOf(cmd, id).peer = cmd[2] /\ cmd[1] = "dial"
  <2>1. /\ TaskOf(cmd, id) = [id |-> id, kind |-> "dial", peer |-> p, up |-> FALSE]
        /\ cmd[1] = "dial" /\ cmd[2] = p
    BY <1>3 DEF TaskOf, DialTask
  <2> QED
    BY <2>1 DEF TaskRec
<1>4. \/ cmd = ToServer("probe") \/ cmd = ToServer("force") \/ \E p \in Peers : cmd = <<"dial", p>>
  BY DEF Commands, Starts, ToServer
<1> QED
  BY <1>1, <1>2, <1>3, <1>4

\* Every command that starts a task has started one, each under a number of its
\* own, and the one held is the probe.
LEMMA ExecuteStarts ==
    ASSUME NEW cmds \in SUBSET Commands, NEW left \in SUBSET TaskRec, Execute(cmds, left),
           tasks \in SUBSET TaskRec, clock \in 0..MaxTime, probed \in Nat, held \in 0..MaxTasks,
           shown \in {"Healing", "Healed"}, HeldIsProbe,
           \A t \in left : \E u \in tasks : u.id = t.id /\ u.kind = t.kind
    PROVE  /\ left \subseteq tasks' /\ tasks' \in SUBSET TaskRec
           /\ held' \in 0..MaxTasks /\ shown' \in {"Healing", "Healed"}
           /\ HeldIsProbe'
           /\ ToServer("probe") \in cmds => \E t \in tasks' : t.kind = "probe"
           /\ ToServer("force") \in cmds => \E t \in tasks' : t.kind = "force"
           /\ \A p \in Peers : <<"dial", p>> \in cmds => \E t \in tasks' : t.kind = "dial" /\ t.peer = p
           /\ ToServer("Healing") \in cmds => shown' = "Healing"
           /\ shown = "Healing" /\ ToServer("Healed") \notin cmds => shown' = "Healing"
<1>1. PICK new : new = {cmd \in cmds : cmd[1] \in Starts}
  OBVIOUS
<1>2. PICK ids : ids = CHOOSE f \in [new -> FreeIds] : \A a, b \in new : f[a] = f[b] => a = b
  OBVIOUS
<1>3. /\ Cardinality(new) <= Cardinality(FreeIds)
      /\ tasks' = left \cup {TaskOf(cmd, ids[cmd]) : cmd \in new}
      /\ held' = IF ToServer("probe") \in new THEN ids[ToServer("probe")]
                 ELSE IF \E t \in left : t.id = held THEN held ELSE 0
      /\ shown' = IF ToServer("Healing") \in cmds THEN "Healing"
                  ELSE IF ToServer("Healed") \in cmds THEN "Healed" ELSE shown
  BY <1>1, <1>2 DEF Execute
<1>4. IsFiniteSet(new) /\ IsFiniteSet(FreeIds)
  <2>1. IsFiniteSet(new)
    BY <1>1, FiniteCommands
  <2>2. FreeIds \subseteq 1..MaxTasks /\ MaxTasks \in Int /\ 1 \in Int
    BY SupervisorAssumption DEF FreeIds
  <2>3. IsFiniteSet(1..MaxTasks)
    BY <2>2, FS_Interval
  <2> QED
    BY <2>1, <2>2, <2>3, FS_Subset
<1>5. \E f \in [new -> FreeIds] : \A a, b \in new : f[a] = f[b] => a = b
  BY <1>3, <1>4, NumbersEnough
<1>6. ids \in [new -> FreeIds] /\ \A a, b \in new : ids[a] = ids[b] => a = b
  BY <1>2, <1>5
<1>7. ASSUME NEW cmd \in new
      PROVE  /\ ids[cmd] \in 1..MaxTasks /\ (\A u \in tasks : u.id # ids[cmd])
             /\ cmd \in Commands /\ cmd[1] \in Starts
  BY <1>1, <1>6 DEF FreeIds
<1>8. ASSUME NEW cmd \in new
      PROVE  /\ TaskOf(cmd, ids[cmd]) \in tasks' /\ TaskOf(cmd, ids[cmd]) \in TaskRec
             /\ TaskOf(cmd, ids[cmd]).id = ids[cmd] /\ TaskOf(cmd, ids[cmd]).kind = cmd[1]
             /\ cmd[1] = "dial" => TaskOf(cmd, ids[cmd]).peer = cmd[2]
             /\ cmd[1] = "probe" => cmd = ToServer("probe")
  <2>1. ids[cmd] \in 1..MaxTasks /\ cmd \in Commands /\ cmd[1] \in Starts
    BY <1>7
  <2>2. TaskOf(cmd, ids[cmd]) \in tasks'
    BY <1>3
  <2> QED
    BY <2>1, <2>2, TaskOfType
<1>9. left \subseteq tasks' /\ tasks' \in SUBSET TaskRec
  BY <1>3, <1>8
<1>10. ToServer("probe") \in cmds => ToServer("probe") \in new
  BY <1>1 DEF ToServer, Starts
<1>11. ToServer("probe") \in cmds => \E t \in tasks' : t.kind = "probe"
  <2>1. ToServer("probe")[1] = "probe"
    BY DEF ToServer
  <2> QED
    BY <1>8, <1>10, <2>1
<1>12. ToServer("force") \in cmds => \E t \in tasks' : t.kind = "force"
  <2>1. ToServer("force")[1] = "force" /\ (ToServer("force") \in cmds => ToServer("force") \in new)
    BY <1>1 DEF ToServer, Starts
  <2> QED
    BY <1>8, <2>1
<1>13. ASSUME NEW p \in Peers, <<"dial", p>> \in cmds
       PROVE  \E t \in tasks' : t.kind = "dial" /\ t.peer = p
  <2>1. <<"dial", p>> \in new /\ <<"dial", p>>[1] = "dial" /\ <<"dial", p>>[2] = p
    BY <1>1, <1>13 DEF Starts
  <2> QED
    BY <1>8, <2>1
<1>14. held' \in 0..MaxTasks
  <2>1. \A n \in 1..MaxTasks : n \in 0..MaxTasks
    BY SupervisorAssumption
  <2>2. 0 \in 0..MaxTasks
    BY SupervisorAssumption
  <2> QED
    BY <1>3, <1>7, <2>1, <2>2
<1>15. HeldIsProbe'
  <2> SUFFICES ASSUME NEW t \in tasks', t.id = held' PROVE t.kind = "probe"
    BY DEF HeldIsProbe
  <2>1. CASE ToServer("probe") \in new
    <3>1. held' = ids[ToServer("probe")]
      BY <1>3, <2>1
    <3>2. CASE t \in left
      BY <1>7, <2>1, <3>1, <3>2
    <3>3. ASSUME NEW cmd \in new, t = TaskOf(cmd, ids[cmd]) PROVE t.kind = "probe"
      <4>1. t.id = ids[cmd] /\ t.kind = cmd[1]
        BY <1>8, <3>3
      <4>2. cmd = ToServer("probe")
        BY <1>6, <2>1, <3>1, <4>1
      <4> QED
        BY <4>1, <4>2 DEF ToServer
    <3> QED
      BY <1>3, <3>2, <3>3
  <2>2. CASE ToServer("probe") \notin new /\ \E u \in left : u.id = held
    <3>1. held' = held
      BY <1>3, <2>2
    <3>2. CASE t \in left
      BY <3>1, <3>2 DEF HeldIsProbe
    <3>3. ASSUME NEW cmd \in new, t = TaskOf(cmd, ids[cmd]) PROVE FALSE
      BY <1>7, <1>8, <2>2, <3>1, <3>3
    <3> QED
      BY <1>3, <3>2, <3>3
  <2>3. CASE ToServer("probe") \notin new /\ ~\E u \in left : u.id = held
    <3>1. t.id = 0
      BY <1>3, <2>3
    <3>2. t.id \in 1..MaxTasks
      BY <1>9 DEF TaskRec
    <3> QED
      BY <3>1, <3>2
  <2> QED
    BY <2>1, <2>2, <2>3
<1>16. /\ shown' \in {"Healing", "Healed"}
       /\ ToServer("Healing") \in cmds => shown' = "Healing"
       /\ shown = "Healing" /\ ToServer("Healed") \notin cmds => shown' = "Healing"
  BY <1>3
<1> QED
  BY <1>9, <1>11, <1>12, <1>13, <1>14, <1>15, <1>16

-----------------------------------------------------------------------------
(* The inductive invariant.                                                *)

\* What the agent's code may tell the supervisor, and what a task may answer.
SignalRec ==
    [kind : {"Link"}, state : {"Up", "Reconnecting"}]
    \cup [kind : {"PeerUp", "PeerPath"}, peer : Peers, path : {"relay", "direct"}]
    \cup [kind : {"PeerLost", "PeerReleased", "PeerReachable"}, peer : Peers]
    \cup [kind : {"Interest"}, peer : Peers, ttl : Nat]

AnswerRec ==
    [kind : {"probe"}, at : 0..MaxTime, outcome : Outcomes, old : BOOLEAN]
    \cup [kind : {"dial"}, at : 0..MaxTime, peer : Peers, outcome : {"Connected", "InProgress", "Failed"}]
    \cup [kind : {"force"}, at : 0..MaxTime]

Queued == signals \in Seq(SignalRec) /\ done \in Seq(AnswerRec)

\* The core's word is the windows'.
SaidIsShown == core.healing => shown = "Healing"

DialAwaited(p) ==
    \/ \E t \in tasks : t.kind = "dial" /\ t.peer = p
    \/ \E i \in DOMAIN done : done[i].kind = "dial" /\ done[i].peer = p

\* A dial the core takes for out is out, or its answer is queued.
DialIsOut == \A p \in Peers : core.peers[p].dialOut => DialAwaited(p)

Inv ==
    /\ TypeOK /\ Queued /\ Fine(core) /\ Heals(core) /\ SaidIsShown /\ HeldIsProbe
    /\ ForceIsAnswered /\ ProbeIsOut /\ DialIsOut

\* The types of what lies around the core and its tasks.
Surroundings ==
    /\ clock \in 0..MaxTime
    /\ entry \in [link : {"Up", "Reconnecting"}, inst : Nat] /\ probed \in Nat
    /\ unsent \subseteq {"Up", "Reconnecting"}
    /\ conns \in [Peers -> {"none", "relay", "direct"}]

LEMMA TypesAre ==
    TypeOK <=> /\ core \in CoreRec /\ tasks \in SUBSET TaskRec
               /\ held \in 0..MaxTasks /\ shown \in {"Healing", "Healed"} /\ Surroundings
BY DEF TypeOK, TaskRec, Surroundings

LEMMA TypesAreNext ==
    TypeOK' <=> /\ core' \in CoreRec /\ tasks' \in SUBSET TaskRec
                /\ held' \in 0..MaxTasks /\ shown' \in {"Healing", "Healed"} /\ Surroundings'
BY DEF TypeOK, TaskRec, Surroundings

LEMMA HeadAndTail ==
    ASSUME NEW S, NEW s \in Seq(S), s # <<>>
    PROVE  /\ Head(s) \in S /\ Tail(s) \in Seq(S)
           /\ \A i \in DOMAIN s : s[i] = Head(s) \/ (i - 1 \in DOMAIN Tail(s) /\ Tail(s)[i - 1] = s[i])
<1>1. Len(s) \in Nat /\ Len(s) # 0 /\ DOMAIN s = 1..Len(s)
  OBVIOUS
<1>2. Head(s) = s[1] /\ Head(s) \in S /\ Tail(s) \in Seq(S) /\ Len(Tail(s)) = Len(s) - 1
  BY <1>1
<1>3. ASSUME NEW i \in DOMAIN s, i # 1 PROVE i - 1 \in DOMAIN Tail(s) /\ Tail(s)[i - 1] = s[i]
  BY <1>1, <1>2, <1>3
<1> QED
  BY <1>2, <1>3

LEMMA Appended ==
    ASSUME NEW S, NEW s \in Seq(S), NEW x \in S
    PROVE  /\ Append(s, x) \in Seq(S)
           /\ \A i \in DOMAIN s : i \in DOMAIN Append(s, x) /\ Append(s, x)[i] = s[i]
           /\ \E i \in DOMAIN Append(s, x) : Append(s, x)[i] = x
<1>1. Len(s) \in Nat /\ DOMAIN s = 1..Len(s) /\ DOMAIN Append(s, x) = 1..(Len(s) + 1)
  OBVIOUS
<1>2. Append(s, x)[Len(s) + 1] = x /\ Len(s) + 1 \in DOMAIN Append(s, x)
  BY <1>1
<1> QED
  BY <1>1, <1>2

\* A handler's promise does not depend on the time its input is stamped with.
LEMMA AtHandled ==
    ASSUME NEW c, Fine(c), NEW now \in 0..MaxTime, NEW o, Handled(o, At(c, now))
    PROVE  Handled(o, c)
BY AtType DEF Handled, Asked, Said

LEMMA AtFine ==
    ASSUME NEW c, Fine(c), Heals(c), NEW now \in 0..MaxTime
    PROVE  Fine(At(c, now)) /\ Heals(At(c, now)) /\ At(c, now).now = now
BY AtType DEF Heals

\* Shell::apply.
LEMMA ApplyKeeps ==
    ASSUME Inv, NEW handled, NEW left \in SUBSET TaskRec, Apply(handled, left),
           \A t \in left : \E u \in tasks : u.id = t.id /\ u.kind = t.kind,
           \A jit \in Jitters : Handled(handled[jit], core)
    PROVE  /\ Fine(core') /\ Heals(core') /\ SaidIsShown' /\ HeldIsProbe' /\ Spent(core')
           /\ left \subseteq tasks' /\ tasks' \in SUBSET TaskRec
           /\ held' \in 0..MaxTasks /\ shown' \in {"Healing", "Healed"}
           /\ core'.forcing => core.forcing \/ \E t \in tasks' : t.kind = "force"
           /\ core'.probe.inFlight => core.probe.inFlight \/ \E t \in tasks' : t.kind = "probe"
           /\ \A p \in Peers : core'.peers[p].dialOut =>
                  core.peers[p].dialOut \/ \E t \in tasks' : t.kind = "dial" /\ t.peer = p
           /\ \E jit \in Jitters :
                  LET h == handled[jit] IN
                  /\ core'.now = h.core.now /\ core'.forcing = h.core.forcing
                  /\ core'.probe.inFlight =>
                        \/ h.core.probe.inFlight /\ ToServer("probe") \notin h.cmds
                        \/ \E t \in tasks' : t.kind = "probe"
                  /\ \A p \in Peers : core'.peers[p].dialOut =>
                        h.core.peers[p].dialOut \/ \E t \in tasks' : t.kind = "dial" /\ t.peer = p
<1>1. PICK jit \in Jitters :
          core' = Stepped(handled[jit], jit).core /\ Execute(Stepped(handled[jit], jit).cmds, left)
  BY DEF Apply
<1>2. PICK h : h = handled[jit]
  OBVIOUS
<1>3. PICK o : o = Stepped(h, jit)
  OBVIOUS
<1>4. /\ Handled(o, core) /\ Spent(o.core) /\ o.core.now = h.core.now
      /\ h.cmds \subseteq o.cmds
      /\ o.core.forcing = h.core.forcing
      /\ o.core.probe.inFlight => h.core.probe.inFlight \/ ToServer("probe") \in o.cmds
      /\ \A p \in Peers : o.core.peers[p].dialOut => h.core.peers[p].dialOut \/ <<"dial", p>> \in o.cmds
  BY <1>2, <1>3, SteppedSpends
<1>5. core' = o.core /\ Execute(o.cmds, left)
  BY <1>1, <1>2, <1>3
<1>6. Fine(o.core) /\ o.cmds \in SUBSET Commands /\ Asked(o, core) /\ Said(o, core)
  BY <1>4 DEF Handled
<1>7. /\ tasks \in SUBSET TaskRec /\ clock \in 0..MaxTime /\ probed \in Nat /\ held \in 0..MaxTasks
      /\ shown \in {"Healing", "Healed"} /\ HeldIsProbe /\ SaidIsShown
  BY TypesAre DEF Inv, Surroundings
<1>8. /\ left \subseteq tasks' /\ tasks' \in SUBSET TaskRec
      /\ held' \in 0..MaxTasks /\ shown' \in {"Healing", "Healed"}
      /\ HeldIsProbe'
      /\ ToServer("probe") \in o.cmds => \E t \in tasks' : t.kind = "probe"
      /\ ToServer("force") \in o.cmds => \E t \in tasks' : t.kind = "force"
      /\ \A p \in Peers : <<"dial", p>> \in o.cmds => \E t \in tasks' : t.kind = "dial" /\ t.peer = p
      /\ ToServer("Healing") \in o.cmds => shown' = "Healing"
      /\ shown = "Healing" /\ ToServer("Healed") \notin o.cmds => shown' = "Healing"
  BY <1>5, <1>6, <1>7, ExecuteStarts
<1>9. SaidIsShown' /\ Heals(core')
  BY <1>5, <1>6, <1>7, <1>8 DEF Said, SaidIsShown
<1>10. /\ core'.forcing => core.forcing \/ \E t \in tasks' : t.kind = "force"
       /\ core'.probe.inFlight => core.probe.inFlight \/ \E t \in tasks' : t.kind = "probe"
       /\ \A p \in Peers : core'.peers[p].dialOut =>
              core.peers[p].dialOut \/ \E t \in tasks' : t.kind = "dial" /\ t.peer = p
  BY <1>5, <1>6, <1>8 DEF Asked
<1>11. /\ core'.now = h.core.now /\ core'.forcing = h.core.forcing
       /\ core'.probe.inFlight =>
             \/ h.core.probe.inFlight /\ ToServer("probe") \notin h.cmds
             \/ \E t \in tasks' : t.kind = "probe"
       /\ \A p \in Peers : core'.peers[p].dialOut =>
             h.core.peers[p].dialOut \/ \E t \in tasks' : t.kind = "dial" /\ t.peer = p
  BY <1>4, <1>5, <1>8
<1> QED
  BY <1>2, <1>4, <1>5, <1>6, <1>8, <1>9, <1>10, <1>11

\* A step outside the loop that loses nothing the core waits for.
LEMMA AroundKeeps ==
    ASSUME Inv, UNCHANGED <<core, held, shown>>, tasks' \in SUBSET TaskRec, HeldIsProbe', Queued',
           Surroundings',
           Awaited("force") \/ LinkNews => Awaited("force")' \/ LinkNews',
           Awaited("probe") => Awaited("probe")',
           \A p \in Peers : DialAwaited(p) => DialAwaited(p)'
    PROVE  Inv'
<1>1. TypeOK'
  <2>1. core' \in CoreRec /\ held' \in 0..MaxTasks /\ shown' \in {"Healing", "Healed"}
    BY DEF Inv, TypeOK
  <2> QED
    BY <2>1, TypesAreNext
<1>2. Fine(core') /\ Heals(core') /\ SaidIsShown'
  BY DEF Inv, SaidIsShown
<1>3. ForceIsAnswered' /\ ProbeIsOut' /\ DialIsOut'
  BY DEF Inv, ForceIsAnswered, ProbeIsOut, DialIsOut
<1> QED
  BY <1>1, <1>2, <1>3 DEF Inv

-----------------------------------------------------------------------------
(* The loop.                                                               *)

LEMMA InvGives ==
    ASSUME Inv
    PROVE  /\ core \in CoreRec /\ Fine(core) /\ Heals(core) /\ tasks \in SUBSET TaskRec /\ Surroundings
           /\ clock \in 0..MaxTime /\ core.now \in 0..MaxTime
           /\ signals \in Seq(SignalRec) /\ done \in Seq(AnswerRec)
           /\ Jitters = [Peers -> Jitter] /\ Jitter \subseteq Nat
<1>1. core \in CoreRec /\ Fine(core) /\ Heals(core) /\ signals \in Seq(SignalRec) /\ done \in Seq(AnswerRec)
  BY DEF Inv, TypeOK, Queued
<1>2. tasks \in SUBSET TaskRec /\ Surroundings
  BY TypesAre DEF Inv
<1> QED
  BY <1>1, <1>2, CoreIs, SupervisorAssumption DEF Surroundings, Jitters

\* A step of the loop that keeps every task.
LEMMA LoopKeeps ==
    ASSUME Inv, NEW handled, Apply(handled, tasks),
           \A jit \in Jitters : Handled(handled[jit], core)
    PROVE  /\ Fine(core') /\ Heals(core') /\ SaidIsShown' /\ HeldIsProbe' /\ Spent(core')
           /\ tasks \subseteq tasks' /\ tasks' \in SUBSET TaskRec
           /\ Surroundings' => TypeOK'
           /\ core'.forcing => core.forcing \/ \E t \in tasks' : t.kind = "force"
           /\ core'.probe.inFlight => core.probe.inFlight \/ \E t \in tasks' : t.kind = "probe"
           /\ \A p \in Peers : core'.peers[p].dialOut =>
                  core.peers[p].dialOut \/ \E t \in tasks' : t.kind = "dial" /\ t.peer = p
           /\ \E jit \in Jitters :
                  LET h == handled[jit] IN
                  /\ core'.now = h.core.now /\ core'.forcing = h.core.forcing
                  /\ core'.probe.inFlight =>
                        \/ h.core.probe.inFlight /\ ToServer("probe") \notin h.cmds
                        \/ \E t \in tasks' : t.kind = "probe"
                  /\ \A p \in Peers : core'.peers[p].dialOut =>
                        h.core.peers[p].dialOut \/ \E t \in tasks' : t.kind = "dial" /\ t.peer = p
<1>1. tasks \in SUBSET TaskRec /\ \A t \in tasks : \E u \in tasks : u.id = t.id /\ u.kind = t.kind
  BY InvGives
<1>2. /\ Fine(core') /\ Heals(core') /\ SaidIsShown' /\ HeldIsProbe' /\ Spent(core')
      /\ tasks \subseteq tasks' /\ tasks' \in SUBSET TaskRec
      /\ held' \in 0..MaxTasks /\ shown' \in {"Healing", "Healed"}
      /\ core'.forcing => core.forcing \/ \E t \in tasks' : t.kind = "force"
      /\ core'.probe.inFlight => core.probe.inFlight \/ \E t \in tasks' : t.kind = "probe"
      /\ \A p \in Peers : core'.peers[p].dialOut =>
             core.peers[p].dialOut \/ \E t \in tasks' : t.kind = "dial" /\ t.peer = p
      /\ \E jit \in Jitters :
             LET h == handled[jit] IN
             /\ core'.now = h.core.now /\ core'.forcing = h.core.forcing
             /\ core'.probe.inFlight =>
                   \/ h.core.probe.inFlight /\ ToServer("probe") \notin h.cmds
                   \/ \E t \in tasks' : t.kind = "probe"
             /\ \A p \in Peers : core'.peers[p].dialOut =>
                   h.core.peers[p].dialOut \/ \E t \in tasks' : t.kind = "dial" /\ t.peer = p
  BY <1>1, ApplyKeeps
<1>3. core' \in CoreRec
  BY <1>2 DEF Fine
<1>4. Surroundings' => TypeOK'
  BY <1>2, <1>3, TypesAreNext
<1> QED
  BY <1>2, <1>4

\* What is awaited stays so while tasks are kept and queues are as they were.
LEMMA NothingLost ==
    ASSUME tasks \subseteq tasks'
    PROVE  /\ \A kind : (\E t \in tasks : t.kind = kind) => Awaited(kind)'
           /\ done' = done => \A kind : Awaited(kind) => Awaited(kind)'
           /\ done' = done => \A p \in Peers : DialAwaited(p) => DialAwaited(p)'
BY DEF Awaited, DialAwaited

\* The three inputs that take nothing off a queue.
LEMMA QuietInputKeeps ==
    ASSUME Inv, NEW handled, Apply(handled, tasks), UNCHANGED <<signals, done, clock, entry, probed, unsent, conns>>,
           \A jit \in Jitters : Handled(handled[jit], core)
    PROVE  Inv'
<1>1. /\ Fine(core') /\ Heals(core') /\ SaidIsShown' /\ HeldIsProbe'
      /\ tasks \subseteq tasks' /\ tasks' \in SUBSET TaskRec
      /\ Surroundings' => TypeOK'
      /\ core'.forcing => core.forcing \/ \E t \in tasks' : t.kind = "force"
      /\ core'.probe.inFlight => core.probe.inFlight \/ \E t \in tasks' : t.kind = "probe"
      /\ \A p \in Peers : core'.peers[p].dialOut =>
             core.peers[p].dialOut \/ \E t \in tasks' : t.kind = "dial" /\ t.peer = p
  BY LoopKeeps
<1>2. Surroundings' /\ Queued'
  BY InvGives DEF Surroundings, Queued
<1>3. /\ \A kind : Awaited(kind) => Awaited(kind)'
      /\ \A p \in Peers : DialAwaited(p) => DialAwaited(p)'
      /\ LinkNews => LinkNews'
  BY <1>1, NothingLost DEF LinkNews
<1>4. ForceIsAnswered'
  BY <1>1, <1>3 DEF Inv, ForceIsAnswered, Awaited
<1>5. ProbeIsOut'
  BY <1>1, <1>3 DEF Inv, ProbeIsOut, Awaited
<1>6. DialIsOut'
  BY <1>1, <1>3 DEF Inv, DialIsOut, DialAwaited
<1> QED
  BY <1>1, <1>2, <1>4, <1>5, <1>6 DEF Inv

LEMMA RecvNetworkKeeps == Inv /\ RecvNetwork => Inv'
<1> SUFFICES ASSUME Inv, RecvNetwork PROVE Inv'
  OBVIOUS
<1>1. PICK handled : handled = [jit \in Jitters |-> NetworkChanged(At(core, clock))]
  OBVIOUS
<1>2. \A jit \in Jitters : Handled(handled[jit], core)
  <2>1. Handled(NetworkChanged(At(core, clock)), At(core, clock))
    BY InvGives, AtFine, NetworkChangedAsks
  <2>2. Handled(NetworkChanged(At(core, clock)), core)
    BY <2>1, InvGives, AtHandled
  <2> QED
    BY <1>1, <2>2
<1>3. Apply(handled, tasks) /\ UNCHANGED <<signals, done, clock, entry, probed, unsent, conns>>
  BY <1>1 DEF RecvNetwork
<1> QED
  BY <1>2, <1>3, QuietInputKeeps

LEMMA TickKeeps == Inv /\ Tick => Inv' /\ (NextWake(core') = None \/ NextWake(core') > clock)
<1> SUFFICES ASSUME Inv, Tick PROVE Inv' /\ (NextWake(core') = None \/ NextWake(core') > clock)
  OBVIOUS
<1>1. PICK handled : handled = [jit \in Jitters |-> Settle(At(core, clock))]
  OBVIOUS
<1>2. \A jit \in Jitters : Handled(handled[jit], core) /\ handled[jit].core.now = clock
  <2>1. /\ Handled(Settle(At(core, clock)), At(core, clock))
        /\ Settle(At(core, clock)).core.now = At(core, clock).now
    BY InvGives, AtFine, SettleAsks
  <2>2. Handled(Settle(At(core, clock)), core) /\ At(core, clock).now = clock
    BY <2>1, InvGives, AtHandled, AtFine
  <2> QED
    BY <1>1, <2>1, <2>2
<1>3. Apply(handled, tasks) /\ UNCHANGED <<signals, done, clock, entry, probed, unsent, conns>>
  BY <1>1 DEF Tick, Quietly, world
<1>4. Inv'
  BY <1>2, <1>3, QuietInputKeeps
<1>5. Fine(core') /\ Spent(core') /\ \E jit \in Jitters : core'.now = handled[jit].core.now
  BY <1>2, <1>3, LoopKeeps
<1>6. core'.now = clock
  BY <1>2, <1>5
<1> QED
  BY <1>4, <1>5, <1>6, SpentWake

LEMMA ReadBacklogKeeps == Inv /\ ReadBacklog => Inv'
<1> SUFFICES ASSUME Inv, ReadBacklog PROVE Inv'
  OBVIOUS
<1>1. PICK pending \in SUBSET Peers : Apply([jit \in Jitters |-> Backlog(At(core, core.now), pending)], tasks)
  BY DEF ReadBacklog
<1>2. PICK handled : handled = [jit \in Jitters |-> Backlog(At(core, core.now), pending)]
  OBVIOUS
<1>3. \A jit \in Jitters : Handled(handled[jit], core)
  <2>1. Handled(Backlog(At(core, core.now), pending), At(core, core.now))
    BY InvGives, AtFine, BacklogAsks
  <2>2. Handled(Backlog(At(core, core.now), pending), core)
    BY <2>1, InvGives, AtHandled
  <2> QED
    BY <1>2, <2>2
<1>4. Apply(handled, tasks) /\ UNCHANGED <<signals, done, clock, entry, probed, unsent, conns>>
  BY <1>1, <1>2 DEF ReadBacklog
<1> QED
  BY <1>3, <1>4, QuietInputKeeps

LEMMA OldTask ==
    /\ \A t \in TaskRec : /\ Old(t) \in TaskRec /\ Old(t).id = t.id /\ Old(t).kind = t.kind
                          /\ t.kind # "probe" => Old(t) = t
    /\ \A d \in AnswerRec : /\ Old(d) \in AnswerRec /\ Old(d).kind = d.kind
                            /\ d.kind # "probe" => Old(d) = d
<1>1. ASSUME NEW t \in TaskRec, t.kind = "probe"
      PROVE  Old(t) \in TaskRec /\ Old(t).id = t.id /\ Old(t).kind = t.kind
  <2>1. t \in [id : 1..MaxTasks, kind : {"probe"}, sent : BOOLEAN, at : 0..MaxTime, old : BOOLEAN]
    BY <1>1 DEF TaskRec
  <2>2. Old(t) = [t EXCEPT !.old = TRUE]
    BY <1>1 DEF Old
  <2>3. /\ [t EXCEPT !.old = TRUE] \in [id : 1..MaxTasks, kind : {"probe"}, sent : BOOLEAN,
                                        at : 0..MaxTime, old : BOOLEAN]
        /\ [t EXCEPT !.old = TRUE].id = t.id /\ [t EXCEPT !.old = TRUE].kind = t.kind
    BY <2>1
  <2> QED
    BY <2>2, <2>3 DEF TaskRec
<1>2. ASSUME NEW d \in AnswerRec, d.kind = "probe"
      PROVE  Old(d) \in AnswerRec /\ Old(d).kind = d.kind
  <2>1. d \in [kind : {"probe"}, at : 0..MaxTime, outcome : Outcomes, old : BOOLEAN]
    BY <1>2 DEF AnswerRec
  <2>2. Old(d) = [d EXCEPT !.old = TRUE]
    BY <1>2 DEF Old
  <2>3. /\ [d EXCEPT !.old = TRUE] \in [kind : {"probe"}, at : 0..MaxTime, outcome : Outcomes, old : BOOLEAN]
        /\ [d EXCEPT !.old = TRUE].kind = d.kind
    BY <2>1
  <2> QED
    BY <2>2, <2>3 DEF AnswerRec
<1>3. \A x : x.kind # "probe" => Old(x) = x
  BY DEF Old
<1> QED
  BY <1>1, <1>2, <1>3

\* Word of the link: the probe held is aborted with the link it was sent on, the
\* dials stay, and the core takes neither a force nor a probe for out.
LEMMA LinkSignalKeeps ==
    ASSUME Inv, NEW s, s.state \in {"Up", "Reconnecting"}, LinkSignal(s),
           signals' \in Seq(SignalRec), UNCHANGED <<clock, probed, entry, unsent, conns>>
    PROVE  Inv'
<1>1. PICK handled : handled = [jit \in Jitters |-> LinkChanged(At(core, clock), s.state, jit)]
  OBVIOUS
<1>2. PICK left : left = {Old(t) : t \in {u \in tasks : u.id # held}}
  OBVIOUS
<1>3. Apply(handled, left) /\ done' = [i \in DOMAIN done |-> Old(done[i])]
  BY <1>1, <1>2 DEF LinkSignal
<1>4. \A jit \in Jitters : /\ Handled(handled[jit], core)
                           /\ ~handled[jit].core.forcing /\ ~handled[jit].core.probe.inFlight
  <2> SUFFICES ASSUME NEW jit \in Jitters
               PROVE  /\ Handled(handled[jit], core)
                      /\ ~handled[jit].core.forcing /\ ~handled[jit].core.probe.inFlight
    OBVIOUS
  <2>1. PICK h : h = LinkChanged(At(core, clock), s.state, jit)
    OBVIOUS
  <2>2. Handled(h, At(core, clock)) /\ ~h.core.forcing /\ ~h.core.probe.inFlight
    BY <2>1, InvGives, AtFine, LinkChangedAsks
  <2>3. Handled(h, core)
    BY <2>2, InvGives, AtHandled
  <2> QED
    BY <1>1, <2>1, <2>2, <2>3
<1>5. left \in SUBSET TaskRec /\ \A t \in left : \E u \in tasks : u.id = t.id /\ u.kind = t.kind
  BY <1>2, InvGives, OldTask
<1>6. /\ Fine(core') /\ Heals(core') /\ SaidIsShown' /\ HeldIsProbe'
      /\ left \subseteq tasks' /\ tasks' \in SUBSET TaskRec
      /\ held' \in 0..MaxTasks /\ shown' \in {"Healing", "Healed"}
      /\ \A p \in Peers : core'.peers[p].dialOut =>
             core.peers[p].dialOut \/ \E t \in tasks' : t.kind = "dial" /\ t.peer = p
      /\ \E jit \in Jitters :
             /\ core'.forcing = handled[jit].core.forcing
             /\ core'.probe.inFlight => handled[jit].core.probe.inFlight \/ \E t \in tasks' : t.kind = "probe"
  BY <1>3, <1>4, <1>5, ApplyKeeps
<1>7. ~core'.forcing /\ (core'.probe.inFlight => \E t \in tasks' : t.kind = "probe")
  BY <1>4, <1>6
<1>8. DOMAIN done' = DOMAIN done /\ done' \in Seq(AnswerRec)
  <2>1. DOMAIN done = 1..Len(done) /\ Len(done) \in Nat /\ \A i \in DOMAIN done : done[i] \in AnswerRec
    BY InvGives
  <2>2. DOMAIN done' = DOMAIN done /\ \A i \in DOMAIN done : done'[i] \in AnswerRec
    BY <1>3, <2>1, OldTask
  <2>3. done' = [i \in 1..Len(done) |-> done'[i]]
    BY <1>3, <2>1
  <2>4. \A i \in 1..Len(done) : done'[i] \in AnswerRec
    BY <2>1, <2>2
  <2> QED
    BY <2>1, <2>2, <2>3, <2>4
<1>9. ASSUME NEW p \in Peers, DialAwaited(p) PROVE DialAwaited(p)'
  <2>1. ASSUME NEW t \in tasks, t.kind = "dial", t.peer = p PROVE t \in tasks'
    <3>1. t.id # held
      BY <2>1 DEF Inv, HeldIsProbe
    <3>2. Old(t) = t
      BY <2>1, InvGives, OldTask
    <3> QED
      BY <1>2, <1>6, <3>1, <3>2
  <2>2. ASSUME NEW i \in DOMAIN done, done[i].kind = "dial" PROVE done'[i] = done[i]
    <3>1. done[i] \in AnswerRec
      BY InvGives
    <3> QED
      BY <1>3, <2>2, <3>1, OldTask
  <2> QED
    BY <1>8, <1>9, <2>1, <2>2 DEF DialAwaited
<1>10. DialIsOut'
  BY <1>6, <1>9 DEF Inv, DialIsOut, DialAwaited
<1>11. ForceIsAnswered' /\ ProbeIsOut'
  BY <1>7 DEF ForceIsAnswered, ProbeIsOut, Awaited
<1>12. Surroundings' /\ Queued'
  BY <1>8, InvGives DEF Surroundings, Queued
<1>13. TypeOK'
  BY <1>6, <1>12, TypesAreNext DEF Fine
<1> QED
  BY <1>6, <1>10, <1>11, <1>12, <1>13 DEF Inv

\* The signals about peers.
LEMMA PeerSignalHandled ==
    ASSUME Inv, NEW s \in SignalRec, s.kind # "Link", PeerSignal(s)
    PROVE  \E handled : /\ Apply(handled, tasks) /\ \A jit \in Jitters : Handled(handled[jit], core)
                        /\ UNCHANGED done
<1>1. s.peer \in Peers
  BY DEF SignalRec
<1> DEFINE p == s.peer
           c == At(core, clock)
           H(jit) ==
             CASE s.kind = "PeerUp"        -> PeerUp(c, p, s.path, jit[p])
               [] s.kind = "PeerPath"      -> PeerPath(c, p, s.path, jit[p])
               [] s.kind = "PeerLost"      -> PeerLost(c, p, jit[p])
               [] s.kind = "PeerReleased"  -> PeerReleased(c, p, jit[p])
               [] s.kind = "PeerReachable" -> PeerReachable(c, p)
               [] s.kind = "Interest"      -> Interest(At(core, core.now), p, clock + s.ttl)
<1>2. Apply([jit \in Jitters |-> H(jit)], tasks) /\ UNCHANGED done
  BY DEF PeerSignal
<1>3. ASSUME NEW jit \in Jitters PROVE Handled(H(jit), core)
  <2>1. jit[p] \in Nat
    BY <1>1, InvGives
  <2>2. Fine(c) /\ Heals(c) /\ Fine(core)
    BY InvGives, AtFine
  <2>3. ASSUME NEW o, Handled(o, c) PROVE Handled(o, core)
    BY <2>3, InvGives, AtHandled
  <2> HIDE DEF c, p
  <2>p. p \in Peers
    BY <1>1 DEF p
  <2>4. CASE s.kind = "PeerUp"
    <3>1. s.path \in {"relay", "direct"}
      BY <2>4 DEF SignalRec
    <3>2. H(jit) = PeerUp(c, p, s.path, jit[p])
      BY <2>4
    <3>3. Handled(PeerUp(c, p, s.path, jit[p]), c)
      BY <2>1, <2>2, <2>p, <3>1, PeerUpAsks
    <3> QED
      BY <2>3, <3>2, <3>3
  <2>5. CASE s.kind = "PeerPath"
    <3>1. s.path \in {"relay", "direct"}
      BY <2>5 DEF SignalRec
    <3>2. H(jit) = PeerPath(c, p, s.path, jit[p])
      BY <2>5
    <3>3. Handled(PeerPath(c, p, s.path, jit[p]), c)
      BY <2>1, <2>2, <2>p, <3>1, PeerPathAsks
    <3> QED
      BY <2>3, <3>2, <3>3
  <2>6. CASE s.kind = "PeerLost"
    <3>1. H(jit) = PeerLost(c, p, jit[p])
      BY <2>6
    <3> QED
      BY <2>1, <2>2, <2>3, <2>p, <3>1, PeerLostAsks
  <2>7. CASE s.kind = "PeerReleased"
    <3>1. H(jit) = PeerReleased(c, p, jit[p])
      BY <2>7
    <3> QED
      BY <2>1, <2>2, <2>3, <2>p, <3>1, PeerReleasedAsks
  <2>8. CASE s.kind = "PeerReachable"
    <3>1. H(jit) = PeerReachable(c, p)
      BY <2>8
    <3> QED
      BY <2>2, <2>3, <2>p, <3>1, PeerReachableAsks
  <2>9. CASE s.kind = "Interest"
    <3>1. H(jit) = Interest(At(core, core.now), p, clock + s.ttl)
      BY <2>9
    <3>2. s.ttl \in Nat
      BY <2>9 DEF SignalRec
    <3>3. clock + s.ttl \in Nat
      BY <3>2, InvGives, SupervisorAssumption
    <3>4. Fine(At(core, core.now)) /\ Heals(At(core, core.now)) /\ core.now \in 0..MaxTime
      BY InvGives, AtFine
    <3>5. Handled(Interest(At(core, core.now), p, clock + s.ttl), At(core, core.now))
      BY <2>p, <3>3, <3>4, InterestAsks
    <3> QED
      BY <2>2, <3>1, <3>4, <3>5, AtHandled
  <2>10. s.kind \in {"PeerUp", "PeerPath", "PeerLost", "PeerReleased", "PeerReachable", "Interest"}
    BY DEF SignalRec
  <2> QED
    BY <2>4, <2>5, <2>6, <2>7, <2>8, <2>9, <2>10
<1>4. \A jit \in Jitters : Handled([k \in Jitters |-> H(k)][jit], core)
  <2> HIDE DEF H
  <2> QED
    BY <1>3
<1> QED
  BY <1>2, <1>4, Zenon

LEMMA RecvSignalKeeps == Inv /\ RecvSignal => Inv'
<1> SUFFICES ASSUME Inv, RecvSignal PROVE Inv'
  OBVIOUS
<1>1. signals \in Seq(SignalRec) /\ signals # <<>> /\ signals' = Tail(signals)
  BY InvGives DEF RecvSignal
<1>2. PICK s \in SignalRec : s = Head(signals)
  BY <1>1, HeadAndTail
<1>3. /\ signals' \in Seq(SignalRec)
      /\ \A i \in DOMAIN signals : signals[i] = s \/ (i - 1 \in DOMAIN signals' /\ signals'[i - 1] = signals[i])
  BY <1>1, <1>2, HeadAndTail
<1>4. UNCHANGED <<clock, probed, entry, unsent, conns>>
  BY DEF RecvSignal, Quietly, world
<1>5. CASE s.kind = "Link"
  <2>1. s.state \in {"Up", "Reconnecting"}
    BY <1>5 DEF SignalRec
  <2>2. LinkSignal(s)
    BY <1>2, <1>5 DEF RecvSignal
  <2> QED
    BY <1>3, <1>4, <2>1, <2>2, LinkSignalKeeps
<1>6. CASE s.kind # "Link"
  <2>1. PeerSignal(s)
    BY <1>2, <1>6 DEF RecvSignal
  <2>2. PICK handled : /\ Apply(handled, tasks) /\ \A jit \in Jitters : Handled(handled[jit], core)
                       /\ UNCHANGED done
    BY <1>6, <2>1, PeerSignalHandled
  <2>3. /\ Fine(core') /\ Heals(core') /\ SaidIsShown' /\ HeldIsProbe'
        /\ tasks \subseteq tasks' /\ tasks' \in SUBSET TaskRec
        /\ Surroundings' => TypeOK'
        /\ core'.forcing => core.forcing \/ \E t \in tasks' : t.kind = "force"
        /\ core'.probe.inFlight => core.probe.inFlight \/ \E t \in tasks' : t.kind = "probe"
        /\ \A p \in Peers : core'.peers[p].dialOut =>
               core.peers[p].dialOut \/ \E t \in tasks' : t.kind = "dial" /\ t.peer = p
    BY <2>2, LoopKeeps
  <2>4. Surroundings' /\ Queued'
    BY <1>3, <1>4, <2>2, InvGives DEF Surroundings, Queued
  <2>5. /\ \A kind : Awaited(kind) => Awaited(kind)'
        /\ \A p \in Peers : DialAwaited(p) => DialAwaited(p)'
    BY <2>2, <2>3, NothingLost
  <2>6. LinkNews => LinkNews'
    BY <1>3, <1>4, <1>6 DEF LinkNews
  <2>7. ForceIsAnswered' /\ ProbeIsOut'
    BY <2>3, <2>5, <2>6 DEF Inv, ForceIsAnswered, ProbeIsOut, Awaited
  <2>8. DialIsOut'
    BY <2>3, <2>5 DEF Inv, DialIsOut, DialAwaited
  <2> QED
    BY <2>3, <2>4, <2>7, <2>8 DEF Inv
<1> QED
  BY <1>5, <1>6

\* An answer taken off the queue: what else was awaited still is, and what this
\* one answered the core no longer takes for out, or has asked for again.
LEMMA AnswerTaken ==
    ASSUME Inv, NEW d \in AnswerRec, NEW handled, Apply(handled, tasks),
           \A jit \in Jitters : Handled(handled[jit], core),
           done # <<>>, d = Head(done), done' = Tail(done),
           UNCHANGED <<signals, clock, probed, entry, unsent, conns>>,
           d.kind = "force" => \A jit \in Jitters : ~handled[jit].core.forcing,
           d.kind = "probe" => \A jit \in Jitters :
               handled[jit].core.probe.inFlight => ToServer("probe") \in handled[jit].cmds,
           d.kind = "dial" => \A jit \in Jitters : ~handled[jit].core.peers[d.peer].dialOut
    PROVE  Inv'
<1>1. /\ Fine(core') /\ Heals(core') /\ SaidIsShown' /\ HeldIsProbe'
      /\ tasks \subseteq tasks' /\ tasks' \in SUBSET TaskRec
      /\ Surroundings' => TypeOK'
      /\ core'.forcing => core.forcing \/ \E t \in tasks' : t.kind = "force"
      /\ core'.probe.inFlight => core.probe.inFlight \/ \E t \in tasks' : t.kind = "probe"
      /\ \A p \in Peers : core'.peers[p].dialOut =>
             core.peers[p].dialOut \/ \E t \in tasks' : t.kind = "dial" /\ t.peer = p
      /\ \E jit \in Jitters :
             LET h == handled[jit] IN
             /\ core'.forcing = h.core.forcing
             /\ core'.probe.inFlight =>
                   \/ h.core.probe.inFlight /\ ToServer("probe") \notin h.cmds
                   \/ \E t \in tasks' : t.kind = "probe"
             /\ \A p \in Peers : core'.peers[p].dialOut =>
                   h.core.peers[p].dialOut \/ \E t \in tasks' : t.kind = "dial" /\ t.peer = p
  BY LoopKeeps
<1>2. /\ done' \in Seq(AnswerRec)
      /\ \A i \in DOMAIN done : done[i] = d \/ (i - 1 \in DOMAIN done' /\ done'[i - 1] = done[i])
  BY InvGives, HeadAndTail
<1>3. Surroundings' /\ Queued'
  BY <1>2, InvGives DEF Surroundings, Queued
<1>4. ASSUME NEW kind, kind # d.kind, Awaited(kind) PROVE Awaited(kind)'
  BY <1>1, <1>2, <1>4 DEF Awaited
<1>5. ASSUME NEW p \in Peers, ~(d.kind = "dial" /\ d.peer = p), DialAwaited(p) PROVE DialAwaited(p)'
  <2>1. CASE \E t \in tasks : t.kind = "dial" /\ t.peer = p
    BY <1>1, <2>1 DEF DialAwaited
  <2>2. ASSUME NEW i \in DOMAIN done, done[i].kind = "dial", done[i].peer = p PROVE DialAwaited(p)'
    <3>1. done[i] # d
      BY <1>5, <2>2
    <3>2. i - 1 \in DOMAIN done' /\ done'[i - 1] = done[i]
      BY <1>2, <3>1
    <3> QED
      BY <2>2, <3>2 DEF DialAwaited
  <2> QED
    BY <1>5, <2>1, <2>2 DEF DialAwaited
<1>6. LinkNews => LinkNews'
  BY DEF LinkNews
<1>7. ForceIsAnswered'
  <2>1. CASE d.kind = "force"
    BY <1>1, <2>1 DEF ForceIsAnswered
  <2>2. CASE d.kind # "force"
    BY <1>1, <1>4, <1>6, <2>2 DEF Inv, ForceIsAnswered, Awaited
  <2> QED
    BY <2>1, <2>2
<1>8. ProbeIsOut'
  <2>1. CASE d.kind = "probe"
    BY <1>1, <2>1 DEF ProbeIsOut, Awaited
  <2>2. CASE d.kind # "probe"
    BY <1>1, <1>4, <2>2 DEF Inv, ProbeIsOut, Awaited
  <2> QED
    BY <2>1, <2>2
<1>9. DialIsOut'
  <2> SUFFICES ASSUME NEW p \in Peers, core'.peers[p].dialOut PROVE DialAwaited(p)'
    BY DEF DialIsOut
  <2>1. CASE d.kind = "dial" /\ d.peer = p
    BY <1>1, <2>1 DEF DialAwaited
  <2>2. CASE ~(d.kind = "dial" /\ d.peer = p)
    <3>1. CASE core.peers[p].dialOut
      BY <1>5, <2>2, <3>1 DEF Inv, DialIsOut
    <3>2. CASE \E t \in tasks' : t.kind = "dial" /\ t.peer = p
      BY <3>2 DEF DialAwaited
    <3> QED
      BY <1>1, <3>1, <3>2
  <2> QED
    BY <2>1, <2>2
<1> QED
  BY <1>1, <1>3, <1>7, <1>8, <1>9 DEF Inv

LEMMA RecvDoneKeeps == Inv /\ RecvDone => Inv'
<1> SUFFICES ASSUME Inv, RecvDone PROVE Inv'
  OBVIOUS
<1>1. done \in Seq(AnswerRec) /\ done # <<>> /\ done' = Tail(done)
  BY InvGives DEF RecvDone
<1>2. PICK d \in AnswerRec : d = Head(done)
  BY <1>1, HeadAndTail
<1>3. UNCHANGED <<signals, clock, probed, entry, unsent, conns>>
  BY DEF RecvDone, Quietly, world
<1>4. d.at \in 0..MaxTime /\ Fine(At(core, d.at)) /\ Heals(At(core, d.at))
  <2>1. d.at \in 0..MaxTime
    BY DEF AnswerRec
  <2> QED
    BY <2>1, InvGives, AtFine
<1>5. ASSUME NEW o, Handled(o, At(core, d.at)) PROVE Handled(o, core)
  BY <1>4, <1>5, InvGives, AtHandled
<1>6. CASE d.kind = "probe"
  <2>1. PICK handled : handled = [jit \in Jitters |-> Probed(At(core, d.at), d.outcome, jit)]
    OBVIOUS
  <2>2. Apply(handled, tasks)
    BY <1>2, <1>6, <2>1 DEF RecvDone, RecvProbe
  <2>3. d.outcome \in Outcomes
    BY <1>6 DEF AnswerRec
  <2>4. ASSUME NEW jit \in Jitters
        PROVE  /\ Handled(handled[jit], core)
               /\ handled[jit].core.probe.inFlight => ToServer("probe") \in handled[jit].cmds
    <3>1. PICK o : o = Probed(At(core, d.at), d.outcome, jit)
      OBVIOUS
    <3>2. Handled(o, At(core, d.at)) /\ (o.core.probe.inFlight => ToServer("probe") \in o.cmds)
      BY <1>4, <2>3, <3>1, ProbedAsks
    <3> QED
      BY <1>5, <2>1, <3>1, <3>2
  <2> QED
    BY <1>1, <1>2, <1>3, <1>6, <2>2, <2>4, AnswerTaken
<1>7. CASE d.kind = "dial"
  <2>1. PICK handled : handled = [jit \in Jitters |-> Dialed(At(core, d.at), d.peer, d.outcome, jit[d.peer])]
    OBVIOUS
  <2>2. Apply(handled, tasks)
    BY <1>2, <1>7, <2>1 DEF RecvDone, RecvDial
  <2>3. d.outcome \in {"Connected", "InProgress", "Failed"} /\ d.peer \in Peers
    BY <1>7 DEF AnswerRec
  <2>4. ASSUME NEW jit \in Jitters
        PROVE  Handled(handled[jit], core) /\ ~handled[jit].core.peers[d.peer].dialOut
    <3>1. PICK o : o = Dialed(At(core, d.at), d.peer, d.outcome, jit[d.peer])
      OBVIOUS
    <3>2. jit[d.peer] \in Nat
      BY <2>3, InvGives
    <3>3. Handled(o, At(core, d.at)) /\ ~o.core.peers[d.peer].dialOut
      BY <1>4, <2>3, <3>1, <3>2, DialedAsks
    <3> QED
      BY <1>5, <2>1, <3>1, <3>3
  <2> QED
    BY <1>1, <1>2, <1>3, <1>7, <2>2, <2>4, AnswerTaken
<1>8. CASE d.kind = "force"
  <2>1. PICK handled : handled = [jit \in Jitters |-> ForceFailed(At(core, d.at))]
    OBVIOUS
  <2>2. Apply(handled, tasks)
    BY <1>2, <1>8, <2>1 DEF RecvDone, RecvForceFailed
  <2>3. /\ Handled(ForceFailed(At(core, d.at)), At(core, d.at))
        /\ ~ForceFailed(At(core, d.at)).core.forcing
    BY <1>4, ForceFailedAsks
  <2>4. \A jit \in Jitters : Handled(handled[jit], core) /\ ~handled[jit].core.forcing
    BY <1>5, <2>1, <2>3
  <2> QED
    BY <1>1, <1>2, <1>3, <1>8, <2>2, <2>4, AnswerTaken
<1> QED
  BY <1>6, <1>7, <1>8 DEF AnswerRec

-----------------------------------------------------------------------------
(* The tasks, the session and the peers.                                   *)

\* A task ends and its answer is queued.
LEMMA AnswerQueued ==
    ASSUME Inv, NEW t \in tasks, NEW d \in AnswerRec, d.kind = t.kind, d.kind = "dial" => d.peer = t.peer,
           Answer(t, d), UNCHANGED <<core, held, shown, clock, entry, probed, unsent, conns, signals>>
    PROVE  Inv'
<1>1. tasks' = tasks \ {t} /\ done' = Append(done, d)
  BY DEF Answer
<1>2. /\ done' \in Seq(AnswerRec)
      /\ \A i \in DOMAIN done : i \in DOMAIN done' /\ done'[i] = done[i]
      /\ \E i \in DOMAIN done' : done'[i] = d
  BY <1>1, InvGives, Appended
<1>3. tasks' \in SUBSET TaskRec /\ HeldIsProbe'
  BY <1>1, InvGives DEF Inv, HeldIsProbe
<1>4. Queued' /\ Surroundings'
  BY <1>2, InvGives DEF Queued, Surroundings
<1>5. ASSUME NEW kind, Awaited(kind) PROVE Awaited(kind)'
  BY <1>1, <1>2, <1>5 DEF Awaited
<1>6. ASSUME NEW p \in Peers, DialAwaited(p) PROVE DialAwaited(p)'
  BY <1>1, <1>2, <1>6 DEF DialAwaited
<1>7. LinkNews => LinkNews'
  BY DEF LinkNews
<1> QED
  BY <1>3, <1>4, <1>5, <1>6, <1>7, AroundKeeps

\* A task moves on, under its number.
LEMMA TaskMoves ==
    ASSUME Inv, NEW t \in tasks, NEW u \in TaskRec, u.id = t.id, u.kind = t.kind,
           t.kind = "dial" => u.peer = t.peer, tasks' = (tasks \ {t}) \cup {u},
           UNCHANGED <<core, held, shown, done, clock, entry, unsent>>, probed' \in Nat,
           conns' \in [Peers -> {"none", "relay", "direct"}],
           signals' = signals \/ \E s \in SignalRec : signals' = Append(signals, s)
    PROVE  Inv'
<1>1. /\ signals' \in Seq(SignalRec)
      /\ \A i \in DOMAIN signals : i \in DOMAIN signals' /\ signals'[i] = signals[i]
  <2>1. signals \in Seq(SignalRec)
    BY InvGives
  <2>2. ASSUME NEW s \in SignalRec, signals' = Append(signals, s)
        PROVE  /\ signals' \in Seq(SignalRec)
               /\ \A i \in DOMAIN signals : i \in DOMAIN signals' /\ signals'[i] = signals[i]
    BY <2>1, <2>2, Appended
  <2> QED
    BY <2>1, <2>2
<1>2. tasks' \in SUBSET TaskRec /\ HeldIsProbe'
  BY InvGives DEF Inv, HeldIsProbe
<1>3. Queued' /\ Surroundings'
  BY <1>1, InvGives DEF Queued, Surroundings
<1>4. ASSUME NEW kind, Awaited(kind) PROVE Awaited(kind)'
  BY <1>4 DEF Awaited
<1>5. ASSUME NEW p \in Peers, DialAwaited(p) PROVE DialAwaited(p)'
  BY <1>5 DEF DialAwaited
<1>6. LinkNews => LinkNews'
  BY <1>1 DEF LinkNews
<1> QED
  BY <1>2, <1>3, <1>4, <1>5, <1>6, AroundKeeps

LEMMA TaskNextKeeps == Inv /\ TaskNext => Inv'
<1> SUFFICES ASSUME Inv, NEW t \in tasks,
                    \/ ProbeSend(t) \/ ProbeEnds(t) \/ ForceEnds(t) \/ ForceRefused(t)
                    \/ DialConnects(t) \/ DialEnds(t)
             PROVE  Inv'
  BY DEF TaskNext
<1>t. t \in TaskRec /\ clock \in 0..MaxTime /\ entry \in [link : {"Up", "Reconnecting"}, inst : Nat]
      /\ probed \in Nat /\ conns \in [Peers -> {"none", "relay", "direct"}]
      /\ unsent \subseteq {"Up", "Reconnecting"}
  BY InvGives DEF Surroundings
<1>p. ASSUME t.kind = "probe", NEW o \in Outcomes
      PROVE  [kind |-> "probe", at |-> clock, outcome |-> o, old |-> t.old] \in AnswerRec
  <2>1. t.old \in BOOLEAN
    BY <1>t, <1>p DEF TaskRec
  <2> QED
    BY <1>t, <2>1 DEF AnswerRec
<1>1. CASE ProbeSend(t)
  <2>1. t.kind = "probe" /\ UNCHANGED <<core, held, shown, clock, entry, unsent, conns, signals>>
    BY <1>1 DEF ProbeSend, Keep
  <2>2. CASE entry.link = "Up"
    <3>1. PICK u : u = [t EXCEPT !.sent = TRUE]
      OBVIOUS
    <3>2. tasks' = (tasks \ {t}) \cup {u} /\ probed' = entry.inst /\ UNCHANGED done
      BY <1>1, <2>2, <3>1 DEF ProbeSend
    <3>3. u \in TaskRec /\ u.id = t.id /\ u.kind = t.kind
      <4>1. t \in [id : 1..MaxTasks, kind : {"probe"}, sent : BOOLEAN, at : 0..MaxTime, old : BOOLEAN]
        BY <1>t, <2>1 DEF TaskRec
      <4>2. /\ u \in [id : 1..MaxTasks, kind : {"probe"}, sent : BOOLEAN, at : 0..MaxTime, old : BOOLEAN]
            /\ u.id = t.id /\ u.kind = t.kind
        BY <3>1, <4>1
      <4> QED
        BY <4>2 DEF TaskRec
    <3>4. probed' \in Nat /\ conns' \in [Peers -> {"none", "relay", "direct"}]
      BY <1>t, <2>1, <3>2
    <3> QED
      BY <2>1, <3>2, <3>3, <3>4, TaskMoves
  <2>3. CASE entry.link # "Up"
    <3>1. ProbeAnswer(t, "Error") /\ UNCHANGED probed
      BY <1>1, <2>3 DEF ProbeSend
    <3>2. PICK d \in AnswerRec : d = [kind |-> "probe", at |-> clock, outcome |-> "Error", old |-> t.old]
      BY <1>p, <2>1 DEF Outcomes
    <3>3. Answer(t, d) /\ d.kind = "probe"
      BY <3>1, <3>2 DEF ProbeAnswer
    <3> QED
      BY <2>1, <3>1, <3>3, AnswerQueued
  <2> QED
    BY <2>2, <2>3
<1>2. CASE ProbeEnds(t)
  <2>1. t.kind = "probe" /\ UNCHANGED <<core, held, shown, clock, entry, probed, unsent, conns, signals>>
    BY <1>2 DEF ProbeEnds, Keep
  <2>2. PICK o \in Outcomes : ProbeAnswer(t, o)
    BY <1>2 DEF ProbeEnds, Outcomes
  <2>3. PICK d \in AnswerRec : d = [kind |-> "probe", at |-> clock, outcome |-> o, old |-> t.old]
    BY <1>p, <2>1
  <2>4. Answer(t, d) /\ d.kind = "probe"
    BY <2>2, <2>3 DEF ProbeAnswer
  <2> QED
    BY <2>1, <2>4, AnswerQueued
<1>3. CASE ForceEnds(t)
  <2>1. /\ t.kind = "force" /\ tasks' = tasks \ {t} /\ unsent' = unsent \cup {"Reconnecting"}
        /\ UNCHANGED <<core, held, shown, clock, probed, signals, done>>
        /\ entry' = [entry EXCEPT !.link = "Reconnecting"] /\ conns' = [p \in Peers |-> "none"]
    BY <1>3 DEF ForceEnds
  <2>2. tasks' \in SUBSET TaskRec /\ HeldIsProbe'
    BY <2>1, InvGives DEF Inv, HeldIsProbe
  <2>3. Queued'
    BY <2>1, InvGives DEF Queued
  <2>4. Surroundings'
    BY <1>t, <2>1 DEF Surroundings
  <2>5. LinkNews'
    BY <2>1 DEF LinkNews
  <2>6. Awaited("probe") => Awaited("probe")'
    BY <2>1 DEF Awaited
  <2>7. \A p \in Peers : DialAwaited(p) => DialAwaited(p)'
    BY <2>1 DEF DialAwaited
  <2> QED
    BY <2>1, <2>2, <2>3, <2>4, <2>5, <2>6, <2>7, AroundKeeps
<1>4. CASE ForceRefused(t)
  <2>1. t.kind = "force" /\ UNCHANGED <<core, held, shown, clock, entry, probed, unsent, conns, signals>>
    BY <1>4 DEF ForceRefused, Keep
  <2>2. PICK d \in AnswerRec : d = [kind |-> "force", at |-> clock]
    BY <1>t DEF AnswerRec
  <2>3. Answer(t, d) /\ d.kind = "force"
    BY <1>4, <2>2 DEF ForceRefused
  <2> QED
    BY <2>1, <2>3, AnswerQueued
<1>5. CASE DialConnects(t)
  <2>1. /\ t.kind = "dial" /\ UNCHANGED <<core, held, shown, clock, entry, probed, unsent, done>>
        /\ tasks' = (tasks \ {t}) \cup {[t EXCEPT !.up = TRUE]}
    BY <1>5 DEF DialConnects, Keep
  <2>2. t \in [id : 1..MaxTasks, kind : {"dial"}, peer : Peers, up : BOOLEAN]
    BY <1>t, <2>1 DEF TaskRec
  <2>3. PICK path \in {"relay", "direct"} :
            /\ conns' = [conns EXCEPT ![t.peer] = path]
            /\ Signal([kind |-> "PeerUp", peer |-> t.peer, path |-> path])
    BY <1>5 DEF DialConnects
  <2>4. PICK u : u = [t EXCEPT !.up = TRUE]
    OBVIOUS
  <2>5. /\ u \in [id : 1..MaxTasks, kind : {"dial"}, peer : Peers, up : BOOLEAN]
        /\ u.id = t.id /\ u.kind = t.kind /\ u.peer = t.peer
    BY <2>2, <2>4
  <2>6. u \in TaskRec
    BY <2>5 DEF TaskRec
  <2>7. conns' \in [Peers -> {"none", "relay", "direct"}] /\ probed' \in Nat
    BY <1>t, <2>1, <2>2, <2>3
  <2>8. PICK s \in SignalRec : s = [kind |-> "PeerUp", peer |-> t.peer, path |-> path]
    BY <2>2 DEF SignalRec
  <2>9. signals' = Append(signals, s)
    BY <2>3, <2>8 DEF Signal
  <2> QED
    BY <2>1, <2>4, <2>5, <2>6, <2>7, <2>9, TaskMoves
<1>6. CASE DialEnds(t)
  <2>1. t.kind = "dial" /\ UNCHANGED <<core, held, shown, clock, entry, probed, unsent, conns, signals>>
    BY <1>6 DEF DialEnds, Keep
  <2>2. PICK o \in {"Connected", "InProgress", "Failed"} :
            Answer(t, [kind |-> "dial", at |-> clock, peer |-> t.peer, outcome |-> o])
    BY <1>6 DEF DialEnds
  <2>3. t.peer \in Peers
    BY <1>t, <2>1 DEF TaskRec
  <2>4. PICK d \in AnswerRec : d = [kind |-> "dial", at |-> clock, peer |-> t.peer, outcome |-> o]
    BY <1>t, <2>3 DEF AnswerRec
  <2>5. d.kind = "dial" /\ d.peer = t.peer /\ Answer(t, d)
    BY <2>2, <2>4
  <2> QED
    BY <2>1, <2>5, AnswerQueued
<1> QED
  BY <1>1, <1>2, <1>3, <1>4, <1>5, <1>6

\* The session or a peer moves and may say so.
LEMMA WordKeeps ==
    ASSUME Inv, Around, Surroundings',
           \/ signals' = signals /\ (unsent # {} => unsent' # {})
           \/ \E s \in SignalRec : signals' = Append(signals, s) /\ (unsent' = unsent \/ s.kind = "Link")
    PROVE  Inv'
<1>1. UNCHANGED <<core, held, shown, tasks, done>>
  BY DEF Around
<1>2. signals' \in Seq(SignalRec) /\ (LinkNews => LinkNews')
  <2>1. signals \in Seq(SignalRec)
    BY InvGives
  <2>2. CASE signals' = signals /\ (unsent # {} => unsent' # {})
    BY <2>1, <2>2 DEF LinkNews
  <2>3. ASSUME NEW s \in SignalRec, signals' = Append(signals, s), unsent' = unsent \/ s.kind = "Link"
        PROVE  signals' \in Seq(SignalRec) /\ (LinkNews => LinkNews')
    <3>1. /\ signals' \in Seq(SignalRec)
          /\ \A i \in DOMAIN signals : i \in DOMAIN signals' /\ signals'[i] = signals[i]
          /\ \E i \in DOMAIN signals' : signals'[i] = s
      BY <2>1, <2>3, Appended
    <3> QED
      BY <2>3, <3>1 DEF LinkNews
  <2> QED
    BY <2>2, <2>3
<1>3. tasks' \in SUBSET TaskRec /\ HeldIsProbe'
  BY <1>1, InvGives DEF Inv, HeldIsProbe
<1>4. Queued'
  BY <1>1, <1>2, InvGives DEF Queued
<1>5. /\ Awaited("force") => Awaited("force")'
      /\ Awaited("probe") => Awaited("probe")'
      /\ \A p \in Peers : DialAwaited(p) => DialAwaited(p)'
  BY <1>1 DEF Awaited, DialAwaited
<1> QED
  BY <1>1, <1>2, <1>3, <1>4, <1>5, AroundKeeps

LEMMA SessionNextKeeps == Inv /\ SessionNext => Inv'
<1> SUFFICES ASSUME Inv, SessionNext PROVE Inv'
  OBVIOUS
<1>t. /\ clock \in 0..MaxTime /\ entry \in [link : {"Up", "Reconnecting"}, inst : Nat]
      /\ probed \in Nat /\ conns \in [Peers -> {"none", "relay", "direct"}]
      /\ unsent \subseteq {"Up", "Reconnecting"}
  BY InvGives DEF Surroundings
<1>1. CASE LinkDrops
  <2>1. /\ Around /\ signals' = signals /\ unsent' = unsent \cup {"Reconnecting"}
        /\ entry' = [entry EXCEPT !.link = "Reconnecting"] /\ conns' = [p \in Peers |-> "none"]
        /\ UNCHANGED <<clock, probed>>
    BY <1>1 DEF LinkDrops, Around
  <2>2. Surroundings'
    BY <1>t, <2>1 DEF Surroundings
  <2> QED
    BY <2>1, <2>2, WordKeeps
<1>2. CASE LinkInstalled
  <2>1. /\ Around /\ signals' = signals /\ unsent' = unsent \cup {"Up"}
        /\ entry' = [link |-> "Up", inst |-> entry.inst + 1] /\ conns' = conns
        /\ UNCHANGED <<clock, probed>>
    BY <1>2 DEF LinkInstalled, Around
  <2>2. Surroundings'
    BY <1>t, <2>1 DEF Surroundings
  <2> QED
    BY <2>1, <2>2, WordKeeps
<1>3. CASE LinkSignalled
  <2>1. PICK w \in unsent : /\ unsent' = unsent \ {w} /\ Signal([kind |-> "Link", state |-> w])
                            /\ UNCHANGED <<entry, conns>> /\ Around
    BY <1>3 DEF LinkSignalled
  <2>2. PICK s \in SignalRec : s = [kind |-> "Link", state |-> w]
    BY <1>t DEF SignalRec
  <2>3. signals' = Append(signals, s) /\ s.kind = "Link"
    BY <2>1, <2>2 DEF Signal
  <2>4. Surroundings'
    BY <1>t, <2>1 DEF Surroundings, Around
  <2> QED
    BY <2>1, <2>3, <2>4, WordKeeps
<1> QED
  BY <1>1, <1>2, <1>3 DEF SessionNext

LEMMA PeerNextKeeps == Inv /\ PeerNext => Inv'
<1> SUFFICES ASSUME Inv, NEW p \in Peers,
                    \/ PeerEnds(p) \/ PathChanges(p) \/ PeerAsks(p) \/ PeerArrives(p) \/ WindowOpens(p)
             PROVE  Inv'
  BY DEF PeerNext
<1>t. /\ clock \in 0..MaxTime /\ entry \in [link : {"Up", "Reconnecting"}, inst : Nat]
      /\ probed \in Nat /\ conns \in [Peers -> {"none", "relay", "direct"}]
      /\ unsent \subseteq {"Up", "Reconnecting"}
  BY InvGives DEF Surroundings
<1>1. ASSUME NEW s \in SignalRec, Signal(s), Around, UNCHANGED <<entry, unsent>>,
             conns' \in [Peers -> {"none", "relay", "direct"}]
      PROVE  Inv'
  <2>1. Surroundings'
    BY <1>t, <1>1 DEF Surroundings, Around
  <2>2. signals' = Append(signals, s)
    BY <1>1 DEF Signal
  <2> QED
    BY <1>1, <2>1, <2>2, WordKeeps
<1>2. CASE PeerEnds(p)
  <2>1. PICK kind \in {"PeerLost", "PeerReleased"} : Signal([kind |-> kind, peer |-> p])
    BY <1>2 DEF PeerEnds
  <2>2. [kind |-> kind, peer |-> p] \in SignalRec
    BY DEF SignalRec
  <2>3. Around /\ UNCHANGED <<entry, unsent>> /\ conns' = [conns EXCEPT ![p] = "none"]
    BY <1>2 DEF PeerEnds, PeerEvent
  <2>4. conns' \in [Peers -> {"none", "relay", "direct"}]
    BY <1>t, <2>3
  <2> QED
    BY <1>1, <2>1, <2>2, <2>3, <2>4
<1>3. CASE PathChanges(p)
  <2>1. PICK path \in {"relay", "direct"} :
            /\ Signal([kind |-> "PeerPath", peer |-> p, path |-> path]) /\ conns' = [conns EXCEPT ![p] = path]
    BY <1>3 DEF PathChanges
  <2>2. [kind |-> "PeerPath", peer |-> p, path |-> path] \in SignalRec
    BY DEF SignalRec
  <2>3. Around /\ UNCHANGED <<entry, unsent>>
    BY <1>3 DEF PathChanges, PeerEvent
  <2>4. conns' \in [Peers -> {"none", "relay", "direct"}]
    BY <1>t, <2>1
  <2> QED
    BY <1>1, <2>1, <2>2, <2>3, <2>4
<1>4. CASE PeerAsks(p)
  <2>1. [kind |-> "PeerReachable", peer |-> p] \in SignalRec
    BY DEF SignalRec
  <2> QED
    BY <1>1, <1>4, <1>t, <2>1 DEF PeerAsks, PeerEvent
<1>5. CASE PeerArrives(p)
  <2>1. PICK path \in {"relay", "direct"} :
            /\ Signal([kind |-> "PeerUp", peer |-> p, path |-> path]) /\ conns' = [conns EXCEPT ![p] = path]
    BY <1>5 DEF PeerArrives
  <2>2. [kind |-> "PeerUp", peer |-> p, path |-> path] \in SignalRec
    BY DEF SignalRec
  <2>3. Around /\ UNCHANGED <<entry, unsent>>
    BY <1>5 DEF PeerArrives, PeerEvent
  <2>4. conns' \in [Peers -> {"none", "relay", "direct"}]
    BY <1>t, <2>1
  <2> QED
    BY <1>1, <2>1, <2>2, <2>3, <2>4
<1>6. CASE WindowOpens(p)
  <2>1. [kind |-> "Interest", peer |-> p, ttl |-> InterestCeiling] \in SignalRec
    BY SupervisorAssumption DEF SignalRec
  <2> QED
    BY <1>1, <1>6, <1>t, <2>1 DEF WindowOpens, PeerEvent
<1> QED
  BY <1>2, <1>3, <1>4, <1>5, <1>6

LEMMA AdvanceKeeps == Inv /\ Advance => Inv'
<1> SUFFICES ASSUME Inv, Advance PROVE Inv'
  OBVIOUS
<1>1. clock' \in 0..MaxTime
  BY InvGives, SupervisorAssumption DEF Advance
<1>2. UNCHANGED <<core, signals, done, tasks, held, shown, probed, entry, unsent, conns>>
  BY DEF Advance, world
<1>3. Surroundings' /\ Queued' /\ HeldIsProbe' /\ tasks' \in SUBSET TaskRec
  BY <1>1, <1>2, InvGives DEF Inv, Surroundings, Queued, HeldIsProbe
<1>4. /\ Awaited("force") \/ LinkNews => Awaited("force")' \/ LinkNews'
      /\ Awaited("probe") => Awaited("probe")'
      /\ \A p \in Peers : DialAwaited(p) => DialAwaited(p)'
  BY <1>2 DEF Awaited, DialAwaited, LinkNews
<1> QED
  BY <1>2, <1>3, <1>4, AroundKeeps

LEMMA InitHolds == Init => Inv
<1> SUFFICES ASSUME Init PROVE Inv
  OBVIOUS
<1>1. NewPeer \in PeerRec /\ ~NewPeer.dialOut
  <2>1. 0 \in 0..AttemptCap /\ 0 \in 0..(UnreachableAfter + AttemptCap)
    BY PolicyAssumption
  <2>2. None \in Int /\ 0 \in Nat
    BY DEF None
  <2> QED
    BY <2>1, <2>2 DEF NewPeer, PeerRec
<1>2. NewProbe \in ProbeRec /\ NewProbe.nextAt = None /\ ~NewProbe.inFlight
  BY RearmedType
<1>3. PICK ps \in [Peers -> PeerRec] : ps = [p \in Peers |-> NewPeer]
  BY <1>1
<1>4. core = [link |-> "Up", now |-> 0, probe |-> NewProbe, peers |-> ps,
              healing |-> FALSE, forcing |-> FALSE, afterChange |-> FALSE]
  BY <1>3 DEF Init, NewCore
<1>5. 0 \in 0..MaxTime /\ 0 \in 0..MaxTasks
  BY SupervisorAssumption
<1>6. Fine(core) /\ core \in CoreRec
  BY <1>2, <1>4, <1>5 DEF Fine, CoreRec
<1>7. Heals(core) /\ ~core.healing /\ ~core.forcing /\ ~core.probe.inFlight /\ core.peers = ps
  BY <1>2, <1>4 DEF Heals
<1>8. \A p \in Peers : ~core.peers[p].dialOut
  BY <1>1, <1>3, <1>7
<1>9. Surroundings
  BY <1>5, SupervisorAssumption DEF Init, Surroundings
<1>10. Queued /\ HeldIsProbe /\ tasks \in SUBSET TaskRec /\ held \in 0..MaxTasks /\ shown \in {"Healing", "Healed"}
  BY <1>5 DEF Init, Queued, HeldIsProbe
<1>11. TypeOK
  BY <1>6, <1>9, <1>10, TypesAre
<1> QED
  BY <1>6, <1>7, <1>8, <1>10, <1>11 DEF Inv, SaidIsShown, ForceIsAnswered, ProbeIsOut, DialIsOut

LEMMA NextKeeps == Inv /\ [Next]_vars => Inv'
<1> SUFFICES ASSUME Inv, [Next]_vars PROVE Inv'
  OBVIOUS
<1>1. CASE LoopNext
  BY <1>1, RecvSignalKeeps, RecvDoneKeeps, RecvNetworkKeeps, TickKeeps, ReadBacklogKeeps DEF LoopNext
<1>2. CASE UNCHANGED vars
  <2>1. UNCHANGED <<core, clock, signals, done, tasks, held, shown, probed, entry, unsent, conns>>
    BY <1>2 DEF vars, world
  <2>2. Surroundings'
    BY <2>1, InvGives DEF Surroundings
  <2> QED
    BY <2>1, <2>2, WordKeeps DEF Around
<1> QED
  BY <1>1, <1>2, TaskNextKeeps, SessionNextKeeps, PeerNextKeeps, AdvanceKeeps DEF Next

-----------------------------------------------------------------------------
(* The theorems.                                                           *)

\* The invariant holds in every reachable state.
THEOREM InvHolds == Spec => []Inv
BY InitHolds, NextKeeps, PTL DEF Spec

\* Type correctness: the core's counters stay within the attempts its policy
\* tells apart (core/mod.rs, core/peer.rs), however many peers there are.
THEOREM TypeCorrect == Spec => []TypeOK
<1>1. Inv => TypeOK
  BY DEF Inv
<1> QED
  BY <1>1, InvHolds, PTL

\* core/mod.rs, `forcing`: a force in progress has its task, its failure or word
\* of the link coming, whatever the policy and however the loop orders its inputs.
THEOREM ForcesAreAnswered == Spec => []ForceIsAnswered
<1>1. Inv => ForceIsAnswered
  BY DEF Inv
<1> QED
  BY <1>1, InvHolds, PTL

\* core/mod.rs, Probe: a probe that the core takes for out is out or has its answer
\* queued; the abort of a held probe (shell.rs) loses none that the core waits for.
THEOREM ProbesAreOut == Spec => []ProbeIsOut
<1>1. Inv => ProbeIsOut
  BY DEF Inv
<1> QED
  BY <1>1, InvHolds, PTL

\* core/link.rs: while the core holds the link for lost, the windows' last word is
\* Healing.
THEOREM OutagesAreShown == Spec => []OutageIsShown
<1>1. Inv => OutageIsShown
  BY DEF Inv, Heals, SaidIsShown, OutageIsShown
<1> QED
  BY <1>1, InvHolds, PTL

\* drive.rs: a wanted and disconnected peer has a dial out or a wake-up set no later
\* than its next dial, for any number of peers and any schedule.
THEOREM WantedPeersAreDialled == Spec => []WantedPeerIsDialled
<1>1. ASSUME Inv PROVE WantedPeerIsDialled
  <2> SUFFICES ASSUME NEW p \in Peers, Watching(core), DialPeers, ~core.peers[p].connected,
                      Wanted(core.peers[p], core.now)
               PROVE  \/ core.peers[p].dialOut /\ DialAwaited(p)
                      \/ NextWake(core) # None /\ NextWake(core) <= core.peers[p].dialAt
    BY DEF WantedPeerIsDialled, DialAwaited
  <2>1. CASE core.peers[p].dialOut
    BY <1>1, <2>1 DEF Inv, DialIsOut
  <2>2. CASE ~core.peers[p].dialOut
    <3>1. DialDue(core.peers[p], core.now)
      BY <2>2 DEF DialDue
    <3>2. Fine(core)
      BY <1>1, InvGives
    <3> QED
      BY <3>1, <3>2, DueDialWakes
  <2> QED
    BY <2>1, <2>2
<1> QED
  BY <1>1, InvHolds, PTL

\* drive.rs: a Tick leaves nothing due, so the loop cannot spin on one wake-up.
THEOREM TicksSpend == Spec => TickSpendsItsWake
<1>1. Inv /\ [Next]_vars => [Tick => NextWake(core') = None \/ NextWake(core') > clock]_vars
  BY TickKeeps
<1> QED
  BY <1>1, InvHolds, PTL DEF Spec, TickSpendsItsWake
=============================================================================
