------------------------------ MODULE MCPeers -------------------------------
(* TLC instance of what one session has besides its link: its peer, its      *)
(* groups and the files it pulls, with the gate their requests pass.  None   *)
(* reads another's state, so each behaviour runs one of them.                *)
EXTENDS Peers, Gate, TLC

CONSTANTS a1, a2, g1, k1, k2, r1, r2
CONSTANTS GroupKeys, MaxChannels, MaxNews, MaxSdk
CONSTANTS PulledKeys, MaxPulls, Readers, MaxReads, Total, MaxForeign, MaxKept, Returns, InPlace, None

\* Neither a path nor a number stands for none.
ASSUME PullsAssumption == MaxPulls \in Nat /\ Total \in Nat /\ None \notin PulledKeys /\ None \notin Nat

VARIABLES part, session, sdk, epoch, chan, member, groups, departed, receiving, waiting, toRx,
          toKernel, telling, out, late, left, invites, owed, ask, asked, news
VARIABLES pulling, pull, pulls, sending, remote, handles, entries, generation, file, foreign, reader, reads, page, disturbed

G == INSTANCE Groups WITH entry <- session, told <- out, calls <- asked
F == INSTANCE Pulls WITH Keys <- PulledKeys, session <- pulling

groupVars == <<session, sdk, epoch, chan, member, groups, departed, receiving, waiting, toRx,
               toKernel, telling, out, late, left, invites, owed, ask, asked, news>>
pullVars == <<pulling, pull, pulls, sending, remote, handles, entries, generation, file, foreign, reader, reads, page, disturbed>>

\* Callers, paths and reads are alike.
Sym == Permutations(Callers) \cup Permutations(PulledKeys) \cup Permutations(Readers)

PeersInit ==
    /\ part \in {"peers", "groups", "pulls"}
    /\ Init /\ G!Init /\ F!Init
    /\ part # "peers" => registered

PeersStep == part = "peers" /\ Next /\ UNCHANGED <<part, groupVars, pullVars>>
GroupsStep == part = "groups" /\ G!Next /\ UNCHANGED <<part, vars, pullVars>>
PullsStep == part = "pulls" /\ F!Next /\ UNCHANGED <<part, vars, groupVars>>

PeersSpec ==
    PeersInit /\ [][PeersStep \/ GroupsStep \/ PullsStep]_<<part, vars, groupVars, pullVars>>

\* The session's groups are told of truly (Groups).
GroupsSound == part = "groups" => G!GroupsSound
\* Pulled files are read whole and under their own name (Pulls).
PullsSound == part = "pulls" => F!PullsSound
=============================================================================
