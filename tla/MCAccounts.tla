----------------------------- MODULE MCAccounts ------------------------------
(* TLC instance of a conversation's store, of the updater and of a browser's *)
(* client.  None reads another's state, so each behaviour runs one of them.  *)
EXTENDS Updater

CONSTANTS MESSAGES_PER_PAGE, MaxPage, MaxPeerIds, MaxOwnIds, MaxOps, Indices, ByWindow, Uncounted, MaxFaults, LegacyOwners
CONSTANTS cid1, t1, t2, o1, o2
CONSTANTS Cids, MaxInits, Takers, Openers, MaxMessages, MaxOpens, Overlap, None

\* Connections of a page are numbered.
ASSUME ClientAssumption == MaxInits \in Nat

\* So are pages and the messages on them.
ASSUME ConversationsAssumption ==
    /\ MESSAGES_PER_PAGE \in Nat \ {0} /\ MaxPage \in Nat /\ MaxPeerIds \in Nat
    /\ MaxOwnIds \in Nat /\ MaxOps \in Nat /\ Indices \subseteq Nat /\ Uncounted \in BOOLEAN /\ MaxFaults \in Nat

VARIABLES part, scoped, legacy, prefs, op, untold, sent, acked, announced, removed, owned, ops, faults

VARIABLES call, gen, connection_generation, sink, state, task, closed, reported, queue,
          taker, given, messages, opener, multiplexed, opens

C == INSTANCE Conversations
W == INSTANCE WasmClient

\* The delivery ladder (Conversations).
ASSUME LadderHolds == C!LadderHolds

\* Picked is SelectSeq.
ASSUME PickedIsSelectSeq ==
    \A n \in 0..3 : \A s \in [1..n -> 1..3], S \in SUBSET (1..3) :
        C!Picked(s, {i \in 1..n : s[i] \in S}) = SelectSeq(s, LAMBDA x : x \in S)

conversationVars == <<scoped, legacy, prefs, op, untold, sent, acked, announced, removed, owned, ops, faults>>
clientVars == <<call, gen, connection_generation, sink, state, task, closed, reported, queue,
                taker, given, messages, opener, multiplexed, opens>>

AccountsInit ==
    /\ part \in {"updater", "conversations", "client"}
    /\ Init /\ C!Init /\ W!Init
    /\ part # "updater" => ~mac /\ \A v \in Versions : works[v]
    /\ part # "conversations" => legacy = C!Nothing

UpdaterStep == part = "updater" /\ Next /\ UNCHANGED <<part, conversationVars, clientVars>>
ConversationsStep == part = "conversations" /\ C!Next /\ UNCHANGED <<part, vars, clientVars>>
ClientStep == part = "client" /\ W!Next /\ UNCHANGED <<part, vars, conversationVars>>

AccountsNext == UpdaterStep \/ ConversationsStep \/ ClientStep

AccountsSpec == AccountsInit /\ [][AccountsNext]_<<part, vars, conversationVars, clientVars>>

\* The conversation's store keeps what it handled (Conversations).
ConversationsSound == part = "conversations" => C!ConversationsSound
\* The browser's client keeps its promises to the page (WasmClient).
ClientSound == part = "client" => W!ClientSound
=============================================================================
