------------------------------- MODULE Peers --------------------------------
(* One session and one peer: the dials of windows and of the supervisor, the *)
(* offers the peer makes and who answers them, registrations, the channels   *)
(* the SDK brings up, and the ends it reports.  Connections, offers and      *)
(* registrations are numbered; 0 is none.                                    *)
EXTENDS Naturals, Sequences, SequencesExt, FiniteSets

CONSTANTS
    Callers,    \* requests of windows and dials of the supervisor at once
    MaxCalls,
    MaxOffers, MaxConns, MaxRegs,
    MaxEnds,    \* ends of a connection or of the session
    MaxEvents,  \* of all of these but connections
    Policies    \* relay policies the windows give

ASSUME BoundsAreNat ==
    /\ MaxCalls \in Nat /\ MaxOffers \in Nat /\ MaxConns \in Nat /\ MaxRegs \in Nat
    /\ MaxEnds \in Nat /\ MaxEvents \in Nat

\* A caller is not an offer: the agent's own tasks are named by theirs.
ASSUME CallersApart == Callers \cap 1 .. MaxOffers = {}

VARIABLES
    mapped,     \* the session is in server_connection_map
    sdkPeer,    \* the connection the SDK holds to the peer
    conns,      \* connections made so far
    entry,      \* conn.peers: the instance of the peer's entry
    path,       \* peer_paths: the connection of the cell
    coming,     \* channels on the way into the state: "path", then "entry"
    turn,       \* what set_peer_turn left with the SDK for the next attempt
    relay,      \* window_relay
    offer,      \* pending_peer_connect_signals
    offers, answers,  \* made so far, and the answers sent to each
    decided,    \* the agent's decision on each
    accepting,  \* offers accepted, their channel not yet there
    reg, regs, regAnswers, \* pending_peer_registrations, likewise
    registered,
    told,       \* every PeerRegisterSuccess: to which request, and was it accepted
    reports,    \* ends the SDK has yet to report, by instance or unnamed
    ending,     \* reports whose handler asked the SDK
    task,       \* every caller, and the agent's task for every offer
    calls, ends

vars == <<mapped, sdkPeer, conns, entry, path, coming, turn, relay, offer, offers, answers, decided,
          accepting, reg, regs, regAnswers, registered, told, reports, ending, task, calls, ends>>

connVars == <<sdkPeer, conns, coming>>
stateVars == <<entry, path>>
turnVars == <<turn, relay>>
offerVars == <<offer, offers, answers, decided, accepting>>
regVars == <<reg, regs, regAnswers, registered, told>>
endVars == <<reports, ending, ends>>
taskVars == <<task, calls>>

OfferIds == 1 .. MaxOffers
Idle == [at |-> "idle", accept |-> FALSE, of |-> 0, turn |-> "absent"]

-----------------------------------------------------------------------------
(* What is decided without state. *)

\* stored: "absent", "marker", "other" or "error"
from_read(stored) ==
    CASE stored = "absent" -> "Absent"
      [] stored = "marker" -> "Paused"
      [] OTHER -> "Unreadable"

\* Levels are numbers, the minimum <<>> where it could not be read.
OfferFacts ==
    [registered : {"yes", "no", "unreadable"}, pause : {"absent", "marker", "other", "error"},
     offered : 0 .. 2, minimum : {<<>>} \cup {<<l>> : l \in 0 .. 2}]

decide(f) ==
    CASE f.registered # "yes" -> "LeaveToWindows"
      [] from_read(f.pause) = "Paused" -> "Decline"
      [] from_read(f.pause) = "Unreadable" -> "NoAnswer"
      [] f.minimum = <<>> -> "NoAnswer"
      [] f.offered < f.minimum[1] -> "Decline"
      [] OTHER -> "Accept"

agent_has_it(answer) == answer # "LeaveToWindows"

\* policy: "absent", "fallback" or "relay_only"; usable: not expired, and it
\* names a TURN server with credentials.  "clear" is no relay configuration.
relay_config(policy, usable) ==
    CASE policy = "absent" -> "clear"
      [] usable -> policy
      [] policy = "relay_only" -> "relay_only_no_servers"
      [] OTHER -> "clear"

\* An accept carries the window's relay; a decline clears.
answer_turn(accept, policy) == IF accept THEN policy ELSE "absent"

\* A reply of the server: "none", a list of <<cid or 0, online>>, anything else.
peers_from_response(reply) ==
    CASE reply.kind = "none" -> [ok |-> TRUE, peers |-> <<>>]
      [] reply.kind = "cids" ->
            [ok |-> TRUE, peers |-> SelectSeq(reply.peers, LAMBDA p : p[1] # 0)]
      [] OTHER -> [ok |-> FALSE, peers |-> <<>>]

\* An end before the reply, an error and a timeout are not "no peers".
query_server_peer_list(event) ==
    IF event.kind \in {"ended", "error", "elapsed"} THEN [ok |-> FALSE, peers |-> <<>>]
                                                    ELSE peers_from_response(event)

\* Own session left out; the cached name only where the server gave none ("").
build_peer_information_map(self, peers, name, cached) ==
    [c \in {peers[i][1] : i \in DOMAIN peers} \ {self} |->
        IF name[c] # "" THEN name[c] ELSE cached[c]]

\* Refused at once while the session's link is down; no answer of the server is
\* not an empty list.
ListAllPeers(reconnecting, event, self, name, cached) ==
    LET reply == query_server_peer_list(event)
    IN  IF reconnecting \/ ~reply.ok THEN [ok |-> FALSE, cids |-> {}]
        ELSE [ok |-> TRUE, cids |-> DOMAIN build_peer_information_map(self, reply.peers, name, cached)]
ListRegisteredPeers(reconnecting, event, self, name, cached) ==
    ListAllPeers(reconnecting, event, self, name, cached)

\* Who gets a message a peer sent: the account's ILM where the agent hosts it
\* and the bytes are a frame of ILM's, else the windows attached now.
spawn_read_stream(hosted, frame, attached) == IF hosted /\ frame THEN {"ilm"} ELSE attached

lost_its_direct_route(previous, now) ==
    previous.path # "server" /\ now.path = "server" /\ ~now.closed

reported_end(reported, sdk_holds_peer) ==
    [kind |-> IF sdk_holds_peer THEN "Reported" ELSE "Gone", of |-> reported]

ends_this_connection(current, end) ==
    end.kind = "Gone" \/ (end.of # 0 /\ end.of = current)

\* An unreadable or unregistered fact never accepts, and no offer below the
\* account's minimum is accepted (inbound_connect/decide.rs).
ASSUME DecideIsSafe ==
    \A f \in OfferFacts :
        decide(f) = "Accept" =>
            /\ f.registered = "yes" /\ f.pause = "absent" /\ f.minimum # <<>>
            /\ f.offered >= f.minimum[1]

\* Relay-only never becomes an attempt the SDK may make directly (turn.rs).
ASSUME RelayOnlyStaysSo ==
    \A usable \in BOOLEAN :
        relay_config("relay_only", usable) \in {"relay_only", "relay_only_no_servers"}

\* Only the server's own word lists nobody, and the session itself is never
\* among its peers (peer/mod.rs).
ASSUME NoAnswerIsNotNobody ==
    \A kind \in {"none", "cids", "ended", "error", "elapsed", "other"}, reconnecting \in BOOLEAN,
       peers \in {<<>>, <<<<0, TRUE>>>>, <<<<1, TRUE>>>>, <<<<2, TRUE>>, <<1, FALSE>>>>} :
        LET name == [c \in 0 .. 2 |-> IF c = 1 THEN "" ELSE "name"]
            out == ListAllPeers(reconnecting, [kind |-> kind, peers |-> peers], 1, name, name)
        IN  /\ out.ok <=> kind \in {"none", "cids"} /\ ~reconnecting
            /\ 1 \notin out.cids /\ 0 \notin out.cids

-----------------------------------------------------------------------------
Init ==
    /\ mapped = TRUE
    /\ sdkPeer = 0 /\ conns = 0 /\ coming = {}
    /\ entry = 0 /\ path = 0
    /\ turn = "clear" /\ relay = "absent"
    /\ offer = 0 /\ offers = 0 /\ answers = [o \in OfferIds |-> <<>>]
    /\ decided = [o \in OfferIds |-> "none"] /\ accepting = {}
    /\ reg = 0 /\ regs = 0 /\ regAnswers = [r \in 1 .. MaxRegs |-> 0] /\ registered \in BOOLEAN
    /\ told = {}
    /\ reports = {} /\ ending = {} /\ ends = 0
    /\ task = [a \in Callers \cup OfferIds |-> Idle]
    /\ calls = 0

Room == calls + offers + regs + ends < MaxEvents

goto(a, at) == task' = [task EXCEPT ![a].at = at]
idle(a) == task' = [task EXCEPT ![a] = Idle]

Begin(a, at, accept, policy) ==
    /\ task[a] = Idle /\ calls < MaxCalls /\ Room
    /\ calls' = calls + 1
    /\ task' = [task EXCEPT ![a] = [at |-> at, accept |-> accept, of |-> 0, turn |-> policy]]

-----------------------------------------------------------------------------
(* dial *)

PeerConnect(a, policy) ==
    /\ Begin(a, IF mapped /\ entry # 0 THEN "query" ELSE "find", FALSE, policy)
    /\ UNCHANGED <<mapped, connVars, stateVars, turnVars, offerVars, regVars, endVars>>

\* The SDK cannot say: refused, nothing changed.  It has the peer: refused.
QuerySdk(a) ==
    /\ task[a].at = "query"
    /\ \/ idle(a)
       \/ sdkPeer = 0 /\ goto(a, "clear")
    /\ UNCHANGED <<mapped, connVars, stateVars, turnVars, offerVars, regVars, endVars, calls>>

ClearStale(a) ==
    /\ task[a].at = "clear"
    /\ entry' = 0
    /\ goto(a, "find")
    /\ UNCHANGED <<mapped, connVars, path, turnVars, offerVars, regVars, endVars, calls>>

FindTarget(a) ==
    /\ task[a].at = "find"
    /\ \/ idle(a) /\ UNCHANGED relay
       \/ goto(a, "turn") /\ relay' = IF mapped THEN task[a].turn ELSE relay
    /\ UNCHANGED <<mapped, connVars, stateVars, turn, offerVars, regVars, endVars, calls>>

SetTurn(a) ==
    /\ task[a].at = "turn"
    /\ \/ idle(a) /\ UNCHANGED turn
       \/ \E usable \in BOOLEAN :
             turn' = relay_config(task[a].turn, usable) /\ goto(a, "connect")
    /\ UNCHANGED <<mapped, connVars, stateVars, relay, offerVars, regVars, endVars, calls>>

\* The SDK uses up the turn configuration with the attempt.
ConnectToPeer(a) ==
    /\ task[a].at = "connect"
    /\ \/ UNCHANGED connVars
       \/ /\ mapped /\ conns < MaxConns
          /\ conns' = conns + 1 /\ sdkPeer' = conns'
          /\ coming' = coming \cup {[conn |-> conns', at |-> "path"]}
    /\ turn' = "clear"
    /\ idle(a)
    /\ UNCHANGED <<mapped, stateVars, relay, offerVars, regVars, endVars, calls>>

\* PeerChannelCreated, for an offer that was accepted.
ChannelCreated(o) ==
    /\ o \in accepting /\ mapped /\ conns < MaxConns
    /\ accepting' = accepting \ {o}
    /\ conns' = conns + 1 /\ sdkPeer' = conns'
    /\ coming' = coming \cup {[conn |-> conns', at |-> "path"]}
    /\ turn' = "clear"
    /\ UNCHANGED <<mapped, stateVars, relay, offer, offers, answers, decided, regVars, endVars, taskVars>>

peer_path_up(c) ==
    /\ [conn |-> c, at |-> "path"] \in coming
    /\ coming' = (coming \ {[conn |-> c, at |-> "path"]}) \cup {[conn |-> c, at |-> "entry"]}
    /\ path' = c
    /\ UNCHANGED <<mapped, sdkPeer, conns, entry, turnVars, offerVars, regVars, endVars, taskVars>>

\* add_peer_connection: replaces the sink and the instance of an entry.
upsert_peer_connection(c) ==
    /\ [conn |-> c, at |-> "entry"] \in coming
    /\ coming' = coming \ {[conn |-> c, at |-> "entry"]}
    /\ entry' = IF mapped THEN c ELSE entry
    /\ UNCHANGED <<mapped, sdkPeer, conns, path, turnVars, offerVars, regVars, endVars, taskVars>>

-----------------------------------------------------------------------------
(* Offers *)

PostConnect ==
    /\ mapped /\ offers < MaxOffers /\ Room
    /\ offers' = offers + 1
    /\ offer' = offers'
    /\ task' = [task EXCEPT ![offers'].at = "decide"]
    /\ UNCHANGED <<mapped, connVars, stateVars, turnVars, answers, decided, accepting, regVars, endVars, calls>>

\* Not hosted is answered as unregistered is: left to the windows.
agent_answer_for(o) ==
    /\ task[o].at = "decide"
    /\ \E answer \in {decide(f) : f \in OfferFacts} :
          /\ decided' = [decided EXCEPT ![o] = answer]
          /\ task' = [task EXCEPT ![o] =
                IF answer \in {"Accept", "Decline"}
                THEN [Idle EXCEPT !.at = "check", !.accept = (answer = "Accept")]
                ELSE [Idle EXCEPT !.at = "done"]]
    /\ UNCHANGED <<mapped, connVars, stateVars, turnVars, offer, offers, answers, accepting, regVars, endVars, calls>>

\* A window answers an offer it was told the agent leaves to it.
PeerConnectAccept(a, accept, policy) ==
    /\ \E o \in OfferIds : decided[o] = "LeaveToWindows"
    /\ Begin(a, "check", accept, policy)
    /\ relay' = IF accept /\ mapped THEN policy ELSE relay
    /\ UNCHANGED <<mapped, connVars, stateVars, turn, offerVars, regVars, endVars>>

finished(a) == IF a \in OfferIds THEN goto(a, "done") ELSE idle(a)

toTake(a) ==
    task' = [task EXCEPT ![a].at = "take", ![a].turn = IF a \in OfferIds THEN relay ELSE @]

AnswerChecksEntry(a) ==
    /\ task[a].at = "check"
    /\ IF task[a].accept /\ entry # 0 THEN finished(a) ELSE toTake(a)
    /\ UNCHANGED <<mapped, connVars, stateVars, turnVars, offerVars, regVars, endVars, calls>>

\* answer_offer: nothing is sent where the peer is connected and no offer waits.
\* The agent answers with the relay a window last gave.
AnswerChecks(a) ==
    /\ task[a].at = "check"
    /\ IF task[a].accept /\ entry # 0 /\ offer = 0 THEN finished(a) ELSE toTake(a)
    /\ UNCHANGED <<mapped, connVars, stateVars, turnVars, offerVars, regVars, endVars, calls>>

AnswerTakes(a) ==
    /\ task[a].at = "take"
    /\ IF offer = 0
       THEN finished(a)
       ELSE task' = [task EXCEPT ![a].at = "answer", ![a].of = offer]
    /\ offer' = 0
    /\ UNCHANGED <<mapped, connVars, stateVars, turnVars, offers, answers, decided, accepting, regVars, endVars, calls>>

\* set_peer_turn, then the answer; an error of either loses the offer.
AnswerSets(a) ==
    /\ task[a].at = "answer"
    /\ \/ finished(a) /\ UNCHANGED turn
       \/ /\ \E usable \in BOOLEAN :
                turn' = relay_config(answer_turn(task[a].accept, task[a].turn), usable)
          /\ goto(a, "send")
    /\ UNCHANGED <<mapped, connVars, stateVars, relay, offerVars, regVars, endVars, calls>>

AnswerSends(a) ==
    /\ task[a].at = "send"
    /\ \/ UNCHANGED <<answers, accepting>>
       \/ /\ answers' = [answers EXCEPT ![task[a].of] = Append(@, task[a].accept)]
          /\ accepting' = IF task[a].accept THEN accepting \cup {task[a].of} ELSE accepting
    /\ finished(a)
    /\ UNCHANGED <<mapped, connVars, stateVars, turnVars, offer, offers, decided, regVars, endVars, calls>>

-----------------------------------------------------------------------------
(* Registration *)

PostRegister ==
    /\ mapped /\ regs < MaxRegs /\ Room
    /\ regs' = regs + 1 /\ reg' = regs'
    /\ UNCHANGED <<mapped, connVars, stateVars, turnVars, offerVars, regAnswers, registered, told, endVars, taskVars>>

\* Taken out first; an error of the SDK loses it.
PeerRegisterRespond(a) ==
    /\ reg # 0
    /\ Begin(a, "respond", TRUE, "absent")
    /\ UNCHANGED <<mapped, connVars, stateVars, turnVars, offerVars, regVars, endVars>>

RespondTakes(a) ==
    /\ task[a].at = "respond"
    /\ IF reg = 0 THEN idle(a) ELSE task' = [task EXCEPT ![a].at = "responding", ![a].of = reg]
    /\ reg' = 0
    /\ UNCHANGED <<mapped, connVars, stateVars, turnVars, offerVars, regs, regAnswers, registered, told, endVars, calls>>

\* The window that answered is told PeerRegisterSuccess, of a decline too.
RespondSends(a) ==
    /\ task[a].at = "responding"
    /\ \/ UNCHANGED <<regAnswers, registered, told>>
       \/ \E accept \in BOOLEAN :
             /\ regAnswers' = [regAnswers EXCEPT ![task[a].of] = @ + 1]
             /\ registered' = (registered \/ accept)
             /\ told' = told \cup {[to |-> "respond", accepted |-> accept]}
    /\ idle(a)
    /\ UNCHANGED <<mapped, connVars, stateVars, turnVars, offerVars, reg, regs, endVars, calls>>

PeerRegister(a) ==
    /\ ~registered
    /\ Begin(a, "propose", FALSE, "absent")
    /\ UNCHANGED <<mapped, connVars, stateVars, turnVars, offerVars, regVars, endVars>>

\* accepted, declined and failed are all an Ok of the SDK.
is_accepted(status) == status = "accepted"

\* found: the account manager has the new peer; without it the answer is a failure.
RegisterAnswered(a, status, found, connect_after) ==
    /\ task[a].at = "propose"
    /\ registered' = (registered \/ status = "accepted")
    /\ IF is_accepted(status) /\ found
       THEN /\ told' = told \cup {[to |-> "register", accepted |-> status = "accepted"]}
            /\ IF connect_after
               THEN goto(a, IF mapped /\ entry # 0 THEN "query" ELSE "find")
               ELSE idle(a)
       ELSE idle(a) /\ UNCHANGED told
    /\ UNCHANGED <<mapped, connVars, stateVars, turnVars, offerVars, reg, regs, regAnswers, endVars, calls>>

-----------------------------------------------------------------------------
(* Ends *)

\* A direct connection's end names it, a relayed one's does not.
ConnectionEnds(named) ==
    /\ sdkPeer # 0 /\ ends < MaxEnds /\ Room
    /\ ends' = ends + 1
    /\ reports' = reports \cup {IF named THEN sdkPeer ELSE 0}
    /\ sdkPeer' = 0
    /\ UNCHANGED <<mapped, conns, coming, stateVars, turnVars, offerVars, regVars, ending, taskVars>>

\* PeerSignal::Disconnect: the SDK is asked, then the entry cleaned up.
DisconnectReported(r) ==
    /\ r \in reports
    /\ reports' = reports \ {r}
    /\ \/ ending' = ending \cup {reported_end(r, sdkPeer # 0)}
       \/ UNCHANGED ending
    /\ UNCHANGED <<mapped, connVars, stateVars, turnVars, offerVars, regVars, ends, taskVars>>

\* prune_cid_scoped_state for the pair
prune == path' = 0 /\ offer' = 0 /\ reg' = 0

cleanup_reported_peer(e) ==
    /\ e \in ending
    /\ ending' = ending \ {e}
    /\ IF entry # 0 /\ ends_this_connection(entry, e)
       THEN entry' = 0 /\ prune
       ELSE UNCHANGED <<stateVars, offer, reg>>
    /\ UNCHANGED <<mapped, connVars, turnVars, offers, answers, decided, accepting, regs, regAnswers,
                   registered, told, reports, ends, taskVars>>

\* Disconnect of the peer by a window: whichever connection there is.
PeerDisconnect ==
    /\ entry # 0 /\ ends < MaxEnds /\ Room
    /\ ends' = ends + 1
    /\ entry' = 0 /\ prune
    /\ sdkPeer' = 0
    /\ UNCHANGED <<mapped, conns, coming, turnVars, offers, answers, decided, accepting, regs,
                   regAnswers, registered, told, reports, ending, taskVars>>

SessionEnds ==
    /\ mapped /\ ends < MaxEnds /\ Room
    /\ ends' = ends + 1
    /\ mapped' = FALSE
    /\ entry' = 0 /\ prune
    /\ sdkPeer' = 0 /\ accepting' = {} /\ relay' = "absent"
    /\ UNCHANGED <<conns, coming, turn, offers, answers, decided, regs, regAnswers, registered, told,
                   reports, ending, taskVars>>

SessionReturns ==
    /\ ~mapped /\ mapped' = TRUE
    /\ UNCHANGED <<connVars, stateVars, turnVars, offerVars, regVars, endVars, taskVars>>

Next ==
    \/ \E a \in Callers :
          \/ \E policy \in Policies :
                PeerConnect(a, policy) \/ \E accept \in BOOLEAN : PeerConnectAccept(a, accept, policy)
          \/ QuerySdk(a) \/ ClearStale(a) \/ FindTarget(a) \/ SetTurn(a) \/ ConnectToPeer(a)
          \/ PeerRegisterRespond(a) \/ RespondTakes(a) \/ RespondSends(a) \/ PeerRegister(a)
          \/ \E status \in {"accepted", "declined", "failed", "error"}, found, c \in BOOLEAN :
                RegisterAnswered(a, status, found, c)
    \/ \E a \in Callers \cup OfferIds :
          AnswerChecks(a) \/ AnswerTakes(a) \/ AnswerSets(a) \/ AnswerSends(a)
    \/ \E o \in OfferIds : agent_answer_for(o) \/ ChannelCreated(o)
    \/ \E c \in 1 .. MaxConns : peer_path_up(c) \/ upsert_peer_connection(c)
    \/ PostConnect \/ PostRegister
    \/ \E named \in BOOLEAN : ConnectionEnds(named)
    \/ \E r \in reports : DisconnectReported(r)
    \/ \E e \in ending : cleanup_reported_peer(e)
    \/ PeerDisconnect \/ SessionEnds \/ SessionReturns

Spec == Init /\ [][Next]_vars

-----------------------------------------------------------------------------
\* An offer and a registration request get at most one answer, whichever of the
\* agent and the windows come to it (answer.rs, respond_register.rs).
OneAnswerEach ==
    /\ \A o \in OfferIds : Len(answers[o]) <= 1
    /\ \A r \in 1 .. MaxRegs : regAnswers[r] <= 1

\* The offer the agent decided to answer is not left waiting behind an entry of
\* a connection the peer no longer has (answer.rs: "only while no offer is
\* waiting").
DecidedOfferIsTaken ==
    offer # 0 => ~(decided[offer] \in {"Accept", "Decline"} /\ task[offer].at = "done")

\* A registration this side asked for is reported done only if the peer accepted it
\* (register.rs).
RegisteredWasAccepted == \A t \in told : t.to = "register" => t.accepted

\* All three: offers and registrations are answered, once, and reported as they were
\* answered (answer.rs, register.rs).
PeersSound == OneAnswerEach /\ DecidedOfferIsTaken /\ RegisteredWasAccepted

-----------------------------------------------------------------------------
(* What does not hold; see the README. *)

\* The agent's answer goes to the offer it decided on.
AnswerIsForItsOffer == \A o \in OfferIds : task[o].at \in {"answer", "send"} => task[o].of = o

\* The window that answers a request is told a registration only if it accepted.
RespondedWasAccepted == \A t \in told : t.accepted

\* A connection the SDK holds, all its steps done, is in the session's state.
LiveConnectionKept ==
    mapped /\ sdkPeer # 0 /\ coming = {} /\ ending = {} => entry = sdkPeer

\* ... and has its path cell, by which calls are let through.
PathIsKnown == entry # 0 /\ entry = sdkPeer /\ coming = {} => path = entry

\* A dial that asked for relay-only starts with a relay-only configuration.
RelayOnlyHeld ==
    \A a \in Callers : task[a].at = "connect" /\ task[a].turn = "relay_only" => turn # "clear"
=============================================================================
