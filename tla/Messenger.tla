----------------------------- MODULE Messenger -----------------------------
(* The client's messenger: one connection to the agent shared by the ILM    *)
(* handles of several accounts.  One task owns the connection (it routes    *)
(* what arrives, sends what is queued and polls the sessions, one of them   *)
(* at a time); multiplex and the drop of a handle run on other threads in a *)
(* native client and between that task's steps in a browser.                *)
EXTENDS Naturals, Sequences, SequencesExt

CONSTANTS
    Cids,          \* accounts of this client
    Handles,       \* calls of multiplex, numbered in the order they are made
    None,
    MaxTraffic,    \* arrivals, session polls and outgoing frames, together
    MaxAsks,       \* storage requests of one handle
    GiveUpAfter    \* unreadable payloads in a row that end the stream

ASSUME BoundsAreNat ==
    /\ {MaxTraffic, MaxAsks} \cup Handles \subseteq Nat
    /\ GiveUpAfter \in Nat \ {0}
    /\ IsFiniteSet(Cids)

\* None stands for an absent Option, and the promise's "no account" for none.
ASSUME NoneIsApart ==
    /\ None \notin Handles \cup Cids \cup [cid : Cids, frame : 1..MaxTraffic]
    /\ "no account" \notin Cids

VARIABLES
    browser,    \* single-threaded client: no step runs between two awaits
    handle,     \* each multiplex call: account, progress, ILM channel, frames in hand
    routes,     \* txs_to_inbound: account -> the handle its frames go to
    backends,   \* account -> the handle whose backend inspects its replies
    pending,    \* pending_inbound_messages
    hand,       \* the frame the router found no route for, not queued yet
    net,        \* from the agent
    junk,       \* unreadable payloads in a row
    out,        \* queue to the connection
    agent,      \* requests the agent has and has not answered
    ask,        \* each handle's storage request
    asked,      \* requests each handle has made
    background, \* polls whose answer is not for the application
    connected,
    appOpen,    \* the application still reads its stream
    app,        \* replies that reached the application
    read,       \* frames each account's ILM has read
    traffic,    \* arrivals, polls and frames so far; each has its number
    phase, link

vars == <<browser, handle, routes, backends, pending, hand, net, junk, out,
          agent, ask, asked, background, connected, appOpen, app,
          read, traffic, phase, link>>

-----------------------------------------------------------------------------
(* The wire (wire/mod.rs, wire/decode.rs): what ILM hands over and the bytes *)
(* it becomes; decoding gives the frame back.                                *)

Payloads == {"Message", "Ack", "Poll"}
Extensions ==
    {[ext |-> "None"], [ext |-> "Advertise"]}
    \cup [ext : {"Negotiated"}, ack : BOOLEAN, codec : {"Identity", "Deflate"}]

Negotiated(e) == e.ext = "Negotiated"

\* data_request: compression that did not pay and no ack is the legacy frame.
data_request(e) ==
    IF e.ext = "Advertise" THEN [wire |-> "Refused"]
    ELSE IF Negotiated(e) /\ (e.ack \/ e.codec # "Identity")
         THEN [wire |-> "MessageV2", codec |-> e.codec, ack |-> e.ack]
         ELSE [wire |-> "Message"]

control_request(p, e) ==
    IF Negotiated(e) THEN [wire |-> "Refused"]
    ELSE [wire |-> "ISMAux", signal |-> p, trailer |-> e.ext = "Advertise"]

to_request(p, e) == IF p = "Message" THEN data_request(e) ELSE control_request(p, e)

\* Frames of this build, of a later one, and bytes that are no frame.
Wires ==
    ({to_request(p, e) : p \in Payloads, e \in Extensions} \ {[wire |-> "Refused"]})
    \cup {[wire |-> "MessageV2", codec |-> "Unknown", ack |-> FALSE], [wire |-> "Raw"]}

decode_notification(w) ==
    IF w.wire = "Raw" THEN "NotAFrame"
    ELSE IF w.wire = "ISMAux" THEN "Control"
    ELSE IF w.wire = "MessageV2" /\ w.codec = "Unknown" THEN "Unreadable"
    ELSE "Data"

\* Data and control frames are routed alike.
routed_as(w) == IF decode_notification(w) \in {"Data", "Control"} THEN "Frame" ELSE decode_notification(w)

\* What ILM reads off a control frame: an advertisement, or a legacy peer.
evidence(w) == IF w.wire = "ISMAux" /\ w.trailer THEN "Advertised" ELSE "Legacy"

-----------------------------------------------------------------------------
Idle == [cid |-> None, pc |-> "none", inbox |-> <<>>, taken |-> <<>>]

Opening == {"routed", "filling", "loading"}
Held == Opening \cup {"live"}

Init ==
    /\ browser \in BOOLEAN
    /\ handle = [h \in Handles |-> Idle]
    /\ routes = [c \in Cids |-> None]
    /\ backends = [c \in Cids |-> None]
    /\ pending = [c \in Cids |-> <<>>]
    /\ hand = None
    /\ net = <<>>
    /\ junk = 0
    /\ out = <<>>
    /\ agent = {}
    /\ ask = [h \in Handles |-> "idle"]
    /\ asked = [h \in Handles |-> 0]
    /\ background = {}
    /\ connected = {}
    /\ appOpen = TRUE
    /\ app = {}
    /\ read = [c \in Cids |-> {}]
    /\ traffic = 0
    /\ phase = "running"
    /\ link = TRUE

\* Two slots of the state that most actions leave alone.
sides == <<connected, appOpen, app, junk>>
counts == <<traffic, asked>>

-----------------------------------------------------------------------------
(* multiplex, and the drop of its handle. *)

OpenUndrained(h, c) ==
    /\ handle[h].pc = "none" /\ \A g \in Handles : g < h => handle[g].pc # "none"
    /\ routes' = [routes EXCEPT ![c] = h]
    /\ backends' = [backends EXCEPT ![c] = h]
    /\ handle' = [handle EXCEPT ![h] = [cid |-> c, pc |-> "loading", inbox |-> <<>>, taken |-> <<>>]]
    /\ UNCHANGED <<browser, pending, hand, net, out, agent, ask, background, read, phase, link, sides, counts>>

\* In the browser nothing runs between the insertion of the route and the
\* backend, and open_messenger_for keeps a second call of one account out.
Open(h, c) ==
    /\ handle[h].pc = "none" /\ \A g \in Handles : g < h => handle[g].pc # "none"
    /\ routes' = [routes EXCEPT ![c] = h]
    /\ IF browser
       THEN /\ \A g \in Handles : handle[g].cid = c => handle[g].pc \notin Held
            /\ handle' = [handle EXCEPT ![h] =
                 [cid |-> c, pc |-> "loading", inbox |-> pending[c], taken |-> <<>>]]
            /\ pending' = [pending EXCEPT ![c] = <<>>]
            /\ backends' = [backends EXCEPT ![c] = h]
       ELSE /\ handle' = [handle EXCEPT ![h] =
                 [cid |-> c, pc |-> "routed", inbox |-> <<>>, taken |-> <<>>]]
            /\ UNCHANGED <<pending, backends>>
    /\ UNCHANGED <<browser, hand, net, out, agent, ask, background, read, phase, link, sides, counts>>

TakePendingNothing(h) ==
    /\ handle[h].pc = "routed"
    /\ handle' = [handle EXCEPT ![h].pc = "filling"]
    /\ pending' = [pending EXCEPT ![handle[h].cid] = <<>>]
    /\ UNCHANGED <<browser, routes, backends, hand, net, out, agent, ask, background, read, phase, link, sides, counts>>

TakePending(h) ==
    /\ handle[h].pc = "routed"
    /\ handle' = [handle EXCEPT ![h].pc = "filling", ![h].taken = pending[handle[h].cid]]
    /\ pending' = [pending EXCEPT ![handle[h].cid] = <<>>]
    /\ UNCHANGED <<browser, routes, backends, hand, net, out, agent, ask, background, read, phase, link, sides, counts>>

Flush(h) ==
    /\ handle[h].pc = "filling"
    /\ handle[h].taken # <<>>
    /\ handle' = [handle EXCEPT ![h].inbox = Append(@, Head(handle[h].taken)),
                                ![h].taken = Tail(@)]
    /\ UNCHANGED <<browser, routes, backends, pending, hand, net, out, agent, ask, background, read, phase, link, sides, counts>>

NewBackend(h) ==
    /\ handle[h].pc = "filling"
    /\ handle[h].taken = <<>>
    /\ handle' = [handle EXCEPT ![h].pc = "loading"]
    /\ backends' = [backends EXCEPT ![handle[h].cid] = h]
    /\ UNCHANGED <<browser, routes, pending, hand, net, out, agent, ask, background, read, phase, link, sides, counts>>

\* ILM::new reads its counters through the backend and is ready once it has.
Load(h) ==
    /\ handle[h].pc = "loading"
    /\ ask[h] = "answered"
    /\ handle' = [handle EXCEPT ![h].pc = "live"]
    /\ ask' = [ask EXCEPT ![h] = "idle"]
    /\ UNCHANGED <<browser, routes, backends, pending, hand, net, out, agent, background, read, phase, link, sides, counts>>

\* The handle leaves, by its owner's drop or because ILM::new failed: the route
\* of its account is removed, whichever handle it leads to.
Drop(h) ==
    /\ \/ handle[h].pc = "live"
       \/ handle[h].pc = "loading" /\ ask[h] \in {"answered", "failed"}
    /\ routes' = [routes EXCEPT ![handle[h].cid] = None]
    /\ handle' = [handle EXCEPT ![h].pc = "gone", ![h].inbox = <<>>]
    /\ UNCHANGED <<browser, backends, pending, hand, net, out, agent, ask, background, read, phase, link, sides, counts>>

\* The ILM takes the next frame of its channel.
NextMessage(h) ==
    /\ handle[h].pc = "live"
    /\ handle[h].inbox # <<>>
    /\ read' = [read EXCEPT ![handle[h].cid] = @ \cup {Head(handle[h].inbox)}]
    /\ handle' = [handle EXCEPT ![h].inbox = Tail(@)]
    /\ UNCHANGED <<browser, routes, backends, pending, hand, net, out, agent, ask, background, phase, link, sides, counts>>

\* The ILM sends a frame; the task that forwards it stops with the messenger.
SendMessage(h, p, e) ==
    /\ handle[h].pc = "live"
    /\ traffic < MaxTraffic
    /\ phase # "stopped"
    /\ traffic' = traffic + 1
    /\ out' = IF phase = "running" THEN Append(out, [kind |-> "frame", sendable |-> to_request(p, e).wire # "Refused"]) ELSE out
    /\ UNCHANGED <<browser, handle, routes, backends, pending, hand, net, agent, ask, background, read, phase, link, sides, asked>>

-----------------------------------------------------------------------------
(* Storage requests of a backend: RequestChannel. *)

\* The reply slot exists before the request leaves.
Register(h) ==
    /\ handle[h].pc \in {"loading", "live"}
    /\ ask[h] \in {"idle", "answered", "failed"}
    /\ handle[h].pc = "loading" => ask[h] = "idle"
    /\ asked[h] < MaxAsks
    /\ ask' = [ask EXCEPT ![h] = "registered"]
    /\ asked' = [asked EXCEPT ![h] = @ + 1]
    /\ UNCHANGED <<browser, handle, routes, backends, pending, hand, net, out, agent, background, read, phase, link, sides, traffic>>

SendRequestLate(h) ==
    /\ \/ /\ ask[h] = "registered"
          /\ out' = IF phase = "running" THEN Append(out, [kind |-> "ask", of |-> h]) ELSE out
          /\ ask' = [ask EXCEPT ![h] = "late"]
       \/ /\ ask[h] = "late"
          /\ ask' = [ask EXCEPT ![h] = "waiting"]
          /\ UNCHANGED out
    /\ UNCHANGED <<browser, handle, routes, backends, pending, hand, net, agent, background, read, phase, link, sides, counts>>

SendRequestUnchecked(h) ==
    /\ ask[h] = "registered"
    /\ out' = IF phase = "running" THEN Append(out, [kind |-> "ask", of |-> h]) ELSE out
    /\ ask' = [ask EXCEPT ![h] = "waiting"]
    /\ UNCHANGED <<browser, handle, routes, backends, pending, hand, net, agent, background, read, phase, link, sides, counts>>

\* send_to_network: the queue's receiver is gone once the tasks have ended.
SendRequest(h) ==
    /\ ask[h] = "registered"
    /\ IF phase = "running"
       THEN /\ out' = Append(out, [kind |-> "ask", of |-> h])
            /\ ask' = [ask EXCEPT ![h] = "waiting"]
       ELSE /\ ask' = [ask EXCEPT ![h] = "failed"]
            /\ UNCHANGED out
    /\ UNCHANGED <<browser, handle, routes, backends, pending, hand, net, agent, background, read, phase, link, sides, counts>>

-----------------------------------------------------------------------------
(* The connection's task. *)

Running == phase = "running" /\ hand = None

\* A backend that the reply can reach: the account's present one.
Inspected(h) == backends[handle[h].cid] = h

EndTasks == phase' = "ended" /\ out' = <<>>

\* ism_to_background_task_outbound: a request the connection refuses is
\* abandoned; a refused frame ends the messenger; an unencodable one is skipped.
Outbound ==
    /\ Running
    /\ out # <<>>
    /\ LET m == Head(out) IN
       \/ /\ link
          /\ out' = Tail(out)
          /\ agent' = IF m.kind = "frame" THEN agent ELSE agent \cup {m}
          /\ UNCHANGED <<ask, phase>>
       \/ /\ ~link
          /\ m.kind = "frame" /\ m.sendable
          /\ EndTasks
          /\ UNCHANGED <<agent, ask>>
       \/ /\ ~link
          /\ (m.kind = "frame" => ~m.sendable)
          /\ out' = Tail(out)
          /\ ask' = IF m.kind = "ask" /\ Inspected(m.of)
                    THEN [ask EXCEPT ![m.of] = "failed"] ELSE ask
          /\ UNCHANGED <<agent, phase>>
    /\ UNCHANGED <<browser, handle, routes, backends, pending, hand, net, background, read, link, sides, counts>>

\* periodic_session_status_poller: one request for each routed account.
Poll ==
    LET routed == {c \in Cids : routes[c] # None}
        n == Cardinality(routed)
    IN
    /\ Running
    /\ n > 0 /\ traffic + n <= MaxTraffic
    /\ traffic' = traffic + n
    /\ background' = background \cup (traffic + 1)..(traffic + n)
    /\ out' = out \o [i \in 1..n |-> [kind |-> "poll", of |-> traffic + i]]
    /\ UNCHANGED <<browser, handle, routes, backends, pending, hand, net, agent, ask, read, phase, link, sides, asked>>

Hear == Running /\ net # <<>> /\ net' = Tail(net)

SkipUnreadableLonger ==
    /\ Hear
    /\ Head(net).kind = "junk"
    /\ junk' = junk + 1
    /\ IF junk + 1 > GiveUpAfter THEN EndTasks ELSE UNCHANGED <<phase, out>>
    /\ UNCHANGED <<browser, handle, routes, backends, pending, hand, agent, ask, background, read, link, connected, appOpen, app, counts>>

\* A payload that is not a response is skipped, until too many come in a row.
SkipUnreadable ==
    /\ Hear
    /\ Head(net).kind = "junk"
    /\ junk' = junk + 1
    /\ IF junk + 1 >= GiveUpAfter THEN EndTasks ELSE UNCHANGED <<phase, out>>
    /\ UNCHANGED <<browser, handle, routes, backends, pending, hand, agent, ask, background, read, link, connected, appOpen, app, counts>>

\* A frame of an account goes to its route; without one it is to be queued.
\* A frame nobody can decode is dropped; raw bytes are the application's.  What a
\* data frame carries is also forwarded to the application, listening or not, which
\* changes nothing here.
RouteFrame ==
    /\ Hear
    /\ Head(net).kind = "notification"
    /\ junk' = 0
    /\ LET m == Head(net)
           as == m.as
           to == routes[m.cid]
       IN
       \/ /\ as = "NotAFrame"
          /\ IF appOpen THEN UNCHANGED <<phase, out>> ELSE EndTasks
          /\ UNCHANGED <<handle, pending, hand>>
       \/ /\ as = "Unreadable"
          /\ UNCHANGED <<handle, pending, hand, phase, out>>
       \/ /\ as = "Frame"
          /\ IF to # None
             THEN /\ handle' = [handle EXCEPT ![to].inbox = Append(@, m.id)]
                  /\ UNCHANGED <<pending, hand>>
             ELSE /\ IF browser
                     THEN /\ pending' = [pending EXCEPT ![m.cid] = Append(@, m.id)]
                          /\ UNCHANGED hand
                     ELSE /\ hand' = [cid |-> m.cid, frame |-> m.id]
                          /\ UNCHANGED pending
                  /\ UNCHANGED handle
          /\ UNCHANGED <<phase, out>>
    /\ UNCHANGED <<browser, routes, backends, agent, ask, background, read, link, connected, appOpen, app, counts>>

QueueFrame ==
    /\ hand # None
    /\ pending' = [pending EXCEPT ![hand.cid] = Append(@, hand.frame)]
    /\ hand' = None
    /\ UNCHANGED <<browser, handle, routes, backends, net, out, agent, ask, background, read, phase, link, sides, counts>>

\* A poll's answer refreshes the sessions and stays here; a reply some backend
\* waits for is claimed by it; everything else is the application's.
Reply ==
    /\ Hear
    /\ Head(net).kind \in {"poll", "ask", "other"}
    /\ junk' = 0
    /\ LET m == Head(net)
           mine == \/ m.kind = "poll" /\ m.of \in background
                   \/ m.kind = "ask" /\ Inspected(m.of) /\ ask[m.of] \in {"waiting", "registered"}
       IN
       /\ connected' = IF m.kind = "poll" THEN m.sessions ELSE connected
       /\ background' = IF m.kind = "poll" THEN background \ {m.of} ELSE background
       /\ ask' = IF m.kind = "ask" /\ mine THEN [ask EXCEPT ![m.of] = "answered"] ELSE ask
       /\ IF mine THEN UNCHANGED <<app, phase, out>>
          ELSE IF appOpen
               THEN /\ app' = app \cup {[kind |-> m.kind, of |-> m.of]}
                    /\ UNCHANGED <<phase, out>>
               ELSE EndTasks /\ UNCHANGED app
    /\ UNCHANGED <<browser, handle, routes, backends, pending, hand, agent, read, link, appOpen, counts>>

\* The agent has hung up and everything it sent has been heard.
StreamEnds ==
    /\ Running
    /\ ~link /\ net = <<>>
    /\ EndTasks
    /\ UNCHANGED <<browser, handle, routes, backends, pending, hand, net, agent, ask, background, read, link, sides, counts>>

\* After the select: no longer running, and every request in a backend's map is
\* abandoned.
AbandonNone ==
    /\ phase = "ended"
    /\ phase' = "stopped"
    /\ UNCHANGED <<browser, handle, routes, backends, pending, hand, net, out, agent, ask, background, read, link, sides, counts>>

Abandon ==
    /\ phase = "ended"
    /\ phase' = "stopped"
    /\ ask' = [h \in Handles |->
                 IF ask[h] \in {"registered", "waiting"} /\ Inspected(h) THEN "failed" ELSE ask[h]]
    /\ UNCHANGED <<browser, handle, routes, backends, pending, hand, net, out, agent, background, read, link, sides, counts>>

-----------------------------------------------------------------------------
(* The agent, and the application. *)

AgentSends(m) ==
    /\ link /\ phase = "running"
    /\ traffic < MaxTraffic
    /\ traffic' = traffic + 1
    /\ net' = Append(net, m)
    /\ UNCHANGED <<browser, handle, routes, backends, pending, hand, out, agent, ask, background, read, phase, link, sides, asked>>

\* The bytes do not change on the way, so they are decoded here.
Notification(c, w) == [kind |-> "notification", id |-> traffic + 1, cid |-> c, as |-> routed_as(w)]
Junk == [kind |-> "junk"]
Other == [kind |-> "other", of |-> None]

AgentAnswers(m, S) ==
    /\ link
    /\ m \in agent
    /\ agent' = agent \ {m}
    /\ net' = Append(net, IF m.kind = "poll" THEN [kind |-> "poll", of |-> m.of, sessions |-> S] ELSE m)
    /\ UNCHANGED <<browser, handle, routes, backends, pending, hand, out, ask, background, read, phase, link, sides, counts>>

LinkFails ==
    /\ link
    /\ link' = FALSE
    /\ UNCHANGED <<browser, handle, routes, backends, pending, hand, net, out, agent, ask, background, read, phase, sides, counts>>

AppStops ==
    /\ appOpen
    /\ appOpen' = FALSE
    /\ UNCHANGED <<browser, handle, routes, backends, pending, hand, net, out, agent, ask, background, read, phase, link, connected, app, junk, counts>>

Task == Outbound \/ SkipUnreadable \/ RouteFrame \/ QueueFrame \/ Reply \/ StreamEnds \/ Abandon

Caller(h) ==
    \/ TakePending(h) \/ Flush(h) \/ NewBackend(h) \/ Load(h)
    \/ NextMessage(h) \/ SendRequest(h)

Next ==
    \/ Task \/ Poll \/ LinkFails \/ AppStops
    \/ \E h \in Handles :
         \/ Caller(h) \/ Register(h) \/ Drop(h)
         \/ \E c \in Cids : Open(h, c)
         \/ \E p \in Payloads, e \in Extensions : SendMessage(h, p, e)
    \/ \E c \in Cids, w \in Wires : AgentSends(Notification(c, w))
    \/ AgentSends(Junk) \/ AgentSends(Other)
    \/ \E m \in agent, S \in SUBSET Cids : AgentAnswers(m, S)

Spec == Init /\ [][Next]_vars

\* The connection's task and the threads of the callers are scheduled, and the
\* agent answers every storage request it receives (backend_channel.rs).
FairSpec ==
    /\ Spec
    /\ WF_vars(Task)
    /\ \A h \in Handles : WF_vars(Caller(h))
    /\ WF_vars(\E m \in agent, S \in SUBSET Cids : AgentAnswers(m, S))

-----------------------------------------------------------------------------
\* Everything kept for an account: queued, in the router's hand, or on its way
\* through a multiplex call to an ILM.
Kept(c) ==
    Range(pending[c])
    \cup (IF hand # None /\ hand.cid = c THEN {hand.frame} ELSE {})
    \cup UNION {Range(handle[h].inbox) \cup Range(handle[h].taken) : h \in {g \in Handles : handle[g].cid = c}}

Promise == INSTANCE Mailbox WITH
    Frames <- 1..MaxTraffic,
    box <- [c \in Cids |-> Kept(c)],
    open <- [h \in Handles |-> IF handle[h].pc \in Held THEN handle[h].cid ELSE "no account"]

\* The messenger implements the mailbox: however multiplex calls, drops and
\* arrivals interleave, a routed frame is read at most once and is lost only
\* with a handle that closes (RouteFrame, QueueFrame and TakePending of mod.rs).
KeepsItsPromise == Promise!Spec

Requests == {[kind |-> "ask", of |-> h] : h \in Handles}
            \cup {[kind |-> "poll", of |-> n] : n \in 1..MaxTraffic}

\* The state of the messenger has the shapes its fields allow.
TypeOK ==
    /\ browser \in BOOLEAN /\ link \in BOOLEAN /\ appOpen \in BOOLEAN
    /\ phase \in {"running", "ended", "stopped"}
    /\ \A h \in Handles :
         /\ handle[h].pc \in Held \cup {"none", "gone"}
         /\ handle[h].cid \in Cids \cup {None}
         /\ Range(handle[h].inbox) \cup Range(handle[h].taken) \subseteq 1..traffic
         /\ ask[h] \in {"idle", "registered", "waiting", "answered", "failed"}
    /\ \A c \in Cids : {routes[c], backends[c]} \subseteq Handles \cup {None}
    /\ \A c \in Cids : Range(pending[c]) \subseteq 1..traffic
    /\ background \subseteq 1..traffic
    /\ agent \subseteq Requests
    /\ phase = "running" => junk < GiveUpAfter

\* In the browser a frame waits for its account's handle only while there is
\* none: the queue is emptied in the step that installs the route.
BrowserStrandsNothing ==
    \A c \in Cids : browser /\ routes[c] # None => pending[c] = <<>>

\* When the messenger has stopped nobody waits for an answer the connection can
\* no longer carry, except a backend that a later multiplex has replaced.
StoppedLeavesNoWaiter ==
    phase = "stopped" => \A h \in Handles : ask[h] = "waiting" => ~Inspected(h)

\* A reply handed to the application is never a poll's, nor one the account's
\* present backend asked for: the slot is registered before the request leaves.
RepliesStayInside ==
    \A r \in app :
        /\ r.kind # "poll"
        /\ r.kind = "ask" => ~Inspected(r.of)

\* Every request of a backend in use is answered or failed, with no deadline.
RequestSettles ==
    \A h \in Handles :
        (ask[h] = "waiting" /\ Inspected(h)) ~> (ask[h] # "waiting" \/ ~Inspected(h))

\* Not so in a native client: a multiplex between the router's look-up and its
\* queueing leaves the frame behind (mod.rs:503), and a drop removes the route
\* of the account's newer handle (mod.rs:815).
NothingStranded ==
    \A c \in Cids : routes[c] # None /\ (\A h \in Handles : handle[h].cid = c => handle[h].pc \notin Opening)
        => pending[c] = <<>>

LiveHandleIsRouted ==
    \A h \in Handles : handle[h].pc = "live" => routes[handle[h].cid] # None

\* What ILM hands over is what the other side decodes.
ASSUME WireRoundTrips ==
    \A p \in Payloads, e \in Extensions :
        LET w == to_request(p, e) IN
        w.wire # "Refused" =>
            /\ decode_notification(w) = (IF p = "Message" THEN "Data" ELSE "Control")
            /\ (evidence(w) = "Advertised") = (e.ext = "Advertise")
=============================================================================
