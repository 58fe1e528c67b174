---------------------------- MODULE WasmClient -----------------------------
(* The browser's client: one connection to the agent at a time, replaced by *)
(* restart().  Everything runs on one thread; other calls of the page run   *)
(* where a call awaits.  A connection is the number of the init or restart  *)
(* call that made it.                                                       *)
EXTENDS Naturals, Sequences, Functions

CONSTANTS
    Cids,        \* accounts of the page
    MaxInits,    \* calls of init and restart
    Takers,      \* next_message calls at once
    Openers,     \* open_messenger_for and ensure_messenger_open calls at once
    MaxMessages, \* responses from the agent
    MaxOpens,
    Overlap,     \* the page may call init, restart or close before the last such call returned
    None

VARIABLES
    call,        \* each init or restart: its progress
    gen,         \* the generation it read
    connection_generation, \* CONNECTION_GENERATION
    sink,        \* SINK_CHANNEL: whose, 0 for none
    state,       \* WORKSPACE_STATE
    task,        \* the communication task of each connection
    closed,      \* connections taken down on purpose while they ran
    reported,    \* connections whose death the page was told of
    queue,       \* responses waiting in each connection's stream
    taker,       \* the stream each next_message call holds
    given, messages,
    opener,      \* each open call
    multiplexed, \* <<connection, account>>, once per handle made
    opens

vars == <<call, gen, connection_generation, sink, state, task, closed, reported, queue, taker,
          given, messages, opener, multiplexed, opens>>

Inits == 1 .. MaxInits

-----------------------------------------------------------------------------
\* stream: whose receiver is there, 0 while a next_message call holds it
WorkspaceState(c) ==
    [conn |-> c, stream |-> c, pending |-> <<>>, connections |-> {}, pending_opens |-> {}]

NoOpen == [at |-> "idle", conn |-> 0, cid |-> None, ensure |-> FALSE]

Init ==
    /\ call = [c \in Inits |-> "none"]
    /\ gen = [c \in Inits |-> 0]
    /\ connection_generation = 0
    /\ sink = 0
    /\ state = None
    /\ task = [c \in Inits |-> "none"]
    /\ closed = {}
    /\ reported = {}
    /\ queue = [c \in Inits |-> <<>>]
    /\ taker = [t \in Takers |-> 0]
    /\ given = <<>>
    /\ messages = 0
    /\ opener = [o \in Openers |-> NoOpen]
    /\ multiplexed = <<>>
    /\ opens = 0

streamVars == <<queue, taker, given, messages>>
openVars == <<opener, multiplexed, opens>>

is_initialized == state # None

refuse_init(restart, initialized) == ~restart /\ initialized
teardown_before_connect(restart, initialized) == restart /\ initialized
should_report_death(task_generation, current_generation) == task_generation = current_generation

Settled == Overlap \/ \A c \in Inits : call[c] # "connecting"

\* The state that is dropped takes its task's shutdown signal with it.
Running(s) == IF s # None /\ task[s.conn] = "running" THEN {s.conn} ELSE {}
Ending(s) == [c \in Inits |-> IF c \in Running(s) THEN "ending" ELSE task[c]]

-----------------------------------------------------------------------------
(* init, restart, close_connection *)

\* Up to the await of the WebSocket: the old connection is closed, the sink is
\* already the new one's.
Begin(c, restart) ==
    /\ call[c] = "none" /\ \A b \in Inits : b < c => call[b] # "none"
    /\ Settled
    /\ ~refuse_init(restart, is_initialized)
    /\ IF teardown_before_connect(restart, is_initialized)
       THEN /\ connection_generation' = connection_generation + 1
            /\ task' = Ending(state)
            /\ closed' = closed \cup Running(state)
            /\ state' = None
       ELSE UNCHANGED <<connection_generation, task, closed, state>>
    /\ gen' = [gen EXCEPT ![c] = connection_generation']
    /\ sink' = c
    /\ call' = [call EXCEPT ![c] = "connecting"]
    /\ UNCHANGED <<reported, streamVars, openVars>>

ConnectFails(c) ==
    /\ call[c] = "connecting"
    /\ call' = [call EXCEPT ![c] = "failed"]
    /\ UNCHANGED <<gen, connection_generation, sink, state, task, closed, reported, streamVars, openVars>>

\* The task is spawned, the messenger made and the state installed, over
\* whatever state is there.
Connected(c) ==
    /\ call[c] = "connecting"
    /\ call' = [call EXCEPT ![c] = "done"]
    /\ state' = WorkspaceState(c)
    /\ task' = [Ending(state) EXCEPT ![c] = "running"]
    /\ closed' = closed \cup Running(state)
    /\ UNCHANGED <<gen, connection_generation, sink, reported, streamVars, openVars>>

\* The generation and the sink come first: where there is no state the call then
\* fails.  With no sink either nothing that runs would notice it.
close_connection ==
    /\ Settled /\ (is_initialized \/ sink # 0)
    /\ connection_generation' = connection_generation + 1
    /\ sink' = 0
    /\ task' = Ending(state)
    /\ closed' = closed \cup Running(state)
    /\ state' = None
    /\ UNCHANGED <<call, gen, reported, streamVars, openVars>>

\* The socket breaks: by itself, or because the stream's receiver is gone.
SocketEnds(c) ==
    /\ task[c] = "running"
    /\ task' = [task EXCEPT ![c] = "ending"]
    /\ UNCHANGED <<call, gen, connection_generation, sink, state, closed, reported, streamVars, openVars>>

TaskEnds(c) ==
    /\ task[c] = "ending"
    /\ task' = [task EXCEPT ![c] = "ended"]
    /\ reported' = IF should_report_death(gen[c], connection_generation) THEN reported \cup {c} ELSE reported
    /\ UNCHANGED <<call, gen, connection_generation, sink, state, closed, streamVars, openVars>>

-----------------------------------------------------------------------------
(* Responses: the connection's stream, next_message. *)

Hear(c) ==
    /\ task[c] = "running" /\ state # None /\ state.conn = c
    /\ messages < MaxMessages
    /\ messages' = messages + 1
    /\ queue' = [queue EXCEPT ![c] = Append(@, <<c, messages + 1>>)]
    /\ UNCHANGED <<call, gen, connection_generation, sink, state, task, closed, reported, taker,
                   given, openVars>>

\* What was rescued goes first; otherwise the call takes the stream away.
NextMessage(t) ==
    /\ taker[t] = 0 /\ is_initialized
    /\ IF state.pending # <<>>
       THEN /\ given' = Append(given, Head(state.pending))
            /\ state' = [state EXCEPT !.pending = Tail(@)]
            /\ UNCHANGED taker
       ELSE /\ state.stream # 0
            /\ taker' = [taker EXCEPT ![t] = state.stream]
            /\ state' = [state EXCEPT !.stream = 0]
            /\ UNCHANGED given
    /\ UNCHANGED <<call, gen, connection_generation, sink, task, closed, reported, queue, messages,
                   openVars>>

\* restore_message_stream: back in its place; or, when a stream is there, what it
\* still holds is rescued; or, with no state, what it holds is discarded.
restored(s, c, rest) ==
    IF s = None THEN s
    ELSE IF s.stream = 0 THEN [s EXCEPT !.stream = c]
    ELSE [s EXCEPT !.pending = @ \o rest]
left(s, rest) == IF s # None /\ s.stream = 0 THEN rest ELSE <<>>

Takes(t) ==
    /\ taker[t] # 0
    /\ LET c == taker[t]
       IN /\ queue[c] # <<>>
          /\ given' = Append(given, Head(queue[c]))
          /\ state' = restored(state, c, Tail(queue[c]))
          /\ queue' = [queue EXCEPT ![c] = left(state, Tail(@))]
    /\ taker' = [taker EXCEPT ![t] = 0]
    /\ UNCHANGED <<call, gen, connection_generation, sink, task, closed, reported, messages, openVars>>

\* The messenger of the stream is gone: "Stream closed".
TakesNothing(t) ==
    /\ taker[t] # 0
    /\ LET c == taker[t]
       IN /\ queue[c] = <<>> /\ (state # None => state.conn # c)
          /\ state' = restored(state, c, <<>>)
    /\ taker' = [taker EXCEPT ![t] = 0]
    /\ UNCHANGED <<call, gen, connection_generation, sink, task, closed, reported, queue, given,
                   messages, openVars>>

-----------------------------------------------------------------------------
(* open_messenger_for, ensure_messenger_open *)

others == <<call, gen, connection_generation, sink, task, closed, reported, streamVars>>

\* The check of connections and the claim of pending_opens are one step.
OpenUnclaimed(o, cid, ensure) ==
    /\ opener[o].at = "idle" /\ opens < MaxOpens /\ is_initialized
    /\ opens' = opens + 1
    /\ cid \notin state.connections
    /\ state' = [state EXCEPT !.pending_opens = @ \cup {cid}]
    /\ opener' = [opener EXCEPT ![o] = [at |-> "multiplex", conn |-> state.conn, cid |-> cid,
                                        ensure |-> ensure]]
    /\ UNCHANGED <<others, multiplexed>>

Open(o, cid, ensure) ==
    /\ opener[o].at = "idle" /\ opens < MaxOpens /\ is_initialized
    /\ opens' = opens + 1
    /\ cid \notin state.connections
    /\ LET claimed == cid \notin state.pending_opens
       IN /\ state' = [state EXCEPT !.pending_opens = @ \cup {cid}]
          /\ opener' = [opener EXCEPT ![o] =
                          [at |-> IF claimed THEN "multiplex" ELSE "waiting",
                           conn |-> state.conn, cid |-> cid, ensure |-> ensure]]
    /\ UNCHANGED <<others, multiplexed>>

OpenMessengerFor(o, cid) == Open(o, cid, FALSE)
EnsureMessengerOpen(o, cid) == Open(o, cid, TRUE)

\* multiplex returns.  The tables are those of the state the call began in, which
\* may have been replaced.
Multiplexed(o) ==
    /\ opener[o].at = "multiplex"
    /\ LET c == opener[o].conn
           cid == opener[o].cid
       IN \E ok \in BOOLEAN :
            /\ state' = IF state = None \/ state.conn # c THEN state
                        ELSE [state EXCEPT !.pending_opens = @ \ {cid},
                                           !.connections = IF ok THEN @ \cup {cid} ELSE @]
            /\ multiplexed' = IF ok THEN Append(multiplexed, <<c, cid>>) ELSE multiplexed
    /\ opener' = [opener EXCEPT ![o] = NoOpen]
    /\ UNCHANGED <<others, opens>>

\* One poll of a call that found the account claimed: open_messenger_for polls
\* once; ensure_messenger_open until the handle is there or 30 seconds have
\* passed, and starts over when the claim has gone.
Poll(o) ==
    /\ opener[o].at = "waiting"
    /\ LET cid == opener[o].cid
       IN IF /\ is_initialized /\ opener[o].ensure
             /\ cid \notin state.connections /\ cid \notin state.pending_opens
          THEN /\ state' = [state EXCEPT !.pending_opens = @ \cup {cid}]
               /\ opener' = [opener EXCEPT ![o].at = "multiplex", ![o].conn = state.conn]
          ELSE /\ (opener[o].ensure /\ is_initialized) => cid \in state.connections
               /\ opener' = [opener EXCEPT ![o] = NoOpen]
               /\ UNCHANGED state
    /\ UNCHANGED <<others, multiplexed, opens>>

PollTimesOut(o) ==
    /\ opener[o].at = "waiting" /\ opener[o].ensure
    /\ opener' = [opener EXCEPT ![o] = NoOpen]
    /\ UNCHANGED <<others, state, multiplexed, opens>>

\* send_direct_to_internal_service, send_media_frame: the sink of a connection
\* whose task still reads it.
CanSend == sink # 0 /\ task[sink] = "running"

-----------------------------------------------------------------------------
Next ==
    \/ \E c \in Inits : \/ \E restart \in BOOLEAN : Begin(c, restart)
                        \/ ConnectFails(c) \/ Connected(c) \/ SocketEnds(c) \/ TaskEnds(c)
                        \/ Hear(c)
    \/ close_connection
    \/ \E t \in Takers : NextMessage(t) \/ Takes(t) \/ TakesNothing(t)
    \/ \E o \in Openers :
         \/ \E cid \in Cids : OpenMessengerFor(o, cid) \/ EnsureMessengerOpen(o, cid)
         \/ Multiplexed(o) \/ Poll(o) \/ PollTimesOut(o)

Spec == Init /\ [][Next]_vars

-----------------------------------------------------------------------------
(* Properties. *)

\* The page is not told that a connection it replaced or closed has died.
DeathIsTrue == reported \cap closed = {}

\* At most one handle is made for an account on one connection: what the
\* messenger relies on (a second multiplex would take the first one's place).
OneHandleEach == IsInjective(multiplexed)

\* Responses of one connection reach the page once, and in the order in which
\* they arrived, whatever was rescued from a replaced stream.
DeliveredInOrder ==
    \A i, j \in DOMAIN given :
       i < j /\ given[i][1] = given[j][1] => given[i][2] < given[j][2]

\* A client that is initialised and whose task runs can send.  Not so when a
\* restart began before an earlier one returned.
LiveClientCanSend == state # None /\ task[state.conn] = "running" => CanSend

\* Deaths are told truly, handles are made once, responses are in order, and a live
\* client can send.
ClientSound == DeathIsTrue /\ OneHandleEach /\ DeliveredInOrder /\ LiveClientCanSend

\* The stream in the state is the state's connection's.  Not so when a call that
\* held the old stream returns while another holds the new one.
StreamIsCurrent == state # None => state.stream \in {0, state.conn}
=============================================================================
