---------------------------- MODULE Membership ----------------------------
(***************************************************************************)
(* Which windows hold which session, and what the agent runs for a session *)
(* because of it (kernel/session_subscribers.rs, membership.rs,            *)
(* membership_hosting.rs, migration_guard.rs, ilm/registry.rs,             *)
(* requests/connection_management*.rs).                                    *)
(*                                                                         *)
(* A window is a localhost connection.  A session keeps the ordered set of *)
(* the windows attached to it; the set is shared, so a handler that cloned *)
(* it may still change it after the session has left the map.  Requests    *)
(* are handled by tasks of their own, on several threads.  A step of a     *)
(* task is what it does under one lock: the map of sessions, the set of    *)
(* one session, the slots of the hosted ILMs and those of the supervisors  *)
(* each have theirs.  Only the map's is ever held while another is taken.  *)
(***************************************************************************)
EXTENDS Naturals, Sequences, FiniteSets, Functions

CONSTANTS
    Conns,         \* localhost connections, each with its own uuid
    Cids,          \* accounts
    Tasks,         \* handlers that run at once
    None,          \* no connection, no task
    MaxLives,      \* bound: sessions of one account, one after the other
    MaxRequests    \* bound: requests and closes

ASSUME MembershipAssumption ==
    /\ None \notin Conns \cup Cids \cup Tasks
    /\ MaxLives \in Nat \ {0} /\ MaxRequests \in Nat

VARIABLES
    clients,      \* tx_to_localhost_clients: the connections that are open
    fresh,        \* connections not yet accepted
    declared,     \* client_capabilities: connections that declared agent_ilm
    cur,          \* server_connection_map: the session of each account, or 0
    born,         \* how many sessions each account has had
    subs,         \* the subscriber set of each session
    slot,         \* IlmRegistry.hosts
    tickets,      \* IlmRegistry.tickets
    supervised,   \* Supervisors.slots
    mapLock,      \* the task that holds the map's write lock between steps
    task,         \* what each task is doing
    told,         \* the role each window was last told, per account
    requests,     \* how much of MaxRequests is used
    \* History: what the properties speak of and the agent does not keep.
    door,         \* how each connection last entered each account's session
    owed,         \* windows put out of a session and not yet told
    stopped,      \* tickets of the starts and ILMs that were stopped
    unhosted      \* accounts not hosted for a reason: the load failed, recovery

agent == <<clients, fresh, declared, cur, born, subs, slot, tickets,
           supervised, mapLock, task, told, requests>>
history == <<door, owed, stopped, unhosted>>
vars == <<agent, history>>

Roles == {"none", "primary", "secondary", "detached"}
Doors == {"none", "connect", "claim", "attach"}
Ops == {"none", "attach", "claim", "connect", "declare", "release", "close",
        "orphan", "end", "logout"}
Pcs == {"idle", "sdk", "decide", "act", "say", "send", "host", "load",
        "displace", "supervise", "tracked", "get", "take", "resume", "signin",
        "release", "forget", "leave", "remove", "stopilm", "stopsup"}

NoSlot == [state |-> "none", ticket |-> 0]

\* A task: its request, the account it is at, the subscriber sets it holds, the
\* accounts it still has to act on and to host, whom it put out, what it is
\* about to say, its ticket, and where it goes on after saying it.
Idle == [op |-> "none", conn |-> None, strict |-> FALSE, at |-> None, pc |-> "idle",
         set |-> [c \in Cids |-> 0], todo |-> {}, host |-> {}, out |-> {},
         say |-> [x \in Conns |-> "none"], ticket |-> 0, then |-> "idle",
         orphan |-> FALSE]

TypeOK ==
    /\ clients \subseteq Conns /\ fresh \subseteq Conns /\ declared \subseteq Conns
    /\ cur \in [Cids -> 0..MaxLives] /\ born \in [Cids -> 0..MaxLives]
    /\ \A c \in Cids, l \in 1..MaxLives :
           /\ IsInjective(subs[c][l].order) /\ Range(subs[c][l].order) \subseteq Conns
           /\ subs[c][l].last \in Conns \cup {None}
    /\ slot \in [Cids -> [state : {"none", "starting", "running"}, ticket : 0..tickets]]
    /\ tickets \in Nat /\ supervised \subseteq Cids
    /\ mapLock \in Tasks \cup {None}
    /\ \A t \in Tasks : /\ task[t].op \in Ops /\ task[t].pc \in Pcs /\ task[t].then \in Pcs
                        /\ task[t].conn \in Conns \cup {None}
                        /\ task[t].at \in Cids \cup {None}
                        /\ task[t].ticket \in 0..tickets
    /\ told \in [Conns -> [Cids -> Roles]] /\ requests \in 0..MaxRequests
    /\ door \in [Conns -> [Cids -> Doors]]
    /\ owed \subseteq Conns \X Cids /\ stopped \subseteq 0..tickets
    /\ unhosted \subseteq Cids

-----------------------------------------------------------------------------
(* SessionSubscribers: the ordered set, primary first.                     *)

\* The members of `order` that are in S, in their order.  It is SelectSeq, in terms
\* that can be reasoned about without induction.
Kept(order, S) ==
    LET I == {i \in DOMAIN order : order[i] \in S}
        nth(k) == CHOOSE i \in I : Cardinality({j \in I : j <= i}) = k
    IN  [k \in 1..Cardinality(I) |-> order[nth(k)]]

NewSet(x) == [order |-> <<x>>, last |-> None]
EmptySet == [order |-> <<>>, last |-> None]
Has(s, x) == x \in Range(s.order)
TakenOver(s, x) == [order |-> IF Has(s, x) THEN s.order ELSE <<x>>, last |-> None]
DisplacedPrimary(s, x) == IF Has(s, x) \/ s.order = <<>> THEN {} ELSE {Head(s.order)}
Displaced(s, x) == IF Has(s, x) THEN {} ELSE Range(s.order)
AttachedAgain(s, x) == [order |-> Append(s.order, x), last |-> None]
Attached(s, x) ==
    IF Has(s, x) THEN s ELSE [order |-> Append(s.order, x), last |-> None]
Left(s, x, remember) ==
    LET rest == Kept(s.order, Conns \ {x}) IN
    IF ~Has(s, x) THEN s
    ELSE [order |-> rest,
          last |-> IF rest # <<>> THEN s.last ELSE IF remember THEN x ELSE None]

\* The set a task holds for an account, and the one in the map.
SetOf(t, c) == subs[c][task[t].set[c]]
Here(c) == subs[c][cur[c]]
Present == {c \in Cids : cur[c] # 0}

\* live_owner: the members that are connected; nobody means orphaned.
Live(c) == Range(Here(c).order) \cap clients
\* owner_or_orphan
MayAct(x, c) == Live(c) = {} \/ x \in Live(c)
\* decide_claim
MayClaim(x, c, strict) == MayAct(x, c) /\ (strict => Live(c) = {})
\* refuses_older_page
Refuses(x, c) == slot[c].state # "none" /\ x \notin declared

\* The map can be used by a task that holds its lock, or by any while none does.
MapFree(t) == mapLock \in {None, t}

-----------------------------------------------------------------------------
(* A request that is refused at once changes nothing and is no step.       *)
(*                                                                         *)
(* Saying it: announce_roles reads the roles, then sends.                  *)

Move(t, r) == task' = [task EXCEPT ![t] = r]
At(t, pc) == task[t].pc = pc
Goto(t, pc) == Move(t, [task[t] EXCEPT !.pc = pc])
Finish(t) == Move(t, Idle)

\* Account c's l-th set becomes `new`; the windows this puts out are owed a word.
PutOut(c, l, new) ==
    /\ subs' = [subs EXCEPT ![c][l] = new]
    /\ owed' = owed \cup
           (((Range(subs[c][l].order) \ Range(new.order)) \cap clients) \X {c})

\* `r`, about to announce account c with `out` put out, and then at `then`.
Announcing(r, c, out, then) ==
    [r EXCEPT !.pc = "say", !.at = c, !.out = out, !.then = then]

\* Where a task goes when it has an account less to host.
Hosting(r) == IF r.host = {} THEN Idle ELSE [r EXCEPT !.pc = "host"]
\* Where it goes after announcing.
Resumed(r) ==
    IF r.then = "idle" THEN Idle ELSE IF r.then = "host" THEN Hosting(r)
    ELSE [r EXCEPT !.pc = r.then]

Say(t) ==
    LET r == task[t]
        order == SetOf(t, r.at).order
        role(x) == IF x \in r.out THEN "detached"
                   ELSE IF x \notin Range(order) THEN "none"
                   ELSE IF x = Head(order) THEN "primary" ELSE "secondary"
    IN  /\ At(t, "say")
        /\ Move(t, [r EXCEPT !.pc = "send", !.say = [x \in Conns |-> role(x)]])
        /\ UNCHANGED <<clients, fresh, declared, cur, born, subs, slot, tickets,
                       supervised, mapLock, told, requests, history>>

Send(t) ==
    LET r == task[t]
        to == {x \in clients : r.say[x] # "none"}
    IN  /\ At(t, "send")
        /\ told' = [x \in Conns |-> IF x \in to THEN [told[x] EXCEPT ![r.at] = r.say[x]]
                                    ELSE told[x]]
        /\ owed' = owed \ {<<x, r.at>> : x \in {y \in to : r.say[y] = "detached"}}
        /\ Move(t, Resumed([r EXCEPT !.out = {}, !.say = Idle.say]))
        /\ UNCHANGED <<clients, fresh, declared, cur, born, subs, slot, tickets,
                       supervised, mapLock, requests, door, stopped, unhosted>>

-----------------------------------------------------------------------------
(* A window opens; it declares; it closes and leaves what it was in.       *)

Request(t, r) ==
    /\ task[t] = Idle /\ requests < MaxRequests
    /\ requests' = requests + 1
    /\ Move(t, r)

Open(x) ==
    /\ x \in fresh
    /\ fresh' = fresh \ {x} /\ clients' = clients \cup {x}
    /\ UNCHANGED <<declared, cur, born, subs, slot, tickets, supervised, mapLock,
                   task, told, requests, history>>

Declare(t, x) ==
    /\ x \in clients /\ MapFree(t)
    /\ declared' = declared \cup {x}
    /\ LET held == {c \in Present : Has(Here(c), x)} IN
       Request(t, Hosting([Idle EXCEPT !.op = "declare", !.conn = x, !.host = held]))
    /\ UNCHANGED <<clients, fresh, cur, born, subs, slot, tickets, supervised, mapLock,
                   told, history>>

Close(t, x) ==
    /\ x \in clients
    /\ clients' = clients \ {x}
    /\ Request(t, [Idle EXCEPT !.op = "close", !.conn = x, !.pc = "forget"])
    /\ UNCHANGED <<fresh, declared, cur, born, subs, slot, tickets, supervised, mapLock,
                   told, history>>

Forget(t) ==
    /\ At(t, "forget") /\ MapFree(t)
    /\ declared' = declared \ {task[t].conn}
    /\ IF Present = {} THEN Finish(t)
       ELSE Move(t, [task[t] EXCEPT !.pc = "leave", !.todo = Present, !.set = cur])
    /\ UNCHANGED <<clients, fresh, cur, born, subs, slot, tickets, supervised, mapLock,
                   told, requests, history>>

\* detach from one session after the other, each left with members told.
Leave(t) ==
    /\ At(t, "leave")
    /\ \E c \in task[t].todo :
          LET r == task[t]
              old == SetOf(t, c)
              new == Left(old, r.conn, TRUE)
              then == IF r.todo = {c} THEN "idle" ELSE "leave"
              less == [r EXCEPT !.todo = @ \ {c}, !.then = then]
          IN  /\ subs' = [subs EXCEPT ![c][r.set[c]] = new]
              /\ Move(t, IF Has(old, r.conn) /\ new.order # <<>>
                         THEN Announcing(less, c, {}, then) ELSE Resumed(less))
    /\ UNCHANGED <<clients, fresh, declared, cur, born, slot, tickets, supervised, mapLock,
                   told, requests, history>>

\* ReleaseSession: the owner is read, then the window leaves.
Release(t, x, c) ==
    /\ x \in clients /\ MapFree(t)
    /\ c \in Present /\ MayAct(x, c)
    /\ Request(t, [Idle EXCEPT !.op = "release", !.conn = x, !.at = c, !.pc = "release"])
    /\ UNCHANGED <<clients, fresh, declared, cur, born, subs, slot, tickets, supervised,
                   mapLock, told, history>>

Released(t) ==
    LET r == task[t]
        c == r.at
        new == Left(Here(c), r.conn, FALSE)
    IN  /\ At(t, "release") /\ MapFree(t)
        /\ IF c \notin Present THEN Finish(t) /\ UNCHANGED subs
           ELSE /\ subs' = [subs EXCEPT ![c][cur[c]] = new]
                /\ IF Has(Here(c), r.conn) /\ new.order # <<>>
                   THEN Move(t, Announcing([r EXCEPT !.set = cur], c, {}, "idle"))
                   ELSE Finish(t)
        /\ UNCHANGED <<clients, fresh, declared, cur, born, slot, tickets, supervised,
                       mapLock, told, requests, history>>

-----------------------------------------------------------------------------
(* AttachSession and ClaimSession: each decides and acts under the map's   *)
(* write lock.  A Connect's take-over does not take it, so it may fall     *)
(* between the two.                                                        *)

Attach(t, x, c) ==
    /\ x \in clients /\ MapFree(t) /\ c \in Present /\ ~Refuses(x, c)
    /\ Request(t, [Idle EXCEPT !.op = "attach", !.conn = x, !.at = c, !.pc = "decide"])
    /\ UNCHANGED <<clients, fresh, declared, cur, born, subs, slot, tickets, supervised,
                   mapLock, told, history>>

Claim(t, x, c, strict) ==
    /\ x \in clients /\ MapFree(t) /\ c \in Present
    /\ MayClaim(x, c, strict) /\ ~Refuses(x, c)
    /\ Request(t, [Idle EXCEPT !.op = "claim", !.conn = x, !.at = c, !.strict = strict,
                               !.pc = "sdk"])
    /\ UNCHANGED <<clients, fresh, declared, cur, born, subs, slot, tickets, supervised,
                   mapLock, told, history>>

\* refuse_unless_sdk_holds: a session the SDK does not hold is removed; one that
\* cannot be asked about, or that is reconnecting, is left as it is.
AskSdk(t) ==
    /\ At(t, "sdk")
    /\ \/ Goto(t, "decide")
       \/ Finish(t)
       \/ Goto(t, "remove")
    /\ UNCHANGED <<clients, fresh, declared, cur, born, subs, slot, tickets, supervised,
                   mapLock, told, requests, history>>

\* The other sessions the same dropped socket was the last to hold.
Swept(c) ==
    IF Live(c) = {} /\ Here(c).last # None
    THEN {d \in Present : Here(d).last = Here(c).last /\ Here(d).order = <<>>}
    ELSE {c}

DecideAttach(t) ==
    LET r == task[t] IN
    /\ At(t, "decide") /\ r.op = "attach" /\ mapLock = None
    /\ \/ Finish(t) /\ UNCHANGED mapLock    \* gone, not proven, or no token to give
       \/ /\ r.at \in Present
          /\ mapLock' = t
          /\ Move(t, [r EXCEPT !.pc = "act", !.set = cur, !.orphan = Live(r.at) = {},
                               !.host = {r.at}])
    /\ UNCHANGED <<clients, fresh, declared, cur, born, subs, slot, tickets, supervised,
                   told, requests, history>>

\* The decision, made again under the lock.
GrantedBefore(r) == r.at \in Present
Granted(r) == r.at \in Present /\ MayClaim(r.conn, r.at, r.strict)

DecideClaim(t) ==
    LET r == task[t]
    IN  /\ At(t, "decide") /\ r.op = "claim" /\ mapLock = None
        /\ IF Granted(r)
           THEN /\ mapLock' = t
                /\ Move(t, [r EXCEPT !.pc = "act", !.set = cur, !.todo = Swept(r.at),
                                     !.host = Swept(r.at)])
           ELSE Finish(t) /\ UNCHANGED mapLock
        /\ UNCHANGED <<clients, fresh, declared, cur, born, subs, slot, tickets, supervised,
                       told, requests, history>>

\* Task t's window enters account c's l-th session, whose set becomes `new`.
Enters(t, c, l, new) ==
    /\ PutOut(c, l, new)
    /\ door' = [door EXCEPT ![task[t].conn][c] =
                   IF Has(subs[c][l], task[t].conn) THEN @ ELSE task[t].op]

ActAttach(t) ==
    LET r == task[t]
        old == SetOf(t, r.at)
        out == IF r.orphan THEN Displaced(old, r.conn) ELSE {}
        new == IF r.orphan THEN TakenOver(old, r.conn) ELSE Attached(old, r.conn)
    IN  /\ At(t, "act") /\ r.op = "attach"
        /\ Enters(t, r.at, r.set[r.at], new)
        /\ mapLock' = None
        /\ Move(t, IF Len(new.order) > 1 \/ out # {} THEN Announcing(r, r.at, out, "host")
                   ELSE Hosting(r))
        /\ UNCHANGED <<clients, fresh, declared, cur, born, slot, tickets, supervised,
                       told, requests, stopped, unhosted>>

\* One of the sessions claimed, announced under the lock; then the next.
ActClaim(t) ==
    /\ At(t, "act") /\ task[t].op = "claim"
    /\ \E c \in task[t].todo :
          LET r == [task[t] EXCEPT !.todo = @ \ {c}]
              out == Displaced(SetOf(t, c), r.conn)
          IN  /\ Enters(t, c, r.set[c], TakenOver(SetOf(t, c), r.conn))
              /\ Move(t, IF out # {} THEN Announcing(r, c, out, "act") ELSE r)
    /\ UNCHANGED <<clients, fresh, declared, cur, born, slot, tickets, supervised, mapLock,
                   told, requests, stopped, unhosted>>

Claimed(t) ==
    /\ At(t, "act") /\ task[t].op = "claim" /\ task[t].todo = {}
    /\ mapLock' = None
    /\ Goto(t, "host")
    /\ UNCHANGED <<clients, fresh, declared, cur, born, subs, slot, tickets, supervised,
                   told, requests, history>>

-----------------------------------------------------------------------------
(* Connect.  One sign-in of an account at a time: connecting_usernames.    *)

Connect(t, x, c) ==
    /\ x \in clients /\ MapFree(t)
    /\ \A u \in Tasks : task[u].op = "connect" => task[u].at # c
    /\ Request(t, [Idle EXCEPT !.op = "connect", !.conn = x, !.at = c,
                   !.pc = IF c \in Present THEN "tracked" ELSE "signin"])
    /\ UNCHANGED <<clients, fresh, declared, cur, born, subs, slot, tickets, supervised,
                   mapLock, told, history>>

\* on_sign_in: refused, already active, reconnecting, or stale.  An older page
\* that proved the password is refused a hosted session.
Tracked(t) ==
    /\ At(t, "tracked")
    /\ \/ Finish(t)
       \/ ~Refuses(task[t].conn, task[t].at) /\ Goto(t, "get")
       \/ ~Refuses(task[t].conn, task[t].at) /\ Goto(t, "resume")
       \/ Goto(t, "remove")
    /\ UNCHANGED <<clients, fresh, declared, cur, born, subs, slot, tickets, supervised,
                   mapLock, told, requests, history>>

\* membership::take_over clones the set; a session that is gone stops nothing.
GetSet(t) ==
    LET r == [task[t] EXCEPT !.host = {task[t].at}] IN
    /\ At(t, "get") /\ MapFree(t)
    /\ Move(t, IF r.at \in Present THEN [r EXCEPT !.pc = "take", !.set = cur]
               ELSE Hosting(r))
    /\ UNCHANGED <<clients, fresh, declared, cur, born, subs, slot, tickets, supervised,
                   mapLock, told, requests, history>>

\* take_over_in, then on to `then`.
TakeOver(t, set, then) ==
    LET c == task[t].at
        s == subs[c][set[c]]
        r == [task[t] EXCEPT !.set = set, !.then = then]
        out == Displaced(s, r.conn)
    IN  /\ Enters(t, c, set[c], TakenOver(s, r.conn))
        /\ Move(t, IF out # {} THEN Announcing(r, c, out, then) ELSE Resumed(r))

Take(t) ==
    /\ At(t, "take")
    /\ TakeOver(t, task[t].set, "host")
    /\ UNCHANGED <<clients, fresh, declared, cur, born, slot, tickets, supervised, mapLock,
                   told, requests, stopped, unhosted>>

\* reconnect/takeover.rs: the sign-in takes a reconnecting session over, under
\* the map's lock, unless the session ended meanwhile.
Resume(t) ==
    /\ At(t, "resume") /\ mapLock = None
    /\ \/ Finish(t) /\ UNCHANGED <<subs, door, owed>>
       \/ task[t].at \in Present /\ TakeOver(t, cur, "idle")
    /\ UNCHANGED <<clients, fresh, declared, cur, born, slot, tickets, supervised,
                   mapLock, told, requests, stopped, unhosted>>

\* The server signed the account in: a new session, with this window in it.  A
\* session in the recovery scope is not hosted.
SignIn(t) ==
    LET r == task[t]
        c == r.at
    IN  /\ At(t, "signin") /\ MapFree(t)
        /\ \/ Finish(t) /\ UNCHANGED <<cur, born, subs, door, unhosted>>
           \/ /\ born[c] < MaxLives
              /\ born' = [born EXCEPT ![c] = @ + 1]
              /\ cur' = [cur EXCEPT ![c] = born[c] + 1]
              /\ subs' = [subs EXCEPT ![c][born[c] + 1] = NewSet(r.conn)]
              /\ door' = [door EXCEPT ![r.conn][c] = r.op]
              /\ \/ Move(t, Hosting([r EXCEPT !.host = {c}])) /\ unhosted' = unhosted \ {c}
                 \/ Finish(t) /\ unhosted' = unhosted \cup {c}
        /\ UNCHANGED <<clients, fresh, declared, slot, tickets, supervised, mapLock, told,
                       requests, owed, stopped>>

-----------------------------------------------------------------------------
(* host_ilm_for: the agent hosts the accounts of a window that asked.      *)

\* IlmRegistry::ensure, to the load: an ILM that runs or is starting is left.
Host(t) ==
    /\ At(t, "host")
    /\ IF task[t].conn \notin declared
       THEN Finish(t) /\ UNCHANGED <<slot, tickets>>
       ELSE \E c \in task[t].host :
              LET r == [task[t] EXCEPT !.at = c, !.host = @ \ {c}] IN
              IF slot[c].state # "none"
              THEN Move(t, [r EXCEPT !.pc = "displace"]) /\ UNCHANGED <<slot, tickets>>
              ELSE /\ tickets' = tickets + 1
                   /\ slot' = [slot EXCEPT ![c] = [state |-> "starting",
                                                   ticket |-> tickets + 1]]
                   /\ Move(t, [r EXCEPT !.pc = "load", !.ticket = tickets + 1])
    /\ UNCHANGED <<clients, fresh, declared, cur, born, subs, supervised, mapLock, told,
                   requests, history>>

\* Does task t's start still hold its reservation?
ReservedByAnyone(t) == slot[task[t].at].state = "starting"
StillReserved(t) ==
    slot[task[t].at] = [state |-> "starting", ticket |-> task[t].ticket]

\* The stored state is loaded, or could not be.
Loaded(t) ==
    LET r == [task[t] EXCEPT !.ticket = 0]
        c == r.at
    IN  /\ At(t, "load")
        /\ \/ /\ StillReserved(t)
              /\ slot' = [slot EXCEPT ![c] = [state |-> "running", ticket |-> task[t].ticket]]
              /\ Move(t, [r EXCEPT !.pc = "displace"])
              /\ unhosted' = unhosted \ {c}
           \/ /\ unhosted' = unhosted \cup {c}
              /\ slot' = IF StillReserved(t) THEN [slot EXCEPT ![c] = NoSlot] ELSE slot
              /\ Move(t, Hosting(r))
        /\ UNCHANGED <<clients, fresh, declared, cur, born, subs, tickets, supervised,
                       mapLock, told, requests, door, owed, stopped>>

\* displace_older_pages: members that have not declared leave the session.
Displace(t) ==
    LET r == task[t]
        c == r.at
        older == Range(Here(c).order) \ declared
        new == [order |-> Kept(Here(c).order, declared),
                last |-> IF Range(Here(c).order) = older THEN None ELSE Here(c).last]
    IN  /\ At(t, "displace") /\ MapFree(t)
        /\ IF c \in Present /\ older # {}
           THEN /\ PutOut(c, cur[c], new)
                /\ Move(t, Announcing([r EXCEPT !.set = cur], c, older, "supervise"))
           ELSE Goto(t, "supervise") /\ UNCHANGED <<subs, owed>>
        /\ UNCHANGED <<clients, fresh, declared, cur, born, slot, tickets, supervised,
                       mapLock, told, requests, door, stopped, unhosted>>

Supervise(t) ==
    /\ At(t, "supervise")
    /\ supervised' = supervised \cup {task[t].at}
    /\ Move(t, Hosting(task[t]))
    /\ UNCHANGED <<clients, fresh, declared, cur, born, subs, slot, tickets, mapLock, told,
                   requests, history>>

-----------------------------------------------------------------------------
(* A session ends.  Disconnect stops what runs for it and then removes it; *)
(* the others remove it first: a give-up, a deregistration, a claim or a   *)
(* sign-in that finds it dead, and DisconnectOrphan, under the map's lock. *)

Logout(t, c) ==
    /\ c \in Present /\ MapFree(t)
    /\ Request(t, [Idle EXCEPT !.op = "logout", !.at = c, !.pc = "stopilm"])
    /\ UNCHANGED <<clients, fresh, declared, cur, born, subs, slot, tickets, supervised,
                   mapLock, told, history>>

End(t, c) ==
    /\ c \in Present /\ MapFree(t)
    /\ Request(t, [Idle EXCEPT !.op = "end", !.at = c, !.pc = "remove"])
    /\ UNCHANGED <<clients, fresh, declared, cur, born, subs, slot, tickets, supervised,
                   mapLock, told, history>>

\* DisconnectOrphan of one session, or of every orphan.
Orphans == {c \in Present : Live(c) = {}}
DisconnectOrphan(t, x, which) ==
    /\ x \in clients /\ mapLock = None /\ which # {}
    /\ \/ which = Orphans
       \/ \E c \in Present : which = {c} /\ MayAct(x, c)
    /\ mapLock' = t
    /\ \E c \in which :
          Request(t, [Idle EXCEPT !.op = "orphan", !.conn = x, !.at = c, !.todo = which \ {c},
                                  !.pc = "remove"])
    /\ UNCHANGED <<clients, fresh, declared, cur, born, subs, slot, tickets, supervised,
                   told, history>>

RemoveSession(t) ==
    /\ At(t, "remove") /\ MapFree(t)
    /\ cur' = [cur EXCEPT ![task[t].at] = 0]
    /\ IF task[t].op = "logout" THEN Finish(t) ELSE Goto(t, "stopilm")
    /\ UNCHANGED <<clients, fresh, declared, born, subs, slot, tickets, supervised, mapLock,
                   told, requests, history>>

\* IlmRegistry::stop
StopIlm(t) ==
    /\ At(t, "stopilm")
    /\ \E c \in Cids : /\ c = task[t].at
                       /\ slot' = [slot EXCEPT ![c] = NoSlot]
                       /\ stopped' = stopped \cup {slot[c].ticket}
    /\ Goto(t, "stopsup")
    /\ UNCHANGED <<clients, fresh, declared, cur, born, subs, tickets, supervised, mapLock,
                   told, requests, door, owed, unhosted>>

\* Supervisors::stop; then the next orphan, the sign-in, or nothing.
StopSupervisor(t) ==
    LET r == task[t] IN
    /\ At(t, "stopsup")
    /\ supervised' = supervised \ {r.at}
    /\ \/ r.op = "logout" /\ Goto(t, "remove") /\ UNCHANGED mapLock
       \/ r.op = "connect" /\ Goto(t, "signin") /\ UNCHANGED mapLock
       \/ r.op \in {"claim", "end"} /\ Finish(t) /\ UNCHANGED mapLock
       \/ r.op = "orphan" /\ r.todo = {} /\ Finish(t) /\ mapLock' = None
       \/ /\ r.op = "orphan" /\ UNCHANGED mapLock
          /\ \E c \in r.todo : Move(t, [r EXCEPT !.at = c, !.todo = @ \ {c}, !.pc = "remove"])
    /\ UNCHANGED <<clients, fresh, declared, cur, born, subs, slot, tickets, told, requests,
                   history>>

-----------------------------------------------------------------------------
Init ==
    /\ clients = {} /\ fresh = Conns /\ declared = {}
    /\ cur = [c \in Cids |-> 0] /\ born = [c \in Cids |-> 0]
    /\ subs = [c \in Cids |-> [l \in 1..MaxLives |-> EmptySet]]
    /\ slot = [c \in Cids |-> NoSlot] /\ tickets = 0 /\ supervised = {}
    /\ mapLock = None /\ task = [t \in Tasks |-> Idle]
    /\ told = [x \in Conns |-> [c \in Cids |-> "none"]] /\ requests = 0
    /\ door = [x \in Conns |-> [c \in Cids |-> "none"]] /\ owed = {}
    /\ stopped = {} /\ unhosted = {}

Quiet == \A t \in Tasks : task[t] = Idle

Starts(t) ==
    \/ \E x \in Conns : Declare(t, x) \/ Close(t, x)
    \/ \E x \in Conns, c \in Cids : Attach(t, x, c) \/ Connect(t, x, c) \/ Release(t, x, c)
    \/ \E x \in Conns, c \in Cids, strict \in BOOLEAN : Claim(t, x, c, strict)
    \/ \E x \in Conns, which \in SUBSET Cids : DisconnectOrphan(t, x, which)
    \/ \E c \in Cids : Logout(t, c) \/ End(t, c)

Steps(t) ==
    \/ Say(t) \/ Send(t) \/ Forget(t) \/ Leave(t) \/ Released(t)
    \/ AskSdk(t) \/ DecideAttach(t) \/ DecideClaim(t) \/ ActAttach(t) \/ ActClaim(t)
    \/ Claimed(t) \/ Tracked(t) \/ GetSet(t) \/ Take(t) \/ Resume(t) \/ SignIn(t)
    \/ Host(t) \/ Loaded(t) \/ Displace(t) \/ Supervise(t)
    \/ RemoveSession(t) \/ StopIlm(t) \/ StopSupervisor(t)

\* The agent may rest only when everything under way has ended.
Rest == Quiet /\ UNCHANGED vars

Next == (\E x \in Conns : Open(x)) \/ (\E t \in Tasks : Starts(t) \/ Steps(t)) \/ Rest
Spec == Init /\ [][Next]_vars

-----------------------------------------------------------------------------
(* What holds.                                                             *)

\* A start that was stopped never becomes the account's ILM: stopping takes the
\* reservation away, and the load that ends later finds another's ticket or
\* none (ilm/registry.rs, ensure and stop).
StoppedStaysStopped ==
    \A c \in Cids : slot[c].state # "none" => slot[c].ticket \notin stopped

\* A window another one put out of a session is told so, once nothing is under
\* way, if it is still open (membership.rs, migration_guard.rs).
DisplacedAreTold == Quiet => \A p \in owed : p[1] \notin clients

\* A claim, an attach or a DisconnectOrphan puts no live window out that came in
\* by a claim or an attach itself: they decide and act under one lock, and the
\* second one finds the first (connection_management_claim.rs, Step 5).
LockedDoorsExclude ==
    [][\A t \in Tasks, x \in clients, c \in Present :
          LET r == task[t] IN
          /\ r # task'[t] /\ Has(Here(c), x) /\ x # r.conn /\ door[x][c] \in {"claim", "attach"}
          /\ \/ r.pc = "act" /\ cur'[c] = cur[c] /\ ~Has(subs'[c][cur[c]], x)
             \/ r.pc = "remove" /\ r.op = "orphan" /\ cur'[c] = 0
          => r.op = "orphan" /\ Has(Here(c), r.conn)]_vars

-----------------------------------------------------------------------------
(* What comments of the code say and the code does not keep.  TLC refutes  *)
(* each; README, "Known gaps", gives the bounds and the counterexamples.   *)

\* "A page older than the agent never runs beside an account the agent hosts"
\* (migration_guard.rs:1): no live member of a hosted session has not declared.
OlderPageKeptOut ==
    Quiet => \A c \in Present : slot[c].state = "running" => Live(c) \subseteq declared

\* "A session teardown also stops the account's ILM and its supervisor: they end
\* with the session" (cid_scoped_state.rs:45).
HostEndsWithSession ==
    Quiet => \A c \in Cids : slot[c].state # "none" \/ c \in supervised => c \in Present

\* "`connection` has just become a subscriber of `cid`.  If its client hosts no
\* ILM of its own, the agent hosts the account's" (membership_hosting.rs:66).
JoinedIsHosted ==
    Quiet => \A c \in Present :
                 Live(c) \cap declared # {} => slot[c].state = "running" \/ c \in unhosted

\* "The connection is gone: it leaves" (session_subscribers.rs:104): a session
\* keeps no member whose connection is gone.
MembersAreLive == Quiet => \A c \in Present : Range(Here(c).order) \subseteq clients

\* "Each session that still has members hears the new roles" (membership.rs:57):
\* a window that was told a role was last told the one it has.
RolesAreCurrent ==
    Quiet => \A c \in Present, x \in clients :
                 Has(Here(c), x) /\ told[x][c] # "none" =>
                     told[x][c] = IF x = Head(Here(c).order) THEN "primary" ELSE "secondary"

\* "decide and re-point atomically" (connection_management_claim.rs:107): a claim
\* puts no live window out.
ClaimTakesFromNobody ==
    [][\A t \in Tasks, c \in Present : task[t].op = "claim" /\ task[t].pc = "act" =>
          Live(c) \subseteq Range(subs'[c][cur[c]].order) \/ task'[t] = task[t]]_vars
====
