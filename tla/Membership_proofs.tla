------------------------- MODULE Membership_proofs -------------------------
(***************************************************************************)
(* A start of an ILM that was stopped never becomes the account's ILM; a   *)
(* window put out of a session is told of it; claims, attaches and orphan  *)
(* disconnects exclude each other; and every state has its type: for any   *)
(* numbers of windows, accounts, handlers and requests.                    *)
(*                                                                         *)
(* The slots stand on their own.  A ticket is handed out once, so a slot   *)
(* in use holds one that was handed out, no two slots hold the same one,   *)
(* and stopping a slot spends a ticket that no slot holds from then on.  A *)
(* load that ends installs its own ticket, and only where it still stands. *)
(*                                                                         *)
(* The rest is one invariant, Inv, of what the handlers carry from one     *)
(* step to the next.  Base is the shape of the member sets and of every    *)
(* handler.  ComesOnce: a connection that has not come yet is in no set,   *)
(* in no handler and owed nothing, so one that comes finds no debt.        *)
(* OwedAreTold: a connected window that was put out has a handler about to *)
(* tell it.  LockHeld: a handler that decided under the map's lock holds   *)
(* it until it has acted.  AimsAreOpen: what that handler decided still    *)
(* stands when it acts, because whoever else could undo it waits for the   *)
(* lock, or is the closing window itself.                                  *)
(***************************************************************************)
EXTENDS Membership, FiniteSetTheorems, FunctionTheorems, TLAPS

Phases == {"none", "starting", "running"}
InUse(c) == slot[c].state # "none"

SlotsTyped ==
    /\ tickets \in Nat
    /\ slot \in [Cids -> [state : Phases, ticket : Nat]]

\* A slot in use holds a ticket handed out; a free one holds none.
TicketsIssued ==
    \A c \in Cids : slot[c].ticket <= tickets /\ (InUse(c) => slot[c].ticket > 0)

TicketsDistinct ==
    \A c, d \in Cids : InUse(c) /\ InUse(d) /\ slot[c].ticket = slot[d].ticket => c = d

FreeHoldsNone == \A c \in Cids : ~InUse(c) => slot[c].ticket = 0

StoppedIssued == \A k \in stopped : k \in Nat /\ k <= tickets

\* The inductive invariant.
SlotInv ==
    /\ SlotsTyped /\ TicketsIssued /\ TicketsDistinct /\ FreeHoldsNone
    /\ StoppedIssued /\ StoppedStaysStopped

slots == <<slot, tickets, stopped>>

\* The slots change in three steps only: a start reserves one, a load ends, a
\* stop empties one (ilm/registry.rs, ensure and stop).
LEMMA OnlyThreeSteps ==
    ASSUME Next
    PROVE  \/ UNCHANGED slots
           \/ \E t \in Tasks : Host(t) \/ Loaded(t) \/ StopIlm(t)
<1>1. CASE \E x \in Conns : Open(x)
  BY <1>1 DEF Open, history, slots
<1>2. CASE Rest
  BY <1>2 DEF Rest, vars, agent, history, slots
<1>3. ASSUME NEW t \in Tasks, Starts(t) PROVE UNCHANGED slots
  BY <1>3 DEF Starts, Declare, Close, Attach, Connect, Release, Claim, DisconnectOrphan,
              Logout, End, history, slots
<1>4. ASSUME NEW t \in Tasks, Steps(t), ~Host(t), ~Loaded(t), ~StopIlm(t)
      PROVE  UNCHANGED slots
  <2>1. CASE Say(t) \/ Send(t) \/ Forget(t) \/ Leave(t) \/ Released(t)
    BY <2>1 DEF Say, Send, Forget, Leave, Released, history, slots
  <2>2. CASE AskSdk(t) \/ DecideAttach(t) \/ DecideClaim(t) \/ ActAttach(t) \/ ActClaim(t)
             \/ Claimed(t)
    BY <2>2 DEF AskSdk, DecideAttach, DecideClaim, ActAttach, ActClaim, Claimed, history, slots
  <2>3. CASE Tracked(t) \/ GetSet(t) \/ Take(t) \/ Resume(t) \/ SignIn(t)
    BY <2>3 DEF Tracked, GetSet, Take, Resume, SignIn, history, slots
  <2>4. CASE Displace(t) \/ Supervise(t) \/ RemoveSession(t) \/ StopSupervisor(t)
    BY <2>4 DEF Displace, Supervise, RemoveSession, StopSupervisor, history, slots
  <2> QED BY <1>4, <2>1, <2>2, <2>3, <2>4 DEF Steps
<1> QED BY <1>1, <1>2, <1>3, <1>4 DEF Next

LEMMA SlotInvInit == Init => SlotInv
  BY DEF Init, SlotInv, SlotsTyped, TicketsIssued, TicketsDistinct, FreeHoldsNone,
         StoppedIssued, StoppedStaysStopped, InUse, Phases, NoSlot

\* A start reserves a free slot with a ticket never handed out before.
LEMMA HostKeeps ==
    ASSUME SlotInv, NEW t \in Tasks, Host(t)
    PROVE  SlotInv'
<1> USE DEF SlotInv, SlotsTyped, TicketsIssued, TicketsDistinct, FreeHoldsNone,
            StoppedIssued, StoppedStaysStopped, InUse, Phases
<1>1. CASE UNCHANGED <<slot, tickets>>
  BY <1>1 DEF Host, history
<1>2. CASE \E c \in Cids : /\ slot[c].state = "none"
                           /\ tickets' = tickets + 1
                           /\ slot' = [slot EXCEPT ![c] = [state |-> "starting",
                                                           ticket |-> tickets + 1]]
                           /\ stopped' = stopped
  BY <1>2
<1>3. CASE slot' = slot /\ tickets' = tickets + 1 /\ stopped' = stopped
  BY <1>3
<1>4. stopped' = stopped
  BY DEF Host, history
<1>5. \/ UNCHANGED <<slot, tickets>>
      \/ \E c \in task[t].host : /\ slot[c].state = "none" /\ tickets' = tickets + 1
                                 /\ slot' = [slot EXCEPT ![c] = [state |-> "starting",
                                                                 ticket |-> tickets + 1]]
  BY Zenon DEF Host
<1>6. ASSUME NEW c \in task[t].host, c \notin Cids,
             slot' = [slot EXCEPT ![c] = [state |-> "starting", ticket |-> tickets + 1]]
      PROVE  slot' = slot
  BY <1>6
<1> QED BY <1>1, <1>2, <1>3, <1>4, <1>5, <1>6

\* A load installs the ticket its slot already holds, or frees that slot.
LEMMA LoadedKeeps ==
    ASSUME SlotInv, NEW t \in Tasks, Loaded(t)
    PROVE  SlotInv'
  BY DEF SlotInv, SlotsTyped, TicketsIssued, TicketsDistinct, FreeHoldsNone, StoppedIssued,
         StoppedStaysStopped, InUse, Phases, Loaded, StillReserved, NoSlot

\* A stop spends a ticket that no other slot holds.
LEMMA StopKeeps ==
    ASSUME SlotInv, NEW t \in Tasks, StopIlm(t)
    PROVE  SlotInv'
  BY DEF SlotInv, SlotsTyped, TicketsIssued, TicketsDistinct, FreeHoldsNone, StoppedIssued,
         StoppedStaysStopped, InUse, Phases, StopIlm, NoSlot

LEMMA SlotInvNext == SlotInv /\ [Next]_vars => SlotInv'
<1> SUFFICES ASSUME SlotInv, [Next]_vars PROVE SlotInv' OBVIOUS
<1>1. CASE UNCHANGED slots
  BY <1>1 DEF slots, SlotInv, SlotsTyped, TicketsIssued, TicketsDistinct, FreeHoldsNone,
              StoppedIssued, StoppedStaysStopped, InUse
<1>2. CASE UNCHANGED vars
  BY <1>1, <1>2 DEF vars, agent, history, slots
<1> QED BY <1>1, <1>2, OnlyThreeSteps, HostKeeps, LoadedKeeps, StopKeeps

\* A start of an ILM that was stopped never becomes, or stays, the account's ILM
\* (ilm/registry.rs, ensure: `still_reserved`).
THEOREM StoppedStarts == Spec => []StoppedStaysStopped
<1>1. SlotInv => StoppedStaysStopped
  BY DEF SlotInv
<1> QED BY SlotInvInit, SlotInvNext, <1>1, PTL DEF Spec

-----------------------------------------------------------------------------
(* The ordered set.                                                        *)

\* What Kept keeps: the members asked for, each as often as it was there.
LEMMA KeptIs ==
    ASSUME NEW T, NEW s \in Seq(T), NEW S
    PROVE  /\ Kept(s, S) \in Seq(T)
           /\ Range(Kept(s, S)) = Range(s) \cap S
           /\ IsInjective(s) => IsInjective(Kept(s, S))
<1> DEFINE I == {i \in DOMAIN s : s[i] \in S}
<1>1. I = {i \in DOMAIN s : s[i] \in S}
  OBVIOUS
<1> HIDE DEF I
<1>2. I \subseteq 1..Len(s) /\ Len(s) \in Nat /\ I \subseteq Int /\ DOMAIN s = 1..Len(s)
  BY <1>1
<1>3. IsFiniteSet(I)
  <2>1. IsFiniteSet(1..Len(s))
    BY <1>2, FS_Interval
  <2> QED
    BY <1>2, <2>1, FS_Subset
<1>4. PICK N \in Nat : N = Cardinality(I)
  BY <1>3, FS_CardinalityType
<1>5. PICK rank : rank = [i \in I |-> Cardinality({j \in I : j <= i})]
  OBVIOUS
<1>6. ASSUME NEW i \in I PROVE rank[i] \in 1..N
  <2>1. PICK J : J = {j \in I : j <= i}
    OBVIOUS
  <2>2. J \subseteq I /\ i \in J
    BY <1>2, <2>1
  <2>3. IsFiniteSet(J) /\ Cardinality(J) <= N /\ Cardinality(J) \in Nat
    BY <1>3, <1>4, <2>2, FS_Subset, FS_CardinalityType
  <2>4. Cardinality(J) # 0
    BY <2>2, <2>3, FS_EmptySet
  <2> QED
    BY <1>5, <2>1, <2>3, <2>4
<1>7. ASSUME NEW i \in I, NEW k \in I, i < k PROVE rank[i] # rank[k]
  <2>1. PICK J : J = {j \in I : j <= i}
    OBVIOUS
  <2>2. PICK K : K = {j \in I : j <= k}
    OBVIOUS
  <2>3. J \subseteq K /\ k \in K /\ k \notin J /\ K \subseteq I
    <3>1. i \in Int /\ k \in Int /\ \A j \in I : j \in Int /\ (j <= i => j <= k) /\ k <= k /\ ~(k <= i)
      BY <1>2, <1>7
    <3> QED
      BY <2>1, <2>2, <3>1
  <2>4. IsFiniteSet(K)
    BY <1>3, <2>3, FS_Subset
  <2>5. Cardinality(K) # Cardinality(J)
    BY <2>3, <2>4, FS_Subset
  <2> QED
    BY <1>5, <2>1, <2>2, <2>5
<1>8. \A i, k \in I : rank[i] = rank[k] => i = k
  BY <1>2, <1>7
<1>9. \A k \in 1..N : \E i \in I : rank[i] = k
  <2>1. rank \in [I -> 1..N]
    BY <1>5, <1>6
  <2>2. rank \in Injection(I, 1..N)
    BY <1>8, <2>1 DEF Injection, IsInjective
  <2>3. IsFiniteSet(1..N) /\ Cardinality(1..N) = N
    BY <1>4, FS_Interval
  <2>4. rank \in Surjection(I, 1..N)
    BY <1>4, <2>2, <2>3, FS_Injection
  <2> QED
    BY <2>4 DEF Surjection
<1>10. PICK nth : nth = [k \in 1..N |-> CHOOSE i \in I : rank[i] = k]
  OBVIOUS
<1>11. \A k \in 1..N : nth[k] \in I /\ rank[nth[k]] = k
  BY <1>9, <1>10
<1>12. Kept(s, S) = [k \in 1..N |-> s[nth[k]]]
  <2>1. \A k \in 1..N : nth[k] = CHOOSE i \in I : Cardinality({j \in I : j <= i}) = k
    <3> SUFFICES ASSUME NEW k \in 1..N
                 PROVE  (CHOOSE i \in I : rank[i] = k) = CHOOSE i \in I : Cardinality({j \in I : j <= i}) = k
      BY <1>10
    <3>1. \A i \in I : (rank[i] = k) <=> (Cardinality({j \in I : j <= i}) = k)
      BY <1>5
    <3> QED
      BY <3>1
  <2>2. Kept(s, S) = [k \in 1..Cardinality(I) |->
                         s[CHOOSE i \in I : Cardinality({j \in I : j <= i}) = k]]
    BY DEF Kept, I
  <2> QED
    BY <1>4, <2>1, <2>2
<1>13. PICK r : r = [k \in 1..N |-> s[nth[k]]]
  OBVIOUS
<1>14. \A i \in I : s[i] \in T
  BY <1>2
<1>15. r \in Seq(T) /\ DOMAIN r = 1..N
  BY <1>11, <1>13, <1>14
<1>16. Range(r) = Range(s) \cap S
  <2>1. ASSUME NEW x \in Range(r) PROVE x \in Range(s) \cap S
    <3>1. PICK k \in 1..N : x = s[nth[k]]
      BY <1>13, <1>15 DEF Range
    <3> QED
      BY <1>1, <1>11, <3>1 DEF Range
  <2>2. ASSUME NEW x \in Range(s), x \in S PROVE x \in Range(r)
    <3>1. PICK i \in I : s[i] = x
      BY <1>1, <2>2 DEF Range
    <3>2. rank[i] \in 1..N /\ nth[rank[i]] = i
      BY <1>6, <1>8, <1>11
    <3>3. r[rank[i]] = x
      BY <1>13, <3>1, <3>2
    <3> QED
      BY <1>15, <3>2, <3>3 DEF Range
  <2> QED
    BY <2>1, <2>2
<1>17. ASSUME IsInjective(s) PROVE IsInjective(r)
  <2>1. \A i, k \in I : s[i] = s[k] => i = k
    BY <1>2, <1>17 DEF IsInjective
  <2>2. \A a, b \in 1..N : r[a] = r[b] => a = b
    BY <1>11, <1>13, <2>1
  <2> QED
    BY <1>15, <2>2 DEF IsInjective
<1> QED
  BY <1>12, <1>13, <1>15, <1>16, <1>17

-----------------------------------------------------------------------------
(* The tasks: which request is where, and what it has there.               *)

TaskRec ==
    [op : Ops, conn : Conns \cup {None}, strict : BOOLEAN, at : Cids \cup {None}, pc : Pcs,
     set : [Cids -> 0..MaxLives], todo : SUBSET Cids, host : SUBSET Cids, out : SUBSET Conns,
     say : [Conns -> Roles], ticket : Nat, then : Pcs, orphan : BOOLEAN]

Elsewhere == {"idle", "forget", "leave", "host"}
Hosts == {"attach", "claim", "connect", "declare"}
Saying(r) == r.pc \in {"say", "send"}

Placed(r) ==
    /\ r.pc \notin Elsewhere => r.at \in Cids
    /\ r.op \notin {"none", "end", "logout"} => r.conn \in Conns
    /\ r.pc = "sdk" => r.op = "claim"
    /\ r.pc \in {"decide", "act"} => r.op \in {"attach", "claim"}
    /\ r.pc \in {"tracked", "get", "take", "resume", "signin"} => r.op = "connect"
    /\ r.pc \in {"host", "load", "displace", "supervise"} => r.op \in Hosts
    /\ r.pc \in {"forget", "leave"} => r.op = "close"
    /\ r.pc = "release" => r.op = "release"
    /\ r.op = "none" => r = Idle

\* What follows an announcement.
Continues(r) ==
    Saying(r) => /\ r.then \in {"idle", "leave", "act", "host", "supervise"}
                 /\ r.then = "act" => r.op = "claim"
                 /\ r.then = "leave" => r.op = "close"
                 /\ r.then \in {"host", "supervise"} => r.op \in Hosts

\* The sets a task is about to use are those of sessions.
HoldsSets(r) ==
    /\ r.pc \in {"say", "send", "take"} => r.set[r.at] # 0
    /\ r.pc = "act" /\ r.op = "attach" => r.set[r.at] # 0
    /\ r.op \in {"claim", "close"} => \A c \in r.todo : r.set[c] # 0
    /\ r.op = "claim" /\ r.pc # "act" /\ ~(Saying(r) /\ r.then = "act") => r.todo = {}

Good(r) == r \in TaskRec /\ Placed(r) /\ Continues(r) /\ HoldsSets(r)

\* A task goes on as itself, or is over.
Same(q, r) == q.op = r.op /\ q.conn = r.conn
Follows(q, r) == Good(q) /\ (q = Idle \/ Same(q, r))

LEMMA TaskFields ==
    ASSUME NEW r \in TaskRec
    PROVE  /\ r.op \in Ops /\ r.conn \in Conns \cup {None} /\ r.strict \in BOOLEAN
           /\ r.at \in Cids \cup {None} /\ r.pc \in Pcs /\ r.set \in [Cids -> 0..MaxLives]
           /\ r.todo \in SUBSET Cids /\ r.host \in SUBSET Cids /\ r.out \in SUBSET Conns
           /\ r.say \in [Conns -> Roles] /\ r.ticket \in Nat /\ r.then \in Pcs /\ r.orphan \in BOOLEAN
BY DEF TaskRec

LEMMA IdleGood ==
    /\ Good(Idle) /\ Idle.op = "none" /\ Idle.pc = "idle" /\ Idle.conn = None /\ Idle.todo = {}
    /\ Idle.ticket = 0 /\ Idle.out = {} /\ Idle.say \in [Conns -> Roles] /\ Idle.set \in [Cids -> 0..MaxLives]
<1>1. /\ Idle.op = "none" /\ Idle.pc = "idle" /\ Idle.conn = None /\ Idle.todo = {} /\ Idle.ticket = 0
      /\ Idle.out = {} /\ Idle.say = [x \in Conns |-> "none"] /\ Idle.set = [c \in Cids |-> 0]
  BY DEF Idle
<1>2. Idle.say \in [Conns -> Roles] /\ Idle.set \in [Cids -> 0..MaxLives]
  BY <1>1, MembershipAssumption DEF Roles
<1>3. Idle \in TaskRec
  BY <1>1, <1>2 DEF Idle, TaskRec, Ops, Pcs
<1>4. Placed(Idle) /\ Continues(Idle) /\ HoldsSets(Idle)
  BY <1>1 DEF Placed, Continues, HoldsSets, Saying, Elsewhere
<1> QED
  BY <1>1, <1>2, <1>3, <1>4 DEF Good

\* With another place, and the rest as it was.
LEMMA Going ==
    ASSUME NEW r \in TaskRec, NEW pc \in Pcs, NEW q, q = [r EXCEPT !.pc = pc]
    PROVE  /\ q \in TaskRec /\ q.pc = pc /\ q.op = r.op /\ q.conn = r.conn /\ q.at = r.at /\ q.set = r.set
           /\ q.todo = r.todo /\ q.host = r.host /\ q.out = r.out /\ q.say = r.say
           /\ q.ticket = r.ticket /\ q.then = r.then /\ q.orphan = r.orphan /\ q.strict = r.strict
BY DEF TaskRec

LEMMA GoingGood ==
    ASSUME NEW r, Good(r), NEW pc \in Pcs \ {"idle", "say", "send", "take", "act"},
           r.op # "none", pc \notin Elsewhere => r.at \in Cids,
           pc = "sdk" => r.op = "claim",
           pc = "decide" => r.op \in {"attach", "claim"},
           pc \in {"tracked", "get", "resume", "signin"} => r.op = "connect",
           pc \in {"host", "load", "displace", "supervise"} => r.op \in Hosts,
           pc \in {"forget", "leave"} => r.op = "close", pc = "release" => r.op = "release",
           r.op = "claim" => r.todo = {}
    PROVE  Follows([r EXCEPT !.pc = pc], r)
<1>1. PICK q : q = [r EXCEPT !.pc = pc]
  OBVIOUS
<1>2. r \in TaskRec /\ Placed(r) /\ HoldsSets(r) /\ r.op \in Ops
  BY DEF Good, TaskRec
<1>3. /\ q \in TaskRec /\ q.pc = pc /\ q.op = r.op /\ q.conn = r.conn /\ q.at = r.at /\ q.set = r.set
      /\ q.todo = r.todo
  BY <1>1, <1>2, Going
<1>4. Placed(q)
  BY <1>2, <1>3 DEF Placed
<1>5. Continues(q) /\ HoldsSets(q)
  BY <1>2, <1>3 DEF Continues, HoldsSets, Saying
<1> QED
  BY <1>1, <1>3, <1>4, <1>5 DEF Follows, Good, Same

\* A task with accounts left to host, or none.
LEMMA HostingIs ==
    ASSUME NEW r \in TaskRec, r.op \in Hosts, r.conn \in Conns, r.op = "claim" => r.todo = {}
    PROVE  /\ Follows(Hosting(r), r) /\ (Hosting(r) = Idle \/ Hosting(r).pc = "host")
           /\ Hosting(r).ticket \in {0, r.ticket}
<1>1. CASE r.host = {}
  BY <1>1, IdleGood DEF Hosting, Follows
<1>2. CASE r.host # {}
  <2>1. PICK q : q = [r EXCEPT !.pc = "host"]
    OBVIOUS
  <2>2. "host" \in Pcs
    BY DEF Pcs
  <2>3. /\ q \in TaskRec /\ q.pc = "host" /\ q.op = r.op /\ q.conn = r.conn /\ q.todo = r.todo
        /\ q.ticket = r.ticket
    BY <2>1, <2>2, Going
  <2>4. Placed(q) /\ Continues(q) /\ HoldsSets(q)
    BY <2>3 DEF Placed, Continues, HoldsSets, Saying, Elsewhere, Hosts
  <2>5. Hosting(r) = q
    BY <1>2, <2>1 DEF Hosting
  <2> QED
    BY <2>3, <2>4, <2>5 DEF Follows, Good, Same
<1> QED
  BY <1>1, <1>2

\* A task about to announce account c.
LEMMA AnnouncingIs ==
    ASSUME NEW r \in TaskRec, NEW c \in Cids, NEW out \in SUBSET Conns,
           NEW then \in {"idle", "leave", "act", "host", "supervise"},
           r.op # "none", r.op \notin {"end", "logout"} => r.conn \in Conns, r.set[c] # 0,
           then = "act" => r.op = "claim", then = "leave" => r.op = "close",
           then \in {"host", "supervise"} => r.op \in Hosts,
           r.op \in {"claim", "close"} => \A d \in r.todo : r.set[d] # 0,
           r.op = "claim" /\ then # "act" => r.todo = {}
    PROVE  LET q == Announcing(r, c, out, then) IN
           /\ Follows(q, r) /\ q.op = r.op /\ q.conn = r.conn /\ q.at = c /\ q.pc = "say" /\ q.out = out
           /\ q.then = then /\ q.todo = r.todo /\ q.set = r.set /\ q.ticket = r.ticket
<1>1. PICK q : q = Announcing(r, c, out, then)
  OBVIOUS
<1>2. q = [op |-> r.op, conn |-> r.conn, strict |-> r.strict, at |-> c, pc |-> "say", set |-> r.set,
           todo |-> r.todo, host |-> r.host, out |-> out, say |-> r.say, ticket |-> r.ticket,
           then |-> then, orphan |-> r.orphan]
  BY <1>1 DEF Announcing, TaskRec
<1>3. "say" \in Pcs /\ then \in Pcs
  BY DEF Pcs
<1>4. q \in TaskRec
  BY <1>2, <1>3, TaskFields DEF TaskRec
<1>5. /\ q.op = r.op /\ q.conn = r.conn /\ q.at = c /\ q.pc = "say" /\ q.out = out
      /\ q.then = then /\ q.todo = r.todo /\ q.set = r.set /\ q.ticket = r.ticket
  BY <1>2
<1>6. Placed(q) /\ Continues(q) /\ HoldsSets(q)
  BY <1>5 DEF Placed, Continues, HoldsSets, Saying
<1> QED
  BY <1>1, <1>4, <1>5, <1>6 DEF Follows, Good, Same

\* Where a task goes on after it has announced.
LEMMA ResumedIs ==
    ASSUME NEW r \in TaskRec, r.op # "none", r.op \notin {"end", "logout"} => r.conn \in Conns,
           r.then \in {"idle", "leave", "act", "host", "supervise"},
           r.then = "act" => r.op = "claim" /\ r.at \in Cids, r.then = "leave" => r.op = "close",
           r.then \in {"host", "supervise"} => r.op \in Hosts, r.then = "supervise" => r.at \in Cids,
           r.op \in {"claim", "close"} => \A d \in r.todo : r.set[d] # 0,
           r.op = "claim" /\ r.then # "act" => r.todo = {}
    PROVE  /\ Follows(Resumed(r), r) /\ Resumed(r).ticket \in {0, r.ticket}
           /\ \/ Resumed(r) = Idle
              \/ /\ Resumed(r).pc = r.then /\ Resumed(r).op = r.op /\ Resumed(r).conn = r.conn
                 /\ Resumed(r).todo = r.todo /\ Resumed(r).set = r.set /\ Resumed(r).at = r.at
                 /\ Resumed(r).orphan = r.orphan
<1>1. CASE r.then = "idle"
  BY <1>1, IdleGood DEF Resumed, Follows
<1>2. CASE r.then = "host"
  <2>1. Resumed(r) = Hosting(r)
    BY <1>2 DEF Resumed
  <2>2. r.op \in Hosts /\ r.conn \in Conns /\ (r.op = "claim" => r.todo = {})
    BY <1>2 DEF Hosts
  <2>3. Hosting(r) = Idle \/ Hosting(r) = [r EXCEPT !.pc = "host"]
    BY DEF Hosting
  <2>4. Follows(Hosting(r), r) /\ Hosting(r).ticket \in {0, r.ticket}
    BY <2>2, HostingIs
  <2>5. "host" \in Pcs
    BY DEF Pcs
  <2> QED
    BY <1>2, <2>1, <2>3, <2>4, <2>5, Going
<1>3. CASE r.then \in {"leave", "act", "supervise"}
  <2>1. PICK q : q = [r EXCEPT !.pc = r.then]
    OBVIOUS
  <2>2. r.then \in Pcs
    BY <1>3 DEF Pcs
  <2>3. /\ q \in TaskRec /\ q.pc = r.then /\ q.op = r.op /\ q.conn = r.conn /\ q.at = r.at
        /\ q.set = r.set /\ q.todo = r.todo /\ q.ticket = r.ticket /\ q.orphan = r.orphan
    BY <2>1, <2>2, Going
  <2>4. Placed(q) /\ Continues(q) /\ HoldsSets(q)
    BY <1>3, <2>3 DEF Placed, Continues, HoldsSets, Saying, Elsewhere
  <2>5. Resumed(r) = q
    BY <1>3, <2>1 DEF Resumed
  <2> QED
    BY <2>3, <2>4, <2>5 DEF Follows, Good, Same
<1> QED
  BY <1>1, <1>2, <1>3

-----------------------------------------------------------------------------
(* Types.                                                                  *)

SetRec == [order : Seq(Conns), last : Conns \cup {None}]

\* An ordered set as it should be.
GoodSet(s) == s \in SetRec /\ IsInjective(s.order)

SetsTyped == subs \in [Cids -> [1..MaxLives -> SetRec]] /\ \A c \in Cids, l \in 1..MaxLives : GoodSet(subs[c][l])

TasksGood == task \in [Tasks -> TaskRec] /\ \A t \in Tasks : Good(task[t])

TicketsHeld == \A t \in Tasks : task[t].ticket <= tickets

Typed ==
    /\ clients \subseteq Conns /\ fresh \subseteq Conns /\ declared \subseteq Conns
    /\ cur \in [Cids -> 0..MaxLives] /\ born \in [Cids -> 0..MaxLives]
    /\ supervised \subseteq Cids /\ mapLock \in Tasks \cup {None}
    /\ told \in [Conns -> [Cids -> Roles]] /\ requests \in 0..MaxRequests
    /\ door \in [Conns -> [Cids -> Doors]]
    /\ owed \subseteq Conns \X Cids /\ unhosted \subseteq Cids

Base == Typed /\ SetsTyped /\ TasksGood /\ TicketsHeld /\ SlotInv

\* Task t goes on as itself, or ends.
Moves(t) ==
    \E q : /\ Move(t, q) /\ Follows(q, task[t])
           /\ q.ticket \in {0, task[t].ticket, tickets'}

LEMMA TaskIs ==
    ASSUME Base, NEW t \in Tasks, NEW r, r = task[t]
    PROVE  /\ r \in TaskRec /\ Good(r) /\ Placed(r) /\ Continues(r) /\ HoldsSets(r)
           /\ r.op \in Ops /\ r.conn \in Conns \cup {None} /\ r.strict \in BOOLEAN
           /\ r.at \in Cids \cup {None} /\ r.pc \in Pcs /\ r.set \in [Cids -> 0..MaxLives]
           /\ r.todo \in SUBSET Cids /\ r.host \in SUBSET Cids /\ r.out \in SUBSET Conns
           /\ r.say \in [Conns -> Roles] /\ r.ticket \in Nat /\ r.then \in Pcs /\ r.orphan \in BOOLEAN
           /\ (r.pc # "idle" => r.op # "none")
<1>1. r \in TaskRec /\ Good(r)
  BY DEF Base, TasksGood
<1>2. Placed(r) /\ Continues(r) /\ HoldsSets(r)
  BY <1>1 DEF Good
<1>3. r.pc # "idle" => r.op # "none"
  BY <1>2, IdleGood DEF Placed
<1> QED
  BY <1>1, <1>2, <1>3, TaskFields

LEMMA MoveIs ==
    ASSUME Base, NEW t \in Tasks, NEW q, Move(t, q)
    PROVE  task'[t] = q /\ \A u \in Tasks \ {t} : task'[u] = task[u]
BY DEF Base, TasksGood, Move

LEMMA SayMoves ==
    ASSUME Base, NEW t \in Tasks, Say(t)
    PROVE  /\ Moves(t) /\ task'[t].pc = "send" /\ Same(task'[t], task[t]) /\ task'[t].at = task[t].at
           /\ task'[t].then = task[t].then /\ task'[t].todo = task[t].todo /\ task'[t].set = task[t].set
           /\ task'[t].orphan = task[t].orphan
           /\ \A x \in task[t].out : task'[t].say[x] = "detached"
<1>1. PICK r : r = task[t]
  OBVIOUS
<1>2. /\ r \in TaskRec /\ Placed(r) /\ Continues(r) /\ HoldsSets(r) /\ (r.pc # "idle" => r.op # "none")
      /\ r.out \in SUBSET Conns
  BY <1>1, TaskIs
<1>3. r.pc = "say"
  BY <1>1 DEF Say, At
<1>4. PICK order : order = SetOf(t, r.at).order
  OBVIOUS
<1>5. PICK say : say = [x \in Conns |-> IF x \in r.out THEN "detached"
                           ELSE IF x \notin Range(order) THEN "none"
                           ELSE IF x = Head(order) THEN "primary" ELSE "secondary"]
  OBVIOUS
<1>6. say \in [Conns -> Roles] /\ \A x \in r.out : say[x] = "detached"
  BY <1>2, <1>5 DEF Roles
<1>7. PICK q : q = [r EXCEPT !.pc = "send", !.say = say]
  OBVIOUS
<1>8. Move(t, q)
  BY <1>1, <1>4, <1>5, <1>7 DEF Say
<1>9. q = [op |-> r.op, conn |-> r.conn, strict |-> r.strict, at |-> r.at, pc |-> "send", set |-> r.set,
           todo |-> r.todo, host |-> r.host, out |-> r.out, say |-> say, ticket |-> r.ticket,
           then |-> r.then, orphan |-> r.orphan]
  BY <1>2, <1>7 DEF TaskRec
<1>10. "send" \in Pcs
  BY DEF Pcs
<1>11. q \in TaskRec
  BY <1>2, <1>6, <1>9, <1>10, TaskFields DEF TaskRec
<1>12. /\ q.op = r.op /\ q.conn = r.conn /\ q.at = r.at /\ q.pc = "send" /\ q.set = r.set
       /\ q.todo = r.todo /\ q.say = say /\ q.then = r.then /\ q.ticket = r.ticket /\ q.orphan = r.orphan
  BY <1>9
<1>13. Placed(q) /\ Continues(q) /\ HoldsSets(q)
  BY <1>2, <1>3, <1>12 DEF Placed, Continues, HoldsSets, Saying, Elsewhere
<1>14. Follows(q, r)
  BY <1>11, <1>12, <1>13 DEF Follows, Good, Same
<1>15. Moves(t)
  BY <1>1, <1>8, <1>12, <1>14 DEF Moves
<1>16. task'[t] = q
  BY <1>8, MoveIs
<1> QED
  BY <1>1, <1>6, <1>12, <1>15, <1>16 DEF Same

LEMMA SendMoves ==
    ASSUME Base, NEW t \in Tasks, Send(t)
    PROVE  /\ Moves(t)
           /\ \/ task'[t] = Idle
              \/ /\ task'[t].pc = task[t].then /\ Same(task'[t], task[t]) /\ task'[t].at = task[t].at
                 /\ task'[t].todo = task[t].todo /\ task'[t].set = task[t].set
                 /\ task'[t].orphan = task[t].orphan
<1>1. PICK r : r = task[t]
  OBVIOUS
<1>2. /\ r \in TaskRec /\ Placed(r) /\ Continues(r) /\ HoldsSets(r) /\ (r.pc # "idle" => r.op # "none")
  BY <1>1, TaskIs
<1>3. r.pc = "send"
  BY <1>1 DEF Send, At
<1>4. PICK s : s = [r EXCEPT !.out = {}, !.say = Idle.say]
  OBVIOUS
<1>5. s = [op |-> r.op, conn |-> r.conn, strict |-> r.strict, at |-> r.at, pc |-> "send", set |-> r.set,
           todo |-> r.todo, host |-> r.host, out |-> {}, say |-> Idle.say, ticket |-> r.ticket,
           then |-> r.then, orphan |-> r.orphan]
  BY <1>2, <1>3, <1>4 DEF TaskRec
<1>6. s \in TaskRec
  BY <1>2, <1>3, <1>5, TaskFields, IdleGood DEF TaskRec
<1>7. /\ s.op = r.op /\ s.conn = r.conn /\ s.at = r.at /\ s.set = r.set /\ s.todo = r.todo
      /\ s.then = r.then /\ s.ticket = r.ticket /\ s.orphan = r.orphan
  BY <1>5
<1>8. Saying(r) /\ r.at \in Cids
  BY <1>2, <1>3 DEF Saying, Placed, Elsewhere
<1>9. /\ s.op # "none" /\ (s.op \notin {"end", "logout"} => s.conn \in Conns)
      /\ s.then \in {"idle", "leave", "act", "host", "supervise"}
      /\ (s.then = "act" => s.op = "claim" /\ s.at \in Cids) /\ (s.then = "leave" => s.op = "close")
      /\ (s.then \in {"host", "supervise"} => s.op \in Hosts) /\ (s.then = "supervise" => s.at \in Cids)
      /\ (s.op \in {"claim", "close"} => \A d \in s.todo : s.set[d] # 0)
      /\ (s.op = "claim" /\ s.then # "act" => s.todo = {})
  BY <1>2, <1>3, <1>7, <1>8 DEF Placed, Continues, HoldsSets
<1>10. PICK q : q = Resumed(s)
  OBVIOUS
<1>11. /\ Follows(q, s) /\ q.ticket \in {0, s.ticket}
       /\ \/ q = Idle
          \/ /\ q.pc = s.then /\ q.op = s.op /\ q.conn = s.conn /\ q.todo = s.todo /\ q.set = s.set
             /\ q.at = s.at /\ q.orphan = s.orphan
  BY <1>6, <1>9, <1>10, ResumedIs
<1>12. Move(t, q)
  BY <1>1, <1>4, <1>10 DEF Send
<1>13. Follows(q, r)
  BY <1>7, <1>11 DEF Follows, Same
<1>14. Moves(t)
  BY <1>1, <1>7, <1>11, <1>12, <1>13 DEF Moves
<1>15. task'[t] = q
  BY <1>12, MoveIs
<1> QED
  BY <1>1, <1>7, <1>11, <1>14, <1>15 DEF Same

\* A task that ends.
LEMMA FinishMoves ==
    ASSUME Base, NEW t \in Tasks, Finish(t)
    PROVE  Moves(t) /\ task'[t] = Idle
<1>1. Move(t, Idle)
  BY DEF Finish
<1>2. Follows(Idle, task[t]) /\ Idle.ticket = 0
  BY IdleGood DEF Follows
<1>3. Moves(t)
  BY <1>1, <1>2 DEF Moves
<1> QED
  BY <1>1, <1>3, MoveIs

\* A task that only goes elsewhere.
LEMMA GotoMoves ==
    ASSUME Base, NEW t \in Tasks, NEW pc \in Pcs \ {"idle", "say", "send", "take", "act"}, Goto(t, pc),
           task[t].op # "none", pc \notin Elsewhere => task[t].at \in Cids,
           pc = "sdk" => task[t].op = "claim",
           pc = "decide" => task[t].op \in {"attach", "claim"},
           pc \in {"tracked", "get", "resume", "signin"} => task[t].op = "connect",
           pc \in {"host", "load", "displace", "supervise"} => task[t].op \in Hosts,
           pc \in {"forget", "leave"} => task[t].op = "close", pc = "release" => task[t].op = "release",
           task[t].op = "claim" => task[t].todo = {}
    PROVE  /\ Moves(t) /\ task'[t].pc = pc /\ Same(task'[t], task[t]) /\ task'[t].at = task[t].at
           /\ task'[t].todo = task[t].todo /\ task'[t].set = task[t].set
<1>1. PICK r : r = task[t]
  OBVIOUS
<1>2. r \in TaskRec /\ Good(r)
  BY <1>1, TaskIs
<1>3. PICK q : q = [r EXCEPT !.pc = pc]
  OBVIOUS
<1>4. Move(t, q)
  BY <1>1, <1>3 DEF Goto
<1>5. Follows(q, r)
  BY <1>1, <1>2, <1>3, GoingGood
<1>6. /\ q.pc = pc /\ q.op = r.op /\ q.conn = r.conn /\ q.at = r.at /\ q.set = r.set /\ q.todo = r.todo
      /\ q.ticket = r.ticket
  BY <1>2, <1>3, Going
<1>7. Moves(t)
  BY <1>1, <1>4, <1>5, <1>6 DEF Moves
<1>8. task'[t] = q
  BY <1>4, MoveIs
<1> QED
  BY <1>1, <1>6, <1>7, <1>8 DEF Same

LEMMA ForgetMoves ==
    ASSUME Base, NEW t \in Tasks, Forget(t)
    PROVE  Moves(t) /\ task[t].op = "close" /\ (task'[t] = Idle \/ Same(task'[t], task[t]))
<1>1. PICK r : r = task[t]
  OBVIOUS
<1>2. r \in TaskRec /\ Placed(r) /\ (r.pc # "idle" => r.op # "none")
  BY <1>1, TaskIs
<1>3. r.pc = "forget" /\ r.op = "close" /\ r.conn \in Conns
  BY <1>1, <1>2 DEF Forget, At, Placed
<1>4. CASE Present = {}
  <2>1. Finish(t)
    BY <1>4 DEF Forget
  <2> QED
    BY <1>1, <1>3, <2>1, FinishMoves
<1>5. CASE Present # {}
  <2>1. PICK q : q = [r EXCEPT !.pc = "leave", !.todo = Present, !.set = cur]
    OBVIOUS
  <2>2. Move(t, q)
    BY <1>1, <1>5, <2>1 DEF Forget
  <2>3. q = [op |-> "close", conn |-> r.conn, strict |-> r.strict, at |-> r.at, pc |-> "leave", set |-> cur,
             todo |-> Present, host |-> r.host, out |-> r.out, say |-> r.say, ticket |-> r.ticket,
             then |-> r.then, orphan |-> r.orphan]
    BY <1>2, <1>3, <2>1 DEF TaskRec
  <2>4. "leave" \in Pcs /\ cur \in [Cids -> 0..MaxLives] /\ Present \in SUBSET Cids /\ "close" \in Ops
    BY DEF Pcs, Base, Typed, Present, Ops
  <2>5. q \in TaskRec
    BY <1>2, <2>3, <2>4, TaskFields DEF TaskRec
  <2>6. /\ q.op = "close" /\ q.conn = r.conn /\ q.pc = "leave" /\ q.set = cur /\ q.todo = Present
        /\ q.ticket = r.ticket
    BY <2>3
  <2>7. \A c \in Present : cur[c] # 0
    BY DEF Present
  <2>8. Placed(q) /\ Continues(q) /\ HoldsSets(q)
    BY <1>3, <2>6, <2>7 DEF Placed, Continues, HoldsSets, Saying, Elsewhere
  <2>9. Follows(q, r) /\ Same(q, r)
    BY <1>3, <2>5, <2>6, <2>8 DEF Follows, Good, Same
  <2>10. Moves(t)
    BY <1>1, <2>2, <2>6, <2>9 DEF Moves
  <2>11. task'[t] = q
    BY <2>2, MoveIs
  <2> QED
    BY <1>1, <1>3, <2>9, <2>10, <2>11
<1> QED
  BY <1>4, <1>5

LEMMA LeaveMoves ==
    ASSUME Base, NEW t \in Tasks, Leave(t)
    PROVE  Moves(t) /\ task[t].op = "close" /\ (task'[t] = Idle \/ Same(task'[t], task[t]))
<1>1. PICK r : r = task[t]
  OBVIOUS
<1>2. r \in TaskRec /\ Placed(r) /\ HoldsSets(r) /\ r.todo \in SUBSET Cids
  BY <1>1, TaskIs
<1>3. r.pc = "leave" /\ r.op = "close" /\ r.conn \in Conns
  BY <1>1, <1>2 DEF Leave, At, Placed
<1>a. PICK c \in task[t].todo :
        LET then == IF task[t].todo = {c} THEN "idle" ELSE "leave"
            less == [task[t] EXCEPT !.todo = @ \ {c}, !.then = then]
            new == Left(SetOf(t, c), task[t].conn, TRUE)
        IN  Move(t, IF Has(SetOf(t, c), task[t].conn) /\ new.order # <<>>
                    THEN Announcing(less, c, {}, then) ELSE Resumed(less))
  BY Zenon DEF Leave
<1>b. PICK b \in BOOLEAN : b = (Has(SetOf(t, c), task[t].conn) /\ Left(SetOf(t, c), task[t].conn, TRUE).order # <<>>)
  BY Zenon
<1>c. PICK then : then = IF r.todo = {c} THEN "idle" ELSE "leave"
  OBVIOUS
<1>d. PICK less : less = [r EXCEPT !.todo = r.todo \ {c}, !.then = then]
  OBVIOUS
<1>e. c \in r.todo /\ Move(t, IF b THEN Announcing(less, c, {}, then) ELSE Resumed(less))
  BY <1>1, <1>a, <1>b, <1>c, <1>d
<1>4. /\ then = IF r.todo = {c} THEN "idle" ELSE "leave"
      /\ less = [r EXCEPT !.todo = r.todo \ {c}, !.then = then]
      /\ c \in r.todo /\ Move(t, IF b THEN Announcing(less, c, {}, then) ELSE Resumed(less))
  BY <1>c, <1>d, <1>e
<1>5. less = [op |-> "close", conn |-> r.conn, strict |-> r.strict, at |-> r.at, pc |-> "leave",
              set |-> r.set, todo |-> r.todo \ {c}, host |-> r.host, out |-> r.out, say |-> r.say,
              ticket |-> r.ticket, then |-> then, orphan |-> r.orphan]
  BY <1>2, <1>3, <1>4 DEF TaskRec
<1>6. then \in {"idle", "leave"} /\ then \in Pcs /\ "leave" \in Pcs /\ "close" \in Ops
  BY <1>4 DEF Pcs, Ops
<1>7. less \in TaskRec
  BY <1>2, <1>5, <1>6, TaskFields DEF TaskRec
<1>8. /\ less.op = "close" /\ less.conn = r.conn /\ less.set = r.set /\ less.todo = r.todo \ {c}
      /\ less.ticket = r.ticket /\ less.then = then
  BY <1>5
<1>9. c \in Cids /\ \A d \in r.todo : r.set[d] # 0
  BY <1>2, <1>3, <1>4 DEF HoldsSets
<1>10. PICK q : q = IF b THEN Announcing(less, c, {}, then) ELSE Resumed(less)
  OBVIOUS
<1>11. Follows(q, less) /\ q.ticket \in {0, r.ticket}
  <2>1. CASE b
    <3>1. q = Announcing(less, c, {}, then)
      BY <1>10, <2>1
    <3>2. /\ {} \in SUBSET Conns /\ then \in {"idle", "leave", "act", "host", "supervise"}
          /\ less.op # "none" /\ less.conn \in Conns /\ less.set[c] # 0
          /\ then # "act" /\ then \notin {"host", "supervise"} /\ less.op = "close"
          /\ \A d \in less.todo : less.set[d] # 0
      BY <1>3, <1>4, <1>6, <1>8, <1>9
    <3>3. Follows(q, less) /\ q.ticket = less.ticket
      BY <1>7, <1>9, <3>1, <3>2, AnnouncingIs
    <3> QED
      BY <1>8, <3>3
  <2>2. CASE ~b
    <3>1. q = Resumed(less)
      BY <1>10, <2>2
    <3> QED
      BY <1>3, <1>6, <1>7, <1>8, <1>9, <3>1, ResumedIs
  <2> QED
    BY <2>1, <2>2
<1>12. Follows(q, r) /\ (q = Idle \/ Same(q, r))
  BY <1>3, <1>8, <1>11 DEF Follows, Same
<1>13. Move(t, q)
  BY <1>4, <1>10
<1>14. Moves(t)
  BY <1>1, <1>11, <1>12, <1>13 DEF Moves
<1>15. task'[t] = q
  BY <1>13, MoveIs
<1> QED
  BY <1>1, <1>3, <1>12, <1>14, <1>15

LEMMA ReleasedMoves ==
    ASSUME Base, NEW t \in Tasks, Released(t)
    PROVE  Moves(t) /\ task[t].op = "release" /\ (task'[t] = Idle \/ Same(task'[t], task[t]))
<1>1. PICK r : r = task[t]
  OBVIOUS
<1>2. r \in TaskRec /\ Placed(r) /\ (r.pc # "idle" => r.op # "none")
  BY <1>1, TaskIs
<1>3. r.pc = "release" /\ r.op = "release" /\ r.conn \in Conns /\ r.at \in Cids
  BY <1>1, <1>2 DEF Released, At, Placed, Elsewhere
<1>4. CASE Finish(t)
  BY <1>1, <1>3, <1>4, FinishMoves
<1>5. CASE ~Finish(t)
  <2>1. PICK s : s = [r EXCEPT !.set = cur]
    OBVIOUS
  <2>2. r.at \in Present /\ Move(t, Announcing(s, r.at, {}, "idle"))
    BY <1>1, <1>5, <2>1 DEF Released
  <2>3. s = [op |-> r.op, conn |-> r.conn, strict |-> r.strict, at |-> r.at, pc |-> r.pc, set |-> cur,
             todo |-> r.todo, host |-> r.host, out |-> r.out, say |-> r.say, ticket |-> r.ticket,
             then |-> r.then, orphan |-> r.orphan]
    BY <1>2, <2>1 DEF TaskRec
  <2>4. cur \in [Cids -> 0..MaxLives] /\ cur[r.at] # 0
    BY <2>2 DEF Base, Typed, Present
  <2>5. s \in TaskRec
    BY <1>2, <2>3, <2>4, TaskFields DEF TaskRec
  <2>6. s.op = "release" /\ s.conn = r.conn /\ s.set = cur /\ s.ticket = r.ticket
    BY <1>3, <2>3
  <2>7. PICK q : q = Announcing(s, r.at, {}, "idle")
    OBVIOUS
  <2>8. Follows(q, s) /\ q.ticket = r.ticket /\ q.op = s.op /\ q.conn = s.conn
    BY <1>3, <2>4, <2>5, <2>6, <2>7, AnnouncingIs
  <2>9. Follows(q, r) /\ Same(q, r)
    BY <1>3, <2>6, <2>8 DEF Follows, Same
  <2>10. Moves(t)
    BY <1>1, <2>2, <2>7, <2>8, <2>9 DEF Moves
  <2>11. task'[t] = q
    BY <2>2, <2>7, MoveIs
  <2> QED
    BY <1>1, <1>3, <2>9, <2>10, <2>11
<1> QED
  BY <1>4, <1>5

LEMMA AskSdkMoves ==
    ASSUME Base, NEW t \in Tasks, AskSdk(t)
    PROVE  /\ Moves(t) /\ task[t].op = "claim"
           /\ task'[t] = Idle \/ (Same(task'[t], task[t]) /\ task'[t].pc \in {"decide", "remove"})
<1>1. PICK r : r = task[t]
  OBVIOUS
<1>2. r \in TaskRec /\ Placed(r) /\ HoldsSets(r)
  BY <1>1, TaskIs
<1>3. r.pc = "sdk" /\ r.op = "claim" /\ r.at \in Cids /\ r.todo = {}
  BY <1>1, <1>2 DEF AskSdk, At, Placed, Elsewhere, HoldsSets, Saying
<1>4. Finish(t) \/ Goto(t, "decide") \/ Goto(t, "remove")
  BY DEF AskSdk
<1>5. "decide" \in Pcs /\ "remove" \in Pcs
  BY DEF Pcs
<1>6. CASE Finish(t)
  BY <1>1, <1>3, <1>6, FinishMoves
<1>7. CASE Goto(t, "decide")
  BY <1>1, <1>3, <1>5, <1>7, GotoMoves
<1>8. CASE Goto(t, "remove")
  BY <1>1, <1>3, <1>5, <1>8, GotoMoves
<1> QED
  BY <1>4, <1>6, <1>7, <1>8

LEMMA DecideAttachMoves ==
    ASSUME Base, NEW t \in Tasks, DecideAttach(t)
    PROVE  /\ Moves(t) /\ task[t].op = "attach" /\ mapLock = None
           /\ \/ task'[t] = Idle /\ mapLock' = mapLock
              \/ /\ task'[t].pc = "act" /\ Same(task'[t], task[t]) /\ task'[t].set = cur /\ mapLock' = t
                 /\ task'[t].at = task[t].at /\ task[t].at \in Present /\ task[t].at \in Cids
                 /\ (task'[t].orphan => Live(task[t].at) = {})
<1>1. PICK r : r = task[t]
  OBVIOUS
<1>2. r \in TaskRec /\ Placed(r)
  BY <1>1, TaskIs
<1>3. r.pc = "decide" /\ r.op = "attach" /\ r.at \in Cids /\ r.conn \in Conns /\ mapLock = None
  BY <1>1, <1>2 DEF DecideAttach, At, Placed, Elsewhere
<1>4. CASE Finish(t) /\ UNCHANGED mapLock
  BY <1>1, <1>3, <1>4, FinishMoves
<1>5. CASE ~(Finish(t) /\ UNCHANGED mapLock)
  <2>1. (Live(r.at) = {}) \in BOOLEAN
    OBVIOUS
  <2>2. PICK b \in BOOLEAN : b = (Live(r.at) = {})
    BY <2>1, Zenon
  <2>3. PICK q : q = [r EXCEPT !.pc = "act", !.set = cur, !.orphan = b, !.host = {r.at}]
    OBVIOUS
  <2>4. Move(t, q) /\ mapLock' = t /\ r.at \in Present
    BY <1>1, <1>5, <2>2, <2>3 DEF DecideAttach
  <2>5. q = [op |-> r.op, conn |-> r.conn, strict |-> r.strict, at |-> r.at, pc |-> "act", set |-> cur,
             todo |-> r.todo, host |-> {r.at}, out |-> r.out, say |-> r.say, ticket |-> r.ticket,
             then |-> r.then, orphan |-> b]
    BY <1>2, <2>3 DEF TaskRec
  <2>6. cur \in [Cids -> 0..MaxLives] /\ cur[r.at] # 0 /\ "act" \in Pcs
    BY <2>4 DEF Base, Typed, Present, Pcs
  <2>7. q \in TaskRec
    BY <1>2, <1>3, <2>2, <2>5, <2>6, TaskFields DEF TaskRec
  <2>8. /\ q.op = "attach" /\ q.conn = r.conn /\ q.set = cur /\ q.ticket = r.ticket /\ q.at = r.at
        /\ q.pc = "act" /\ q.orphan = b
    BY <1>3, <2>5
  <2>9. Placed(q) /\ Continues(q) /\ HoldsSets(q)
    BY <1>3, <2>6, <2>8 DEF Placed, Continues, HoldsSets, Saying, Elsewhere
  <2>10. Follows(q, r) /\ Same(q, r)
    BY <1>3, <2>7, <2>8, <2>9 DEF Follows, Good, Same
  <2>11. Moves(t)
    BY <1>1, <2>4, <2>8, <2>10 DEF Moves
  <2>12. task'[t] = q
    BY <2>4, MoveIs
  <2> QED
    BY <1>1, <1>3, <2>2, <2>4, <2>8, <2>10, <2>11, <2>12
<1> QED
  BY <1>4, <1>5

LEMMA DecideClaimMoves ==
    ASSUME Base, NEW t \in Tasks, DecideClaim(t)
    PROVE  /\ Moves(t) /\ task[t].op = "claim" /\ mapLock = None
           /\ \/ task'[t] = Idle /\ mapLock' = mapLock
              \/ /\ task'[t].pc = "act" /\ Same(task'[t], task[t]) /\ task'[t].set = cur /\ mapLock' = t
                 /\ task[t].at \in Present /\ task[t].at \in Cids /\ MayAct(task[t].conn, task[t].at)
                 /\ task'[t].todo = Swept(task[t].at)
<1>1. PICK r : r = task[t]
  OBVIOUS
<1>2. r \in TaskRec /\ Placed(r)
  BY <1>1, TaskIs
<1>3. r.pc = "decide" /\ r.op = "claim" /\ r.at \in Cids /\ r.conn \in Conns /\ mapLock = None
  BY <1>1, <1>2 DEF DecideClaim, At, Placed, Elsewhere
<1>4. CASE ~Granted(r)
  <2>1. Finish(t) /\ UNCHANGED mapLock
    BY <1>1, <1>4 DEF DecideClaim
  <2> QED
    BY <1>1, <1>3, <2>1, FinishMoves
<1>5. CASE Granted(r)
  <2>1. r.at \in Present /\ MayAct(r.conn, r.at)
    BY <1>5 DEF Granted, MayClaim
  <2>2. PICK S : S = Swept(r.at)
    OBVIOUS
  <2>3. PICK q : q = [r EXCEPT !.pc = "act", !.set = cur, !.todo = S, !.host = S]
    OBVIOUS
  <2>4. Move(t, q) /\ mapLock' = t
    BY <1>1, <1>5, <2>2, <2>3 DEF DecideClaim
  <2>5. q = [op |-> r.op, conn |-> r.conn, strict |-> r.strict, at |-> r.at, pc |-> "act", set |-> cur,
             todo |-> S, host |-> S, out |-> r.out, say |-> r.say, ticket |-> r.ticket,
             then |-> r.then, orphan |-> r.orphan]
    BY <1>2, <2>3 DEF TaskRec
  <2>6. S \subseteq Present /\ Present \subseteq Cids /\ \A c \in Present : cur[c] # 0
    BY <2>1, <2>2 DEF Swept, Present
  <2>7. cur \in [Cids -> 0..MaxLives] /\ "act" \in Pcs
    BY DEF Base, Typed, Pcs
  <2>8. q \in TaskRec
    BY <1>2, <2>5, <2>6, <2>7, TaskFields DEF TaskRec
  <2>9. /\ q.op = "claim" /\ q.conn = r.conn /\ q.set = cur /\ q.ticket = r.ticket /\ q.at = r.at
        /\ q.pc = "act" /\ q.todo = S
    BY <1>3, <2>5
  <2>10. Placed(q) /\ Continues(q) /\ HoldsSets(q)
    BY <1>3, <2>6, <2>9 DEF Placed, Continues, HoldsSets, Saying, Elsewhere
  <2>11. Follows(q, r) /\ Same(q, r)
    BY <1>3, <2>8, <2>9, <2>10 DEF Follows, Good, Same
  <2>12. Moves(t)
    BY <1>1, <2>4, <2>9, <2>11 DEF Moves
  <2>13. task'[t] = q
    BY <2>4, MoveIs
  <2> QED
    BY <1>1, <1>3, <2>1, <2>2, <2>4, <2>9, <2>11, <2>12, <2>13
<1> QED
  BY <1>4, <1>5

\* A member set whose windows are connections.
LEMMA SetIs ==
    ASSUME Base, NEW c \in Cids, NEW l \in 1..MaxLives
    PROVE  /\ GoodSet(subs[c][l]) /\ subs[c][l].order \in Seq(Conns) /\ IsInjective(subs[c][l].order)
           /\ subs[c][l].last \in Conns \cup {None} /\ Range(subs[c][l].order) \subseteq Conns
<1>1. GoodSet(subs[c][l]) /\ subs[c][l].order \in Seq(Conns)
  BY DEF Base, SetsTyped, GoodSet, SetRec
<1>2. Range(subs[c][l].order) \subseteq Conns
  BY <1>1 DEF Range
<1> QED
  BY <1>1, <1>2 DEF GoodSet, SetRec

LEMMA ActAttachMoves ==
    ASSUME Base, NEW t \in Tasks, ActAttach(t)
    PROVE  /\ Moves(t) /\ task[t].op = "attach" /\ task[t].pc = "act" /\ task[t].at \in Cids
           /\ task[t].conn \in Conns /\ task[t].set[task[t].at] \in 1..MaxLives
           /\ task'[t] = Idle \/ (Same(task'[t], task[t]) /\ task'[t].pc \in {"say", "host"})
           /\ task[t].orphan /\ Displaced(SetOf(t, task[t].at), task[t].conn) # {} =>
                 /\ task'[t].pc = "say" /\ task'[t].at = task[t].at
                 /\ task'[t].out = Displaced(SetOf(t, task[t].at), task[t].conn)
<1>1. PICK r : r = task[t]
  OBVIOUS
<1>2. r \in TaskRec /\ Placed(r) /\ HoldsSets(r) /\ r.set \in [Cids -> 0..MaxLives] /\ r.orphan \in BOOLEAN
  BY <1>1, TaskIs
<1>3. r.pc = "act" /\ r.op = "attach" /\ r.at \in Cids /\ r.conn \in Conns /\ r.set[r.at] # 0
  BY <1>1, <1>2 DEF ActAttach, At, Placed, Elsewhere, HoldsSets
<1>4. r.set[r.at] \in 1..MaxLives
  BY <1>2, <1>3, MembershipAssumption
<1>5. PICK old : old = SetOf(t, r.at)
  OBVIOUS
<1>6. Range(old.order) \subseteq Conns
  BY <1>1, <1>3, <1>4, <1>5, SetIs DEF SetOf
<1>7. PICK out : out = IF r.orphan THEN Displaced(old, r.conn) ELSE {}
  OBVIOUS
<1>8. out \in SUBSET Conns
  BY <1>6, <1>7 DEF Displaced
<1>9. PICK new : new = IF r.orphan THEN TakenOver(old, r.conn) ELSE Attached(old, r.conn)
  OBVIOUS
<1>10. PICK q : q = IF Len(new.order) > 1 \/ out # {} THEN Announcing(r, r.at, out, "host") ELSE Hosting(r)
  OBVIOUS
<1>11. Move(t, q)
  BY <1>1, <1>5, <1>7, <1>9, <1>10 DEF ActAttach
<1>12. CASE q = Announcing(r, r.at, out, "host")
  <2>1. r.op \in Hosts /\ "host" \in {"idle", "leave", "act", "host", "supervise"} /\ r.op # "claim" /\ r.op # "close"
    BY <1>3 DEF Hosts
  <2>2. Follows(q, r) /\ q.op = r.op /\ q.conn = r.conn /\ q.at = r.at /\ q.pc = "say" /\ q.out = out /\ q.ticket = r.ticket
    BY <1>2, <1>3, <1>8, <1>12, <2>1, AnnouncingIs
  <2>3. Moves(t)
    BY <1>1, <1>11, <2>2 DEF Moves
  <2>4. task'[t] = q
    BY <1>11, MoveIs
  <2> QED
    BY <1>1, <1>3, <1>4, <1>5, <1>7, <2>2, <2>3, <2>4 DEF Same
<1>13. CASE q = Hosting(r) /\ out = {}
  <2>1. r.op \in Hosts
    BY <1>3 DEF Hosts
  <2>2. Follows(q, r) /\ (q = Idle \/ q.pc = "host") /\ q.ticket \in {0, r.ticket}
    BY <1>2, <1>3, <1>13, <2>1, HostingIs
  <2>3. Moves(t)
    BY <1>1, <1>11, <2>2 DEF Moves
  <2>4. task'[t] = q
    BY <1>11, MoveIs
  <2>5. q = Idle \/ (Same(q, r) /\ q.pc = "host")
    BY <2>2 DEF Follows
  <2> QED
    BY <1>1, <1>3, <1>4, <1>5, <1>7, <1>13, <2>3, <2>4, <2>5
<1> QED
  BY <1>10, <1>12, <1>13

LEMMA ActClaimMoves ==
    ASSUME Base, NEW t \in Tasks, ActClaim(t)
    PROVE  /\ Moves(t) /\ task[t].op = "claim" /\ task[t].pc = "act" /\ task[t].conn \in Conns
           /\ \E c \in task[t].todo :
                 /\ c \in Cids /\ task[t].set[c] \in 1..MaxLives
                 /\ Enters(t, c, task[t].set[c], TakenOver(SetOf(t, c), task[t].conn))
                 /\ Same(task'[t], task[t]) /\ task'[t].todo = task[t].todo \ {c}
                 /\ task'[t].set = task[t].set
                 /\ \/ task'[t].pc = "act"
                    \/ task'[t].pc = "say" /\ task'[t].then = "act"
                 /\ Displaced(SetOf(t, c), task[t].conn) # {} =>
                       /\ task'[t].pc = "say" /\ task'[t].at = c
                       /\ task'[t].out = Displaced(SetOf(t, c), task[t].conn)
<1>1. PICK r : r = task[t]
  OBVIOUS
<1>2. r \in TaskRec /\ Placed(r) /\ HoldsSets(r) /\ r.set \in [Cids -> 0..MaxLives] /\ r.todo \in SUBSET Cids
  BY <1>1, TaskIs
<1>3. r.pc = "act" /\ r.op = "claim" /\ r.at \in Cids /\ r.conn \in Conns /\ \A d \in r.todo : r.set[d] # 0
  BY <1>1, <1>2 DEF ActClaim, At, Placed, Elsewhere, HoldsSets
<1>4. PICK c \in task[t].todo :
        LET s == [task[t] EXCEPT !.todo = @ \ {c}]
            out == Displaced(SetOf(t, c), s.conn)
        IN  /\ Enters(t, c, s.set[c], TakenOver(SetOf(t, c), s.conn))
            /\ Move(t, IF out # {} THEN Announcing(s, c, out, "act") ELSE s)
  BY Zenon DEF ActClaim
<1>5. PICK s : s = [r EXCEPT !.todo = r.todo \ {c}]
  OBVIOUS
<1>6. s = [op |-> r.op, conn |-> r.conn, strict |-> r.strict, at |-> r.at, pc |-> "act", set |-> r.set,
           todo |-> r.todo \ {c}, host |-> r.host, out |-> r.out, say |-> r.say, ticket |-> r.ticket,
           then |-> r.then, orphan |-> r.orphan]
  BY <1>2, <1>3, <1>5 DEF TaskRec
<1>7. s \in TaskRec
  BY <1>2, <1>3, <1>6, TaskFields DEF TaskRec
<1>8. /\ s.op = "claim" /\ s.conn = r.conn /\ s.at = r.at /\ s.pc = "act" /\ s.set = r.set
      /\ s.todo = r.todo \ {c} /\ s.ticket = r.ticket
  BY <1>3, <1>6
<1>9. c \in r.todo /\ c \in Cids /\ r.set[c] \in 1..MaxLives
  BY <1>1, <1>2, <1>3, <1>4, MembershipAssumption
<1>10. PICK out : out = Displaced(SetOf(t, c), r.conn)
  OBVIOUS
<1>11. Range(SetOf(t, c).order) \subseteq Conns
  BY <1>1, <1>9, SetIs DEF SetOf
<1>12. out \in SUBSET Conns
  BY <1>10, <1>11 DEF Displaced
<1>13. PICK q : q = IF out # {} THEN Announcing(s, c, out, "act") ELSE s
  OBVIOUS
<1>14. Move(t, q) /\ Enters(t, c, r.set[c], TakenOver(SetOf(t, c), r.conn))
  BY <1>1, <1>4, <1>5, <1>8, <1>10, <1>13
<1>15. /\ Follows(q, r) /\ Same(q, r) /\ q.todo = r.todo \ {c} /\ q.set = r.set /\ q.ticket = r.ticket
       /\ \/ q.pc = "act"
          \/ q.pc = "say" /\ q.then = "act"
       /\ out # {} => q.pc = "say" /\ q.at = c /\ q.out = out
  <2>1. CASE out # {}
    <3>1. /\ "act" \in {"idle", "leave", "act", "host", "supervise"} /\ s.op = "claim" /\ s.conn \in Conns
          /\ s.set[c] # 0 /\ "act" \notin {"host", "supervise"} /\ "act" # "leave"
          /\ \A d \in s.todo : s.set[d] # 0
      BY <1>3, <1>8, <1>9
    <3>2. q = Announcing(s, c, out, "act")
      BY <1>13, <2>1
    <3>3. /\ Follows(q, s) /\ q.op = s.op /\ q.conn = s.conn /\ q.at = c /\ q.pc = "say" /\ q.out = out
          /\ q.then = "act" /\ q.todo = s.todo /\ q.set = s.set /\ q.ticket = s.ticket
      BY <1>7, <1>9, <1>12, <3>1, <3>2, AnnouncingIs
    <3> QED
      BY <1>3, <1>8, <3>3 DEF Follows, Same
  <2>2. CASE out = {}
    <3>1. q = s
      BY <1>13, <2>2
    <3>2. Placed(s) /\ Continues(s) /\ HoldsSets(s)
      BY <1>3, <1>8 DEF Placed, Continues, HoldsSets, Saying, Elsewhere
    <3> QED
      BY <1>3, <1>7, <1>8, <2>2, <3>1, <3>2 DEF Follows, Good, Same
  <2> QED
    BY <2>1, <2>2
<1>16. Moves(t)
  BY <1>1, <1>14, <1>15 DEF Moves
<1>17. task'[t] = q
  BY <1>14, MoveIs
<1> QED
  BY <1>1, <1>3, <1>9, <1>10, <1>14, <1>15, <1>16, <1>17

LEMMA ClaimedMoves ==
    ASSUME Base, NEW t \in Tasks, Claimed(t)
    PROVE  Moves(t) /\ task[t].op = "claim" /\ task[t].pc = "act" /\ Same(task'[t], task[t]) /\ task'[t].pc = "host"
<1>1. PICK r : r = task[t]
  OBVIOUS
<1>2. r \in TaskRec /\ Placed(r)
  BY <1>1, TaskIs
<1>3. r.pc = "act" /\ r.op = "claim" /\ r.todo = {} /\ Goto(t, "host")
  BY <1>1 DEF Claimed, At
<1>4. "host" \in Pcs /\ r.op \in Hosts /\ "host" \in Elsewhere
  BY <1>3 DEF Pcs, Hosts, Elsewhere
<1> QED
  BY <1>1, <1>3, <1>4, GotoMoves

LEMMA TrackedMoves ==
    ASSUME Base, NEW t \in Tasks, Tracked(t)
    PROVE  Moves(t) /\ task[t].op = "connect" /\ (task'[t] = Idle \/ Same(task'[t], task[t]))
<1>1. PICK r : r = task[t]
  OBVIOUS
<1>2. r \in TaskRec /\ Placed(r)
  BY <1>1, TaskIs
<1>3. r.pc = "tracked" /\ r.op = "connect" /\ r.at \in Cids
  BY <1>1, <1>2 DEF Tracked, At, Placed, Elsewhere
<1>4. Finish(t) \/ Goto(t, "get") \/ Goto(t, "resume") \/ Goto(t, "remove")
  BY DEF Tracked
<1>5. "get" \in Pcs /\ "resume" \in Pcs /\ "remove" \in Pcs
  BY DEF Pcs
<1>6. CASE Finish(t)
  BY <1>1, <1>3, <1>6, FinishMoves
<1>7. CASE Goto(t, "get")
  BY <1>1, <1>3, <1>5, <1>7, GotoMoves
<1>8. CASE Goto(t, "resume")
  BY <1>1, <1>3, <1>5, <1>8, GotoMoves
<1>9. CASE Goto(t, "remove")
  BY <1>1, <1>3, <1>5, <1>9, GotoMoves
<1> QED
  BY <1>4, <1>6, <1>7, <1>8, <1>9

LEMMA GetSetMoves ==
    ASSUME Base, NEW t \in Tasks, GetSet(t)
    PROVE  Moves(t) /\ task[t].op = "connect" /\ (task'[t] = Idle \/ Same(task'[t], task[t]))
<1>1. PICK r : r = task[t]
  OBVIOUS
<1>2. r \in TaskRec /\ Placed(r)
  BY <1>1, TaskIs
<1>3. r.pc = "get" /\ r.op = "connect" /\ r.at \in Cids /\ r.conn \in Conns
  BY <1>1, <1>2 DEF GetSet, At, Placed, Elsewhere
<1>4. PICK s : s = [r EXCEPT !.host = {r.at}]
  OBVIOUS
<1>5. s = [op |-> r.op, conn |-> r.conn, strict |-> r.strict, at |-> r.at, pc |-> r.pc, set |-> r.set,
           todo |-> r.todo, host |-> {r.at}, out |-> r.out, say |-> r.say, ticket |-> r.ticket,
           then |-> r.then, orphan |-> r.orphan]
  BY <1>2, <1>4 DEF TaskRec
<1>6. s \in TaskRec
  BY <1>2, <1>3, <1>5, TaskFields DEF TaskRec
<1>7. s.op = "connect" /\ s.conn = r.conn /\ s.at = r.at /\ s.ticket = r.ticket
  BY <1>3, <1>5
<1>8. CASE r.at \in Present
  <2>1. PICK q : q = [s EXCEPT !.pc = "take", !.set = cur]
    OBVIOUS
  <2>2. Move(t, q)
    BY <1>1, <1>4, <1>7, <1>8, <2>1 DEF GetSet
  <2>3. q = [op |-> r.op, conn |-> r.conn, strict |-> r.strict, at |-> r.at, pc |-> "take", set |-> cur,
             todo |-> r.todo, host |-> {r.at}, out |-> r.out, say |-> r.say, ticket |-> r.ticket,
             then |-> r.then, orphan |-> r.orphan]
    BY <1>5, <2>1
  <2>4. cur \in [Cids -> 0..MaxLives] /\ cur[r.at] # 0 /\ "take" \in Pcs
    BY <1>8 DEF Base, Typed, Present, Pcs
  <2>5. q \in TaskRec
    BY <1>2, <1>3, <2>3, <2>4, TaskFields DEF TaskRec
  <2>6. q.op = "connect" /\ q.conn = r.conn /\ q.at = r.at /\ q.ticket = r.ticket /\ q.pc = "take" /\ q.set = cur
    BY <1>3, <2>3
  <2>7. Placed(q) /\ Continues(q) /\ HoldsSets(q)
    BY <1>3, <2>4, <2>6 DEF Placed, Continues, HoldsSets, Saying, Elsewhere
  <2>8. Follows(q, r) /\ Same(q, r)
    BY <1>3, <2>5, <2>6, <2>7 DEF Follows, Good, Same
  <2>9. Moves(t)
    BY <1>1, <2>2, <2>6, <2>8 DEF Moves
  <2>10. task'[t] = q
    BY <2>2, MoveIs
  <2> QED
    BY <1>1, <1>3, <2>8, <2>9, <2>10
<1>9. CASE r.at \notin Present
  <2>1. PICK q : q = Hosting(s)
    OBVIOUS
  <2>2. Move(t, q)
    BY <1>1, <1>4, <1>7, <1>9, <2>1 DEF GetSet
  <2>3. s.op \in Hosts /\ s.conn \in Conns
    BY <1>3, <1>7 DEF Hosts
  <2>4. Follows(q, s) /\ q.ticket \in {0, s.ticket}
    BY <1>6, <1>7, <2>1, <2>3, HostingIs
  <2>5. Follows(q, r) /\ (q = Idle \/ Same(q, r))
    BY <1>3, <1>7, <2>4 DEF Follows, Same
  <2>6. Moves(t)
    BY <1>1, <1>7, <2>2, <2>4, <2>5 DEF Moves
  <2>7. task'[t] = q
    BY <2>2, MoveIs
  <2> QED
    BY <1>1, <1>3, <2>5, <2>6, <2>7
<1> QED
  BY <1>8, <1>9

\* A connect that takes a session over.
LEMMA TakeOverMoves ==
    ASSUME Base, NEW t \in Tasks, NEW set \in [Cids -> 0..MaxLives], NEW then \in {"host", "idle"},
           task[t].op = "connect", task[t].at \in Cids, set[task[t].at] # 0, TakeOver(t, set, then)
    PROVE  LET c == task[t].at
               s == subs[c][set[c]]
           IN  /\ Moves(t) /\ task[t].conn \in Conns /\ set[c] \in 1..MaxLives
               /\ task'[t] = Idle \/ Same(task'[t], task[t])
               /\ Enters(t, c, set[c], TakenOver(s, task[t].conn))
               /\ Displaced(s, task[t].conn) # {} =>
                     task'[t].pc = "say" /\ task'[t].at = c /\ task'[t].out = Displaced(s, task[t].conn)
<1>1. PICK r : r = task[t]
  OBVIOUS
<1>2. r \in TaskRec /\ Placed(r)
  BY <1>1, TaskIs
<1>3. r.op = "connect" /\ r.at \in Cids /\ r.conn \in Conns /\ set[r.at] \in 1..MaxLives
  BY <1>1, <1>2, MembershipAssumption DEF Placed
<1>4. PICK s : s = [r EXCEPT !.set = set, !.then = then]
  OBVIOUS
<1>5. s = [op |-> r.op, conn |-> r.conn, strict |-> r.strict, at |-> r.at, pc |-> r.pc, set |-> set,
           todo |-> r.todo, host |-> r.host, out |-> r.out, say |-> r.say, ticket |-> r.ticket,
           then |-> then, orphan |-> r.orphan]
  BY <1>2, <1>4 DEF TaskRec
<1>6. then \in Pcs /\ then \in {"idle", "leave", "act", "host", "supervise"} /\ "connect" \in Hosts
  BY DEF Pcs, Hosts
<1>7. s \in TaskRec
  BY <1>2, <1>5, <1>6, TaskFields DEF TaskRec
<1>8. s.op = "connect" /\ s.conn = r.conn /\ s.at = r.at /\ s.set = set /\ s.ticket = r.ticket /\ s.then = then
  BY <1>3, <1>5
<1>9. PICK m : m = subs[r.at][set[r.at]]
  OBVIOUS
<1>10. Range(m.order) \subseteq Conns
  BY <1>3, <1>9, SetIs
<1>11. PICK out : out = Displaced(m, r.conn)
  OBVIOUS
<1>12. out \in SUBSET Conns
  BY <1>10, <1>11 DEF Displaced
<1>13. PICK q : q = IF out # {} THEN Announcing(s, r.at, out, then) ELSE Resumed(s)
  OBVIOUS
<1>14. Move(t, q) /\ Enters(t, r.at, set[r.at], TakenOver(m, r.conn))
  BY <1>1, <1>4, <1>8, <1>9, <1>11, <1>13 DEF TakeOver
<1>15. /\ Follows(q, s) /\ q.ticket \in {0, r.ticket}
       /\ out # {} => q.pc = "say" /\ q.at = r.at /\ q.out = out
  <2>1. CASE out # {}
    <3>1. q = Announcing(s, r.at, out, then)
      BY <1>13, <2>1
    <3>2. /\ Follows(q, s) /\ q.at = r.at /\ q.pc = "say" /\ q.out = out /\ q.ticket = s.ticket
      BY <1>3, <1>6, <1>7, <1>8, <1>12, <3>1, AnnouncingIs
    <3> QED
      BY <1>8, <3>2
  <2>2. CASE out = {}
    <3>1. q = Resumed(s)
      BY <1>13, <2>2
    <3>2. Follows(q, s) /\ q.ticket \in {0, s.ticket}
      BY <1>3, <1>6, <1>7, <1>8, <3>1, ResumedIs
    <3> QED
      BY <1>8, <2>2, <3>2
  <2> QED
    BY <2>1, <2>2
<1>16. Follows(q, r) /\ (q = Idle \/ Same(q, r))
  BY <1>3, <1>8, <1>15 DEF Follows, Same
<1>17. Moves(t)
  BY <1>1, <1>14, <1>15, <1>16 DEF Moves
<1>18. task'[t] = q
  BY <1>14, MoveIs
<1> QED
  BY <1>1, <1>3, <1>9, <1>11, <1>14, <1>15, <1>16, <1>17, <1>18

LEMMA SignInMoves ==
    ASSUME Base, NEW t \in Tasks, SignIn(t)
    PROVE  /\ Moves(t) /\ task[t].op = "connect" /\ task[t].at \in Cids /\ task[t].conn \in Conns
           /\ task'[t] = Idle \/ Same(task'[t], task[t])
<1>1. PICK r : r = task[t]
  OBVIOUS
<1>2. r \in TaskRec /\ Placed(r)
  BY <1>1, TaskIs
<1>3. r.pc = "signin" /\ r.op = "connect" /\ r.at \in Cids /\ r.conn \in Conns
  BY <1>1, <1>2 DEF SignIn, At, Placed, Elsewhere
<1>4. CASE Finish(t)
  BY <1>1, <1>3, <1>4, FinishMoves
<1>5. CASE ~Finish(t)
  <2>1. PICK s : s = [r EXCEPT !.host = {r.at}]
    OBVIOUS
  <2>2. PICK q : q = Hosting(s)
    OBVIOUS
  <2>3. Move(t, q)
    BY <1>1, <1>5, <2>1, <2>2 DEF SignIn
  <2>4. s = [op |-> r.op, conn |-> r.conn, strict |-> r.strict, at |-> r.at, pc |-> r.pc, set |-> r.set,
             todo |-> r.todo, host |-> {r.at}, out |-> r.out, say |-> r.say, ticket |-> r.ticket,
             then |-> r.then, orphan |-> r.orphan]
    BY <1>2, <2>1 DEF TaskRec
  <2>5. s \in TaskRec
    BY <1>2, <1>3, <2>4, TaskFields DEF TaskRec
  <2>6. s.op = "connect" /\ s.conn = r.conn /\ s.ticket = r.ticket /\ s.op \in Hosts
    BY <1>3, <2>4 DEF Hosts
  <2>7. Follows(q, s) /\ q.ticket \in {0, s.ticket}
    BY <1>3, <2>2, <2>5, <2>6, HostingIs
  <2>8. Follows(q, r) /\ (q = Idle \/ Same(q, r))
    BY <1>3, <2>6, <2>7 DEF Follows, Same
  <2>9. Moves(t)
    BY <1>1, <2>3, <2>6, <2>7, <2>8 DEF Moves
  <2>10. task'[t] = q
    BY <2>3, MoveIs
  <2> QED
    BY <1>1, <1>3, <2>8, <2>9, <2>10
<1> QED
  BY <1>4, <1>5

\* The places of a task that hosts, between the lock and its end.
HostPcs == {"host", "load", "displace", "supervise"}

LEMMA HostMoves ==
    ASSUME Base, NEW t \in Tasks, Host(t)
    PROVE  /\ Moves(t) /\ task[t].op \in Hosts
           /\ task'[t] = Idle \/ (Same(task'[t], task[t]) /\ task'[t].pc \in HostPcs)
<1>1. PICK r : r = task[t]
  OBVIOUS
<1>2. r \in TaskRec /\ Placed(r) /\ HoldsSets(r) /\ r.host \in SUBSET Cids
  BY <1>1, TaskIs
<1>3. r.pc = "host" /\ r.op \in Hosts /\ r.conn \in Conns /\ (r.op = "claim" => r.todo = {})
  BY <1>1, <1>2 DEF Host, At, Placed, Elsewhere, HoldsSets, Hosts, Saying
<1>4. CASE Finish(t)
  BY <1>1, <1>3, <1>4, FinishMoves
<1>5. CASE ~Finish(t)
  <2>1. PICK c \in task[t].host :
          LET s == [task[t] EXCEPT !.at = c, !.host = @ \ {c}] IN
          \/ Move(t, [s EXCEPT !.pc = "displace"])
          \/ tickets' = tickets + 1 /\ Move(t, [s EXCEPT !.pc = "load", !.ticket = tickets + 1])
    BY <1>5, Zenon DEF Host
  <2>2. PICK s : s = [r EXCEPT !.at = c, !.host = r.host \ {c}]
    OBVIOUS
  <2>3. s = [op |-> r.op, conn |-> r.conn, strict |-> r.strict, at |-> c, pc |-> r.pc, set |-> r.set,
             todo |-> r.todo, host |-> r.host \ {c}, out |-> r.out, say |-> r.say, ticket |-> r.ticket,
             then |-> r.then, orphan |-> r.orphan]
    BY <1>2, <2>2 DEF TaskRec
  <2>4. PICK pc, k : /\ pc \in {"displace", "load"} /\ k \in {r.ticket, tickets'} /\ k \in Nat
                     /\ Move(t, [op |-> r.op, conn |-> r.conn, strict |-> r.strict, at |-> c, pc |-> pc,
                                 set |-> r.set, todo |-> r.todo, host |-> r.host \ {c}, out |-> r.out,
                                 say |-> r.say, ticket |-> k, then |-> r.then, orphan |-> r.orphan])
    <3>1. CASE Move(t, [s EXCEPT !.pc = "displace"])
      <4>1. [s EXCEPT !.pc = "displace"] =
               [op |-> r.op, conn |-> r.conn, strict |-> r.strict, at |-> c, pc |-> "displace",
                set |-> r.set, todo |-> r.todo, host |-> r.host \ {c}, out |-> r.out,
                say |-> r.say, ticket |-> r.ticket, then |-> r.then, orphan |-> r.orphan]
        BY <2>3
      <4>2. r.ticket \in Nat
        BY <1>2, TaskFields
      <4> QED
        BY <3>1, <4>1, <4>2
    <3>2. CASE tickets' = tickets + 1 /\ Move(t, [s EXCEPT !.pc = "load", !.ticket = tickets + 1])
      <4>1. PICK n \in Nat : n = tickets + 1
        BY DEF Base, SlotInv, SlotsTyped
      <4>2. n = tickets' /\ Move(t, [s EXCEPT !.pc = "load", !.ticket = n])
        BY <3>2, <4>1, Zenon
      <4>a. PICK q : q = [s EXCEPT !.pc = "load", !.ticket = n]
        OBVIOUS
      <4>3. q =
               [op |-> r.op, conn |-> r.conn, strict |-> r.strict, at |-> c, pc |-> "load",
                set |-> r.set, todo |-> r.todo, host |-> r.host \ {c}, out |-> r.out,
                say |-> r.say, ticket |-> n, then |-> r.then, orphan |-> r.orphan]
        BY <2>3, <4>a
      <4>4. Move(t, [op |-> r.op, conn |-> r.conn, strict |-> r.strict, at |-> c, pc |-> "load",
                     set |-> r.set, todo |-> r.todo, host |-> r.host \ {c}, out |-> r.out,
                     say |-> r.say, ticket |-> n, then |-> r.then, orphan |-> r.orphan])
        BY <4>2, <4>a, <4>3, Zenon
      <4> QED
        BY <4>2, <4>4, Zenon
    <3> QED
      BY <1>1, <2>1, <2>2, <3>1, <3>2
  <2>5. PICK q : q = [op |-> r.op, conn |-> r.conn, strict |-> r.strict, at |-> c, pc |-> pc,
                      set |-> r.set, todo |-> r.todo, host |-> r.host \ {c}, out |-> r.out,
                      say |-> r.say, ticket |-> k, then |-> r.then, orphan |-> r.orphan]
    OBVIOUS
  <2>6. pc \in Pcs /\ pc \in HostPcs /\ c \in Cids
    BY <1>1, <1>2, <2>1, <2>4 DEF Pcs, HostPcs
  <2>7. q \in TaskRec
    BY <1>2, <2>4, <2>5, <2>6, TaskFields DEF TaskRec
  <2>8. q.op = r.op /\ q.conn = r.conn /\ q.at = c /\ q.pc = pc /\ q.todo = r.todo /\ q.ticket = k
    BY <2>5
  <2>9. Placed(q) /\ Continues(q) /\ HoldsSets(q)
    BY <1>2, <1>3, <2>4, <2>6, <2>8 DEF Placed, Continues, HoldsSets, Saying, Elsewhere, Hosts
  <2>10. Follows(q, r) /\ Same(q, r)
    BY <2>7, <2>8, <2>9 DEF Follows, Good, Same
  <2>11. Moves(t)
    BY <1>1, <2>4, <2>5, <2>8, <2>10 DEF Moves
  <2>12. task'[t] = q
    BY <2>4, <2>5, MoveIs
  <2> QED
    BY <1>1, <1>3, <2>6, <2>8, <2>10, <2>11, <2>12
<1> QED
  BY <1>4, <1>5

LEMMA LoadedMoves ==
    ASSUME Base, NEW t \in Tasks, Loaded(t)
    PROVE  /\ Moves(t) /\ task[t].op \in Hosts
           /\ task'[t] = Idle \/ (Same(task'[t], task[t]) /\ task'[t].pc \in HostPcs)
<1>1. PICK r : r = task[t]
  OBVIOUS
<1>2. r \in TaskRec /\ Placed(r) /\ HoldsSets(r)
  BY <1>1, TaskIs
<1>3. r.pc = "load" /\ r.op \in Hosts /\ r.conn \in Conns /\ (r.op = "claim" => r.todo = {}) /\ r.at \in Cids
  BY <1>1, <1>2 DEF Loaded, At, Placed, Elsewhere, HoldsSets, Hosts, Saying
<1>4. PICK s : s = [r EXCEPT !.ticket = 0]
  OBVIOUS
<1>5. s = [op |-> r.op, conn |-> r.conn, strict |-> r.strict, at |-> r.at, pc |-> r.pc, set |-> r.set,
           todo |-> r.todo, host |-> r.host, out |-> r.out, say |-> r.say, ticket |-> 0,
           then |-> r.then, orphan |-> r.orphan]
  BY <1>2, <1>4 DEF TaskRec
<1>6. s \in TaskRec
  BY <1>2, <1>5, TaskFields DEF TaskRec
<1>7. s.op = r.op /\ s.conn = r.conn /\ s.ticket = 0 /\ s.at = r.at /\ s.todo = r.todo
  BY <1>5
<1>8. Move(t, [s EXCEPT !.pc = "displace"]) \/ Move(t, Hosting(s))
  BY <1>1, <1>4 DEF Loaded
<1>9. CASE Move(t, [s EXCEPT !.pc = "displace"])
  <2>1. PICK q : q = [s EXCEPT !.pc = "displace"]
    OBVIOUS
  <2>2. "displace" \in Pcs /\ "displace" \in HostPcs
    BY DEF Pcs, HostPcs
  <2>3. /\ q \in TaskRec /\ q.pc = "displace" /\ q.op = r.op /\ q.conn = r.conn /\ q.at = r.at
        /\ q.todo = r.todo /\ q.ticket = 0
    BY <1>6, <1>7, <2>1, <2>2, Going
  <2>4. Placed(q) /\ Continues(q) /\ HoldsSets(q)
    BY <1>3, <2>3 DEF Placed, Continues, HoldsSets, Saying, Elsewhere, Hosts
  <2>5. Follows(q, r) /\ Same(q, r)
    BY <2>3, <2>4 DEF Follows, Good, Same
  <2>6. Moves(t)
    BY <1>1, <1>9, <2>1, <2>3, <2>5 DEF Moves
  <2>7. task'[t] = q
    BY <1>9, <2>1, MoveIs
  <2> QED
    BY <1>1, <1>3, <2>2, <2>3, <2>5, <2>6, <2>7
<1>10. CASE Move(t, Hosting(s))
  <2>1. PICK q : q = Hosting(s)
    OBVIOUS
  <2>2. Follows(q, s) /\ q.ticket \in {0, s.ticket} /\ (q = Idle \/ q.pc = "host")
    BY <1>3, <1>6, <1>7, <2>1, HostingIs
  <2>3. Follows(q, r) /\ (q = Idle \/ Same(q, r)) /\ q.ticket = 0
    BY <1>7, <2>2 DEF Follows, Same
  <2>4. Moves(t)
    BY <1>1, <1>10, <2>1, <2>3 DEF Moves
  <2>5. task'[t] = q
    BY <1>10, <2>1, MoveIs
  <2> QED
    BY <1>1, <1>3, <2>2, <2>3, <2>4, <2>5 DEF HostPcs
<1> QED
  BY <1>8, <1>9, <1>10

LEMMA DisplaceMoves ==
    ASSUME Base, NEW t \in Tasks, Displace(t)
    PROVE  LET c == task[t].at
               older == Range(Here(c).order) \ declared
           IN  /\ Moves(t) /\ task[t].op \in Hosts /\ Same(task'[t], task[t]) /\ c \in Cids
               /\ \/ task'[t].pc = "supervise" /\ UNCHANGED <<subs, owed>>
                  \/ /\ task'[t].pc = "say" /\ task'[t].then = "supervise" /\ task'[t].at = c
                     /\ task'[t].out = older /\ c \in Present /\ cur[c] \in 1..MaxLives
<1>1. PICK r : r = task[t]
  OBVIOUS
<1>2. r \in TaskRec /\ Placed(r) /\ HoldsSets(r)
  BY <1>1, TaskIs
<1>3. /\ r.pc = "displace" /\ r.op \in Hosts /\ r.conn \in Conns /\ (r.op = "claim" => r.todo = {})
      /\ r.at \in Cids /\ r.op # "none"
  BY <1>1, <1>2 DEF Displace, At, Placed, Elsewhere, HoldsSets, Hosts, Saying
<1>4. PICK older : older = Range(Here(r.at).order) \ declared
  OBVIOUS
<1>5. CASE ~(r.at \in Present /\ older # {})
  <2>1. Goto(t, "supervise") /\ UNCHANGED <<subs, owed>>
    BY <1>1, <1>4, <1>5 DEF Displace
  <2>2. "supervise" \in Pcs
    BY DEF Pcs
  <2> QED
    BY <1>1, <1>3, <2>1, <2>2, GotoMoves
<1>6. CASE r.at \in Present /\ older # {}
  <2>1. PICK s : s = [r EXCEPT !.set = cur]
    OBVIOUS
  <2>2. PICK q : q = Announcing(s, r.at, older, "supervise")
    OBVIOUS
  <2>3. Move(t, q)
    BY <1>1, <1>4, <1>6, <2>1, <2>2 DEF Displace
  <2>4. s = [op |-> r.op, conn |-> r.conn, strict |-> r.strict, at |-> r.at, pc |-> r.pc, set |-> cur,
             todo |-> r.todo, host |-> r.host, out |-> r.out, say |-> r.say, ticket |-> r.ticket,
             then |-> r.then, orphan |-> r.orphan]
    BY <1>2, <2>1 DEF TaskRec
  <2>5. cur \in [Cids -> 0..MaxLives] /\ cur[r.at] # 0 /\ cur[r.at] \in 1..MaxLives
    BY <1>3, <1>6, MembershipAssumption DEF Base, Typed, Present
  <2>6. s \in TaskRec
    BY <1>2, <2>4, <2>5, TaskFields DEF TaskRec
  <2>7. s.op = r.op /\ s.conn = r.conn /\ s.set = cur /\ s.ticket = r.ticket /\ s.todo = r.todo
    BY <2>4
  <2>8. older \in SUBSET Conns
    BY <1>3, <1>4, <2>5, SetIs DEF Here
  <2>9. /\ s.op # "none" /\ s.op \in Hosts /\ s.conn \in Conns /\ s.set[r.at] # 0 /\ s.op # "close"
        /\ (s.op = "claim" => s.todo = {})
        /\ "supervise" \in {"idle", "leave", "act", "host", "supervise"}
    BY <1>3, <2>5, <2>7 DEF Hosts
  <2>10. /\ Follows(q, s) /\ q.op = s.op /\ q.conn = s.conn /\ q.at = r.at /\ q.pc = "say" /\ q.out = older
         /\ q.then = "supervise" /\ q.ticket = s.ticket
    BY <1>3, <2>2, <2>6, <2>8, <2>9, AnnouncingIs
  <2>11. Follows(q, r) /\ Same(q, r)
    BY <2>7, <2>10 DEF Follows, Same
  <2>12. Moves(t)
    BY <1>1, <2>3, <2>7, <2>10, <2>11 DEF Moves
  <2>13. task'[t] = q
    BY <2>3, MoveIs
  <2> QED
    BY <1>1, <1>3, <1>4, <1>6, <2>5, <2>10, <2>11, <2>12, <2>13
<1> QED
  BY <1>5, <1>6

LEMMA SuperviseMoves ==
    ASSUME Base, NEW t \in Tasks, Supervise(t)
    PROVE  /\ Moves(t) /\ task[t].op \in Hosts /\ task[t].at \in Cids
           /\ task'[t] = Idle \/ (Same(task'[t], task[t]) /\ task'[t].pc \in HostPcs)
<1>1. PICK r : r = task[t]
  OBVIOUS
<1>2. r \in TaskRec /\ Placed(r) /\ HoldsSets(r)
  BY <1>1, TaskIs
<1>3. r.pc = "supervise" /\ r.op \in Hosts /\ r.conn \in Conns /\ (r.op = "claim" => r.todo = {}) /\ r.at \in Cids
  BY <1>1, <1>2 DEF Supervise, At, Placed, Elsewhere, HoldsSets, Hosts, Saying
<1>4. PICK q : q = Hosting(r)
  OBVIOUS
<1>5. Move(t, q)
  BY <1>1, <1>4 DEF Supervise
<1>6. Follows(q, r) /\ q.ticket \in {0, r.ticket} /\ (q = Idle \/ q.pc = "host")
  BY <1>2, <1>3, <1>4, HostingIs
<1>7. Moves(t)
  BY <1>1, <1>5, <1>6 DEF Moves
<1>8. task'[t] = q
  BY <1>5, MoveIs
<1> QED
  BY <1>1, <1>3, <1>6, <1>7, <1>8 DEF HostPcs, Follows

LEMMA RemoveMoves ==
    ASSUME Base, NEW t \in Tasks, RemoveSession(t)
    PROVE  /\ Moves(t) /\ task[t].at \in Cids /\ task[t].pc = "remove"
           /\ \/ task'[t] = Idle
              \/ /\ Same(task'[t], task[t]) /\ task'[t].pc = "stopilm" /\ task'[t].at = task[t].at
                 /\ task'[t].todo = task[t].todo
<1>1. PICK r : r = task[t]
  OBVIOUS
<1>2. r \in TaskRec /\ Placed(r) /\ HoldsSets(r) /\ (r.pc # "idle" => r.op # "none")
  BY <1>1, TaskIs
<1>3. r.pc = "remove" /\ r.at \in Cids /\ r.op # "none" /\ (r.op = "claim" => r.todo = {})
  BY <1>1, <1>2 DEF RemoveSession, At, Placed, Elsewhere, HoldsSets, Saying
<1>4. CASE Finish(t)
  BY <1>1, <1>3, <1>4, FinishMoves
<1>5. CASE ~Finish(t)
  <2>1. Goto(t, "stopilm") /\ "stopilm" \in Pcs
    BY <1>5 DEF RemoveSession, Pcs
  <2> QED
    BY <1>1, <1>3, <2>1, GotoMoves
<1> QED
  BY <1>4, <1>5

LEMMA StopIlmMoves ==
    ASSUME Base, NEW t \in Tasks, StopIlm(t)
    PROVE  /\ Moves(t) /\ Same(task'[t], task[t]) /\ task'[t].pc = "stopsup" /\ task[t].pc = "stopilm"
           /\ task'[t].at = task[t].at /\ task'[t].todo = task[t].todo
<1>1. PICK r : r = task[t]
  OBVIOUS
<1>2. r \in TaskRec /\ Placed(r) /\ HoldsSets(r) /\ (r.pc # "idle" => r.op # "none")
  BY <1>1, TaskIs
<1>3. r.pc = "stopilm" /\ r.at \in Cids /\ r.op # "none" /\ (r.op = "claim" => r.todo = {})
  BY <1>1, <1>2 DEF StopIlm, At, Placed, Elsewhere, HoldsSets, Saying
<1>4. Goto(t, "stopsup") /\ "stopsup" \in Pcs
  BY DEF StopIlm, Pcs
<1> QED
  BY <1>1, <1>3, <1>4, GotoMoves

LEMMA StopSupervisorMoves ==
    ASSUME Base, NEW t \in Tasks, StopSupervisor(t)
    PROVE  /\ Moves(t) /\ task[t].pc = "stopsup"
           /\ \/ task'[t] = Idle /\ (mapLock' = mapLock \/ (mapLock' = None /\ task[t].op = "orphan"))
              \/ Same(task'[t], task[t]) /\ task[t].op \in {"logout", "connect"} /\ mapLock' = mapLock
              \/ /\ Same(task'[t], task[t]) /\ task[t].op = "orphan" /\ mapLock' = mapLock
                 /\ task'[t].pc = "remove" /\ task'[t].at \in task[t].todo
                 /\ task'[t].todo = task[t].todo \ {task'[t].at}
<1>1. PICK r : r = task[t]
  OBVIOUS
<1>2. /\ r \in TaskRec /\ Placed(r) /\ HoldsSets(r) /\ (r.pc # "idle" => r.op # "none")
      /\ r.todo \in SUBSET Cids
  BY <1>1, TaskIs
<1>3. r.pc = "stopsup" /\ r.at \in Cids /\ r.op # "none" /\ (r.op = "claim" => r.todo = {})
  BY <1>1, <1>2 DEF StopSupervisor, At, Placed, Elsewhere, HoldsSets, Saying
<1>4. "remove" \in Pcs /\ "signin" \in Pcs
  BY DEF Pcs
<1>5. CASE r.op = "logout" /\ Goto(t, "remove") /\ UNCHANGED mapLock
  BY <1>1, <1>3, <1>4, <1>5, GotoMoves
<1>6. CASE r.op = "connect" /\ Goto(t, "signin") /\ UNCHANGED mapLock
  BY <1>1, <1>3, <1>4, <1>6, GotoMoves
<1>7. CASE Finish(t) /\ (UNCHANGED mapLock \/ (r.op = "orphan" /\ mapLock' = None))
  BY <1>1, <1>3, <1>7, FinishMoves
<1>8. ASSUME r.op = "orphan", UNCHANGED mapLock, NEW c \in r.todo,
             Move(t, [r EXCEPT !.at = c, !.todo = r.todo \ {c}, !.pc = "remove"])
      PROVE  /\ Moves(t) /\ Same(task'[t], r) /\ task'[t].pc = "remove" /\ task'[t].at = c
             /\ task'[t].todo = r.todo \ {c}
  <2>1. PICK q : q = [r EXCEPT !.at = c, !.todo = r.todo \ {c}, !.pc = "remove"]
    OBVIOUS
  <2>2. q = [op |-> r.op, conn |-> r.conn, strict |-> r.strict, at |-> c, pc |-> "remove", set |-> r.set,
             todo |-> r.todo \ {c}, host |-> r.host, out |-> r.out, say |-> r.say, ticket |-> r.ticket,
             then |-> r.then, orphan |-> r.orphan]
    BY <1>2, <2>1 DEF TaskRec
  <2>3. q \in TaskRec /\ c \in Cids
    BY <1>2, <1>4, <2>2, TaskFields DEF TaskRec
  <2>4. /\ q.op = r.op /\ q.conn = r.conn /\ q.at = c /\ q.pc = "remove" /\ q.todo = r.todo \ {c}
        /\ q.ticket = r.ticket
    BY <2>2
  <2>5. Placed(q) /\ Continues(q) /\ HoldsSets(q)
    BY <1>2, <1>8, <2>3, <2>4 DEF Placed, Continues, HoldsSets, Saying, Elsewhere
  <2>6. Follows(q, r) /\ Same(q, r)
    BY <2>3, <2>4, <2>5 DEF Follows, Good, Same
  <2>7. Moves(t)
    BY <1>1, <1>8, <2>1, <2>4, <2>6 DEF Moves
  <2>8. task'[t] = q
    BY <1>8, <2>1, MoveIs
  <2> QED
    BY <2>4, <2>6, <2>7, <2>8
<1>9. \/ r.op = "logout" /\ Goto(t, "remove") /\ UNCHANGED mapLock
      \/ r.op = "connect" /\ Goto(t, "signin") /\ UNCHANGED mapLock
      \/ Finish(t) /\ (UNCHANGED mapLock \/ (r.op = "orphan" /\ mapLock' = None))
      \/ /\ r.op = "orphan" /\ UNCHANGED mapLock
         /\ \E c \in r.todo : Move(t, [r EXCEPT !.at = c, !.todo = r.todo \ {c}, !.pc = "remove"])
  BY <1>1 DEF StopSupervisor
<1> QED
  BY <1>1, <1>3, <1>5, <1>6, <1>7, <1>8, <1>9

\* A task that was idle takes a request.
Begun(t) ==
    \E q : /\ Move(t, q) /\ Good(q) /\ q.ticket = 0 /\ task[t] = Idle
           /\ (q = Idle \/ q.conn \in clients \cup {None}) /\ (q.op = "close" => q.pc = "forget" /\ q.conn \notin clients')
           /\ q.pc \notin {"say", "send"}

LEMMA BegunIs ==
    ASSUME NEW op \in Ops \ {"none"}, NEW conn \in Conns \cup {None},
           NEW at \in Cids \cup {None}, NEW pc \in Pcs \ {"say", "send", "act", "take"},
           NEW strict \in BOOLEAN, NEW todo \in SUBSET Cids,
           op \notin {"end", "logout"} => conn \in Conns,
           NEW q, q = [op |-> op, conn |-> conn, strict |-> strict, at |-> at, pc |-> pc,
                       set |-> Idle.set, todo |-> todo, host |-> {}, out |-> {}, say |-> Idle.say,
                       ticket |-> 0, then |-> "idle", orphan |-> FALSE],
           pc \notin Elsewhere => at \in Cids, pc = "sdk" => op = "claim", pc = "decide" => op \in {"attach", "claim"},
           pc \in {"tracked", "get", "resume", "signin"} => op = "connect",
           pc \notin HostPcs, pc \in {"forget", "leave"} => op = "close", pc = "release" => op = "release",
           op \in {"claim", "close"} => todo = {}
    PROVE  /\ Good(q) /\ q.op = op /\ q.conn = conn /\ q.at = at /\ q.pc = pc /\ q.todo = todo /\ q.ticket = 0
<1>2. "idle" \in Pcs
  BY DEF Pcs
<1>3. /\ q \in TaskRec /\ q.op = op /\ q.conn = conn /\ q.at = at /\ q.pc = pc /\ q.todo = todo
      /\ q.ticket = 0
  <2>1. /\ op \in Ops /\ pc \in Pcs /\ Idle.set \in [Cids -> 0..MaxLives] /\ Idle.say \in [Conns -> Roles]
        /\ {} \in SUBSET Cids /\ {} \in SUBSET Conns /\ FALSE \in BOOLEAN /\ 0 \in Nat
    BY IdleGood
  <2>2. q \in TaskRec
    BY <1>2, <2>1 DEF TaskRec
  <2> QED
    BY <2>2
<1>4. Placed(q) /\ Continues(q) /\ HoldsSets(q)
  BY <1>3 DEF Placed, Continues, HoldsSets, Saying, HostPcs
<1> QED
  BY <1>3, <1>4 DEF Good

\* The parts every request has in common.
LEMMA RequestBegins ==
    ASSUME Base, NEW t \in Tasks, NEW q, Request(t, q), Good(q), q.ticket = 0,
           q = Idle \/ q.conn \in clients \cup {None},
           q.op = "close" => q.pc = "forget" /\ q.conn \notin clients', q.pc \notin {"say", "send"}
    PROVE  Begun(t) /\ task'[t] = q
<1>1. Move(t, q) /\ task[t] = Idle
  BY DEF Request
<1>2. Begun(t)
  BY <1>1 DEF Begun
<1> QED
  BY <1>1, <1>2, MoveIs

LEMMA DeclareBegins ==
    ASSUME Base, NEW t \in Tasks, NEW x \in Conns, Declare(t, x)
    PROVE  Begun(t) /\ (task'[t] = Idle \/ task'[t].op = "declare")
<1>1. PICK held : held = {c \in Present : Has(Here(c), x)}
  OBVIOUS
<1>2. PICK r : r = [Idle EXCEPT !.op = "declare", !.conn = x, !.host = held]
  OBVIOUS
<1>3. Request(t, Hosting(r)) /\ x \in clients
  BY <1>1, <1>2 DEF Declare
<1>4. r = [op |-> "declare", conn |-> x, strict |-> FALSE, at |-> None, pc |-> "idle",
           set |-> Idle.set, todo |-> {}, host |-> held, out |-> {}, say |-> Idle.say,
           ticket |-> 0, then |-> "idle", orphan |-> FALSE]
  BY <1>2 DEF Idle
<1>5. held \in SUBSET Cids /\ "declare" \in Ops \ {"none"} /\ "idle" \in Pcs /\ "declare" \in Hosts
  BY <1>1 DEF Present, Ops, Pcs, Hosts
<1>6. r \in TaskRec /\ r.op = "declare" /\ r.conn = x /\ r.ticket = 0
  BY <1>4, <1>5, IdleGood DEF TaskRec
<1>7. PICK q : q = Hosting(r)
  OBVIOUS
<1>8. Follows(q, r) /\ (q = Idle \/ q.pc = "host") /\ q.ticket = 0
  BY <1>5, <1>6, <1>7, HostingIs
<1>9. /\ Good(q) /\ (q = Idle \/ (q.op = "declare" /\ q.conn = x)) /\ q.op # "close"
      /\ q.pc \notin {"say", "send"}
  BY <1>6, <1>8, IdleGood DEF Follows, Same
<1>10. Begun(t) /\ task'[t] = q
  BY <1>3, <1>7, <1>8, <1>9, RequestBegins
<1> QED
  BY <1>9, <1>10

LEMMA CloseBegins ==
    ASSUME Base, NEW t \in Tasks, NEW x \in Conns, Close(t, x)
    PROVE  Begun(t) /\ task'[t].op = "close" /\ task'[t].pc \in {"forget"}
<1>1. PICK pc \in {"forget"} : pc = "forget"
  OBVIOUS
<1>b. PICK b \in BOOLEAN : b = FALSE
  BY Zenon
<1>2. PICK q : q = [Idle EXCEPT !.op = "close", !.conn = x, !.pc = pc]
  OBVIOUS
<1>3. Request(t, q) /\ x \in clients
  BY <1>1, <1>2 DEF Close
<1>c. x \notin clients'
  BY DEF Close
<1>4. q = [op |-> "close", conn |-> x, strict |-> b, at |-> None, pc |-> pc,
           set |-> Idle.set, todo |-> {}, host |-> {}, out |-> {}, say |-> Idle.say,
           ticket |-> 0, then |-> "idle", orphan |-> FALSE]
  BY <1>2, <1>b DEF Idle
<1>5. /\ "close" \in Ops \ {"none"} /\ pc \in Pcs \ {"say", "send", "act", "take"} /\ pc \notin HostPcs
      /\ {} \in SUBSET Cids /\ x \in Conns \cup {None} /\ None \in Cids \cup {None}
      /\ b \in BOOLEAN /\ pc \in Elsewhere
  BY <1>1 DEF Ops, Pcs, HostPcs, Elsewhere
<1>6. Good(q) /\ q.op = "close" /\ q.conn = x /\ q.pc = pc /\ q.ticket = 0
  BY <1>1, <1>4, <1>5, BegunIs
<1>7. pc \notin {"say", "send"} /\ q.conn \in clients \cup {None}
  BY <1>3, <1>5, <1>6
<1>8. Begun(t) /\ task'[t] = q
  BY <1>1, <1>3, <1>6, <1>7, RequestBegins, <1>c
<1> QED
  BY <1>1, <1>6, <1>8

LEMMA ReleaseBegins ==
    ASSUME Base, NEW t \in Tasks, NEW x \in Conns, NEW c \in Cids, Release(t, x, c)
    PROVE  Begun(t) /\ task'[t].op = "release" /\ task'[t].pc \in {"release"}
<1>1. PICK pc \in {"release"} : pc = "release"
  OBVIOUS
<1>b. PICK b \in BOOLEAN : b = FALSE
  BY Zenon
<1>2. PICK q : q = [Idle EXCEPT !.op = "release", !.conn = x, !.at = c, !.pc = pc]
  OBVIOUS
<1>3. Request(t, q) /\ x \in clients
  BY <1>1, <1>2 DEF Release
<1>4. q = [op |-> "release", conn |-> x, strict |-> b, at |-> c, pc |-> pc,
           set |-> Idle.set, todo |-> {}, host |-> {}, out |-> {}, say |-> Idle.say,
           ticket |-> 0, then |-> "idle", orphan |-> FALSE]
  BY <1>2, <1>b DEF Idle
<1>5. /\ "release" \in Ops \ {"none"} /\ pc \in Pcs \ {"say", "send", "act", "take"} /\ pc \notin HostPcs
      /\ {} \in SUBSET Cids /\ x \in Conns \cup {None} /\ c \in Cids \cup {None}
      /\ b \in BOOLEAN
  BY <1>1 DEF Ops, Pcs, HostPcs
<1>6. Good(q) /\ q.op = "release" /\ q.conn = x /\ q.pc = pc /\ q.ticket = 0
  BY <1>1, <1>4, <1>5, BegunIs
<1>7. pc \notin {"say", "send"} /\ q.conn \in clients \cup {None}
  BY <1>3, <1>5, <1>6
<1>8. Begun(t) /\ task'[t] = q
  BY <1>1, <1>3, <1>6, <1>7, RequestBegins
<1> QED
  BY <1>1, <1>6, <1>8

LEMMA AttachBegins ==
    ASSUME Base, NEW t \in Tasks, NEW x \in Conns, NEW c \in Cids, Attach(t, x, c)
    PROVE  Begun(t) /\ task'[t].op = "attach" /\ task'[t].pc \in {"decide"}
<1>1. PICK pc \in {"decide"} : pc = "decide"
  OBVIOUS
<1>b. PICK b \in BOOLEAN : b = FALSE
  BY Zenon
<1>2. PICK q : q = [Idle EXCEPT !.op = "attach", !.conn = x, !.at = c, !.pc = pc]
  OBVIOUS
<1>3. Request(t, q) /\ x \in clients
  BY <1>1, <1>2 DEF Attach
<1>4. q = [op |-> "attach", conn |-> x, strict |-> b, at |-> c, pc |-> pc,
           set |-> Idle.set, todo |-> {}, host |-> {}, out |-> {}, say |-> Idle.say,
           ticket |-> 0, then |-> "idle", orphan |-> FALSE]
  BY <1>2, <1>b DEF Idle
<1>5. /\ "attach" \in Ops \ {"none"} /\ pc \in Pcs \ {"say", "send", "act", "take"} /\ pc \notin HostPcs
      /\ {} \in SUBSET Cids /\ x \in Conns \cup {None} /\ c \in Cids \cup {None}
      /\ b \in BOOLEAN
  BY <1>1 DEF Ops, Pcs, HostPcs
<1>6. Good(q) /\ q.op = "attach" /\ q.conn = x /\ q.pc = pc /\ q.ticket = 0
  BY <1>1, <1>4, <1>5, BegunIs
<1>7. pc \notin {"say", "send"} /\ q.conn \in clients \cup {None}
  BY <1>3, <1>5, <1>6
<1>8. Begun(t) /\ task'[t] = q
  BY <1>1, <1>3, <1>6, <1>7, RequestBegins
<1> QED
  BY <1>1, <1>6, <1>8

LEMMA ClaimBegins ==
    ASSUME Base, NEW t \in Tasks, NEW x \in Conns, NEW c \in Cids, NEW strict \in BOOLEAN, Claim(t, x, c, strict)
    PROVE  Begun(t) /\ task'[t].op = "claim" /\ task'[t].pc \in {"sdk"}
<1>1. PICK pc \in {"sdk"} : pc = "sdk"
  OBVIOUS
<1>2. PICK q : q = [Idle EXCEPT !.op = "claim", !.conn = x, !.at = c, !.strict = strict, !.pc = pc]
  OBVIOUS
<1>3. Request(t, q) /\ x \in clients
  BY <1>1, <1>2 DEF Claim
<1>4. q = [op |-> "claim", conn |-> x, strict |-> strict, at |-> c, pc |-> pc,
           set |-> Idle.set, todo |-> {}, host |-> {}, out |-> {}, say |-> Idle.say,
           ticket |-> 0, then |-> "idle", orphan |-> FALSE]
  BY <1>2 DEF Idle
<1>5. /\ "claim" \in Ops \ {"none"} /\ pc \in Pcs \ {"say", "send", "act", "take"} /\ pc \notin HostPcs
      /\ {} \in SUBSET Cids /\ x \in Conns \cup {None} /\ c \in Cids \cup {None}
      /\ strict \in BOOLEAN
  BY <1>1 DEF Ops, Pcs, HostPcs
<1>6. Good(q) /\ q.op = "claim" /\ q.conn = x /\ q.pc = pc /\ q.ticket = 0
  BY <1>1, <1>4, <1>5, BegunIs
<1>7. pc \notin {"say", "send"} /\ q.conn \in clients \cup {None}
  BY <1>3, <1>5, <1>6
<1>8. Begun(t) /\ task'[t] = q
  BY <1>1, <1>3, <1>6, <1>7, RequestBegins
<1> QED
  BY <1>1, <1>6, <1>8

LEMMA ConnectBegins ==
    ASSUME Base, NEW t \in Tasks, NEW x \in Conns, NEW c \in Cids, Connect(t, x, c)
    PROVE  Begun(t) /\ task'[t].op = "connect" /\ task'[t].pc \in {"tracked", "signin"}
<1>1. PICK pc \in {"tracked", "signin"} : pc = IF c \in Present THEN "tracked" ELSE "signin"
  OBVIOUS
<1>b. PICK b \in BOOLEAN : b = FALSE
  BY Zenon
<1>2. PICK q : q = [Idle EXCEPT !.op = "connect", !.conn = x, !.at = c, !.pc = pc]
  OBVIOUS
<1>3. Request(t, q) /\ x \in clients
  BY <1>1, <1>2 DEF Connect
<1>4. q = [op |-> "connect", conn |-> x, strict |-> b, at |-> c, pc |-> pc,
           set |-> Idle.set, todo |-> {}, host |-> {}, out |-> {}, say |-> Idle.say,
           ticket |-> 0, then |-> "idle", orphan |-> FALSE]
  BY <1>2, <1>b DEF Idle
<1>5. /\ "connect" \in Ops \ {"none"} /\ pc \in Pcs \ {"say", "send", "act", "take"} /\ pc \notin HostPcs
      /\ {} \in SUBSET Cids /\ x \in Conns \cup {None} /\ c \in Cids \cup {None}
      /\ b \in BOOLEAN
  BY <1>1 DEF Ops, Pcs, HostPcs
<1>6. Good(q) /\ q.op = "connect" /\ q.conn = x /\ q.pc = pc /\ q.ticket = 0
  BY <1>1, <1>4, <1>5, BegunIs
<1>7. pc \notin {"say", "send"} /\ q.conn \in clients \cup {None}
  BY <1>3, <1>5, <1>6
<1>8. Begun(t) /\ task'[t] = q
  BY <1>1, <1>3, <1>6, <1>7, RequestBegins
<1> QED
  BY <1>1, <1>6, <1>8

LEMMA LogoutBegins ==
    ASSUME Base, NEW t \in Tasks, NEW c \in Cids, Logout(t, c)
    PROVE  Begun(t) /\ task'[t].op = "logout" /\ task'[t].pc \in {"stopilm"}
<1>1. PICK pc \in {"stopilm"} : pc = "stopilm"
  OBVIOUS
<1>b. PICK b \in BOOLEAN : b = FALSE
  BY Zenon
<1>2. PICK q : q = [Idle EXCEPT !.op = "logout", !.at = c, !.pc = pc]
  OBVIOUS
<1>3. Request(t, q)
  BY <1>1, <1>2 DEF Logout
<1>4. q = [op |-> "logout", conn |-> None, strict |-> b, at |-> c, pc |-> pc,
           set |-> Idle.set, todo |-> {}, host |-> {}, out |-> {}, say |-> Idle.say,
           ticket |-> 0, then |-> "idle", orphan |-> FALSE]
  BY <1>2, <1>b DEF Idle
<1>5. /\ "logout" \in Ops \ {"none"} /\ pc \in Pcs \ {"say", "send", "act", "take"} /\ pc \notin HostPcs
      /\ {} \in SUBSET Cids /\ None \in Conns \cup {None} /\ c \in Cids \cup {None}
      /\ b \in BOOLEAN
  BY <1>1 DEF Ops, Pcs, HostPcs
<1>6. Good(q) /\ q.op = "logout" /\ q.conn = None /\ q.pc = pc /\ q.ticket = 0
  BY <1>1, <1>4, <1>5, BegunIs
<1>7. pc \notin {"say", "send"} /\ q.conn \in clients \cup {None}
  BY <1>3, <1>5, <1>6
<1>8. Begun(t) /\ task'[t] = q
  BY <1>1, <1>3, <1>6, <1>7, RequestBegins
<1> QED
  BY <1>1, <1>6, <1>8

LEMMA EndBegins ==
    ASSUME Base, NEW t \in Tasks, NEW c \in Cids, End(t, c)
    PROVE  Begun(t) /\ task'[t].op = "end" /\ task'[t].pc \in {"remove"}
<1>1. PICK pc \in {"remove"} : pc = "remove"
  OBVIOUS
<1>b. PICK b \in BOOLEAN : b = FALSE
  BY Zenon
<1>2. PICK q : q = [Idle EXCEPT !.op = "end", !.at = c, !.pc = pc]
  OBVIOUS
<1>3. Request(t, q)
  BY <1>1, <1>2 DEF End
<1>4. q = [op |-> "end", conn |-> None, strict |-> b, at |-> c, pc |-> pc,
           set |-> Idle.set, todo |-> {}, host |-> {}, out |-> {}, say |-> Idle.say,
           ticket |-> 0, then |-> "idle", orphan |-> FALSE]
  BY <1>2, <1>b DEF Idle
<1>5. /\ "end" \in Ops \ {"none"} /\ pc \in Pcs \ {"say", "send", "act", "take"} /\ pc \notin HostPcs
      /\ {} \in SUBSET Cids /\ None \in Conns \cup {None} /\ c \in Cids \cup {None}
      /\ b \in BOOLEAN
  BY <1>1 DEF Ops, Pcs, HostPcs
<1>6. Good(q) /\ q.op = "end" /\ q.conn = None /\ q.pc = pc /\ q.ticket = 0
  BY <1>1, <1>4, <1>5, BegunIs
<1>7. pc \notin {"say", "send"} /\ q.conn \in clients \cup {None}
  BY <1>3, <1>5, <1>6
<1>8. Begun(t) /\ task'[t] = q
  BY <1>1, <1>3, <1>6, <1>7, RequestBegins
<1> QED
  BY <1>1, <1>6, <1>8

LEMMA OrphanBegins ==
    ASSUME Base, NEW t \in Tasks, NEW x \in Conns, NEW which \in SUBSET Cids, DisconnectOrphan(t, x, which)
    PROVE  /\ Begun(t) /\ task'[t].op = "orphan" /\ task'[t].pc = "remove" /\ task'[t].conn = x
           /\ task'[t].at \in which /\ task'[t].todo = which \ {task'[t].at}
<1>1. PICK c \in which :
        Request(t, [Idle EXCEPT !.op = "orphan", !.conn = x, !.at = c, !.todo = which \ {c}, !.pc = "remove"])
  BY Zenon DEF DisconnectOrphan
<1>b. PICK b \in BOOLEAN : b = FALSE
  BY Zenon
<1>d. PICK rest \in SUBSET Cids : rest = which \ {c}
  OBVIOUS
<1>e. PICK pc \in {"remove"} : TRUE
  OBVIOUS
<1>2. PICK q : q = [Idle EXCEPT !.op = "orphan", !.conn = x, !.at = c, !.todo = rest, !.pc = pc]
  OBVIOUS
<1>3. Request(t, q) /\ x \in clients
  BY <1>1, <1>2, <1>d, <1>e DEF DisconnectOrphan
<1>4. q = [op |-> "orphan", conn |-> x, strict |-> b, at |-> c, pc |-> pc,
           set |-> Idle.set, todo |-> rest, host |-> {}, out |-> {}, say |-> Idle.say,
           ticket |-> 0, then |-> "idle", orphan |-> FALSE]
  BY <1>2, <1>b DEF Idle
<1>5. /\ "orphan" \in Ops \ {"none"} /\ pc \in Pcs \ {"say", "send", "act", "take"}
      /\ pc \notin HostPcs /\ x \in Conns \cup {None}
      /\ c \in Cids /\ c \in Cids \cup {None}
  BY <1>e DEF Ops, Pcs, HostPcs
<1>6. /\ Good(q) /\ q.op = "orphan" /\ q.conn = x /\ q.at = c /\ q.pc = pc /\ q.todo = rest
      /\ q.ticket = 0
  BY <1>4, <1>5, <1>e, BegunIs
<1>7. Begun(t) /\ task'[t] = q
  BY <1>3, <1>6, <1>e, RequestBegins
<1> QED
  BY <1>6, <1>7, <1>d, <1>e

-----------------------------------------------------------------------------
(* The sets: what an operation makes of one.                               *)

LEMMA LeftIs ==
    ASSUME NEW s, GoodSet(s), NEW x \in Conns, NEW remember \in BOOLEAN
    PROVE  GoodSet(Left(s, x, remember)) /\ Range(Left(s, x, remember).order) = Range(s.order) \ {x}
<1>1. s \in SetRec /\ s.order \in Seq(Conns) /\ s.last \in Conns \cup {None} /\ IsInjective(s.order)
  BY DEF GoodSet, SetRec
<1>2. Range(s.order) \subseteq Conns
  BY <1>1 DEF Range
<1>3. CASE ~Has(s, x)
  BY <1>3 DEF Left, Has
<1>4. CASE Has(s, x)
  <2>1. PICK rest : rest = Kept(s.order, Conns \ {x})
    OBVIOUS
  <2>2. rest \in Seq(Conns) /\ Range(rest) = Range(s.order) \cap (Conns \ {x}) /\ IsInjective(rest)
    BY <1>1, <2>1, KeptIs
  <2>3. PICK last : last = IF rest # <<>> THEN s.last ELSE IF remember THEN x ELSE None
    OBVIOUS
  <2>4. last \in Conns \cup {None}
    BY <1>1, <2>3
  <2>5. Left(s, x, remember) = [order |-> rest, last |-> last]
    BY <1>4, <2>1, <2>3 DEF Left
  <2> QED
    BY <1>2, <2>2, <2>4, <2>5 DEF GoodSet, SetRec
<1> QED
  BY <1>3, <1>4

LEMMA OneIs ==
    ASSUME NEW x \in Conns
    PROVE  <<x>> \in Seq(Conns) /\ IsInjective(<<x>>) /\ Range(<<x>>) = {x}
<1>1. <<x>> \in Seq(Conns) /\ DOMAIN <<x>> = 1..1 /\ <<x>>[1] = x
  OBVIOUS
<1>2. \A i \in 1..1 : i = 1
  OBVIOUS
<1>3. IsInjective(<<x>>)
  BY <1>1, <1>2 DEF IsInjective
<1>4. 1 \in 1..1
  OBVIOUS
<1>5. Range(<<x>>) = {x}
  BY <1>1, <1>2, <1>4 DEF Range
<1> QED
  BY <1>1, <1>3, <1>5

LEMMA TakenOverIs ==
    ASSUME NEW s, GoodSet(s), NEW x \in Conns
    PROVE  /\ GoodSet(TakenOver(s, x))
           /\ Range(TakenOver(s, x).order) = IF Has(s, x) THEN Range(s.order) ELSE {x}
           /\ Displaced(s, x) = Range(s.order) \ Range(TakenOver(s, x).order)
<1>1. s.order \in Seq(Conns) /\ IsInjective(s.order)
  BY DEF GoodSet, SetRec
<1>2. PICK order : order = IF Has(s, x) THEN s.order ELSE <<x>>
  OBVIOUS
<1>3. TakenOver(s, x) = [order |-> order, last |-> None]
  BY <1>2 DEF TakenOver
<1>4. order \in Seq(Conns) /\ IsInjective(order) /\ Range(order) = IF Has(s, x) THEN Range(s.order) ELSE {x}
  BY <1>1, <1>2, OneIs
<1>5. GoodSet(TakenOver(s, x))
  BY <1>3, <1>4 DEF GoodSet, SetRec
<1>6. Displaced(s, x) = Range(s.order) \ Range(order)
  BY <1>4 DEF Displaced, Has
<1> QED
  BY <1>3, <1>4, <1>5, <1>6

LEMMA AttachedIs ==
    ASSUME NEW s, GoodSet(s), NEW x \in Conns
    PROVE  GoodSet(Attached(s, x)) /\ Range(Attached(s, x).order) = Range(s.order) \cup {x}
<1>1. s.order \in Seq(Conns) /\ IsInjective(s.order)
  BY DEF GoodSet, SetRec
<1>2. CASE Has(s, x)
  BY <1>2 DEF Attached, Has
<1>3. CASE ~Has(s, x)
  <2>1. PICK n \in Nat : n = Len(s.order)
    BY <1>1
  <2>2. PICK order : order = Append(s.order, x)
    OBVIOUS
  <2>3. /\ order \in Seq(Conns) /\ DOMAIN order = 1..(n + 1) /\ DOMAIN s.order = 1..n
        /\ \A i \in 1..n : order[i] = s.order[i]
        /\ order[n + 1] = x
    BY <1>1, <2>1, <2>2
  <2>4. \A i \in 1..(n + 1) : i \in 1..n \/ i = n + 1
    OBVIOUS
  <2>5. \A i \in 1..n : s.order[i] # x
    BY <1>3, <2>3 DEF Has, Range
  <2>6. \A i, j \in 1..n : s.order[i] = s.order[j] => i = j
    BY <1>1, <2>3 DEF IsInjective
  <2>7. \A i, j \in 1..(n + 1) : order[i] = order[j] => i = j
    BY <2>3, <2>4, <2>5, <2>6
  <2>8. IsInjective(order)
    BY <2>3, <2>7 DEF IsInjective
  <2>9. n + 1 \in 1..(n + 1) /\ \A i \in 1..n : i \in 1..(n + 1)
    OBVIOUS
  <2>10. Range(order) = Range(s.order) \cup {x}
    <3>1. \A y \in Range(order) : y \in Range(s.order) \cup {x}
      BY <2>3, <2>4 DEF Range
    <3>2. \A y \in Range(s.order) : y \in Range(order)
      BY <2>3, <2>9 DEF Range
    <3>3. x \in Range(order)
      BY <2>3, <2>9 DEF Range
    <3> QED
      BY <3>1, <3>2, <3>3
  <2>11. Attached(s, x) = [order |-> order, last |-> None]
    BY <1>3, <2>2 DEF Attached
  <2> QED
    BY <2>3, <2>8, <2>10, <2>11 DEF GoodSet, SetRec
<1> QED
  BY <1>2, <1>3

\* One set changes, the others do not.
LEMMA SetsChange ==
    ASSUME SetsTyped, NEW c \in Cids, NEW l \in 1..MaxLives, NEW new, GoodSet(new),
           subs' = [subs EXCEPT ![c][l] = new]
    PROVE  /\ SetsTyped' /\ subs'[c][l] = new
           /\ \A d \in Cids, k \in 1..MaxLives : (d # c \/ k # l) => subs'[d][k] = subs[d][k]
<1>1. subs \in [Cids -> [1..MaxLives -> SetRec]] /\ new \in SetRec
  BY DEF SetsTyped, GoodSet
<1>2. subs' \in [Cids -> [1..MaxLives -> SetRec]] /\ subs'[c][l] = new
  BY <1>1
<1>3. \A d \in Cids, k \in 1..MaxLives : (d # c \/ k # l) => subs'[d][k] = subs[d][k]
  BY <1>1
<1>4. \A d \in Cids, k \in 1..MaxLives : GoodSet(subs'[d][k])
  BY <1>2, <1>3 DEF SetsTyped
<1> QED
  BY <1>2, <1>3, <1>4 DEF SetsTyped, GoodSet

\* Task t changes no set, or one, to which it adds at most its own window.
Redraws(t) ==
    \/ UNCHANGED subs
    \/ \E c \in Cids, l \in 1..MaxLives : \E new :
          /\ GoodSet(new) /\ subs' = [subs EXCEPT ![c][l] = new]
          /\ Range(new.order) \subseteq Range(subs[c][l].order) \cup {task[t].conn}

LEMMA EntersRedraws ==
    ASSUME Base, NEW t \in Tasks, NEW c \in Cids, NEW l \in 1..MaxLives, NEW new, GoodSet(new),
           Enters(t, c, l, new),
           Range(new.order) \subseteq Range(subs[c][l].order) \cup {task[t].conn}
    PROVE  Redraws(t)
BY DEF Enters, PutOut, Redraws

LEMMA TakeMoves ==
    ASSUME Base, NEW t \in Tasks, Take(t)
    PROVE  LET c == task[t].at
               l == task[t].set[c]
           IN  /\ Moves(t) /\ task[t].op = "connect" /\ task[t].pc = "take" /\ c \in Cids
               /\ l \in 1..MaxLives /\ task[t].conn \in Conns
               /\ task'[t] = Idle \/ Same(task'[t], task[t])
               /\ Enters(t, c, l, TakenOver(subs[c][l], task[t].conn))
               /\ Displaced(subs[c][l], task[t].conn) # {} =>
                     /\ task'[t].pc = "say" /\ task'[t].at = c
                     /\ task'[t].out = Displaced(subs[c][l], task[t].conn)
<1>1. PICK set : set = task[t].set
  OBVIOUS
<1>2. task[t] \in TaskRec /\ Placed(task[t]) /\ HoldsSets(task[t]) /\ set \in [Cids -> 0..MaxLives]
  BY <1>1, TaskIs
<1>3. task[t].pc = "take" /\ task[t].op = "connect" /\ task[t].at \in Cids /\ set[task[t].at] # 0
  BY <1>1, <1>2 DEF Take, At, Placed, HoldsSets, Elsewhere
<1>4. TakeOver(t, set, "host") /\ "host" \in {"host", "idle"}
  BY <1>1 DEF Take
<1> QED
  BY <1>1, <1>2, <1>3, <1>4, TakeOverMoves

LEMMA ResumeMoves ==
    ASSUME Base, NEW t \in Tasks, Resume(t)
    PROVE  LET c == task[t].at
               l == cur[c]
           IN  /\ Moves(t) /\ task[t].op = "connect" /\ task[t].pc = "resume" /\ c \in Cids
               /\ mapLock = None /\ (task'[t] = Idle \/ Same(task'[t], task[t]))
               /\ \/ UNCHANGED <<subs, door, owed>>
                  \/ /\ l \in 1..MaxLives /\ task[t].conn \in Conns
                     /\ Enters(t, c, l, TakenOver(subs[c][l], task[t].conn))
                     /\ Displaced(subs[c][l], task[t].conn) # {} =>
                           /\ task'[t].pc = "say" /\ task'[t].at = c
                           /\ task'[t].out = Displaced(subs[c][l], task[t].conn)
<1>1. task[t] \in TaskRec /\ Placed(task[t]) /\ cur \in [Cids -> 0..MaxLives]
  BY TaskIs DEF Base, Typed
<1>2. task[t].pc = "resume" /\ task[t].op = "connect" /\ task[t].at \in Cids /\ mapLock = None
  BY <1>1 DEF Resume, At, Placed, Elsewhere
<1>3. CASE Finish(t) /\ UNCHANGED <<subs, door, owed>>
  BY <1>2, <1>3, FinishMoves
<1>4. CASE task[t].at \in Present /\ TakeOver(t, cur, "idle")
  <2>1. cur[task[t].at] # 0 /\ "idle" \in {"host", "idle"}
    BY <1>4 DEF Present
  <2> QED
    BY <1>1, <1>2, <1>4, <2>1, TakeOverMoves
<1> QED
  BY <1>3, <1>4 DEF Resume

LEMMA LeaveRedraws ==
    ASSUME Base, NEW t \in Tasks, Leave(t)
    PROVE  \E c \in Cids, l \in 1..MaxLives : \E new :
              /\ GoodSet(new) /\ subs' = [subs EXCEPT ![c][l] = new]
              /\ Range(new.order) = Range(subs[c][l].order) \ {task[t].conn}
<1>1. PICK r : r = task[t]
  OBVIOUS
<1>2. r \in TaskRec /\ Placed(r) /\ HoldsSets(r) /\ r.todo \in SUBSET Cids /\ r.set \in [Cids -> 0..MaxLives]
  BY <1>1, TaskIs
<1>3. r.op = "close" /\ r.conn \in Conns /\ \A d \in r.todo : r.set[d] # 0
  BY <1>1, <1>2 DEF Leave, At, Placed, HoldsSets
<1>4. PICK c \in task[t].todo : subs' = [subs EXCEPT ![c][task[t].set[c]] = Left(SetOf(t, c), task[t].conn, TRUE)]
  BY Zenon DEF Leave
<1>5. PICK l : l = r.set[c]
  OBVIOUS
<1>6. c \in Cids /\ l \in 1..MaxLives
  BY <1>1, <1>2, <1>3, <1>4, <1>5, MembershipAssumption
<1>7. GoodSet(subs[c][l])
  BY <1>6, SetIs
<1>8. PICK new : new = Left(subs[c][l], r.conn, TRUE)
  OBVIOUS
<1>9. GoodSet(new) /\ Range(new.order) = Range(subs[c][l].order) \ {r.conn}
  BY <1>3, <1>7, <1>8, LeftIs
<1>10. subs' = [subs EXCEPT ![c][l] = new]
  BY <1>1, <1>4, <1>5, <1>8 DEF SetOf
<1> QED
  BY <1>1, <1>6, <1>9, <1>10

LEMMA ReleasedRedraws ==
    ASSUME Base, NEW t \in Tasks, Released(t)
    PROVE  Redraws(t)
<1>1. PICK r : r = task[t]
  OBVIOUS
<1>2. r \in TaskRec /\ Placed(r)
  BY <1>1, TaskIs
<1>3. r.op = "release" /\ r.conn \in Conns /\ r.at \in Cids
  BY <1>1, <1>2 DEF Released, At, Placed, Elsewhere
<1>4. CASE r.at \notin Present
  BY <1>1, <1>4 DEF Released, Redraws
<1>5. CASE r.at \in Present
  <2>1. PICK l : l = cur[r.at]
    OBVIOUS
  <2>2. l \in 1..MaxLives
    BY <1>3, <1>5, <2>1, MembershipAssumption DEF Base, Typed, Present
  <2>3. PICK new : new = Left(subs[r.at][l], r.conn, FALSE)
    OBVIOUS
  <2>4. GoodSet(new) /\ Range(new.order) = Range(subs[r.at][l].order) \ {r.conn}
    BY <1>3, <2>2, <2>3, SetIs, LeftIs
  <2>5. subs' = [subs EXCEPT ![r.at][l] = new]
    BY <1>1, <1>5, <2>1, <2>3 DEF Released, Here
  <2> QED
    BY <1>3, <2>2, <2>4, <2>5 DEF Redraws
<1> QED
  BY <1>4, <1>5

LEMMA ActAttachRedraws ==
    ASSUME Base, NEW t \in Tasks, ActAttach(t)
    PROVE  LET c == task[t].at
               l == task[t].set[c]
               new == IF task[t].orphan THEN TakenOver(subs[c][l], task[t].conn)
                      ELSE Attached(subs[c][l], task[t].conn)
           IN  Redraws(t) /\ GoodSet(new) /\ Enters(t, c, l, new)
<1>1. PICK c : c = task[t].at
  OBVIOUS
<1>2. PICK l : l = task[t].set[c]
  OBVIOUS
<1>3. c \in Cids /\ l \in 1..MaxLives /\ task[t].conn \in Conns
  BY <1>1, <1>2, ActAttachMoves
<1>4. PICK new : new = IF task[t].orphan THEN TakenOver(subs[c][l], task[t].conn)
                       ELSE Attached(subs[c][l], task[t].conn)
  OBVIOUS
<1>5. GoodSet(subs[c][l])
  BY <1>3, SetIs
<1>6. GoodSet(new) /\ Range(new.order) \subseteq Range(subs[c][l].order) \cup {task[t].conn}
  BY <1>3, <1>4, <1>5, TakenOverIs, AttachedIs
<1>7. Enters(t, c, l, new)
  BY <1>1, <1>2, <1>4 DEF ActAttach, SetOf
<1>8. Redraws(t)
  BY <1>3, <1>6, <1>7, EntersRedraws
<1> QED
  BY <1>1, <1>2, <1>4, <1>6, <1>7, <1>8

\* A set that is taken over.
LEMMA TakenRedraws ==
    ASSUME Base, NEW t \in Tasks, NEW c \in Cids, NEW l \in 1..MaxLives, task[t].conn \in Conns,
           Enters(t, c, l, TakenOver(subs[c][l], task[t].conn))
    PROVE  Redraws(t)
<1>1. PICK new : new = TakenOver(subs[c][l], task[t].conn)
  OBVIOUS
<1>2. GoodSet(new) /\ Range(new.order) \subseteq Range(subs[c][l].order) \cup {task[t].conn}
  BY <1>1, SetIs, TakenOverIs
<1> QED
  BY <1>1, <1>2, EntersRedraws

LEMMA SignInRedraws ==
    ASSUME Base, NEW t \in Tasks, SignIn(t)
    PROVE  Redraws(t)
<1>1. PICK c : c = task[t].at
  OBVIOUS
<1>2. c \in Cids /\ task[t].conn \in Conns
  BY <1>1, SignInMoves
<1>3. CASE UNCHANGED subs
  BY <1>3 DEF Redraws
<1>4. CASE ~UNCHANGED subs
  <2>1. born[c] < MaxLives /\ subs' = [subs EXCEPT ![c][born[c] + 1] = NewSet(task[t].conn)]
    BY <1>1, <1>4 DEF SignIn
  <2>2. PICK l : l = born[c] + 1
    OBVIOUS
  <2>3. l \in 1..MaxLives
    BY <1>2, <2>1, <2>2, MembershipAssumption DEF Base, Typed
  <2>4. PICK new : new = NewSet(task[t].conn)
    OBVIOUS
  <2>5. new = [order |-> <<task[t].conn>>, last |-> None]
    BY <2>4 DEF NewSet
  <2>6. GoodSet(new) /\ Range(new.order) = {task[t].conn}
    BY <1>2, <2>5, OneIs DEF GoodSet, SetRec
  <2> QED
    BY <1>2, <2>1, <2>2, <2>3, <2>4, <2>6 DEF Redraws
<1> QED
  BY <1>3, <1>4

LEMMA DisplaceRedraws ==
    ASSUME Base, NEW t \in Tasks, Displace(t)
    PROVE  LET c == task[t].at
               l == cur[c]
           IN  \/ UNCHANGED <<subs, owed>>
               \/ \E new : /\ GoodSet(new) /\ PutOut(c, l, new) /\ l \in 1..MaxLives /\ c \in Cids
                           /\ Range(new.order) = Range(subs[c][l].order) \cap declared
                           /\ task'[t].pc = "say" /\ task'[t].at = c
                           /\ task'[t].out = Range(subs[c][l].order) \ declared
<1>1. PICK c : c = task[t].at
  OBVIOUS
<1>2. PICK l : l = cur[c]
  OBVIOUS
<1>3. CASE UNCHANGED <<subs, owed>>
  BY <1>3
<1>4. CASE ~UNCHANGED <<subs, owed>>
  <2>1. /\ c \in Cids /\ l \in 1..MaxLives /\ c \in Present
        /\ task'[t].pc = "say" /\ task'[t].at = c /\ task'[t].out = Range(subs[c][l].order) \ declared
    BY <1>1, <1>2, <1>4, DisplaceMoves DEF Here
  <2>2. PICK last : last = IF Range(subs[c][l].order) = Range(subs[c][l].order) \ declared
                           THEN None ELSE subs[c][l].last
    OBVIOUS
  <2>3. PICK order : order = Kept(subs[c][l].order, declared)
    OBVIOUS
  <2>4. PICK new : new = [order |-> order, last |-> last]
    OBVIOUS
  <2>5. subs[c][l].order \in Seq(Conns) /\ IsInjective(subs[c][l].order) /\ subs[c][l].last \in Conns \cup {None}
    BY <2>1, SetIs
  <2>6. order \in Seq(Conns) /\ IsInjective(order) /\ Range(order) = Range(subs[c][l].order) \cap declared
    BY <2>3, <2>5, KeptIs
  <2>7. GoodSet(new) /\ new.order = order
    BY <2>2, <2>4, <2>5, <2>6 DEF GoodSet, SetRec
  <2>8. PutOut(c, l, new)
    BY <1>1, <1>2, <1>4, <2>2, <2>3, <2>4 DEF Displace, Here
  <2> QED
    BY <1>1, <1>2, <2>1, <2>6, <2>7, <2>8
<1> QED
  BY <1>3, <1>4

LEMMA StepsMove ==
    ASSUME Base, NEW t \in Tasks, Steps(t)
    PROVE  Moves(t)
BY SayMoves, SendMoves, ForgetMoves, LeaveMoves, ReleasedMoves, AskSdkMoves, DecideAttachMoves,
   DecideClaimMoves, ActAttachMoves, ActClaimMoves, ClaimedMoves, TrackedMoves, GetSetMoves, TakeMoves,
   ResumeMoves, SignInMoves, HostMoves, LoadedMoves, DisplaceMoves, SuperviseMoves, RemoveMoves,
   StopIlmMoves, StopSupervisorMoves DEF Steps

LEMMA StartsBegin ==
    ASSUME Base, NEW t \in Tasks, Starts(t)
    PROVE  Begun(t) /\ UNCHANGED <<subs, cur, door, owed>>
<1>1. Begun(t)
  BY DeclareBegins, CloseBegins, ReleaseBegins, AttachBegins, ClaimBegins, ConnectBegins, LogoutBegins,
     EndBegins, OrphanBegins DEF Starts
<1>2. UNCHANGED <<subs, cur, door, owed>>
  BY DEF Starts, Declare, Close, Release, Attach, Claim, Connect, Logout, End, DisconnectOrphan, history
<1> QED
  BY <1>1, <1>2

LEMMA StepsRedraw ==
    ASSUME Base, NEW t \in Tasks, Steps(t)
    PROVE  Redraws(t)
<1>1. ASSUME Leave(t) PROVE Redraws(t)
  BY <1>1, LeaveRedraws DEF Redraws
<1>2. ASSUME ActClaim(t) PROVE Redraws(t)
  <2>1. PICK c \in task[t].todo :
          /\ c \in Cids /\ task[t].set[c] \in 1..MaxLives
          /\ Enters(t, c, task[t].set[c], TakenOver(SetOf(t, c), task[t].conn))
    BY <1>2, ActClaimMoves
  <2> QED
    BY <1>2, <2>1, ActClaimMoves, TakenRedraws DEF SetOf
<1>3. ASSUME Take(t) PROVE Redraws(t)
  BY <1>3, TakeMoves, TakenRedraws
<1>4. ASSUME Resume(t) PROVE Redraws(t)
  BY <1>4, ResumeMoves, TakenRedraws DEF Redraws
<1>5. ASSUME Displace(t) PROVE Redraws(t)
  BY <1>5, DisplaceRedraws DEF Redraws, PutOut
<1>6. CASE UNCHANGED subs
  BY <1>6 DEF Redraws
<1>7. ASSUME Say(t) \/ Send(t) \/ Forget(t) \/ AskSdk(t) \/ DecideAttach(t) \/ DecideClaim(t) \/ Claimed(t)
      PROVE  UNCHANGED subs
  BY <1>7 DEF Say, Send, Forget, AskSdk, DecideAttach, DecideClaim, Claimed
<1>8. ASSUME Tracked(t) \/ GetSet(t) \/ Host(t) \/ Loaded(t) \/ Supervise(t) \/ RemoveSession(t)
             \/ StopIlm(t) \/ StopSupervisor(t)
      PROVE  UNCHANGED subs
  BY <1>8 DEF Tracked, GetSet, Host, Loaded, Supervise, RemoveSession, StopIlm, StopSupervisor
<1> QED
  BY <1>1, <1>2, <1>3, <1>4, <1>5, <1>6, <1>7, <1>8, ReleasedRedraws, ActAttachRedraws, SignInRedraws DEF Steps

\* What a task enters by keeps its type.
LEMMA EntersTyped ==
    ASSUME Base, NEW t \in Tasks, NEW c \in Cids, NEW l, NEW new, Enters(t, c, l, new)
    PROVE  owed' \subseteq Conns \X Cids /\ (task[t].op \in Doors => door' \in [Conns -> [Cids -> Doors]])
<1>1. clients \subseteq Conns /\ owed \subseteq Conns \X Cids /\ door \in [Conns -> [Cids -> Doors]]
  BY DEF Base, Typed
<1>2. PICK out : out = (Range(subs[c][l].order) \ Range(new.order)) \cap clients
  OBVIOUS
<1>3. owed' = owed \cup (out \X {c})
  BY <1>2 DEF Enters, PutOut
<1>4. owed' \subseteq Conns \X Cids
  BY <1>1, <1>2, <1>3
<1>5. ASSUME task[t].op \in Doors PROVE door' \in [Conns -> [Cids -> Doors]]
  <2>0. Has(subs[c][l], task[t].conn) \in BOOLEAN
    BY DEF Has
  <2>1. PICK b \in BOOLEAN : b = Has(subs[c][l], task[t].conn)
    BY <2>0, Zenon
  <2>2. door' = [door EXCEPT ![task[t].conn][c] = IF b THEN @ ELSE task[t].op]
    BY <2>1 DEF Enters
  <2> QED
    BY <1>1, <1>5, <2>2
<1> QED
  BY <1>4, <1>5

LEMMA TypedStarts ==
    ASSUME Base, NEW t \in Tasks, Starts(t)
    PROVE  Typed'
<1> USE DEF Base, Typed
<1>1. ASSUME NEW x \in Conns, NEW q, Request(t, q) PROVE requests' \in 0..MaxRequests
  BY <1>1, MembershipAssumption DEF Request
<1>2. ASSUME NEW x \in Conns, Declare(t, x) PROVE Typed'
  <2>1. PICK q : Request(t, q)
    BY <1>2 DEF Declare
  <2> QED
    BY <1>1, <1>2, <2>1 DEF Declare, history
<1>3. ASSUME NEW x \in Conns, Close(t, x) PROVE Typed'
  <2>1. PICK q : Request(t, q)
    BY <1>3 DEF Close
  <2> QED
    BY <1>1, <1>3, <2>1 DEF Close, history
<1>4. ASSUME NEW x \in Conns, NEW c \in Cids, Attach(t, x, c) \/ Connect(t, x, c) \/ Release(t, x, c) PROVE Typed'
  <2>1. PICK q : Request(t, q)
    BY <1>4 DEF Attach, Connect, Release
  <2> QED
    BY <1>1, <1>4, <2>1 DEF Attach, Connect, Release, history
<1>5. ASSUME NEW x \in Conns, NEW c \in Cids, NEW strict \in BOOLEAN, Claim(t, x, c, strict) PROVE Typed'
  <2>1. PICK q : Request(t, q)
    BY <1>5 DEF Claim
  <2> QED
    BY <1>1, <1>5, <2>1 DEF Claim, history
<1>6. ASSUME NEW x \in Conns, NEW which \in SUBSET Cids, DisconnectOrphan(t, x, which) PROVE Typed'
  <2>1. PICK q : Request(t, q)
    BY <1>6 DEF DisconnectOrphan
  <2> QED
    BY <1>1, <1>6, <2>1 DEF DisconnectOrphan, history
<1>7. ASSUME NEW c \in Cids, Logout(t, c) \/ End(t, c) PROVE Typed'
  <2>1. PICK q : Request(t, q)
    BY <1>7 DEF Logout, End
  <2>2. requests' \in 0..MaxRequests
    BY <2>1, MembershipAssumption DEF Request
  <2> QED
    BY <1>7, <2>2 DEF Logout, End, history
<1> QED
  BY <1>2, <1>3, <1>4, <1>5, <1>6, <1>7 DEF Starts

LEMMA TypedSend ==
    ASSUME Base, NEW t \in Tasks, Send(t)
    PROVE  Typed'
<1>1. PICK r : r = task[t]
  OBVIOUS
<1>2. r.say \in [Conns -> Roles]
  BY <1>1, TaskIs
<1>3. PICK to : to = {x \in clients : r.say[x] # "none"}
  OBVIOUS
<1>4. told' = [x \in Conns |-> IF x \in to THEN [told[x] EXCEPT ![r.at] = r.say[x]] ELSE told[x]]
  BY <1>1, <1>3 DEF Send
<1>5. told \in [Conns -> [Cids -> Roles]]
  BY DEF Base, Typed
<1>6. told' \in [Conns -> [Cids -> Roles]]
  BY <1>2, <1>4, <1>5
<1>7. owed' \subseteq owed
  BY DEF Send
<1>8. UNCHANGED <<clients, fresh, declared, cur, born, supervised, mapLock, requests, door, unhosted>>
  BY DEF Send
<1> QED
  BY <1>6, <1>7, <1>8 DEF Base, Typed

LEMMA TypedSignIn ==
    ASSUME Base, NEW t \in Tasks, SignIn(t)
    PROVE  Typed'
<1>1. PICK c : c = task[t].at
  OBVIOUS
<1>2. c \in Cids /\ task[t].conn \in Conns /\ task[t].op = "connect"
  BY <1>1, SignInMoves
<1>3. UNCHANGED <<clients, fresh, declared, supervised, mapLock, told, requests, owed>>
  BY DEF SignIn
<1>4. unhosted' \subseteq Cids
  BY <1>1, <1>2 DEF SignIn, Base, Typed
<1>5. CASE UNCHANGED <<cur, born, door>>
  BY <1>3, <1>4, <1>5 DEF Base, Typed
<1>6. CASE ~UNCHANGED <<cur, born, door>>
  <2>1. /\ born[c] < MaxLives /\ born' = [born EXCEPT ![c] = @ + 1] /\ cur' = [cur EXCEPT ![c] = born[c] + 1]
        /\ door' = [door EXCEPT ![task[t].conn][c] = task[t].op]
    BY <1>1, <1>6 DEF SignIn
  <2>2. born[c] + 1 \in 0..MaxLives
    BY <1>2, <2>1, MembershipAssumption DEF Base, Typed
  <2>3. born' \in [Cids -> 0..MaxLives] /\ cur' \in [Cids -> 0..MaxLives]
    BY <2>1, <2>2 DEF Base, Typed
  <2>4. door' \in [Conns -> [Cids -> Doors]]
    BY <1>2, <2>1 DEF Base, Typed, Doors
  <2> QED
    BY <1>3, <1>4, <2>3, <2>4 DEF Base, Typed
<1> QED
  BY <1>5, <1>6

LEMMA TypedSteps ==
    ASSUME Base, NEW t \in Tasks, Steps(t)
    PROVE  Typed'
<1>1. ASSUME Say(t) \/ Leave(t) \/ Released(t) \/ AskSdk(t) \/ Tracked(t) \/ GetSet(t) \/ Host(t)
      PROVE  Typed'
  BY <1>1 DEF Say, Leave, Released, AskSdk, Tracked, GetSet, Host, Base, Typed, history
<1>2. ASSUME Forget(t) PROVE Typed'
  BY <1>2 DEF Forget, Base, Typed, history
<1>3. ASSUME DecideAttach(t) \/ DecideClaim(t) \/ Claimed(t) PROVE Typed'
  <2>1. mapLock' \in Tasks \cup {None}
    BY <1>3 DEF DecideAttach, DecideClaim, Claimed, Base, Typed
  <2> QED
    BY <1>3, <2>1 DEF DecideAttach, DecideClaim, Claimed, Base, Typed, history
<1>4. ASSUME ActAttach(t) PROVE Typed'
  <2>1. owed' \subseteq Conns \X Cids /\ door' \in [Conns -> [Cids -> Doors]]
    BY <1>4, ActAttachMoves, ActAttachRedraws, EntersTyped DEF Doors
  <2> QED
    BY <1>4, <2>1 DEF ActAttach, Base, Typed
<1>5. ASSUME ActClaim(t) PROVE Typed'
  <2>1. PICK c \in task[t].todo :
          c \in Cids /\ Enters(t, c, task[t].set[c], TakenOver(SetOf(t, c), task[t].conn))
    BY <1>5, ActClaimMoves
  <2>2. task[t].op \in Doors
    BY <1>5, ActClaimMoves DEF Doors
  <2>3. owed' \subseteq Conns \X Cids /\ door' \in [Conns -> [Cids -> Doors]]
    BY <2>1, <2>2, EntersTyped
  <2> QED
    BY <1>5, <2>3 DEF ActClaim, Base, Typed
<1>6. ASSUME Take(t) PROVE Typed'
  <2>1. task[t].op \in Doors /\ task[t].at \in Cids
    BY <1>6, TakeMoves DEF Doors
  <2>2. owed' \subseteq Conns \X Cids /\ door' \in [Conns -> [Cids -> Doors]]
    BY <1>6, <2>1, TakeMoves, EntersTyped
  <2> QED
    BY <1>6, <2>2 DEF Take, Base, Typed
<1>7. ASSUME Resume(t) PROVE Typed'
  <2>1. task[t].op \in Doors /\ task[t].at \in Cids
    BY <1>7, ResumeMoves DEF Doors
  <2>2. owed' \subseteq Conns \X Cids /\ door' \in [Conns -> [Cids -> Doors]]
    <3>1. CASE UNCHANGED <<subs, door, owed>>
      BY <3>1 DEF Base, Typed
    <3> QED
      BY <1>7, <2>1, <3>1, ResumeMoves, EntersTyped
  <2> QED
    BY <1>7, <2>2 DEF Resume, Base, Typed
<1>8. ASSUME Loaded(t) PROVE Typed'
  <2>1. task[t].at \in Cids
    BY <1>8, TaskIs DEF Loaded, At, Placed, Elsewhere
  <2>2. PICK c : c = task[t].at
    OBVIOUS
  <2>3. unhosted' \subseteq Cids
    <3>1. unhosted' = unhosted \ {[task[t] EXCEPT !.ticket = 0].at} \/ unhosted' = unhosted \cup {[task[t] EXCEPT !.ticket = 0].at}
      BY <1>8 DEF Loaded
    <3>2. [task[t] EXCEPT !.ticket = 0].at = c
      BY <2>2, TaskIs DEF TaskRec
    <3> QED
      BY <2>1, <2>2, <3>1, <3>2 DEF Base, Typed
  <2> QED
    BY <1>8, <2>3 DEF Loaded, Base, Typed
<1>9. ASSUME Displace(t) PROVE Typed'
  <2>1. owed' \subseteq Conns \X Cids
    <3>1. CASE UNCHANGED <<subs, owed>>
      BY <3>1 DEF Base, Typed
    <3>2. ASSUME NEW c \in Cids, NEW l, NEW new, PutOut(c, l, new) PROVE owed' \subseteq Conns \X Cids
      <4>1. PICK out : out = (Range(subs[c][l].order) \ Range(new.order)) \cap clients
        OBVIOUS
      <4>2. owed' = owed \cup (out \X {c}) /\ out \subseteq Conns
        BY <3>2, <4>1 DEF PutOut, Base, Typed
      <4> QED
        BY <4>2 DEF Base, Typed
    <3> QED
      BY <1>9, <3>1, <3>2, DisplaceRedraws
  <2> QED
    BY <1>9, <2>1 DEF Displace, Base, Typed
<1>10. ASSUME Supervise(t) PROVE Typed'
  BY <1>10, SuperviseMoves DEF Supervise, Base, Typed, history
<1>11. ASSUME RemoveSession(t) PROVE Typed'
  <2>0. cur' = [cur EXCEPT ![task[t].at] = 0] /\ 0 \in 0..MaxLives
    BY <1>11, MembershipAssumption DEF RemoveSession
  <2>1. cur' \in [Cids -> 0..MaxLives]
    BY <2>0 DEF Base, Typed
  <2> QED
    BY <1>11, <2>1 DEF RemoveSession, Base, Typed, history
<1>12. ASSUME StopIlm(t) PROVE Typed'
  BY <1>12 DEF StopIlm, Base, Typed
<1>13. ASSUME StopSupervisor(t) PROVE Typed'
  <2>1. mapLock' \in Tasks \cup {None}
    BY <1>13, StopSupervisorMoves DEF Base, Typed
  <2> QED
    BY <1>13, <2>1 DEF StopSupervisor, Base, Typed, history
<1> QED
  BY <1>1, <1>2, <1>3, <1>4, <1>5, <1>6, <1>7, <1>8, <1>9, <1>10, <1>11, <1>12, <1>13,
     TypedSend, TypedSignIn DEF Steps

\* Tickets only grow.
LEMMA TicketsGrow ==
    ASSUME SlotInv, Next
    PROVE  tickets \in Nat /\ tickets' \in Nat /\ tickets <= tickets'
<1>1. tickets \in Nat
  BY DEF SlotInv, SlotsTyped
<1>2. ASSUME NEW t \in Tasks, Host(t) PROVE tickets' = tickets \/ tickets' = tickets + 1
  BY <1>2 DEF Host
<1>3. ASSUME NEW t \in Tasks, Loaded(t) \/ StopIlm(t) PROVE tickets' = tickets
  BY <1>3 DEF Loaded, StopIlm
<1>4. tickets' = tickets \/ tickets' = tickets + 1
  BY <1>2, <1>3, OnlyThreeSteps DEF slots
<1> QED
  BY <1>1, <1>4

LEMMA BaseKeeps ==
    ASSUME Base, Next
    PROVE  Base'
<1>1. SlotInv'
  BY SlotInvNext DEF Base
<1>2. tickets \in Nat /\ tickets' \in Nat /\ tickets <= tickets'
  BY TicketsGrow DEF Base
<1>3. ASSUME NEW t \in Tasks, NEW q, Move(t, q), Good(q), q.ticket \in {0, task[t].ticket, tickets'}
      PROVE  TasksGood' /\ TicketsHeld'
  <2>1. q \in TaskRec /\ task' = [task EXCEPT ![t] = q] /\ task \in [Tasks -> TaskRec]
    BY <1>3 DEF Good, Move, Base, TasksGood
  <2>2. task' \in [Tasks -> TaskRec] /\ task'[t] = q /\ \A u \in Tasks \ {t} : task'[u] = task[u]
    BY <2>1
  <2>3. \A u \in Tasks : Good(task'[u])
    BY <1>3, <2>2 DEF Base, TasksGood
  <2>4. TasksGood'
    BY <2>2, <2>3 DEF TasksGood, Good, Placed, Continues, HoldsSets, Saying
  <2>5. ASSUME NEW u \in Tasks PROVE task'[u].ticket <= tickets'
    <3>1. task[u].ticket \in Nat /\ task[u].ticket <= tickets /\ task[t].ticket \in Nat /\ task[t].ticket <= tickets
      BY <2>1, TaskFields DEF Base, TicketsHeld
    <3> QED
      BY <1>2, <1>3, <2>2, <3>1
  <2> QED
    BY <2>4, <2>5 DEF TicketsHeld
<1>4. ASSUME NEW t \in Tasks, Redraws(t) PROVE SetsTyped'
  <2>1. SetsTyped
    BY DEF Base
  <2>2. CASE UNCHANGED subs
    BY <2>1, <2>2 DEF SetsTyped, GoodSet
  <2>3. ASSUME NEW c \in Cids, NEW l \in 1..MaxLives, NEW new, GoodSet(new), subs' = [subs EXCEPT ![c][l] = new]
        PROVE  SetsTyped'
    BY <2>1, <2>3, SetsChange
  <2> QED
    BY <1>4, <2>2, <2>3 DEF Redraws
<1>5. ASSUME NEW t \in Tasks, Steps(t) PROVE Base'
  <2>1. PICK q : Move(t, q) /\ Follows(q, task[t]) /\ q.ticket \in {0, task[t].ticket, tickets'}
    BY <1>5, StepsMove DEF Moves
  <2>2. TasksGood' /\ TicketsHeld'
    BY <1>3, <2>1 DEF Follows
  <2>3. SetsTyped' /\ Typed'
    BY <1>4, <1>5, StepsRedraw, TypedSteps
  <2> QED
    BY <1>1, <2>2, <2>3 DEF Base
<1>6. ASSUME NEW t \in Tasks, Starts(t) PROVE Base'
  <2>1. PICK q : Move(t, q) /\ Good(q) /\ q.ticket = 0
    BY <1>6, StartsBegin DEF Begun
  <2>2. TasksGood' /\ TicketsHeld'
    BY <1>3, <2>1
  <2>3. UNCHANGED subs
    BY <1>6, StartsBegin
  <2>4. SetsTyped' /\ Typed'
    BY <1>4, <1>6, <2>3, TypedStarts DEF Redraws
  <2> QED
    BY <1>1, <2>2, <2>4 DEF Base
<1>7. ASSUME NEW x \in Conns, Open(x) PROVE Base'
  <2>1. UNCHANGED <<declared, cur, born, subs, supervised, mapLock, task, told, requests, door, owed, unhosted, tickets>>
    BY <1>7 DEF Open, history
  <2>2. Typed'
    BY <1>7, <2>1 DEF Open, Base, Typed
  <2>3. SetsTyped' /\ TasksGood' /\ TicketsHeld'
    BY <2>1 DEF Base, SetsTyped, GoodSet, TasksGood, Good, Placed, Continues, HoldsSets, Saying, TicketsHeld
  <2> QED
    BY <1>1, <2>2, <2>3 DEF Base
<1>8. ASSUME Rest PROVE Base'
  <2>1. Typed'
    BY <1>8 DEF Rest, vars, agent, history, Base, Typed
  <2>2. SetsTyped' /\ TasksGood' /\ TicketsHeld'
    BY <1>8 DEF Rest, vars, agent, Base, SetsTyped, GoodSet, TasksGood, Good, Placed, Continues, HoldsSets, Saying, TicketsHeld
  <2> QED
    BY <1>1, <2>1, <2>2 DEF Base
<1> QED
  BY <1>5, <1>6, <1>7, <1>8 DEF Next

LEMMA BaseInit == Init => Base
<1> SUFFICES ASSUME Init PROVE Base OBVIOUS
<1>1. SlotInv
  BY SlotInvInit
<1>2. 0 \in 0..MaxLives /\ 0 \in 0..MaxRequests /\ "none" \in Roles /\ "none" \in Doors
  BY MembershipAssumption DEF Roles, Doors
<1>3. Typed
  BY <1>2 DEF Init, Typed
<1>4. EmptySet \in SetRec /\ EmptySet.order = <<>>
  BY DEF EmptySet, SetRec
<1>5. DOMAIN <<>> = {}
  OBVIOUS
<1>6. GoodSet(EmptySet)
  BY <1>4, <1>5 DEF GoodSet, IsInjective
<1>7. SetsTyped
  BY <1>4, <1>6 DEF Init, SetsTyped
<1>8. TasksGood
  BY IdleGood DEF Init, TasksGood, Good
<1>9. TicketsHeld
  BY IdleGood DEF Init, TicketsHeld
<1> QED
  BY <1>1, <1>3, <1>7, <1>8, <1>9 DEF Base

LEMMA BaseTypeOK == Base => TypeOK
<1> SUFFICES ASSUME Base PROVE TypeOK OBVIOUS
<1>1. Typed /\ SlotInv
  BY DEF Base
<1>2. ASSUME NEW c \in Cids, NEW l \in 1..MaxLives
      PROVE  /\ IsInjective(subs[c][l].order) /\ Range(subs[c][l].order) \subseteq Conns
             /\ subs[c][l].last \in Conns \cup {None}
  BY SetIs
<1>3. tickets \in Nat
  BY <1>1 DEF SlotInv, SlotsTyped
<1>4. slot \in [Cids -> [state : {"none", "starting", "running"}, ticket : 0..tickets]]
  <2>1. slot \in [Cids -> [state : Phases, ticket : Nat]] /\ \A c \in Cids : slot[c].ticket <= tickets
    BY <1>1 DEF SlotInv, SlotsTyped, TicketsIssued
  <2>2. \A c \in Cids : slot[c].ticket \in 0..tickets /\ slot[c] \in [state : Phases, ticket : Nat]
    BY <1>3, <2>1
  <2>3. \A c \in Cids : slot[c] \in [state : Phases, ticket : 0..tickets]
    BY <2>2
  <2> QED
    BY <2>1, <2>3 DEF Phases
<1>5. ASSUME NEW t \in Tasks
      PROVE  /\ task[t].op \in Ops /\ task[t].pc \in Pcs /\ task[t].then \in Pcs
             /\ task[t].conn \in Conns \cup {None} /\ task[t].at \in Cids \cup {None}
             /\ task[t].ticket \in 0..tickets
  <2>1. task[t].ticket \in Nat /\ task[t].ticket <= tickets
    BY TaskIs DEF Base, TicketsHeld
  <2> QED
    BY <1>3, <2>1, TaskIs
<1>6. stopped \subseteq 0..tickets
  BY <1>1, <1>3 DEF SlotInv, StoppedIssued
<1> QED
  BY <1>1, <1>2, <1>3, <1>4, <1>5, <1>6 DEF Typed, TypeOK

LEMMA BaseStutters == Base /\ UNCHANGED vars => Base'
<1> SUFFICES ASSUME Base, UNCHANGED vars PROVE Base' OBVIOUS
<1>1. SlotInv'
  BY SlotInvNext DEF Base
<1>2. Typed'
  BY DEF vars, agent, history, Base, Typed
<1>3. SetsTyped' /\ TasksGood' /\ TicketsHeld'
  BY DEF vars, agent, Base, SetsTyped, GoodSet, TasksGood, Good, Placed, Continues, HoldsSets, Saying, TicketsHeld
<1> QED
  BY <1>1, <1>2, <1>3 DEF Base

\* Every member set is an ordered set of connections, without a connection twice,
\* and every task is somewhere in its request (session_subscribers.rs).
THEOREM TypeCorrect == Spec => []TypeOK
<1>1. Base /\ [Next]_vars => Base'
  BY BaseKeeps, BaseStutters
<1> QED
  BY BaseInit, <1>1, BaseTypeOK, PTL DEF Spec

-----------------------------------------------------------------------------
(* A connection comes once.                                                *)

ComesOnce ==
    /\ clients \cap fresh = {}
    /\ \A t \in Tasks : task[t].conn \notin fresh
    /\ \A t \in Tasks : task[t].op = "close" => task[t].conn \notin clients
    /\ \A c \in Cids, l \in 1..MaxLives : Range(subs[c][l].order) \cap fresh = {}
    /\ \A p \in owed : p[1] \notin fresh

\* Who comes and goes: only Open lets one in, only Close lets one out.
LEMMA Comers ==
    ASSUME Base, NEW t \in Tasks, Starts(t) \/ Steps(t)
    PROVE  fresh' = fresh /\ clients' \subseteq clients
<1>1. ASSUME Starts(t) PROVE fresh' = fresh /\ clients' \subseteq clients
  BY <1>1 DEF Starts, Declare, Close, Release, Attach, Claim, Connect, Logout, End, DisconnectOrphan
<1>2. ASSUME Say(t) \/ Send(t) \/ Forget(t) \/ Leave(t) \/ Released(t) \/ AskSdk(t) \/ DecideAttach(t)
             \/ DecideClaim(t) \/ ActAttach(t) \/ ActClaim(t) \/ Claimed(t)
      PROVE  fresh' = fresh /\ clients' = clients
  BY <1>2 DEF Say, Send, Forget, Leave, Released, AskSdk, DecideAttach, DecideClaim, ActAttach, ActClaim, Claimed
<1>3. ASSUME Tracked(t) \/ GetSet(t) \/ Take(t) \/ Resume(t) \/ SignIn(t) \/ Host(t) \/ Loaded(t)
             \/ Displace(t) \/ Supervise(t) \/ RemoveSession(t) \/ StopIlm(t) \/ StopSupervisor(t)
      PROVE  fresh' = fresh /\ clients' = clients
  BY <1>3 DEF Tracked, GetSet, Take, Resume, SignIn, Host, Loaded, Displace, Supervise, RemoveSession,
              StopIlm, StopSupervisor
<1> QED
  BY <1>1, <1>2, <1>3 DEF Steps

\* Task r is about to tell p[1] that it was put out of account p[2]'s session.
Tells(r, p) ==
    /\ r.at = p[2]
    /\ (r.pc = "say" /\ p[1] \in r.out) \/ (r.pc = "send" /\ r.say[p[1]] = "detached")

OwedAreTold == \A p \in owed : p[1] \in clients => \E t \in Tasks : Tells(task[t], p)

\* Who puts a window out is about to say so.
NewlyOwed(t) == \A p \in owed' \ owed : p[1] \in clients /\ Tells(task'[t], p)

LEMMA PutOutOwed ==
    ASSUME Base, NEW t \in Tasks, NEW c \in Cids, NEW l, NEW new, PutOut(c, l, new),
           Range(subs[c][l].order) \ Range(new.order) # {} =>
              /\ task'[t].pc = "say" /\ task'[t].at = c
              /\ Range(subs[c][l].order) \ Range(new.order) \subseteq task'[t].out
    PROVE  NewlyOwed(t)
<1>1. PICK all : all = Range(subs[c][l].order) \ Range(new.order)
  OBVIOUS
<1>2. owed' = owed \cup ((all \cap clients) \X {c})
  BY <1>1 DEF PutOut
<1>3. ASSUME NEW p \in owed' \ owed PROVE p[1] \in clients /\ Tells(task'[t], p)
  <2>1. p[1] \in all /\ p[1] \in clients /\ p[2] = c
    BY <1>2
  <2> QED
    BY <1>1, <2>1 DEF Tells
<1> QED
  BY <1>3 DEF NewlyOwed

LEMMA TakenOwed ==
    ASSUME Base, NEW t \in Tasks, NEW c \in Cids, NEW l \in 1..MaxLives, task[t].conn \in Conns,
           Enters(t, c, l, TakenOver(subs[c][l], task[t].conn)),
           Displaced(subs[c][l], task[t].conn) # {} =>
              /\ task'[t].pc = "say" /\ task'[t].at = c
              /\ task'[t].out = Displaced(subs[c][l], task[t].conn)
    PROVE  NewlyOwed(t)
<1>1. PICK new : new = TakenOver(subs[c][l], task[t].conn)
  OBVIOUS
<1>2. PutOut(c, l, new)
  BY <1>1 DEF Enters
<1>3. Displaced(subs[c][l], task[t].conn) = Range(subs[c][l].order) \ Range(new.order)
  BY <1>1, SetIs, TakenOverIs
<1> QED
  BY <1>2, <1>3, PutOutOwed

LEMMA StepsOwe ==
    ASSUME Base, NEW t \in Tasks, Steps(t)
    PROVE  NewlyOwed(t)
<1>1. ASSUME ActAttach(t) PROVE NewlyOwed(t)
  <2>1. PICK c : c = task[t].at
    OBVIOUS
  <2>2. PICK l : l = task[t].set[c]
    OBVIOUS
  <2>3. c \in Cids /\ l \in 1..MaxLives /\ task[t].conn \in Conns /\ task[t].orphan \in BOOLEAN
    BY <1>1, <2>1, <2>2, ActAttachMoves, TaskIs
  <2>4. CASE task[t].orphan
    <3>1. Enters(t, c, l, TakenOver(subs[c][l], task[t].conn))
      BY <1>1, <2>1, <2>2, <2>4, ActAttachRedraws
    <3>2. Displaced(subs[c][l], task[t].conn) # {} =>
              /\ task'[t].pc = "say" /\ task'[t].at = c
              /\ task'[t].out = Displaced(subs[c][l], task[t].conn)
      BY <1>1, <2>1, <2>2, <2>4, ActAttachMoves DEF SetOf
    <3> QED
      BY <2>3, <3>1, <3>2, TakenOwed
  <2>5. CASE ~task[t].orphan
    <3>1. PICK new : new = Attached(subs[c][l], task[t].conn)
      OBVIOUS
    <3>2. Enters(t, c, l, new)
      BY <1>1, <2>1, <2>2, <2>5, <3>1, ActAttachRedraws
    <3>3. Range(new.order) = Range(subs[c][l].order) \cup {task[t].conn}
      BY <2>3, <3>1, SetIs, AttachedIs
    <3>4. PutOut(c, l, new) /\ Range(subs[c][l].order) \ Range(new.order) = {}
      BY <3>2, <3>3 DEF Enters
    <3> QED
      BY <2>3, <3>4, PutOutOwed
  <2> QED
    BY <2>3, <2>4, <2>5
<1>2. ASSUME ActClaim(t) PROVE NewlyOwed(t)
  <2>1. PICK c \in task[t].todo :
          /\ c \in Cids /\ task[t].set[c] \in 1..MaxLives
          /\ Enters(t, c, task[t].set[c], TakenOver(SetOf(t, c), task[t].conn))
          /\ Displaced(SetOf(t, c), task[t].conn) # {} =>
                /\ task'[t].pc = "say" /\ task'[t].at = c
                /\ task'[t].out = Displaced(SetOf(t, c), task[t].conn)
    BY <1>2, ActClaimMoves
  <2>2. task[t].conn \in Conns
    BY <1>2, ActClaimMoves
  <2> QED
    BY <2>1, <2>2, TakenOwed DEF SetOf
<1>3. ASSUME Take(t) PROVE NewlyOwed(t)
  <2>1. PICK c : c = task[t].at
    OBVIOUS
  <2>2. PICK l : l = task[t].set[c]
    OBVIOUS
  <2>3. /\ c \in Cids /\ l \in 1..MaxLives /\ task[t].conn \in Conns
        /\ Enters(t, c, l, TakenOver(subs[c][l], task[t].conn))
        /\ Displaced(subs[c][l], task[t].conn) # {} =>
              /\ task'[t].pc = "say" /\ task'[t].at = c
              /\ task'[t].out = Displaced(subs[c][l], task[t].conn)
    BY <1>3, <2>1, <2>2, TakeMoves
  <2> QED
    BY <2>3, TakenOwed
<1>4. ASSUME Resume(t) PROVE NewlyOwed(t)
  <2>1. PICK c : c = task[t].at
    OBVIOUS
  <2>2. PICK l : l = cur[c]
    OBVIOUS
  <2>3. CASE UNCHANGED owed
    BY <2>3 DEF NewlyOwed
  <2>4. ASSUME ~UNCHANGED owed
        PROVE  /\ c \in Cids /\ l \in 1..MaxLives /\ task[t].conn \in Conns
               /\ Enters(t, c, l, TakenOver(subs[c][l], task[t].conn))
               /\ Displaced(subs[c][l], task[t].conn) # {} =>
                     /\ task'[t].pc = "say" /\ task'[t].at = c
                     /\ task'[t].out = Displaced(subs[c][l], task[t].conn)
    BY <1>4, <2>1, <2>2, <2>4, ResumeMoves
  <2> QED
    BY <2>3, <2>4, TakenOwed
<1>5. ASSUME Displace(t) PROVE NewlyOwed(t)
  <2>1. PICK c : c = task[t].at
    OBVIOUS
  <2>2. PICK l : l = cur[c]
    OBVIOUS
  <2>3. CASE UNCHANGED <<subs, owed>>
    BY <2>3 DEF NewlyOwed
  <2>4. ASSUME NEW new, PutOut(c, l, new), c \in Cids, Range(new.order) = Range(subs[c][l].order) \cap declared,
               task'[t].pc = "say", task'[t].at = c, task'[t].out = Range(subs[c][l].order) \ declared
        PROVE  NewlyOwed(t)
    <3>1. Range(subs[c][l].order) \ Range(new.order) \subseteq task'[t].out
      BY <2>4
    <3> QED
      BY <2>4, <3>1, PutOutOwed
  <2>5. \/ UNCHANGED <<subs, owed>>
        \/ \E new : /\ PutOut(c, l, new) /\ c \in Cids
                    /\ Range(new.order) = Range(subs[c][l].order) \cap declared
                    /\ task'[t].pc = "say" /\ task'[t].at = c
                    /\ task'[t].out = Range(subs[c][l].order) \ declared
    BY <1>5, <2>1, <2>2, DisplaceRedraws
  <2> QED
    BY <2>3, <2>4, <2>5
<1>6. ASSUME Say(t) \/ Send(t) \/ Forget(t) \/ Leave(t) \/ Released(t) \/ AskSdk(t) \/ DecideAttach(t)
             \/ DecideClaim(t) \/ Claimed(t)
      PROVE  owed' \subseteq owed
  BY <1>6 DEF Say, Send, Forget, Leave, Released, AskSdk, DecideAttach, DecideClaim, Claimed, history
<1>7. ASSUME Tracked(t) \/ GetSet(t) \/ SignIn(t) \/ Host(t) \/ Loaded(t)
             \/ Supervise(t) \/ RemoveSession(t) \/ StopIlm(t) \/ StopSupervisor(t)
      PROVE  owed' \subseteq owed
  BY <1>7 DEF Tracked, GetSet, SignIn, Host, Loaded, Supervise, RemoveSession, StopIlm, StopSupervisor, history
<1>8. CASE owed' \subseteq owed
  BY <1>8 DEF NewlyOwed
<1> QED
  BY <1>1, <1>2, <1>3, <1>4, <1>5, <1>6, <1>7, <1>8 DEF Steps

\* Who was about to tell p goes on to, until it has.
LEMMA StepsTell ==
    ASSUME Base, NEW t \in Tasks, Steps(t), NEW p \in owed', p \in owed, p[1] \in clients, Tells(task[t], p)
    PROVE  Tells(task'[t], p)
<1>1. task[t].pc \in {"say", "send"}
  BY DEF Tells
<1>2. Say(t) \/ Send(t)
  BY <1>1 DEF Steps, At, Forget, Leave, Released, AskSdk, DecideAttach, DecideClaim, ActAttach, ActClaim,
              Claimed, Tracked, GetSet, Take, Resume, SignIn, Host, Loaded, Displace, Supervise,
              RemoveSession, StopIlm, StopSupervisor
<1>3. CASE Say(t)
  <2>1. task[t].pc = "say" /\ p[1] \in task[t].out /\ task[t].at = p[2]
    BY <1>3 DEF Say, At, Tells
  <2> QED
    BY <1>3, <2>1, SayMoves DEF Tells
<1>4. CASE Send(t)
  <2>1. task[t].pc = "send" /\ task[t].say[p[1]] = "detached" /\ task[t].at = p[2]
    BY <1>4 DEF Send, At, Tells
  <2>2. p \in Conns \X Cids
    BY DEF Base, Typed
  <2>3. p = <<p[1], p[2]>>
    BY <2>2
  <2>4. p \notin owed'
    BY <1>4, <2>1, <2>3 DEF Send
  <2> QED
    BY <2>4
<1> QED
  BY <1>2, <1>3, <1>4

LEMMA ComesOnceKeeps ==
    ASSUME Base, ComesOnce, Next
    PROVE  ComesOnce'
<1>1. ASSUME NEW t \in Tasks, Starts(t) \/ Steps(t),
             NEW q, Move(t, q), q.conn \notin fresh, q.op = "close" => q.conn \notin clients',
             Redraws(t), NewlyOwed(t)
      PROVE  ComesOnce'
  <2>1. fresh' = fresh /\ clients' \subseteq clients /\ clients \cap fresh = {}
    BY <1>1, Comers DEF ComesOnce
  <2>2. task'[t] = q /\ \A u \in Tasks \ {t} : task'[u] = task[u]
    BY <1>1, MoveIs
  <2>3. \A u \in Tasks : task'[u].conn \notin fresh' /\ (task'[u].op = "close" => task'[u].conn \notin clients')
    BY <1>1, <2>1, <2>2 DEF ComesOnce
  <2>4. \A c \in Cids, l \in 1..MaxLives : Range(subs'[c][l].order) \cap fresh' = {}
    <3>1. CASE UNCHANGED subs
      BY <2>1, <3>1 DEF ComesOnce
    <3>2. ASSUME NEW c \in Cids, NEW l \in 1..MaxLives, NEW new, GoodSet(new),
                 subs' = [subs EXCEPT ![c][l] = new],
                 Range(new.order) \subseteq Range(subs[c][l].order) \cup {task[t].conn}
          PROVE  \A d \in Cids, k \in 1..MaxLives : Range(subs'[d][k].order) \cap fresh' = {}
      <4>1. /\ subs'[c][l] = new
            /\ \A d \in Cids, k \in 1..MaxLives : (d # c \/ k # l) => subs'[d][k] = subs[d][k]
        <5>1. subs \in [Cids -> [1..MaxLives -> SetRec]] /\ subs' = [subs EXCEPT ![c][l] = new]
          BY <3>2 DEF Base, SetsTyped
        <5> QED
          BY <5>1
      <4>2. Range(new.order) \cap fresh = {}
        BY <3>2 DEF ComesOnce
      <4>3. ASSUME NEW d \in Cids, NEW k \in 1..MaxLives PROVE Range(subs'[d][k].order) \cap fresh = {}
        <5>1. CASE d # c \/ k # l
          BY <4>1, <5>1 DEF ComesOnce
        <5>2. CASE d = c /\ k = l
          BY <4>1, <4>2, <5>2
        <5> QED
          BY <5>1, <5>2
      <4> QED
        BY <2>1, <4>3
    <3> QED
      BY <1>1, <3>1, <3>2 DEF Redraws
  <2>5. \A p \in owed' : p[1] \notin fresh'
    BY <1>1, <2>1 DEF NewlyOwed, ComesOnce
  <2> QED
    BY <2>1, <2>3, <2>4, <2>5 DEF ComesOnce
<1>2. None \notin fresh
  BY MembershipAssumption DEF Base, Typed
<1>3. ASSUME NEW t \in Tasks, Steps(t) PROVE ComesOnce'
  <2>1. PICK q : Move(t, q) /\ Follows(q, task[t])
    BY <1>3, StepsMove DEF Moves
  <2>2. q.conn \notin fresh /\ (q.op = "close" => q.conn \notin clients)
    BY <1>2, <2>1, IdleGood DEF Follows, Same, ComesOnce
  <2>3. q.op = "close" => q.conn \notin clients'
    BY <1>3, <2>2, Comers
  <2> QED
    BY <1>1, <1>3, <2>1, <2>2, <2>3, StepsRedraw, StepsOwe
<1>4. ASSUME NEW t \in Tasks, Starts(t) PROVE ComesOnce'
  <2>1. PICK q : /\ Move(t, q) /\ (q = Idle \/ q.conn \in clients \cup {None})
                 /\ (q.op = "close" => q.conn \notin clients')
    BY <1>4, StartsBegin DEF Begun
  <2>2. q.conn \notin fresh
    BY <1>2, <2>1, IdleGood DEF ComesOnce
  <2>3. Redraws(t) /\ NewlyOwed(t)
    BY <1>4, StartsBegin DEF Redraws, NewlyOwed
  <2> QED
    BY <1>1, <1>4, <2>1, <2>2, <2>3
<1>5. ASSUME NEW x \in Conns, Open(x) PROVE ComesOnce'
  <2>1. x \in fresh /\ fresh' = fresh \ {x} /\ clients' = clients \cup {x} /\ UNCHANGED <<subs, task, owed>>
    BY <1>5 DEF Open, history
  <2> QED
    BY <2>1 DEF ComesOnce
<1>6. ASSUME Rest PROVE ComesOnce'
  BY <1>6 DEF Rest, vars, agent, history, ComesOnce
<1> QED
  BY <1>3, <1>4, <1>5, <1>6 DEF Next

LEMMA OwedKeeps ==
    ASSUME Base, ComesOnce, OwedAreTold, Next
    PROVE  OwedAreTold'
<1>1. ASSUME NEW t \in Tasks, Steps(t), NEW p \in owed', p[1] \in clients'
      PROVE  \E u \in Tasks : Tells(task'[u], p)
  <2>1. p[1] \in clients
    BY <1>1, Comers
  <2>2. CASE p \notin owed
    BY <1>1, <2>2, StepsOwe DEF NewlyOwed
  <2>3. CASE p \in owed
    <3>1. PICK u \in Tasks : Tells(task[u], p)
      BY <2>1, <2>3 DEF OwedAreTold
    <3>2. CASE u = t
      BY <1>1, <2>1, <2>3, <3>1, <3>2, StepsTell
    <3>3. CASE u # t
      <4>1. PICK q : Move(t, q)
        BY <1>1, StepsMove DEF Moves
      <4>2. task'[u] = task[u]
        BY <3>3, <4>1, MoveIs
      <4> QED
        BY <3>1, <4>2
    <3> QED
      BY <3>2, <3>3
  <2> QED
    BY <2>2, <2>3
<1>2. ASSUME NEW t \in Tasks, Starts(t), NEW p \in owed', p[1] \in clients'
      PROVE  \E u \in Tasks : Tells(task'[u], p)
  <2>1. p[1] \in clients /\ p \in owed
    BY <1>2, Comers, StartsBegin
  <2>2. PICK u \in Tasks : Tells(task[u], p)
    BY <2>1 DEF OwedAreTold
  <2>3. PICK q : Move(t, q) /\ task[t] = Idle
    BY <1>2, StartsBegin DEF Begun
  <2>4. u # t
    BY <2>2, <2>3, IdleGood DEF Tells
  <2>5. task'[u] = task[u]
    BY <2>3, <2>4, MoveIs
  <2> QED
    BY <2>2, <2>5
<1>3. ASSUME NEW x \in Conns, Open(x), NEW p \in owed', p[1] \in clients'
      PROVE  \E u \in Tasks : Tells(task'[u], p)
  <2>1. x \in fresh /\ clients' = clients \cup {x} /\ UNCHANGED <<task, owed>>
    BY <1>3 DEF Open, history
  <2>2. p[1] # x
    BY <1>3, <2>1 DEF ComesOnce
  <2> QED
    BY <1>3, <2>1, <2>2 DEF OwedAreTold
<1>4. ASSUME Rest PROVE OwedAreTold'
  BY <1>4 DEF Rest, vars, agent, history, OwedAreTold, Tells
<1>5. CASE \A p \in owed' : p[1] \in clients' => \E t \in Tasks : Tells(task'[t], p)
  BY <1>5 DEF OwedAreTold, Tells
<1> QED
  BY <1>1, <1>2, <1>3, <1>4, <1>5 DEF Next

\* A window that another one put out of a session has been told so by the time
\* nothing is under way, or has closed (membership.rs, migration_guard.rs: the
\* handler that changes a set announces the roles, with whom it put out).
THEOREM DisplacedTold == Spec => []DisplacedAreTold
<1> DEFINE I == Base /\ ComesOnce /\ OwedAreTold
<1>1. Init => I
  <2> SUFFICES ASSUME Init PROVE I OBVIOUS
  <2>1. \A c \in Cids, l \in 1..MaxLives : subs[c][l].order = <<>>
    BY DEF Init, EmptySet
  <2>2. Base /\ clients = {} /\ owed = {}
    BY BaseInit DEF Init
  <2>3. \A t \in Tasks : task[t].conn = None /\ task[t].op = "none"
    BY IdleGood DEF Init
  <2>4. DOMAIN <<>> = {}
    OBVIOUS
  <2>5. Range(<<>>) = {}
    BY <2>4 DEF Range
  <2>6. None \notin fresh
    BY MembershipAssumption DEF Init
  <2> QED
    BY <2>1, <2>2, <2>3, <2>5, <2>6 DEF ComesOnce, OwedAreTold
<1>2. I /\ [Next]_vars => I'
  <2>1. ASSUME I, UNCHANGED vars PROVE I'
    <3>1. Base'
      BY <2>1, BaseStutters
    <3> QED
      BY <2>1, <3>1 DEF vars, agent, history, ComesOnce, OwedAreTold, Tells
  <2> QED
    BY <2>1, BaseKeeps, ComesOnceKeeps, OwedKeeps
<1>3. I => DisplacedAreTold
  BY IdleGood DEF OwedAreTold, Tells, DisplacedAreTold, Quiet
<1> QED
  BY <1>1, <1>2, <1>3, PTL DEF Spec

-----------------------------------------------------------------------------
(* The map's lock: who decided under it acts before anyone else decides.   *)

\* A task between its decision and the end of what it decided.
Locked(r) ==
    \/ r.op = "claim" /\ (r.pc = "act" \/ (Saying(r) /\ r.then = "act"))
    \/ r.op = "attach" /\ r.pc = "act"
    \/ r.op = "orphan" /\ r.pc \in {"remove", "stopilm", "stopsup"}

LockHeld == \A t \in Tasks : Locked(task[t]) => mapLock = t

\* What task t does to the lock.
Locks(t) ==
    /\ Locked(task'[t]) => mapLock' = t
    /\ mapLock' = mapLock \/ mapLock \in {None, t}

\* Steps that only a task takes that does not hold the lock, or lets it go.
Unlocks(t) ==
    \/ Forget(t) \/ Leave(t) \/ Released(t) \/ Tracked(t) \/ GetSet(t) \/ Take(t) \/ Resume(t) \/ SignIn(t)
    \/ AskSdk(t) \/ ActAttach(t) \/ Claimed(t) \/ Host(t) \/ Loaded(t) \/ Supervise(t) \/ Displace(t)

LEMMA UnlocksIs ==
    ASSUME Base, NEW t \in Tasks, Unlocks(t)
    PROVE  ~Locked(task'[t])
<1>1. Idle.op = "none"
  BY IdleGood
<1>2. ASSUME Forget(t) \/ Leave(t) \/ Released(t) \/ Tracked(t) \/ GetSet(t) \/ Take(t) \/ Resume(t) \/ SignIn(t)
      PROVE  ~Locked(task'[t])
  <2>1. task'[t].op \in {"none", "close", "release", "connect"}
    BY <1>1, <1>2, ForgetMoves, LeaveMoves, ReleasedMoves, TrackedMoves, GetSetMoves, TakeMoves, ResumeMoves,
       SignInMoves DEF Same
  <2> QED
    BY <2>1 DEF Locked
<1>3. ASSUME AskSdk(t) PROVE ~Locked(task'[t])
  <2>1. task'[t].op = "none" \/ (task'[t].op = "claim" /\ task'[t].pc \in {"decide", "remove"})
    BY <1>1, <1>3, AskSdkMoves DEF Same
  <2> QED
    BY <2>1 DEF Locked, Saying
<1>4. ASSUME ActAttach(t) PROVE ~Locked(task'[t])
  <2>1. task'[t].op = "none" \/ (task'[t].op = "attach" /\ task'[t].pc \in {"say", "host"})
    BY <1>1, <1>4, ActAttachMoves DEF Same
  <2> QED
    BY <2>1 DEF Locked
<1>5. ASSUME Claimed(t) PROVE ~Locked(task'[t])
  <2>1. task'[t].op = "claim" /\ task'[t].pc = "host"
    BY <1>5, ClaimedMoves DEF Same
  <2> QED
    BY <2>1 DEF Locked, Saying
<1>6. ASSUME Host(t) \/ Loaded(t) \/ Supervise(t) PROVE ~Locked(task'[t])
  <2>1. task'[t].op = "none" \/ (task'[t].op \in Hosts /\ task'[t].pc \in HostPcs)
    BY <1>1, <1>6, HostMoves, LoadedMoves, SuperviseMoves DEF Same
  <2> QED
    BY <2>1 DEF Locked, Saying, Hosts, HostPcs
<1>7. ASSUME Displace(t) PROVE ~Locked(task'[t])
  <2>1. task'[t].op \in Hosts /\ (task'[t].pc = "supervise" \/ (task'[t].pc = "say" /\ task'[t].then = "supervise"))
    BY <1>7, DisplaceMoves DEF Same
  <2> QED
    BY <2>1 DEF Locked, Saying, Hosts
<1> QED
  BY <1>2, <1>3, <1>4, <1>5, <1>6, <1>7 DEF Unlocks

LEMMA StepsLock ==
    ASSUME Base, LockHeld, NEW t \in Tasks, Steps(t)
    PROVE  Locks(t)
<1>1. Locked(task[t]) => mapLock = t
  BY DEF LockHeld
<1>2. Idle.op = "none"
  BY IdleGood
<1>3. ASSUME Say(t) PROVE Locks(t)
  BY <1>1, <1>3, SayMoves DEF Locks, Locked, Say, At, Same, Saying
<1>4. ASSUME Send(t) PROVE Locks(t)
  <2>1. task[t].pc = "send" /\ mapLock' = mapLock
    BY <1>4 DEF Send, At
  <2>2. /\ task[t].then \in {"idle", "leave", "act", "host", "supervise"}
        /\ task[t].then = "act" => task[t].op = "claim"
    BY <2>1, TaskIs DEF Continues, Saying
  <2> QED
    BY <1>1, <1>2, <1>4, <2>1, <2>2, SendMoves DEF Locks, Locked, Same, Saying
<1>5. ASSUME Unlocks(t), mapLock' = mapLock \/ mapLock = t PROVE Locks(t)
  BY <1>5, UnlocksIs DEF Locks
<1>6. ASSUME Forget(t) \/ Leave(t) \/ Released(t) \/ Tracked(t) \/ GetSet(t) \/ Take(t) \/ Resume(t) \/ SignIn(t)
      PROVE  mapLock' = mapLock /\ Unlocks(t)
  BY <1>6 DEF Unlocks, Forget, Leave, Released, Tracked, GetSet, Take, Resume, SignIn
<1>7. ASSUME DecideAttach(t) \/ DecideClaim(t) PROVE Locks(t)
  BY <1>2, <1>7, DecideAttachMoves, DecideClaimMoves DEF Locks, Locked
<1>8. ASSUME ActAttach(t) \/ Claimed(t) PROVE mapLock = t /\ Unlocks(t)
  BY <1>1, <1>8, ActAttachMoves, ClaimedMoves DEF Locked, Unlocks
<1>9. ASSUME ActClaim(t) PROVE Locks(t)
  <2>1. mapLock = t /\ mapLock' = mapLock
    BY <1>1, <1>9, ActClaimMoves DEF Locked, ActClaim
  <2> QED
    BY <2>1 DEF Locks
<1>10. ASSUME AskSdk(t) \/ Host(t) \/ Loaded(t) \/ Supervise(t) \/ Displace(t)
       PROVE  mapLock' = mapLock /\ Unlocks(t)
  BY <1>10 DEF Unlocks, AskSdk, Host, Loaded, Supervise, Displace
<1>13. ASSUME RemoveSession(t) PROVE Locks(t)
  <2>1. mapLock' = mapLock
    BY <1>13 DEF RemoveSession
  <2> QED
    BY <1>1, <1>2, <1>13, <2>1, RemoveMoves DEF Locks, Locked, Saying, Same
<1>14. ASSUME StopIlm(t) PROVE Locks(t)
  <2>1. mapLock' = mapLock
    BY <1>14 DEF StopIlm
  <2> QED
    BY <1>1, <1>2, <1>14, <2>1, StopIlmMoves DEF Locks, Locked, Saying, Same
<1>15. ASSUME StopSupervisor(t) PROVE Locks(t)
  BY <1>1, <1>2, <1>15, StopSupervisorMoves DEF Locks, Locked, Saying, Same
<1> QED
  BY <1>3, <1>4, <1>5, <1>6, <1>7, <1>8, <1>9, <1>10, <1>13, <1>14, <1>15 DEF Steps

LEMMA StartsLock ==
    ASSUME Base, NEW t \in Tasks, Starts(t)
    PROVE  /\ Locks(t)
           /\ \/ ~Locked(task'[t])
              \/ \E x \in Conns, which \in SUBSET Cids : DisconnectOrphan(t, x, which)
<1>1. ASSUME NEW x \in Conns, Declare(t, x) PROVE ~Locked(task'[t])
  BY <1>1, DeclareBegins, IdleGood DEF Locked
<1>2. ASSUME NEW x \in Conns, Close(t, x) PROVE ~Locked(task'[t])
  BY <1>2, CloseBegins DEF Locked
<1>3. ASSUME NEW x \in Conns, NEW c \in Cids, Attach(t, x, c) \/ Connect(t, x, c) \/ Release(t, x, c)
      PROVE  ~Locked(task'[t])
  BY <1>3, AttachBegins, ConnectBegins, ReleaseBegins DEF Locked
<1>4. ASSUME NEW x \in Conns, NEW c \in Cids, NEW strict \in BOOLEAN, Claim(t, x, c, strict)
      PROVE  ~Locked(task'[t])
  BY <1>4, ClaimBegins DEF Locked, Saying
<1>5. ASSUME NEW c \in Cids, Logout(t, c) \/ End(t, c) PROVE ~Locked(task'[t])
  BY <1>5, LogoutBegins, EndBegins DEF Locked
<1>6. ASSUME NEW x \in Conns, NEW which \in SUBSET Cids, DisconnectOrphan(t, x, which)
      PROVE  mapLock = None /\ mapLock' = t
  BY <1>6 DEF DisconnectOrphan
<1>7. \/ mapLock' = mapLock
      \/ \E x \in Conns, which \in SUBSET Cids : DisconnectOrphan(t, x, which)
  BY DEF Starts, Declare, Close, Attach, Connect, Release, Claim, Logout, End
<1>8. \/ ~Locked(task'[t])
      \/ \E x \in Conns, which \in SUBSET Cids : DisconnectOrphan(t, x, which)
  BY <1>1, <1>2, <1>3, <1>4, <1>5 DEF Starts
<1>9. Locks(t)
  BY <1>6, <1>7, <1>8 DEF Locks
<1> QED
  BY <1>8, <1>9

LEMMA LockKeeps ==
    ASSUME Base, LockHeld, Next
    PROVE  LockHeld'
<1>1. ASSUME NEW t \in Tasks, NEW q, Move(t, q), Locks(t) PROVE LockHeld'
  <2>1. \A u \in Tasks \ {t} : task'[u] = task[u]
    BY <1>1, MoveIs
  <2>2. ASSUME NEW u \in Tasks, Locked(task'[u]) PROVE mapLock' = u
    <3>1. CASE u = t
      BY <1>1, <2>2, <3>1 DEF Locks
    <3>2. CASE u # t
      <4>1. mapLock = u /\ u # None
        BY <2>1, <2>2, <3>2, MembershipAssumption DEF LockHeld
      <4> QED
        BY <1>1, <3>2, <4>1 DEF Locks
    <3> QED
      BY <3>1, <3>2
  <2> QED
    BY <2>2 DEF LockHeld, Locked, Saying
<1>2. ASSUME NEW t \in Tasks, Steps(t) PROVE LockHeld'
  <2>1. PICK q : Move(t, q)
    BY <1>2, StepsMove DEF Moves
  <2> QED
    BY <1>1, <1>2, <2>1, StepsLock
<1>3. ASSUME NEW t \in Tasks, Starts(t) PROVE LockHeld'
  <2>1. PICK q : Move(t, q)
    BY <1>3, StartsBegin DEF Begun
  <2> QED
    BY <1>1, <1>3, <2>1, StartsLock
<1>4. ASSUME NEW x \in Conns, Open(x) PROVE LockHeld'
  BY <1>4 DEF Open, LockHeld, Locked, Saying
<1>5. ASSUME Rest PROVE LockHeld'
  BY <1>5 DEF Rest, vars, agent, LockHeld, Locked, Saying
<1> QED
  BY <1>2, <1>3, <1>4, <1>5 DEF Next

\* The accounts it still has to act on.
Aims(r) ==
    IF r.op = "claim" THEN r.todo
    ELSE IF r.op = "attach" THEN {r.at}
    ELSE IF r.pc = "remove" THEN r.todo \cup {r.at} ELSE r.todo

\* A window that closed and is leaving its sessions.
Leaving(r) == r.op = "close" /\ r.pc # "forget"
Stays(x, c) == Has(Here(c), x) /\ \A u \in Tasks : Leaving(task[u]) => task[u].conn # x
NoneLockedIn(c) == \A y \in Live(c) : door[y][c] \notin {"claim", "attach"}

\* What it decided still stands: the session is the one it saw, and nobody who
\* came in by a claim or an attach is in it, or its own window is.
OpenTo(r, c) ==
    /\ cur[c] # 0 /\ (r.op # "orphan" => r.set[c] = cur[c])
    /\ \/ r.op = "attach" /\ ~r.orphan
       \/ Stays(r.conn, c)
       \/ NoneLockedIn(c)

AimsAreOpen ==
    \A t \in Tasks : Locked(task[t]) =>
        /\ task[t].op = "orphan" => task[t].at \notin task[t].todo
        /\ \A c \in Aims(task[t]) : OpenTo(task[t], c)

\* When it goes on standing.
LEMMA OpenKeeps ==
    ASSUME NEW r, NEW c \in Cids, OpenTo(r, c), cur'[c] = cur[c],
           \A u \in Tasks : Leaving(task'[u]) => Leaving(task[u]) /\ task'[u].conn = task[u].conn,
           \A y \in Range(Here(c).order) : y \in clients' => y \in clients,
           \/ /\ \A y \in Range(Here(c).order) :
                    \/ y \in Range(subs'[c][cur[c]].order)
                    \/ \E v \in Tasks : Leaving(task[v]) /\ task[v].conn = y
              /\ Range(subs'[c][cur[c]].order) \subseteq Range(Here(c).order)
              /\ \A y \in Range(Here(c).order) : door'[y][c] \in {door[y][c], "connect"}
           \/ \A y \in Range(subs'[c][cur[c]].order) : door'[y][c] \notin {"claim", "attach"}
    PROVE  OpenTo(r, c)'
<1>1. cur'[c] # 0 /\ (r.op # "orphan" => r.set[c] = cur'[c])
  BY DEF OpenTo
<1>2. CASE r.op = "attach" /\ ~r.orphan
  BY <1>1, <1>2 DEF OpenTo
<1>3. CASE \A y \in Range(subs'[c][cur[c]].order) : door'[y][c] \notin {"claim", "attach"}
  <2>1. NoneLockedIn(c)'
    BY <1>3 DEF NoneLockedIn, Live, Here
  <2> QED
    BY <1>1, <2>1 DEF OpenTo
<1>4. CASE /\ \A y \in Range(Here(c).order) :
                 \/ y \in Range(subs'[c][cur[c]].order)
                 \/ \E v \in Tasks : Leaving(task[v]) /\ task[v].conn = y
           /\ Range(subs'[c][cur[c]].order) \subseteq Range(Here(c).order)
           /\ \A y \in Range(Here(c).order) : door'[y][c] \in {door[y][c], "connect"}
  <2>1. CASE Stays(r.conn, c)
    <3>1. r.conn \in Range(Here(c).order) /\ \A u \in Tasks : Leaving(task[u]) => task[u].conn # r.conn
      BY <2>1 DEF Stays, Has
    <3>2. r.conn \in Range(subs'[c][cur[c]].order)
      BY <1>4, <3>1
    <3>3. \A u \in Tasks : Leaving(task'[u]) => task'[u].conn # r.conn
      BY <3>1
    <3>4. Stays(r.conn, c)'
      BY <3>2, <3>3 DEF Stays, Has, Here, Leaving
    <3> QED
      BY <1>1, <3>4 DEF OpenTo
  <2>2. CASE NoneLockedIn(c)
    <3>1. \A y \in Range(subs'[c][cur[c]].order) \cap clients' : door'[y][c] \notin {"claim", "attach"}
      BY <1>4, <2>2 DEF NoneLockedIn, Live
    <3>2. NoneLockedIn(c)'
      BY <3>1 DEF NoneLockedIn, Live, Here
    <3> QED
      BY <1>1, <3>2 DEF OpenTo
  <2> QED
    BY <1>2, <2>1, <2>2 DEF OpenTo
<1> QED
  BY <1>3, <1>4

\* What anyone may do while another holds the lock.
LEMMA Blocked ==
    ASSUME Base, LockHeld, NEW t \in Tasks, NEW u \in Tasks \ {t}, mapLock = u, Steps(t) \/ Starts(t)
    PROVE  /\ cur' = cur
           /\ Leaving(task'[t]) => Leaving(task[t]) /\ task'[t].conn = task[t].conn
           /\ UNCHANGED <<subs, door>> \/ Leave(t) \/ Take(t)
<1>1. u # None /\ mapLock # None /\ mapLock # t /\ ~MapFree(t) /\ ~Locked(task[t])
  BY MembershipAssumption DEF MapFree, LockHeld
<1>2. ASSUME Starts(t) PROVE \E x \in Conns : Close(t, x)
  BY <1>1, <1>2 DEF Starts, Declare, Attach, Connect, Release, Claim, Logout, End, DisconnectOrphan
<1>3. CASE Starts(t)
  <2>1. PICK x \in Conns : Close(t, x)
    BY <1>2, <1>3
  <2>2. task'[t].pc = "forget"
    BY <2>1, CloseBegins
  <2> QED
    BY <1>3, <2>2, StartsBegin DEF Leaving
<1>4. CASE Steps(t)
  <2>1. ~Forget(t) /\ ~Released(t) /\ ~DecideAttach(t) /\ ~DecideClaim(t) /\ ~GetSet(t) /\ ~Resume(t)
        /\ ~SignIn(t) /\ ~Displace(t) /\ ~RemoveSession(t)
    BY <1>1 DEF Forget, Released, DecideAttach, DecideClaim, GetSet, Resume, SignIn, Displace, RemoveSession
  <2>2. ~ActAttach(t) /\ ~ActClaim(t) /\ ~Claimed(t)
    BY <1>1, ActAttachMoves, ActClaimMoves, ClaimedMoves DEF Locked
  <2>3. Say(t) \/ Send(t) \/ Leave(t) \/ AskSdk(t) \/ Tracked(t) \/ Take(t) \/ Host(t) \/ Loaded(t)
        \/ Supervise(t) \/ StopIlm(t) \/ StopSupervisor(t)
    BY <1>4, <2>1, <2>2 DEF Steps
  <2>4. task[t].pc # "forget"
    BY <2>3 DEF At, Say, Send, Leave, AskSdk, Tracked, Take, Host, Loaded, Supervise, StopIlm, StopSupervisor
  <2>5. task'[t] = Idle \/ Same(task'[t], task[t])
    <3>1. PICK q : Move(t, q) /\ Follows(q, task[t])
      BY <1>4, StepsMove DEF Moves
    <3> QED
      BY <3>1, MoveIs DEF Follows
  <2>6. Leaving(task'[t]) => Leaving(task[t]) /\ task'[t].conn = task[t].conn
    BY <2>4, <2>5, IdleGood DEF Leaving, Same
  <2>7. cur' = cur
    BY <2>3 DEF Say, Send, Leave, AskSdk, Tracked, Take, Host, Loaded, Supervise, StopIlm, StopSupervisor
  <2>8. UNCHANGED <<subs, door>> \/ Leave(t) \/ Take(t)
    BY <2>3 DEF Say, Send, AskSdk, Tracked, Host, Loaded, Supervise, StopIlm, StopSupervisor, history
  <2> QED
    BY <2>6, <2>7, <2>8
<1> QED
  BY <1>3, <1>4

LEMMA LockedOpen ==
    ASSUME Base, ComesOnce, LockHeld, NEW t \in Tasks, NEW u \in Tasks \ {t}, mapLock = u,
           Steps(t) \/ Starts(t), NEW r, NEW c \in Cids, OpenTo(r, c)
    PROVE  OpenTo(r, c)'
<1>1. PICK l : l = cur[c]
  OBVIOUS
<1>2. l \in 1..MaxLives
  BY <1>1, MembershipAssumption DEF OpenTo, Base, Typed
<1>3. /\ cur' = cur
      /\ Leaving(task'[t]) => Leaving(task[t]) /\ task'[t].conn = task[t].conn
      /\ UNCHANGED <<subs, door>> \/ Leave(t) \/ Take(t)
  BY Blocked
<1>4. PICK q : Move(t, q)
  BY StepsMove, StartsBegin DEF Moves, Begun
<1>5. \A v \in Tasks : Leaving(task'[v]) => Leaving(task[v]) /\ task'[v].conn = task[v].conn
  BY <1>3, <1>4, MoveIs
<1>6. clients' \subseteq clients
  BY Comers
<1>7. CASE UNCHANGED <<subs, door>>
  <2>1. Range(subs'[c][cur[c]].order) = Range(Here(c).order)
    BY <1>7 DEF Here
  <2> QED
    BY <1>3, <1>5, <1>6, <1>7, <2>1, OpenKeeps
<1>8. CASE Leave(t)
  <2>1. PICK d \in Cids, k \in 1..MaxLives : \E new :
          /\ GoodSet(new) /\ subs' = [subs EXCEPT ![d][k] = new]
          /\ Range(new.order) = Range(subs[d][k].order) \ {task[t].conn}
    BY <1>8, LeaveRedraws
  <2>2. PICK new : /\ GoodSet(new) /\ subs' = [subs EXCEPT ![d][k] = new]
                   /\ Range(new.order) = Range(subs[d][k].order) \ {task[t].conn}
    BY <2>1
  <2>3. subs \in [Cids -> [1..MaxLives -> SetRec]]
    BY DEF Base, SetsTyped
  <2>4. subs'[d][k] = new /\ ((d # c \/ k # l) => subs'[c][l] = subs[c][l])
    BY <1>2, <2>2, <2>3
  <2>5. /\ Range(subs'[c][l].order) \subseteq Range(subs[c][l].order)
        /\ Range(subs[c][l].order) \ {task[t].conn} \subseteq Range(subs'[c][l].order)
    <3>1. CASE d # c \/ k # l
      BY <2>4, <3>1
    <3>2. CASE d = c /\ k = l
      BY <2>2, <2>4, <3>2
    <3> QED
      BY <3>1, <3>2
  <2>6. Leaving(task[t]) /\ door' = door
    BY <1>8, LeaveMoves DEF Leaving, Leave, At, history
  <2>7. \A y \in Range(Here(c).order) :
             \/ y \in Range(subs'[c][cur[c]].order)
             \/ \E v \in Tasks : Leaving(task[v]) /\ task[v].conn = y
    BY <1>1, <2>5, <2>6 DEF Here
  <2>8. Range(subs'[c][cur[c]].order) \subseteq Range(Here(c).order)
    BY <1>1, <2>5 DEF Here
  <2> QED
    BY <1>3, <1>5, <1>6, <2>6, <2>7, <2>8, OpenKeeps
<1>9. CASE Take(t)
  <2>1. PICK d : d = task[t].at
    OBVIOUS
  <2>2. PICK k : k = task[t].set[d]
    OBVIOUS
  <2>3. PICK x : x = task[t].conn
    OBVIOUS
  <2>4. PICK s : s = subs[d][k]
    OBVIOUS
  <2>5. d \in Cids /\ k \in 1..MaxLives /\ x \in Conns /\ Enters(t, d, k, TakenOver(s, x)) /\ task[t].op = "connect"
    BY <1>9, <2>1, <2>2, <2>3, <2>4, TakeMoves
  <2>6. subs \in [Cids -> [1..MaxLives -> SetRec]] /\ door \in [Conns -> [Cids -> Doors]]
    BY DEF Base, SetsTyped, Typed
  <2>7. /\ subs' = [subs EXCEPT ![d][k] = TakenOver(s, x)]
        /\ door' = [door EXCEPT ![x][d] = IF Has(s, x) THEN @ ELSE "connect"]
    BY <2>3, <2>4, <2>5 DEF Enters, PutOut
  <2>8. subs'[d][k] = TakenOver(s, x) /\ ((d # c \/ k # l) => subs'[c][l] = subs[c][l])
    BY <1>2, <2>5, <2>6, <2>7
  <2>9. GoodSet(s)
    BY <2>4, <2>5, SetIs
  <2>10. CASE Has(s, x)
    <3>1. Range(subs'[d][k].order) = Range(s.order)
      BY <2>5, <2>8, <2>9, <2>10, TakenOverIs
    <3>2. Range(subs'[c][l].order) = Range(subs[c][l].order)
      BY <2>4, <2>8, <3>1
    <3>3. door' = door
      <4>1. door' = [door EXCEPT ![x][d] = door[x][d]]
        BY <2>7, <2>10
      <4> QED
        BY <2>5, <2>6, <4>1
    <3> QED
      BY <1>1, <1>3, <1>5, <1>6, <3>2, <3>3, OpenKeeps DEF Here
  <2>11. CASE ~Has(s, x)
    <3>1. Range(subs'[d][k].order) = {x}
      BY <2>5, <2>8, <2>9, <2>11, TakenOverIs
    <3>2. door' = [door EXCEPT ![x][d] = "connect"]
      BY <2>7, <2>11
    <3>3. door'[x][d] = "connect" /\ \A y : (y # x \/ c # d) => door'[y][c] = door[y][c]
      BY <2>5, <2>6, <3>2
    <3>4. CASE d = c /\ k = l
      <4>1. \A y \in Range(subs'[c][cur[c]].order) : door'[y][c] \notin {"claim", "attach"}
        BY <1>1, <3>1, <3>3, <3>4
      <4> QED
        BY <1>3, <1>5, <1>6, <4>1, OpenKeeps
    <3>5. CASE d # c
      <4>1. Range(subs'[c][l].order) = Range(subs[c][l].order) /\ \A y : door'[y][c] = door[y][c]
        BY <2>8, <3>3, <3>5
      <4> QED
        BY <1>1, <1>3, <1>5, <1>6, <4>1, OpenKeeps DEF Here
    <3>6. CASE d = c /\ k # l
      \* the window's own door is set though it entered a session that is over
      <4>1. /\ Range(subs'[c][l].order) = Range(subs[c][l].order)
            /\ \A y : door'[y][c] \in {door[y][c], "connect"}
        BY <2>8, <3>3, <3>6
      <4> QED
        BY <1>1, <1>3, <1>5, <1>6, <4>1, OpenKeeps DEF Here
    <3> QED
      BY <3>4, <3>5, <3>6
  <2> QED
    BY <2>10, <2>11
<1> QED
  BY <1>3, <1>7, <1>8, <1>9

LEMMA OpenSame ==
    ASSUME NEW q, NEW r, NEW c, OpenTo(r, c), q.op = r.op, q.conn = r.conn,
           q.op # "orphan" => q.set = r.set /\ q.orphan = r.orphan
    PROVE  OpenTo(q, c)
BY DEF OpenTo

\* Nobody in a session that nobody who is connected is in; and a window that is
\* connected is not leaving.
LEMMA DecidedOpen ==
    ASSUME Base, ComesOnce, NEW q, NEW c \in Present, q.op # "orphan" => q.set = cur,
           Live(c) = {} \/ q.conn \in Live(c)
    PROVE  OpenTo(q, c)
<1>1. c \in Cids /\ cur[c] # 0 /\ (q.op # "orphan" => q.set[c] = cur[c])
  BY DEF Present
<1>2. CASE Live(c) = {}
  BY <1>1, <1>2 DEF OpenTo, NoneLockedIn
<1>3. CASE q.conn \in Live(c)
  <2>1. q.conn \in clients /\ Has(Here(c), q.conn)
    BY <1>3 DEF Live, Has
  <2>2. \A u \in Tasks : Leaving(task[u]) => task[u].conn # q.conn
    BY <2>1 DEF Leaving, ComesOnce
  <2> QED
    BY <1>1, <2>1, <2>2 DEF OpenTo, Stays
<1> QED
  BY <1>2, <1>3

\* What is aimed at and stays as it is stays open.
LEMMA StillOpen ==
    ASSUME NEW r, NEW c \in Cids, OpenTo(r, c), cur'[c] = cur[c], clients' = clients,
           \A u \in Tasks : Leaving(task'[u]) => Leaving(task[u]) /\ task'[u].conn = task[u].conn,
           subs'[c][cur[c]] = subs[c][cur[c]], \A y : door'[y][c] = door[y][c]
    PROVE  OpenTo(r, c)'
BY OpenKeeps DEF Here

LEMMA OwnSteps ==
    ASSUME Base, ComesOnce, LockHeld, AimsAreOpen, NEW t \in Tasks, Steps(t), NEW q, task'[t] = q, Locked(q)
    PROVE  (q.op = "orphan" => q.at \notin q.todo) /\ \A c \in Aims(q) : OpenTo(q, c)'
<1>1. q.op \in {"claim", "attach", "orphan"} /\ q # Idle
  BY IdleGood DEF Locked
<1>2. \A u \in Tasks : Leaving(task'[u]) => Leaving(task[u]) /\ task'[u].conn = task[u].conn
  <2>1. PICK p : Move(t, p)
    BY StepsMove DEF Moves
  <2>2. \A u \in Tasks \ {t} : task'[u] = task[u]
    BY <2>1, MoveIs
  <2> QED
    BY <1>1, <2>2 DEF Leaving
<1>3. PICK r : r = task[t]
  OBVIOUS
<1>4. r \in TaskRec /\ Placed(r) /\ Continues(r) /\ HoldsSets(r) /\ r.todo \in SUBSET Cids
  BY <1>3, TaskIs
<1>5. ASSUME Locked(r) PROVE (r.op = "orphan" => r.at \notin r.todo) /\ \A c \in Aims(r) : OpenTo(r, c)
  BY <1>3, <1>5 DEF AimsAreOpen
<1>6. Aims(q) \subseteq Cids
  <2>1. Good(q) /\ q \in TaskRec
    <3>1. PICK p : Move(t, p) /\ Follows(p, task[t])
      BY StepsMove DEF Moves
    <3> QED
      BY <3>1, MoveIs DEF Follows, Good
  <2>2. q.todo \subseteq Cids /\ Placed(q)
    BY <2>1, TaskFields DEF Good
  <2> QED
    BY <2>2 DEF Aims, Placed, Elsewhere, Locked
<1>7. ASSUME UNCHANGED <<cur, clients, subs, door>>, NEW c \in Aims(q), OpenTo(q, c) PROVE OpenTo(q, c)'
  BY <1>2, <1>6, <1>7, StillOpen
<1>8. CASE Say(t)
  <2>1. /\ q.pc = "send" /\ q.op = r.op /\ q.conn = r.conn /\ q.then = r.then /\ q.todo = r.todo
        /\ q.set = r.set /\ q.orphan = r.orphan
    BY <1>3, <1>8, SayMoves DEF Same
  <2>2. q.op = "claim" /\ q.then = "act" /\ r.pc = "say"
    BY <1>3, <1>8, <2>1 DEF Locked, Say, At
  <2>3. Locked(r) /\ Aims(q) = Aims(r)
    BY <2>1, <2>2 DEF Locked, Saying, Aims
  <2>4. \A c \in Aims(q) : OpenTo(q, c)
    BY <1>5, <2>1, <2>3, OpenSame
  <2>5. UNCHANGED <<cur, clients, subs, door>>
    BY <1>8 DEF Say, history
  <2> QED
    BY <1>7, <2>2, <2>4, <2>5
<1>9. CASE Send(t)
  <2>1. /\ q.pc = r.then /\ q.op = r.op /\ q.conn = r.conn /\ q.todo = r.todo
        /\ q.set = r.set /\ q.orphan = r.orphan
    BY <1>1, <1>3, <1>9, SendMoves DEF Same
  <2>2. r.pc = "send"
    BY <1>3, <1>9 DEF Send, At
  <2>3. r.then \in {"idle", "leave", "act", "host", "supervise"} /\ (r.then = "act" => r.op = "claim")
    BY <1>4, <2>2 DEF Continues, Saying
  <2>4. r.then = "act" /\ r.op = "claim"
    BY <2>1, <2>3 DEF Locked, Saying
  <2>5. Locked(r) /\ Aims(q) = Aims(r)
    BY <2>1, <2>2, <2>4 DEF Locked, Saying, Aims
  <2>6. \A c \in Aims(q) : OpenTo(q, c)
    BY <1>5, <2>1, <2>5, OpenSame
  <2>7. UNCHANGED <<cur, clients, subs, door>>
    BY <1>9 DEF Send
  <2> QED
    BY <1>7, <2>1, <2>4, <2>6, <2>7
<1>10. CASE DecideAttach(t)
  <2>1. /\ q.op = "attach" /\ q.set = cur /\ q.at = r.at /\ r.at \in Present /\ (q.orphan => Live(r.at) = {})
    BY <1>1, <1>3, <1>10, DecideAttachMoves DEF Same
  <2>2. Aims(q) = {r.at}
    BY <2>1 DEF Aims
  <2>3. OpenTo(q, r.at)
    BY <2>1 DEF OpenTo, NoneLockedIn, Present
  <2>4. UNCHANGED <<cur, clients, subs, door>>
    BY <1>10 DEF DecideAttach, history
  <2> QED
    BY <1>7, <2>1, <2>2, <2>3, <2>4
<1>11. CASE DecideClaim(t)
  <2>1. /\ q.op = "claim" /\ q.set = cur /\ r.at \in Present /\ MayAct(r.conn, r.at) /\ q.conn = r.conn
        /\ q.todo = Swept(r.at)
    BY <1>1, <1>3, <1>11, DecideClaimMoves DEF Same
  <2>2. Aims(q) = Swept(r.at)
    BY <2>1 DEF Aims
  <2>3. DOMAIN <<>> = {}
    OBVIOUS
  <2>4. \A c \in Swept(r.at) : c \in Present /\ (Live(c) = {} \/ q.conn \in Live(c))
    BY <2>1, <2>3 DEF Swept, Live, MayAct, Range
  <2>5. \A c \in Aims(q) : OpenTo(q, c)
    BY <2>1, <2>2, <2>4, DecidedOpen
  <2>6. UNCHANGED <<cur, clients, subs, door>>
    BY <1>11 DEF DecideClaim, history
  <2> QED
    BY <1>7, <2>1, <2>5, <2>6
<1>12. CASE ActClaim(t)
  <2>1. PICK d \in r.todo :
          /\ d \in Cids /\ r.set[d] \in 1..MaxLives
          /\ Enters(t, d, r.set[d], TakenOver(SetOf(t, d), r.conn))
          /\ q.op = r.op /\ q.conn = r.conn /\ q.todo = r.todo \ {d} /\ q.set = r.set
    BY <1>3, <1>12, ActClaimMoves DEF Same
  <2>2. r.op = "claim" /\ r.pc = "act"
    BY <1>3, <1>12, ActClaimMoves
  <2>3. Locked(r) /\ Aims(r) = r.todo /\ Aims(q) = r.todo \ {d}
    BY <2>1, <2>2 DEF Locked, Aims
  <2>4. cur' = cur /\ clients' = clients
    BY <1>12 DEF ActClaim
  <2>5. \A c \in Aims(q) : OpenTo(q, c)
    <3>1. ASSUME NEW c \in Aims(q) PROVE OpenTo(q, c)
      <4>1. OpenTo(r, c)
        BY <1>5, <2>3
      <4> QED
        BY <2>1, <2>2, <4>1 DEF OpenTo
    <3> QED
      BY <3>1
  <2>6. ASSUME NEW c \in Aims(q) PROVE subs'[c] = subs[c] /\ \A y : door'[y][c] = door[y][c]
    <3>1. c # d /\ c \in Cids
      BY <1>6, <2>3, <2>6
    <3>2. subs' = [subs EXCEPT ![d][r.set[d]] = TakenOver(SetOf(t, d), r.conn)]
      BY <2>1 DEF Enters, PutOut
    <3>3. PICK v : door' = [door EXCEPT ![r.conn][d] = v]
      BY <1>3, <2>1 DEF Enters
    <3>4. subs \in [Cids -> [1..MaxLives -> SetRec]] /\ door \in [Conns -> [Cids -> Doors]]
      BY DEF Base, SetsTyped, Typed
    <3>5. subs'[c] = subs[c]
      BY <3>1, <3>2, <3>4
    <3>6. r.conn \in Conns
      BY <1>3, <1>12, ActClaimMoves
    <3>7. \A y : door'[y][c] = door[y][c]
      BY <2>1, <3>1, <3>3, <3>4, <3>6
    <3> QED
      BY <3>5, <3>7
  <2> QED
    BY <1>2, <1>6, <2>1, <2>2, <2>4, <2>5, <2>6, StillOpen
<1>13. CASE RemoveSession(t)
  <2>1. /\ r.pc = "remove" /\ q.op = r.op /\ q.conn = r.conn /\ q.pc = "stopilm" /\ q.at = r.at /\ q.todo = r.todo
        /\ r.at \in Cids
    BY <1>1, <1>3, <1>13, RemoveMoves DEF Same
  <2>2. q.op = "orphan"
    BY <2>1 DEF Locked, Saying
  <2>3. Locked(r) /\ Aims(r) = r.todo \cup {r.at} /\ Aims(q) = r.todo
    BY <2>1, <2>2 DEF Locked, Aims
  <2>4. \A c \in Aims(q) : OpenTo(q, c) /\ c # r.at
    BY <1>5, <2>1, <2>2, <2>3, OpenSame
  <2>5. cur' = [cur EXCEPT ![r.at] = 0] /\ UNCHANGED <<clients, subs, door>>
    BY <1>3, <1>13 DEF RemoveSession, history
  <2>6. \A c \in Aims(q) : cur'[c] = cur[c]
    BY <1>6, <2>4, <2>5 DEF Base, Typed
  <2> QED
    BY <1>2, <1>5, <1>6, <2>1, <2>2, <2>3, <2>4, <2>5, <2>6, StillOpen
<1>14. CASE StopIlm(t)
  <2>1. /\ r.pc = "stopilm" /\ q.op = r.op /\ q.conn = r.conn /\ q.pc = "stopsup" /\ q.at = r.at /\ q.todo = r.todo
    BY <1>3, <1>14, StopIlmMoves DEF Same
  <2>2. q.op = "orphan"
    BY <2>1 DEF Locked, Saying
  <2>3. Locked(r) /\ Aims(r) = r.todo /\ Aims(q) = r.todo
    BY <2>1, <2>2 DEF Locked, Aims
  <2>4. \A c \in Aims(q) : OpenTo(q, c)
    BY <1>5, <2>1, <2>2, <2>3, OpenSame
  <2>5. UNCHANGED <<cur, clients, subs, door>>
    BY <1>14 DEF StopIlm
  <2> QED
    BY <1>5, <1>7, <2>1, <2>2, <2>3, <2>4, <2>5
<1>15. CASE StopSupervisor(t)
  <2>1. r.pc = "stopsup" /\ q.op = r.op /\ q.conn = r.conn
    BY <1>1, <1>3, <1>15, StopSupervisorMoves DEF Same
  <2>2. r.op = "orphan" /\ q.pc = "remove" /\ q.at \in r.todo /\ q.todo = r.todo \ {q.at}
    BY <1>1, <1>3, <1>15, <2>1, StopSupervisorMoves
  <2>3. Locked(r) /\ Aims(r) = r.todo /\ Aims(q) = r.todo
    BY <2>1, <2>2 DEF Locked, Aims
  <2>4. \A c \in Aims(q) : OpenTo(q, c)
    BY <1>5, <2>1, <2>2, <2>3, OpenSame
  <2>5. UNCHANGED <<cur, clients, subs, door>>
    BY <1>15 DEF StopSupervisor, history
  <2> QED
    BY <1>7, <2>2, <2>4, <2>5
<1>16. ~Unlocks(t)
  BY UnlocksIs
<1> QED
  BY <1>8, <1>9, <1>10, <1>11, <1>12, <1>13, <1>14, <1>15, <1>16 DEF Steps, Unlocks

LEMMA OwnStarts ==
    ASSUME Base, ComesOnce, NEW t \in Tasks, Starts(t), NEW q, task'[t] = q, Locked(q)
    PROVE  (q.op = "orphan" => q.at \notin q.todo) /\ \A c \in Aims(q) : OpenTo(q, c)'
<1>1. PICK x \in Conns, which \in SUBSET Cids : DisconnectOrphan(t, x, which)
  BY StartsLock
<1>2. /\ q.op = "orphan" /\ q.pc = "remove" /\ q.conn = x /\ q.at \in which /\ q.todo = which \ {q.at}
  BY <1>1, OrphanBegins
<1>3. Aims(q) = which
  BY <1>2 DEF Aims
<1>4. which = Orphans \/ \E c \in Present : which = {c} /\ MayAct(x, c)
  BY <1>1 DEF DisconnectOrphan
<1>5. \A c \in which : c \in Present /\ (Live(c) = {} \/ x \in Live(c))
  BY <1>4 DEF Orphans, MayAct
<1>6. \A c \in which : OpenTo(q, c)
  BY <1>2, <1>5, DecidedOpen
<1>7. UNCHANGED <<cur, clients, subs, door>>
  BY <1>1 DEF DisconnectOrphan, history
<1>8. \A u \in Tasks : Leaving(task'[u]) => Leaving(task[u]) /\ task'[u].conn = task[u].conn
  <2>1. PICK p : Move(t, p)
    BY StartsBegin DEF Begun
  <2> QED
    BY <1>2, <2>1, MoveIs DEF Leaving
<1>9. \A c \in which : OpenTo(q, c)'
  BY <1>6, <1>7, <1>8, StillOpen
<1> QED
  BY <1>2, <1>3, <1>9

LEMMA AimsKeep ==
    ASSUME Base, ComesOnce, LockHeld, AimsAreOpen, Next
    PROVE  AimsAreOpen'
<1>1. ASSUME NEW t \in Tasks, Steps(t) \/ Starts(t) PROVE AimsAreOpen'
  <2>1. PICK p : Move(t, p)
    BY <1>1, StepsMove, StartsBegin DEF Moves, Begun
  <2>2. \A u \in Tasks \ {t} : task'[u] = task[u]
    BY <2>1, MoveIs
  <2>3. ASSUME NEW u \in Tasks, NEW q, q = task'[u], Locked(q)
        PROVE  (q.op = "orphan" => q.at \notin q.todo) /\ \A c \in Aims(q) : OpenTo(q, c)'
    <3>1. CASE u = t
      BY <1>1, <2>3, <3>1, OwnSteps, OwnStarts
    <3>2. CASE u # t
      <4>1. q = task[u] /\ mapLock = u
        BY <2>2, <2>3, <3>2 DEF LockHeld
      <4>2. (q.op = "orphan" => q.at \notin q.todo) /\ \A c \in Aims(q) : OpenTo(q, c)
        BY <2>3, <4>1 DEF AimsAreOpen
      <4>3. Aims(q) \subseteq Cids
        <5>1. Placed(q) /\ q.todo \in SUBSET Cids
          BY <4>1, TaskIs
        <5> QED
          BY <2>3, <5>1 DEF Aims, Placed, Elsewhere, Locked
      <4>4. ASSUME NEW c \in Aims(q) PROVE OpenTo(q, c)'
        BY <1>1, <3>2, <4>1, <4>2, <4>3, LockedOpen
      <4> QED
        BY <4>2, <4>4
    <3> QED
      BY <3>1, <3>2
  <2>4. ASSUME NEW u \in Tasks, Locked(task'[u])
        PROVE  /\ task'[u].op = "orphan" => task'[u].at \notin task'[u].todo
               /\ \A c \in Aims(task'[u]) : OpenTo(task[u], c)'
    <3>1. PICK q : q = task'[u]
      OBVIOUS
    <3>2. (q.op = "orphan" => q.at \notin q.todo) /\ \A c \in Aims(q) : OpenTo(q, c)'
      BY <2>3, <2>4, <3>1
    <3>3. ASSUME NEW c \in Aims(q) PROVE OpenTo(task[u], c)'
      <4>1. OpenTo(q, c)'
        BY <3>2
      <4> QED
        BY <3>1, <4>1 DEF OpenTo, Stays
    <3> QED
      BY <3>1, <3>2, <3>3
  <2> QED
    BY <2>4 DEF AimsAreOpen, Locked, Saying, Aims
<1>2. ASSUME NEW x \in Conns, Open(x) PROVE AimsAreOpen'
  <2>1. x \in fresh /\ clients' = clients \cup {x} /\ UNCHANGED <<task, cur, subs, door>>
    BY <1>2 DEF Open, history
  <2>2. ASSUME NEW u \in Tasks, Locked(task[u]) PROVE \A c \in Aims(task[u]) : OpenTo(task[u], c)'
    <3>1. PICK q : q = task[u]
      OBVIOUS
    <3>2. Aims(q) \subseteq Cids
      <4>1. Placed(q) /\ q.todo \in SUBSET Cids
        BY <3>1, TaskIs
      <4> QED
        BY <2>2, <3>1, <4>1 DEF Aims, Placed, Elsewhere, Locked
    <3>3. ASSUME NEW c \in Aims(q) PROVE OpenTo(q, c)'
      <4>1. OpenTo(q, c) /\ c \in Cids
        BY <2>2, <3>1, <3>2 DEF AimsAreOpen
      <4>2. cur[c] \in 1..MaxLives
        BY <4>1, MembershipAssumption DEF OpenTo, Base, Typed
      <4>3. Range(Here(c).order) \cap fresh = {}
        BY <4>1, <4>2 DEF Here, ComesOnce
      <4> QED
        BY <2>1, <4>1, <4>3, OpenKeeps DEF Here
    <3>4. ASSUME NEW c \in Aims(task[u]) PROVE OpenTo(task[u], c)'
      <4>1. OpenTo(q, c)' /\ q = task'[u]
        BY <2>1, <3>1, <3>3
      <4> QED
        BY <4>1 DEF OpenTo, Stays
    <3> QED
      BY <3>4
  <2>3. \A u \in Tasks : Locked(task[u]) => (task[u].op = "orphan" => task[u].at \notin task[u].todo)
    BY DEF AimsAreOpen
  <2> QED
    BY <2>1, <2>2, <2>3 DEF AimsAreOpen, Locked, Saying, Aims
<1>3. ASSUME Rest PROVE AimsAreOpen'
  BY <1>3 DEF Rest, vars, agent, history, AimsAreOpen, Locked, Saying, Aims, OpenTo, Stays, NoneLockedIn,
              Live, Here, Has, Leaving
<1> QED
  BY <1>1, <1>2, <1>3 DEF Next

\* The inductive invariant.
Inv == Base /\ ComesOnce /\ OwedAreTold /\ LockHeld /\ AimsAreOpen

LEMMA InvInit == Init => Inv
<1> SUFFICES ASSUME Init PROVE Inv OBVIOUS
<1>1. \A c \in Cids, l \in 1..MaxLives : subs[c][l].order = <<>>
  BY DEF Init, EmptySet
<1>2. Base /\ clients = {} /\ owed = {}
  BY BaseInit DEF Init
<1>3. \A t \in Tasks : task[t].conn = None /\ task[t].op = "none"
  BY IdleGood DEF Init
<1>4. DOMAIN <<>> = {}
  OBVIOUS
<1>5. Range(<<>>) = {}
  BY <1>4 DEF Range
<1>6. None \notin fresh
  BY MembershipAssumption DEF Init
<1>7. ComesOnce /\ OwedAreTold
  BY <1>1, <1>2, <1>3, <1>5, <1>6 DEF ComesOnce, OwedAreTold
<1>8. \A t \in Tasks : ~Locked(task[t])
  BY <1>3 DEF Locked
<1> QED
  BY <1>2, <1>7, <1>8 DEF Inv, LockHeld, AimsAreOpen

LEMMA InvNext == Inv /\ [Next]_vars => Inv'
<1>1. ASSUME Inv, Next PROVE Inv'
  BY <1>1, BaseKeeps, ComesOnceKeeps, OwedKeeps, LockKeeps, AimsKeep DEF Inv
<1>2. ASSUME Inv, UNCHANGED vars PROVE Inv'
  <2>1. Base'
    BY <1>2, BaseStutters DEF Inv
  <2>2. ComesOnce' /\ OwedAreTold' /\ LockHeld'
    BY <1>2 DEF Inv, vars, agent, history, ComesOnce, OwedAreTold, Tells, LockHeld, Locked, Saying
  <2>3. AimsAreOpen'
    BY <1>2 DEF Inv, vars, agent, history, AimsAreOpen, Locked, Saying, Aims, OpenTo, Stays, NoneLockedIn,
                Live, Here, Has, Leaving
  <2> QED
    BY <2>1, <2>2, <2>3 DEF Inv
<1> QED
  BY <1>1, <1>2

\* A claim and an attach put nobody out that came in by one.
LEMMA ActPutsOut ==
    ASSUME Inv, Next, NEW t \in Tasks, task'[t] # task[t], task[t].pc = "act", NEW x \in clients, NEW c \in Present,
           Has(Here(c), x), x # task[t].conn, door[x][c] \in {"claim", "attach"}
    PROVE  Has(subs'[c][cur[c]], x)
<1>1. Base /\ LockHeld /\ AimsAreOpen
  BY DEF Inv
<1>2. Steps(t) \/ Starts(t)
  <2>1. ASSUME NEW u \in Tasks, Steps(u) \/ Starts(u) PROVE u = t
    <3>1. PICK q : Move(u, q)
      BY <1>1, <2>1, StepsMove, StartsBegin DEF Moves, Begun
    <3> QED
      BY <1>1, <3>1, MoveIs
  <2>2. ASSUME NEW y \in Conns, Open(y) PROVE FALSE
    BY <2>2 DEF Open
  <2>3. ~Rest
    BY DEF Rest, vars, agent
  <2> QED
    BY <2>1, <2>2, <2>3 DEF Next
<1>3. ActAttach(t) \/ ActClaim(t) \/ Claimed(t)
  <2>1. ~Starts(t)
    BY <1>1, StartsBegin, IdleGood DEF Begun
  <2> QED
    BY <1>2, <2>1 DEF Steps, At, Say, Send, Forget, Leave, Released, AskSdk, DecideAttach, DecideClaim, Tracked,
                      GetSet, Take, Resume, SignIn, Host, Loaded, Displace, Supervise, RemoveSession, StopIlm,
                      StopSupervisor
<1>4. PICK r : r = task[t]
  OBVIOUS
<1>5. c \in Cids /\ cur[c] \in 1..MaxLives /\ x \in Live(c)
  BY <1>1, MembershipAssumption DEF Base, Typed, Present, Live, Has
<1>6. CASE Claimed(t)
  BY <1>6 DEF Claimed, Here
\* Of the account it acts on, its decision stands; the others are left alone.
<1>7. ASSUME NEW d \in Cids, NEW l \in 1..MaxLives, NEW new, Enters(t, d, l, new), l = r.set[d], d \in Aims(r),
             Locked(r), r.op \in {"claim", "attach"}, r.conn \in Conns,
             \/ new = TakenOver(subs[d][l], r.conn) /\ (r.op = "attach" => r.orphan)
             \/ new = Attached(subs[d][l], r.conn)
      PROVE  Has(subs'[c][cur[c]], x)
  <2>1. subs' = [subs EXCEPT ![d][l] = new] /\ subs \in [Cids -> [1..MaxLives -> SetRec]]
    BY <1>1, <1>7 DEF Enters, PutOut, Base, SetsTyped
  <2>2. CASE c # d
    <3>1. subs'[c] = subs[c]
      BY <1>5, <2>1, <2>2
    <3> QED
      BY <3>1 DEF Here
  <2>3. CASE c = d
    <3>1. OpenTo(r, c)
      BY <1>1, <1>4, <1>7, <2>3 DEF AimsAreOpen
    <3>2. l = cur[c]
      BY <1>7, <2>3, <3>1 DEF OpenTo
    <3>3. subs'[c][cur[c]] = new
      BY <1>7, <2>1, <2>3, <3>2
    <3>4. x \in Range(subs[c][l].order)
      BY <3>2 DEF Has, Here
    <3>5. GoodSet(subs[c][l])
      BY <1>1, <1>7, <2>3, SetIs
    <3>6. CASE new = Attached(subs[d][l], r.conn)
      <4>1. Range(new.order) = Range(subs[c][l].order) \cup {r.conn}
        BY <1>7, <2>3, <3>5, <3>6, AttachedIs
      <4> QED
        BY <3>3, <3>4, <4>1 DEF Has
    <3>7. CASE new = TakenOver(subs[d][l], r.conn) /\ (r.op = "attach" => r.orphan)
      <4>1. ~NoneLockedIn(c)
        BY <1>5 DEF NoneLockedIn
      <4>2. Stays(r.conn, c)
        BY <3>1, <3>7, <4>1 DEF OpenTo
      <4>3. Has(subs[c][l], r.conn)
        BY <3>2, <4>2 DEF Stays, Here
      <4>4. Range(new.order) = Range(subs[c][l].order)
        BY <1>7, <2>3, <3>5, <3>7, <4>3, TakenOverIs
      <4> QED
        BY <3>3, <3>4, <4>4 DEF Has
    <3> QED
      BY <1>7, <3>6, <3>7
  <2> QED
    BY <2>2, <2>3
<1>8. CASE ActAttach(t)
  <2>1. /\ r.op = "attach" /\ r.pc = "act" /\ r.at \in Cids /\ r.conn \in Conns /\ r.set[r.at] \in 1..MaxLives
    BY <1>1, <1>4, <1>8, ActAttachMoves
  <2>2. PICK new : new = IF r.orphan THEN TakenOver(subs[r.at][r.set[r.at]], r.conn)
                         ELSE Attached(subs[r.at][r.set[r.at]], r.conn)
    OBVIOUS
  <2>3. Enters(t, r.at, r.set[r.at], new)
    BY <1>1, <1>4, <1>8, <2>2, ActAttachRedraws
  <2>4. Locked(r) /\ r.at \in Aims(r) /\ r.op \in {"claim", "attach"}
    BY <2>1 DEF Locked, Aims
  <2>5. r.orphan \in BOOLEAN
    BY <1>1, <1>4, TaskIs
  <2> QED
    BY <1>7, <2>1, <2>2, <2>3, <2>4, <2>5
<1>9. CASE ActClaim(t)
  <2>1. PICK d \in r.todo : /\ d \in Cids /\ r.set[d] \in 1..MaxLives
                            /\ Enters(t, d, r.set[d], TakenOver(subs[d][r.set[d]], r.conn))
    BY <1>1, <1>4, <1>9, ActClaimMoves DEF SetOf
  <2>2. r.op = "claim" /\ r.pc = "act" /\ r.conn \in Conns
    BY <1>1, <1>4, <1>9, ActClaimMoves
  <2>3. Locked(r) /\ d \in Aims(r)
    BY <2>1, <2>2 DEF Locked, Aims
  <2> QED
    BY <1>7, <2>1, <2>2, <2>3
<1> QED
  BY <1>3, <1>6, <1>8, <1>9

\* DisconnectOrphan ends no session that somebody came into so, but its own.
LEMMA OrphanEnds ==
    ASSUME Inv, Next, NEW t \in Tasks, task'[t] # task[t], task[t].pc = "remove", task[t].op = "orphan",
           NEW x \in clients, NEW c \in Present, Has(Here(c), x), door[x][c] \in {"claim", "attach"}, cur'[c] = 0
    PROVE  Has(Here(c), task[t].conn)
<1>1. Base /\ LockHeld /\ AimsAreOpen
  BY DEF Inv
<1>2. Steps(t) \/ Starts(t)
  <2>1. ASSUME NEW u \in Tasks, Steps(u) \/ Starts(u) PROVE u = t
    <3>1. PICK q : Move(u, q)
      BY <1>1, <2>1, StepsMove, StartsBegin DEF Moves, Begun
    <3> QED
      BY <1>1, <3>1, MoveIs
  <2>2. ASSUME NEW y \in Conns, Open(y) PROVE FALSE
    BY <2>2 DEF Open
  <2>3. ~Rest
    BY DEF Rest, vars, agent
  <2> QED
    BY <2>1, <2>2, <2>3 DEF Next
<1>3. RemoveSession(t)
  <2>1. ~Starts(t)
    BY <1>1, StartsBegin, IdleGood DEF Begun
  <2> QED
    BY <1>2, <2>1 DEF Steps, At, Say, Send, Forget, Leave, Released, AskSdk, DecideAttach, DecideClaim, ActAttach,
                      ActClaim, Claimed, Tracked, GetSet, Take, Resume, SignIn, Host, Loaded, Displace,
                      Supervise, StopIlm, StopSupervisor
<1>4. c = task[t].at
  <2>1. cur' = [cur EXCEPT ![task[t].at] = 0]
    BY <1>3 DEF RemoveSession
  <2> QED
    BY <1>1, <2>1 DEF Base, Typed, Present
<1>5. PICK r : r = task[t]
  OBVIOUS
<1>6. Locked(r) /\ c \in Aims(r)
  BY <1>4, <1>5 DEF Locked, Aims
<1>7. OpenTo(r, c) /\ ~NoneLockedIn(c)
  BY <1>1, <1>5, <1>6 DEF AimsAreOpen, NoneLockedIn, Live, Has
<1>8. Stays(r.conn, c)
  BY <1>5, <1>7 DEF OpenTo
<1> QED
  BY <1>5, <1>8 DEF Stays

\* A claim or an attach puts no window out of a session that came in by a claim or
\* an attach, and DisconnectOrphan ends no session such a window is in, unless
\* its own window is in it: each decides and acts under one hold of the map's
\* lock, and what it found stands until it has acted.  Only a Connect's
\* take-over, which takes no lock of the map, and a window that closes fall
\* between the two (connection_management_claim.rs, Step 5).
THEOREM DoorsExclude == Spec => LockedDoorsExclude
<1>1. Inv /\ [Next]_vars =>
        [\A t \in Tasks, x \in clients, c \in Present :
            LET r == task[t] IN
            /\ r # task'[t] /\ Has(Here(c), x) /\ x # r.conn /\ door[x][c] \in {"claim", "attach"}
            /\ \/ r.pc = "act" /\ cur'[c] = cur[c] /\ ~Has(subs'[c][cur[c]], x)
               \/ r.pc = "remove" /\ r.op = "orphan" /\ cur'[c] = 0
            => r.op = "orphan" /\ Has(Here(c), r.conn)]_vars
  BY ActPutsOut, OrphanEnds
<1> QED
  BY InvInit, InvNext, <1>1, PTL DEF Spec, LockedDoorsExclude
=============================================================================
