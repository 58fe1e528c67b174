------------------------------ MODULE IlmStore ------------------------------
(***************************************************************************)
(* One of the two message queues of an account's ILM, as it is kept        *)
(* (citadel-internal-service-connector/src/messenger/backend.rs,           *)
(* backend_map.rs, backend_channel.rs; kernel/ilm/channel.rs, backlog.rs). *)
(*                                                                         *)
(* The whole queue is one value under one key of the agent's store, so an  *)
(* addition or a removal reads all of it and writes all of it back.  A     *)
(* backend's mutations exclude each other by a gate held over both.  Reads *)
(* of the pending messages take no gate, and a read that finds no value    *)
(* writes an empty one.  Every request is a round trip to the agent, which *)
(* handles the requests it got in tasks of their own.                      *)
(*                                                                         *)
(* A backend ends with its connection: what waits for an answer fails, and *)
(* a request already at the agent may still be carried out.  The next      *)
(* backend of the account has a gate of its own.                           *)
(***************************************************************************)
EXTENDS Naturals

CONSTANTS
    Messages,     \* message ids; each is stored once
    Workers,      \* calls under way at once
    Absent,       \* no value under the key, or no message
    NoOne,        \* the gate is free
    MaxLosses     \* bound: connections that end

ASSUME IlmStoreAssumption ==
    /\ \A s \in SUBSET Messages : Absent # s
    /\ NoOne \notin Workers /\ MaxLosses \in Nat

VARIABLES
    blob,       \* the value under the key: a set of messages, or Absent
    gate,       \* the call that holds the current backend's gate
    call,       \* what each call does
    losses,     \* connections that ended: the number of the current backend
    \* History: what the properties speak of and no one keeps.
    tried,      \* messages whose store was called
    owed,       \* messages reported stored, that no clear was called for
    gone,       \* messages reported cleared
    raced       \* a write landed that no gate held: see Land

vars == <<blob, gate, call, losses, tried, owed, gone, raced>>

Kinds == {"store", "clear", "pending"}
Pcs == {"idle", "gate", "read", "init", "write", "done", "late"}

Call(kind, msgs, pc) == [kind |-> kind, msgs |-> msgs, pc |-> pc, value |-> {}]
Idle == Call("none", {}, "idle")
Calls == [kind : Kinds \cup {"none"}, msgs : SUBSET Messages, pc : Pcs,
          value : SUBSET Messages]

Typed ==
    /\ blob \in (SUBSET Messages) \cup {Absent}
    /\ gate \in Workers \cup {NoOne}
    /\ call \in [Workers -> Calls]
    /\ losses \in 0..MaxLosses
    /\ tried \subseteq Messages /\ owed \subseteq Messages /\ gone \subseteq Messages
    /\ raced \in BOOLEAN

Content == IF blob = Absent THEN {} ELSE blob
At(w, pc) == call[w].pc = pc
Mutates(w) == call[w].kind \in {"store", "clear"}
Set(w, c) == call' = [call EXCEPT ![w] = c]
Goto(w, pc) == Set(w, [call[w] EXCEPT !.pc = pc])

\* A mutation past the gate is the one that holds it, and only mutations write.
Gated ==
    \A w \in Workers :
        /\ Mutates(w) /\ call[w].pc \in {"read", "init", "write", "done"} => gate = w
        /\ At(w, "write") => Mutates(w)

\* The state has its type, and the gate is with the one mutation past it, over refused
\* requests and connections that end (backend_map.rs, mutate; backend_channel.rs,
\* abandon_all).
TypeOK == Typed /\ Gated

-----------------------------------------------------------------------------
(* Calls of ILM: store_outbound and store_inbound, the clears, and the     *)
(* pending messages, which the supervisor's backlog asks for as well.      *)

Store(w, m) ==
    /\ call[w] = Idle /\ m \in Messages \ tried
    /\ tried' = tried \cup {m}
    /\ Set(w, Call("store", {m}, "gate"))
    /\ UNCHANGED <<blob, gate, losses, owed, gone, raced>>

\* An empty set of ids is answered at once.  ILM clears what it has stored.
Clear(w, ms) ==
    /\ call[w] = Idle /\ ms # {} /\ ms \subseteq owed
    /\ owed' = owed \ ms
    /\ Set(w, Call("clear", ms, "gate"))
    /\ UNCHANGED <<blob, gate, losses, tried, gone, raced>>

Pending(w) ==
    /\ call[w] = Idle
    /\ Set(w, Call("pending", {}, "read"))
    /\ UNCHANGED <<blob, gate, losses, tried, owed, gone, raced>>

\* backend_map::mutate: the gate, the read, the change, the write.
LockFree(w) == TRUE
Lock(w) == gate = NoOne

Enter(w) ==
    /\ At(w, "gate") /\ Lock(w)
    /\ gate' = w
    /\ Goto(w, "read")
    /\ UNCHANGED <<blob, losses, tried, owed, gone, raced>>

Changed(c, state) == IF c.kind = "store" THEN state \cup c.msgs ELSE state \ c.msgs

\* The call goes on to write what it makes of the state it read.
Writing(c, state) ==
    [kind |-> c.kind, msgs |-> c.msgs, pc |-> "write", value |-> Changed(c, state)]

\* get_map: the value as it is, or none and an empty one to be written first.
Read(w) ==
    /\ At(w, "read")
    /\ IF blob = Absent THEN Goto(w, "init")
       ELSE IF Mutates(w)
       THEN Set(w, Writing(call[w], blob))
       ELSE Goto(w, "done")
    /\ UNCHANGED <<blob, gate, losses, tried, owed, gone, raced>>

\* A write reaches the store.  One outside the gate counts as a race when it may
\* undo another: an initialisation of a value that is there, or a write whose
\* caller was given up.
Land(w, value) ==
    /\ blob' = value
    /\ raced' = (raced \/ At(w, "late") \/ (~Mutates(w) /\ blob # Absent))
    /\ UNCHANGED <<gate, losses, tried, owed, gone>>

\* initialize_map
Initialize(w) ==
    /\ At(w, "init")
    /\ Land(w, {})
    /\ IF Mutates(w) THEN Set(w, Writing(call[w], {}))
       ELSE Goto(w, "done")

\* update_map
Write(w) ==
    /\ At(w, "write")
    /\ Land(w, call[w].value)
    /\ Goto(w, "done")

\* The call ends: the gate it holds is free again.
LeaveLocked(w) == gate' = gate /\ Set(w, Idle)
Leave(w) ==
    /\ gate' = IF gate = w THEN NoOne ELSE gate
    /\ Set(w, Idle)

\* write_outcome: the answer says it was written.
Answer(w) ==
    LET c == call[w] IN
    /\ At(w, "done")
    /\ Leave(w)
    /\ owed' = IF c.kind = "store" THEN owed \cup c.msgs ELSE owed
    /\ gone' = IF c.kind = "clear" THEN gone \cup c.msgs ELSE gone
    /\ UNCHANGED <<blob, losses, tried, raced>>

\* The agent refuses the read or the write: an error, and nothing is written.
\* (get_pending asks again when a read is refused for want of a connection: the
\* same state.)
Abort(w) == Leave(w)
Refuse(w) ==
    /\ call[w].pc \in {"read", "init", "write"}
    /\ Abort(w)
    /\ UNCHANGED <<blob, losses, tried, owed, gone, raced>>

-----------------------------------------------------------------------------
(* abandon_all_requests: the backend's connection ended.                   *)

\* Unanswered requests that nobody is told about: their calls wait on.
AbandonedWaits(w) == call[w]

\* What is left of a call: a write the agent has, or nothing.
Abandoned(w) ==
    LET c == call[w] IN
    CASE c.pc = "init" -> [c EXCEPT !.pc = "late", !.value = {}]
      [] c.pc = "write" -> [c EXCEPT !.pc = "late"]
      [] c.pc = "late" -> c
      [] OTHER -> Idle

Lose ==
    /\ losses < MaxLosses
    /\ losses' = losses + 1
    /\ gate' = NoOne
    /\ call' = [w \in Workers |-> Abandoned(w)]
    /\ UNCHANGED <<blob, tried, owed, gone, raced>>

\* The agent carries a write out that nobody waits for, or never does.
LandLate(w) ==
    /\ At(w, "late")
    /\ \/ Land(w, call[w].value)
       \/ UNCHANGED <<blob, raced, gate, losses, tried, owed, gone>>
    /\ Set(w, Idle)

-----------------------------------------------------------------------------
Init ==
    /\ blob \in {Absent, {}}
    /\ gate = NoOne /\ call = [w \in Workers |-> Idle] /\ losses = 0
    /\ tried = {} /\ owed = {} /\ gone = {} /\ raced = FALSE

Begin(w) == (\E m \in Messages : Store(w, m)) \/ (\E ms \in SUBSET owed : Clear(w, ms))
            \/ Pending(w)
Go(w) == Enter(w) \/ Read(w) \/ Initialize(w) \/ Write(w) \/ Answer(w) \/ Refuse(w)
         \/ LandLate(w)

Next == (\E w \in Workers : Begin(w) \/ Go(w)) \/ Lose
Spec == Init /\ [][Next]_vars

\* The agent answers every request it gets, and the gate is a queue.
FairSpec == Spec /\ \A w \in Workers : WF_vars(Go(w) /\ ~At(w, "gate")) /\ SF_vars(Enter(w))

-----------------------------------------------------------------------------
(* What holds.                                                             *)

\* While no write landed outside the gate, every message reported stored is in
\* the queue until it is cleared, and none reported cleared is back: mutations
\* that overlap lose nothing of each other's, refused ones included
\* (backend_map.rs, mutate).
KeptUnlessRaced == ~raced => owed \subseteq Content /\ gone \cap Content = {}

\* Every store and every clear comes to an end, answered, refused or given up:
\* no way out of a call keeps the gate (backend_channel.rs, send_and_wait).
MutationEnds == \A w \in Workers : Mutates(w) ~> ~Mutates(w)

-----------------------------------------------------------------------------
(* What comments of the code say and the code does not keep.               *)

\* "`backend_map::mutate` is now the only way to write either map, so a future
\* caller cannot reconstruct the unsynchronised sequence without noticing"
\* (backend.rs:228): a message reported stored is in the queue until it is
\* cleared.  The initialisation of an ungated read writes it as well.
KeptUntilCleared == owed \subseteq Content
=============================================================================
