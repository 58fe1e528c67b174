-------------------------- MODULE IlmStore_proofs --------------------------
(***************************************************************************)
(* What a queue of IlmStore keeps, for every set of messages and calls and *)
(* every number of lost connections.                                       *)
(*                                                                         *)
(* KeptUnlessRaced is not inductive: that a write puts back what it should *)
(* depends on the read before it being still true, so on nobody having     *)
(* written since, so on the gate.  Inv says who holds the gate, that calls *)
(* under way are about different messages, and, unless a write landed that *)
(* no gate held, what each call knows of the queue.                        *)
(***************************************************************************)
EXTENDS IlmStore, TLAPS

\* A message is with one store at most, and no call is about a message that is
\* owed.
Distinct ==
    /\ owed \subseteq tried /\ gone \subseteq tried /\ owed \cap gone = {}
    /\ \A w \in Workers : call[w].msgs \subseteq tried /\ call[w].msgs \cap owed = {}
    /\ \A w \in Workers : call[w].kind = "store" =>
          /\ call[w].msgs \cap gone = {}
          /\ \A v \in Workers \ {w} : call[v].msgs \cap call[w].msgs = {}

\* What a mutation knows of the queue at each of its steps.
Knows(w) ==
    /\ At(w, "init") => Content = {}
    /\ At(w, "write") => blob # Absent /\ call[w].value = Changed(call[w], blob)
    /\ At(w, "done") =>
          /\ blob # Absent
          /\ call[w].kind = "store" => call[w].msgs \subseteq blob
          /\ call[w].kind = "clear" => call[w].msgs \cap blob = {}

Kept == owed \subseteq Content /\ gone \cap Content = {}
Accurate == Kept /\ \A w \in Workers : Mutates(w) => Knows(w)

Inv == Typed /\ Gated /\ Distinct /\ (raced \/ Accurate)

-----------------------------------------------------------------------------
\* A call as it begins is a call.
LEMMA CallType ==
    ASSUME NEW k \in Kinds \cup {"none"}, NEW ms \in SUBSET Messages, NEW p \in Pcs
    PROVE  Call(k, ms, p) \in Calls
BY DEF Call, Calls

\* The initial states: no call, nothing owed.
LEMMA InitInv == Init => Inv
<1> SUFFICES ASSUME Init PROVE Inv
  OBVIOUS
<1>1. Typed
  <2>1. Idle \in Calls
    BY CallType DEF Idle, Kinds, Pcs
  <2>2. losses \in 0..MaxLosses
    BY IlmStoreAssumption DEF Init
  <2>3. raced \in BOOLEAN
    BY DEF Init
  <2> QED
    BY <2>1, <2>2, <2>3 DEF Init, Typed
<1>2. Gated /\ Distinct
  BY DEF Init, Gated, At, Distinct, Idle, Call, Mutates
<1>3. Accurate
  BY DEF Init, Accurate, Kept, Knows, Content, Idle, Call, Mutates
<1> QED
  BY <1>1, <1>2, <1>3 DEF Inv

-----------------------------------------------------------------------------
(* One lemma per action.                                                   *)

\* A new store is about a message nobody had.
LEMMA StoreStep ==
    ASSUME Inv, NEW w \in Workers, NEW m \in Messages, Store(w, m)
    PROVE  Inv'
<1> USE DEF Inv
<1>1. Call("store", {m}, "gate") \in Calls
  BY CallType DEF Kinds, Pcs
<1>2. Typed'
  BY <1>1 DEF Store, Set, Typed
<1>3. Gated'
  BY DEF Typed, Gated, At, Store, Set, Mutates, Call
<1>4. Distinct'
  BY DEF Typed, Distinct, Store, Set, Call
<1>5. Accurate => Accurate'
  BY DEF Typed, Accurate, Kept, Knows, Content, At, Mutates, Store, Set, Call, Changed
<1>6. raced' = raced
  BY DEF Store
<1> QED
  BY <1>2, <1>3, <1>4, <1>5, <1>6

\* A clear takes its messages from the owed ones.
LEMMA ClearStep ==
    ASSUME Inv, NEW w \in Workers, NEW ms \in SUBSET owed, Clear(w, ms)
    PROVE  Inv'
<1> USE DEF Inv
<1>0. ms \in SUBSET Messages
  BY DEF Typed
<1>1. Call("clear", ms, "gate") \in Calls
  BY <1>0, CallType DEF Kinds, Pcs
<1>2. Typed'
  BY <1>1 DEF Clear, Set, Typed
<1>3. Gated'
  BY DEF Typed, Gated, At, Clear, Set, Mutates, Call
<1>4. Distinct'
  BY DEF Typed, Distinct, Clear, Set, Call, Idle
<1>5. Accurate => Accurate'
  BY DEF Typed, Accurate, Kept, Knows, Content, At, Mutates, Clear, Set, Call, Changed
<1>6. raced' = raced
  BY DEF Clear
<1> QED
  BY <1>2, <1>3, <1>4, <1>5, <1>6

\* A read of the pending messages begins: no mutation.
LEMMA PendingStep ==
    ASSUME Inv, NEW w \in Workers, Pending(w)
    PROVE  Inv'
<1> USE DEF Inv
<1>1. Call("pending", {}, "read") \in Calls
  BY CallType DEF Kinds, Pcs
<1>2. Typed'
  BY <1>1 DEF Pending, Set, Typed
<1>3. Gated'
  BY DEF Typed, Gated, At, Pending, Set, Mutates, Call
<1>4. Distinct'
  BY DEF Typed, Distinct, Pending, Set, Call
<1>5. Accurate => Accurate'
  BY DEF Typed, Accurate, Kept, Knows, Content, At, Mutates, Pending, Set, Call, Changed
<1>6. raced' = raced
  BY DEF Pending
<1> QED
  BY <1>2, <1>3, <1>4, <1>5, <1>6

\* A call passes the gate, which was free: nobody else is past it.
LEMMA EnterStep ==
    ASSUME Inv, NEW w \in Workers, Enter(w)
    PROVE  Inv'
<1> USE DEF Inv
<1>1. Typed'
  BY DEF Enter, Goto, Set, Typed, Calls, Pcs
<1>2. Gated'
  BY IlmStoreAssumption DEF Typed, Calls, Gated, At, Enter, Lock, Goto, Set, Mutates
<1>3. Distinct'
  BY DEF Typed, Calls, Distinct, Enter, Goto, Set
<1>4. Accurate => Accurate'
  BY DEF Typed, Calls, Accurate, Kept, Knows, Content, At, Mutates, Enter, Goto, Set, Changed
<1>5. raced' = raced
  BY DEF Enter
<1> QED
  BY <1>1, <1>2, <1>3, <1>4, <1>5

\* What a change makes of a set of messages is one.
LEMMA ChangedType ==
    ASSUME NEW c \in Calls, NEW s \in SUBSET Messages
    PROVE  Changed(c, s) \in SUBSET Messages
BY DEF Changed, Calls

\* The read: what it found is what the write is made from.
LEMMA ReadStep ==
    ASSUME Inv, NEW w \in Workers, Read(w)
    PROVE  Inv'
<1> USE DEF Inv
<1>0. call[w] \in Calls /\ (blob # Absent => Changed(call[w], blob) \in SUBSET Messages)
  BY ChangedType DEF Typed
<1>1. Typed'
  BY <1>0 DEF Read, Writing, Goto, Set, Typed, Calls, Pcs
<1>2. Gated'
  BY <1>0 DEF Typed, Calls, Gated, Read, At, Writing, Goto, Set, Mutates
<1>3. Distinct'
  BY <1>0 DEF Typed, Calls, Distinct, Read, Writing, Goto, Set
<1>4. Accurate => Accurate'
  <2> SUFFICES ASSUME Accurate PROVE Accurate'
    OBVIOUS
  <2>1. Kept' /\ blob' = blob /\ Content' = Content
    BY DEF Accurate, Kept, Content, Read
  <2>2. ASSUME NEW v \in Workers, Mutates(v)' PROVE Knows(v)'
    <3>1. CASE v # w
      <4>1. call'[v] = call[v]
        BY <3>1 DEF Typed, Read, Goto, Set
      <4> QED
        BY <2>1, <2>2, <4>1 DEF Accurate, Knows, At, Mutates
    <3>2. CASE v = w /\ blob = Absent
      <4>1. call'[w].pc = "init" /\ Content = {}
        BY <1>0, <3>2 DEF Typed, Calls, Read, Goto, Set, Content
      <4> QED
        BY <2>1, <3>2, <4>1 DEF Knows, At
    <3>3. CASE v = w /\ blob # Absent
      <4>1. Mutates(w)
        BY <1>0, <2>2, <3>3 DEF Typed, Calls, Mutates, Read, Goto, Set
      <4>2. call'[w] = Writing(call[w], blob)
        BY <3>3, <4>1 DEF Typed, Read, Set
      <4> QED
        BY <2>1, <3>3, <4>2 DEF Knows, At, Writing, Changed
    <3> QED
      BY <3>1, <3>2, <3>3
  <2> QED
    BY <2>1, <2>2 DEF Accurate
<1>5. raced' = raced
  BY DEF Read
<1> QED
  BY <1>1, <1>2, <1>3, <1>4, <1>5

\* A step that leaves what the calls are about keeps them distinct.
LEMMA DistinctFrame ==
    ASSUME Distinct, owed' = owed, gone' = gone, tried' = tried,
           \A v \in Workers : call'[v].kind = call[v].kind /\ call'[v].msgs = call[v].msgs
    PROVE  Distinct'
BY DEF Distinct

\* The initialisation: by the call at the gate, of an empty queue; by another,
\* of one that is not there, or it is a race.
LEMMA InitializeStep ==
    ASSUME Inv, NEW w \in Workers, Initialize(w)
    PROVE  Inv'
<1> USE DEF Inv
<1>0. call[w] \in Calls /\ Changed(call[w], {}) \in SUBSET Messages
  BY ChangedType DEF Typed
<1>1. Typed'
  <2>1. raced' \in BOOLEAN
    BY DEF Initialize, Land
  <2>2. (blob \in (SUBSET Messages) \cup {Absent})' /\ (call \in [Workers -> Calls])'
    BY <1>0 DEF Initialize, Land, Writing, Goto, Set, Typed, Calls, Pcs
  <2> QED
    BY <2>1, <2>2 DEF Initialize, Land, Typed
<1>2. Gated'
  BY <1>0 DEF Typed, Calls, Gated, Initialize, Land, At, Writing, Goto, Set, Mutates
<1>3. Distinct'
  <2>1. \A v \in Workers : call'[v].kind = call[v].kind /\ call'[v].msgs = call[v].msgs
    BY <1>0 DEF Typed, Calls, Initialize, Writing, Goto, Set
  <2> QED
    BY <2>1, DistinctFrame DEF Initialize, Land
<1>4. ASSUME ~raced' PROVE Accurate'
  <2>1. Accurate /\ (Mutates(w) \/ blob = Absent)
    BY <1>4 DEF Initialize, Land
  <2>2. blob' = {} /\ blob' # Absent /\ Content = {} /\ Content' = {}
    BY <2>1, IlmStoreAssumption DEF Accurate, Knows, Initialize, Land, Content
  <2>3. Kept'
    BY <2>1, <2>2 DEF Accurate, Kept, Initialize, Land
  <2>4. ASSUME NEW v \in Workers, Mutates(v)' PROVE Knows(v)'
    <3>1. CASE v = w
      <4>1. call'[w].kind = call[w].kind /\ call'[w].msgs = call[w].msgs /\ Mutates(w)
        BY <1>0, <2>4, <3>1 DEF Calls, Typed, Mutates, Initialize, Writing, Goto, Set
      <4>2. call'[w].pc = "write" /\ call'[w].value = Changed(call[w], {})
        BY <1>0, <4>1 DEF Calls, Typed, Initialize, Writing, Set
      <4> QED
        BY <2>2, <3>1, <4>1, <4>2 DEF Knows, At, Changed
    <3>2. CASE v # w
      <4>1. call'[v] = call[v] /\ Mutates(v)
        BY <3>2, <2>4 DEF Typed, Mutates, Initialize, Writing, Goto, Set
      <4>2. ~At(v, "write") /\ ~At(v, "done")
        BY <2>1, <3>2, <4>1, <2>2 DEF Accurate, Knows, Gated, At, Initialize
      <4> QED
        BY <4>1, <4>2, <2>2 DEF Knows, At
    <3> QED
      BY <3>1, <3>2
  <2> QED
    BY <2>3, <2>4 DEF Accurate
<1> QED
  BY <1>1, <1>2, <1>3, <1>4

\* The write, by the call at the gate or, of a call that is no mutation, never.
LEMMA WriteStep ==
    ASSUME Inv, NEW w \in Workers, Write(w)
    PROVE  Inv'
<1> USE DEF Inv
<1>0. call[w] \in Calls /\ call[w].value \in SUBSET Messages
  BY DEF Typed, Calls
<1>1. Typed'
  <2>1. raced' \in BOOLEAN
    BY DEF Write, Land
  <2>2. (blob \in (SUBSET Messages) \cup {Absent})' /\ (call \in [Workers -> Calls])'
    BY <1>0 DEF Write, Land, Goto, Set, Typed, Calls, Pcs
  <2> QED
    BY <2>1, <2>2 DEF Write, Land, Typed
<1>2. Gated'
  BY <1>0 DEF Typed, Calls, Gated, Write, Land, At, Goto, Set, Mutates
<1>3. Distinct'
  <2>1. \A v \in Workers : call'[v].kind = call[v].kind /\ call'[v].msgs = call[v].msgs
    BY <1>0 DEF Typed, Calls, Write, Goto, Set
  <2> QED
    BY <2>1, DistinctFrame DEF Write, Land
<1>4. ASSUME ~raced' PROVE Accurate'
  <2>1. Accurate /\ Mutates(w)
    BY <1>4 DEF Write, Land, Gated
  <2>2. /\ blob # Absent /\ blob' # Absent /\ blob' = Changed(call[w], blob)
        /\ Content = blob /\ Content' = blob'
    <3>1. blob # Absent /\ blob' = Changed(call[w], blob)
      BY <2>1 DEF Accurate, Knows, Write, Land
    <3>2. blob' # Absent
      BY <1>0, IlmStoreAssumption DEF Write, Land
    <3> QED
      BY <3>1, <3>2 DEF Content
  <2>3. Kept'
    <3>1. owed' = owed /\ gone' = gone
      BY DEF Write, Land
    <3>2. /\ call[w].msgs \cap owed = {} /\ call[w].kind \in {"store", "clear"}
          /\ call[w].kind = "store" => call[w].msgs \cap gone = {}
      BY <2>1 DEF Distinct, Mutates
    <3> QED
      BY <2>1, <2>2, <3>1, <3>2 DEF Accurate, Kept, Changed
  <2>4. ASSUME NEW v \in Workers, Mutates(v)' PROVE Knows(v)'
    <3>1. CASE v = w
      <4>1. /\ call'[w].kind = call[w].kind /\ call'[w].msgs = call[w].msgs
            /\ call'[w].pc = "done" /\ call[w].kind \in {"store", "clear"}
        BY <1>0, <2>1 DEF Calls, Typed, Mutates, Write, Goto, Set
      <4> QED
        BY <2>2, <3>1, <4>1 DEF Knows, At, Changed
    <3>2. CASE v # w
      <4>1. call'[v] = call[v] /\ Mutates(v)
        BY <3>2, <2>4 DEF Typed, Mutates, Write, Goto, Set
      <4>2. ~At(v, "init") /\ ~At(v, "write") /\ ~At(v, "done")
        BY <2>1, <3>2, <4>1 DEF Gated, At, Write
      <4> QED
        BY <4>1, <4>2 DEF Knows, At
    <3> QED
      BY <3>1, <3>2
  <2> QED
    BY <2>3, <2>4 DEF Accurate
<1> QED
  BY <1>1, <1>2, <1>3, <1>4

\* The answer: the message is in the queue, or out of it, as it says.
LEMMA AnswerStep ==
    ASSUME Inv, NEW w \in Workers, Answer(w)
    PROVE  Inv'
<1> USE DEF Inv
<1>0. Idle \in Calls /\ call[w] \in Calls
  BY CallType DEF Typed, Idle, Kinds, Pcs
<1>1. Typed'
  BY <1>0 DEF Answer, Leave, Set, Typed, Calls
<1>2. Gated'
  BY <1>0 DEF Typed, Gated, At, Answer, Leave, Set, Mutates, Idle, Call
<1>3. Distinct'
  BY <1>0 DEF Typed, Calls, Distinct, Answer, Leave, Set, Idle, Call
<1>4. Accurate => Accurate'
  <2> SUFFICES ASSUME Accurate PROVE Accurate'
    OBVIOUS
  <2>1. Kept'
    BY <1>0 DEF Accurate, Kept, Knows, Content, At, Mutates, Answer
  <2>2. ASSUME NEW v \in Workers, Mutates(v)' PROVE Knows(v)'
    <3>1. v # w /\ call'[v] = call[v] /\ blob' = blob
      BY <2>2 DEF Typed, Mutates, Answer, Leave, Set, Idle, Call
    <3> QED
      BY <2>2, <3>1 DEF Accurate, Knows, Content, At, Mutates
  <2> QED
    BY <2>1, <2>2 DEF Accurate
<1>5. raced' = raced
  BY DEF Answer
<1> QED
  BY <1>1, <1>2, <1>3, <1>4, <1>5

\* A refusal leaves the queue and what is owed.
LEMMA RefuseStep ==
    ASSUME Inv, NEW w \in Workers, Refuse(w)
    PROVE  Inv'
<1> USE DEF Inv
<1>0. Idle \in Calls
  BY CallType DEF Idle, Kinds, Pcs
<1>1. Typed'
  BY <1>0 DEF Refuse, Abort, Leave, Set, Typed
<1>2. Gated'
  BY <1>0 DEF Typed, Gated, At, Refuse, Abort, Leave, Set, Mutates, Idle, Call
<1>3. Distinct'
  BY DEF Typed, Distinct, Refuse, Abort, Leave, Set, Idle, Call
<1>4. Accurate => Accurate'
  BY DEF Typed, Accurate, Kept, Knows, Content, At, Mutates, Refuse, Abort, Leave, Set, Idle,
     Call, Changed
<1>5. raced' = raced
  BY DEF Refuse
<1> QED
  BY <1>1, <1>2, <1>3, <1>4, <1>5

\* After a loss no call of a mutation is past the gate: what is left is late.
LEMMA LoseStep ==
    ASSUME Inv, Lose
    PROVE  Inv'
<1> USE DEF Inv
<1>0. Idle \in Calls
  BY CallType DEF Idle, Kinds, Pcs
<1>1. ASSUME NEW w \in Workers
      PROVE  /\ call'[w] = Idle \/ ( /\ call'[w] \in Calls /\ call'[w].pc = "late"
                                    /\ call'[w].kind = call[w].kind
                                    /\ call'[w].msgs = call[w].msgs )
  BY DEF Lose, Abandoned, Typed, Calls, Pcs
<1>2. Typed'
  <2>1. (call \in [Workers -> Calls])'
    <3>1. call' = [w \in Workers |-> Abandoned(w)]
      BY DEF Lose
    <3> QED
      BY <1>0, <1>1, <3>1
  <2>2. (losses \in 0..MaxLosses)'
    BY IlmStoreAssumption DEF Lose, Typed
  <2> QED
    BY <2>1, <2>2 DEF Lose, Typed
<1>3. Gated'
  BY <1>1 DEF Gated, At, Mutates, Idle, Call
<1>4. Distinct'
  BY <1>1 DEF Distinct, Lose, Idle, Call
<1>5. Accurate => Accurate'
  BY <1>1 DEF Lose, Accurate, Kept, Knows, Content, At, Idle, Call
<1>6. raced' = raced
  BY DEF Lose
<1> QED
  BY <1>2, <1>3, <1>4, <1>5, <1>6

\* A late write is a race; one that never lands is nothing.
LEMMA LandLateStep ==
    ASSUME Inv, NEW w \in Workers, LandLate(w)
    PROVE  Inv'
<1> USE DEF Inv
<1>0. Idle \in Calls /\ call[w] \in Calls
  BY CallType DEF Typed, Idle, Kinds, Pcs
<1>1. (raced' /\ raced' \in BOOLEAN) \/ UNCHANGED <<blob, raced>>
  BY DEF LandLate, Land
<1>2. UNCHANGED <<gate, losses, tried, owed, gone>>
  BY DEF LandLate, Land
<1>3. call' = [call EXCEPT ![w] = Idle]
  BY DEF LandLate, Set
<1>4. Typed'
  <2>1. raced' \in BOOLEAN
    BY <1>1 DEF Typed
  <2>2. (blob \in (SUBSET Messages) \cup {Absent})'
    BY <1>0 DEF LandLate, Land, Typed, Calls
  <2> QED
    BY <1>0, <1>2, <1>3, <2>1, <2>2 DEF Typed
<1>5. Gated'
  BY <1>2, <1>3 DEF Typed, Gated, At, Mutates, Idle, Call
<1>6. Distinct'
  BY <1>2, <1>3 DEF Typed, Distinct, Idle, Call
<1>7. Accurate /\ blob' = blob => Accurate'
  BY <1>2, <1>3 DEF Typed, Accurate, Kept, Knows, Content, At, Mutates, Idle, Call, Changed
<1> QED
  BY <1>1, <1>4, <1>5, <1>6, <1>7

-----------------------------------------------------------------------------
\* What the queue's correctness rests on is kept by every step.
THEOREM InvHolds == Spec => []Inv
<1>1. Inv /\ [Next]_vars => Inv'
  <2> SUFFICES ASSUME Inv, [Next]_vars PROVE Inv'
    OBVIOUS
  <2>1. CASE UNCHANGED vars
    BY <2>1 DEF vars, Inv, Typed, Gated, Distinct, Accurate, Kept, Knows, Content, At, Mutates,
       Changed
  <2>2. CASE Lose
    BY <2>2, LoseStep
  <2>3. ASSUME NEW w \in Workers, Begin(w) PROVE Inv'
    BY <2>3, StoreStep, ClearStep, PendingStep DEF Begin
  <2>4. ASSUME NEW w \in Workers, Go(w) PROVE Inv'
    BY <2>4, EnterStep, ReadStep, InitializeStep, WriteStep, AnswerStep, RefuseStep,
       LandLateStep DEF Go
  <2> QED
    BY <2>1, <2>2, <2>3, <2>4 DEF Next
<1> QED
  BY <1>1, InitInv, PTL DEF Spec

\* While no write landed outside the gate, what is reported stored is in the
\* queue until it is cleared and nothing reported cleared is back, whatever
\* mutations overlap, are refused or lose their connection (backend_map.rs,
\* mutate; backend.rs, get_map, update_map).
THEOREM KeptUnlessRacedHolds == Spec => []KeptUnlessRaced
<1>1. Inv => KeptUnlessRaced
  BY DEF Inv, Accurate, Kept, KeptUnlessRaced
<1> QED
  BY <1>1, InvHolds, PTL

\* Every call has a kind, a step and messages it may have, and the gate is with the
\* one mutation past it: no refusal and no lost connection leaves two mutations
\* between a read and its write (backend_map.rs, mutate).
THEOREM TypeCorrect == Spec => []TypeOK
<1>1. Inv => TypeOK
  BY DEF Inv, TypeOK
<1> QED
  BY <1>1, InvHolds, PTL
=============================================================================
