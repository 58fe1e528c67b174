---------------------------- MODULE Peers_proofs ----------------------------
(* What a session has besides its link, for every number of callers, offers, *)
(* channels, pulls and reads: its peer's offers and registrations            *)
(* (PeersSound), its groups (GroupsSound) and the files it pulls             *)
(* (PullsSound).  Each part has an inductive invariant of its own: who holds *)
(* an offer, what is flagged before it is told, and which read of which      *)
(* record the page waits for.                                                *)
EXTENDS MCPeers, TLAPS

-----------------------------------------------------------------------------
(* The peer's offers and registrations.                                    *)

RegIds == 1 .. MaxRegs
Doers == Callers \cup OfferIds
Turns == Policies \cup {"absent"}
Places == {"idle", "query", "clear", "find", "turn", "connect", "propose", "respond", "responding",
           "decide", "check", "take", "answer", "send", "done"}
TaskRec == [at : Places, accept : BOOLEAN, of : Nat, turn : Turns]
Answers == {"none", "LeaveToWindows", "Decline", "NoAnswer", "Accept"}

\* Who holds an offer, or a registration, that was taken out of its place.
Answering(a) == task[a].at \in {"answer", "send"}
Responding(a) == task[a].at = "responding"

OffersTyped ==
    /\ offers \in 0 .. MaxOffers /\ offer \in 0 .. offers
    /\ answers \in [OfferIds -> Seq(BOOLEAN)]
    /\ decided \in [OfferIds -> Answers]

RegsTyped ==
    /\ regs \in 0 .. MaxRegs /\ reg \in 0 .. regs
    /\ regAnswers \in [RegIds -> Nat]

TasksTyped == task \in [Doers -> TaskRec] /\ relay \in Turns

\* An offer is in one place: waiting, or with one task that has yet to answer it.
OfferOnce ==
    /\ offer # 0 => answers[offer] = <<>>
    /\ \A o \in OfferIds : o > offers => answers[o] = <<>>
    /\ \A o \in OfferIds : Len(answers[o]) <= 1
    /\ \A a \in Doers : Answering(a) =>
          /\ task[a].of \in 1 .. offers /\ task[a].of # offer
          /\ answers[task[a].of] = <<>>
          /\ \A b \in Doers : Answering(b) /\ task[b].of = task[a].of => b = a

RegOnce ==
    /\ reg # 0 => regAnswers[reg] = 0
    /\ \A r \in RegIds : r > regs => regAnswers[r] = 0
    /\ \A r \in RegIds : regAnswers[r] <= 1
    /\ \A a \in Doers : Responding(a) =>
          /\ task[a].of \in 1 .. regs /\ task[a].of # reg
          /\ regAnswers[task[a].of] = 0
          /\ \A b \in Doers : Responding(b) /\ task[b].of = task[a].of => b = a

\* The agent's task for an offer starts with it, and once it is past taking what
\* waits, its offer waits no more.
AgentTakes ==
    \A o \in OfferIds :
        /\ o > offers => task[o].at = "idle" /\ decided[o] = "none"
        /\ task[o].at \in {"idle", "decide"} => decided[o] = "none"
        /\ task[o].at \in {"answer", "send"} \/ (task[o].at = "done" /\ decided[o] \in {"Accept", "Decline"})
              => offer # o

\* The inductive invariant.
PeersInv ==
    /\ OffersTyped /\ RegsTyped /\ TasksTyped
    /\ OfferOnce /\ RegOnce /\ AgentTakes /\ RegisteredWasAccepted

-----------------------------------------------------------------------------
offering == <<offer, offers, answers, decided>>
registering == <<reg, regs, regAnswers>>

LEMMA IdleTyped == Idle \in TaskRec /\ Idle.at = "idle"
  BY DEF Idle, TaskRec, Places, Turns

\* How one task moves.
LEMMA GotoIs ==
    ASSUME TasksTyped, NEW a \in Doers, NEW at \in Places, goto(a, at)
    PROVE  /\ task' \in [Doers -> TaskRec] /\ \A b \in Doers : b # a => task'[b] = task[b]
           /\ task'[a] = [task[a] EXCEPT !.at = at] /\ task'[a].at = at /\ task'[a].of = task[a].of
  BY DEF TasksTyped, goto, TaskRec

LEMMA IdleIs ==
    ASSUME TasksTyped, NEW a \in Doers, idle(a)
    PROVE  /\ task' \in [Doers -> TaskRec] /\ \A b \in Doers : b # a => task'[b] = task[b]
           /\ task'[a].at = "idle"
  BY IdleTyped DEF TasksTyped, idle

\* A task that holds neither an offer nor a registration afterwards, and is not the
\* agent's, disturbs nothing.
LEMMA CallerMoves ==
    ASSUME PeersInv, NEW a \in Callers, task' \in [Doers -> TaskRec], relay' \in Turns,
           \A b \in Doers : b # a => task'[b] = task[b],
           task'[a].at \notin {"answer", "send", "responding"},
           UNCHANGED <<offering, registering>>, RegisteredWasAccepted'
    PROVE  PeersInv'
<1>1. OffersTyped' /\ RegsTyped' /\ TasksTyped'
  BY DEF PeersInv, OffersTyped, RegsTyped, TasksTyped, offering, registering
<1>2. OfferOnce' /\ RegOnce'
  BY DEF PeersInv, OfferOnce, RegOnce, Answering, Responding, offering, registering
<1>3. AgentTakes'
  <2>1. \A o \in OfferIds : task'[o] = task[o]
    BY CallersApart DEF Doers, OfferIds
  <2> QED
    BY <2>1 DEF PeersInv, AgentTakes, offering
<1> QED
  BY <1>1, <1>2, <1>3 DEF PeersInv

LEMMA BeginIs ==
    ASSUME TasksTyped, NEW a \in Callers, NEW at \in Places, NEW accept \in BOOLEAN, NEW policy \in Turns,
           Begin(a, at, accept, policy)
    PROVE  /\ task' \in [Doers -> TaskRec] /\ \A b \in Doers : b # a => task'[b] = task[b]
           /\ task'[a].at = at
<1>1. [at |-> at, accept |-> accept, of |-> 0, turn |-> policy] \in TaskRec
  BY DEF TaskRec
<1> QED
  BY <1>1 DEF TasksTyped, Begin, Doers

\* A call about a registration comes in.
LEMMA RegistersBegin ==
    ASSUME PeersInv, NEW a \in Callers, PeerRegisterRespond(a) \/ PeerRegister(a)
    PROVE  PeersInv'
<1>0. TasksTyped /\ "absent" \in Turns /\ RegisteredWasAccepted /\ FALSE \in BOOLEAN
  BY DEF PeersInv, Turns
<1>1. PICK at \in {"respond", "propose"}, b \in BOOLEAN, p \in Turns : Begin(a, at, b, p)
  BY <1>0, Zenon DEF PeerRegisterRespond, PeerRegister
<1>2. at \in Places
  BY DEF Places
<1>3. /\ task' \in [Doers -> TaskRec] /\ \A d \in Doers : d # a => task'[d] = task[d]
      /\ task'[a].at = at
  BY <1>0, <1>1, <1>2, BeginIs
<1>4. UNCHANGED <<offering, registering, told>> /\ relay' \in Turns
  BY <1>0 DEF PeerRegisterRespond, PeerRegister, turnVars, offerVars, regVars, offering, registering, TasksTyped
<1> QED
  BY <1>0, <1>3, <1>4, CallerMoves DEF RegisteredWasAccepted

\* A call about a connection comes in.
LEMMA CallsBegin ==
    ASSUME PeersInv, NEW a \in Callers, NEW policy \in Policies, NEW accept \in BOOLEAN,
           PeerConnect(a, policy) \/ PeerConnectAccept(a, accept, policy)
    PROVE  PeersInv'
<1>0. TasksTyped /\ policy \in Turns /\ "absent" \in Turns /\ RegisteredWasAccepted
  BY DEF PeersInv, Turns
<1>1. PICK at \in {"query", "find", "check"}, b \in BOOLEAN, p \in Turns : Begin(a, at, b, p)
  <2>1. CASE PeerConnect(a, policy)
    BY <1>0, <2>1, Zenon DEF PeerConnect
  <2>2. CASE PeerConnectAccept(a, accept, policy)
    BY <1>0, <2>2, Zenon DEF PeerConnectAccept
  <2> QED
    BY <2>1, <2>2
<1>2. at \in Places
  BY DEF Places
<1>3. /\ task' \in [Doers -> TaskRec] /\ \A d \in Doers : d # a => task'[d] = task[d]
      /\ task'[a].at = at
  BY <1>0, <1>1, <1>2, BeginIs
<1>4. UNCHANGED <<offering, registering, told>> /\ relay' \in Turns
  BY <1>0 DEF PeerConnect, PeerConnectAccept, turnVars, offerVars, regVars, offering, registering, TasksTyped
<1> QED
  BY <1>0, <1>3, <1>4, CallerMoves DEF RegisteredWasAccepted

\* A dial goes on.
LEMMA DialsGoOn ==
    ASSUME PeersInv, NEW a \in Callers,
           QuerySdk(a) \/ ClearStale(a) \/ FindTarget(a) \/ SetTurn(a) \/ ConnectToPeer(a)
    PROVE  PeersInv'
<1>0. TasksTyped /\ RegisteredWasAccepted /\ a \in Doers
  BY DEF PeersInv, Doers
<1>1. idle(a) \/ \E at \in {"clear", "find", "turn", "connect"} : goto(a, at)
  BY DEF QuerySdk, ClearStale, FindTarget, SetTurn, ConnectToPeer
<1>2. /\ task' \in [Doers -> TaskRec] /\ \A d \in Doers : d # a => task'[d] = task[d]
      /\ task'[a].at \in {"idle", "clear", "find", "turn", "connect"}
  <2>1. CASE idle(a)
    BY <1>0, <2>1, IdleIs
  <2>2. ASSUME NEW at \in {"clear", "find", "turn", "connect"}, goto(a, at) PROVE <1>2!:
    <3>1. at \in Places
      BY DEF Places
    <3> QED
      BY <1>0, <2>2, <3>1, GotoIs
  <2> QED
    BY <1>1, <2>1, <2>2
<1>3. relay' \in Turns
  BY <1>0 DEF QuerySdk, ClearStale, FindTarget, SetTurn, ConnectToPeer, turnVars, TasksTyped, TaskRec
<1>4. UNCHANGED <<offering, registering, told>>
  BY DEF QuerySdk, ClearStale, FindTarget, SetTurn, ConnectToPeer, offerVars, regVars, offering, registering
<1> QED
  BY <1>0, <1>2, <1>3, <1>4, CallerMoves DEF RegisteredWasAccepted

\* Only an accepted registration is told as a success.
LEMMA RegisterAnsweredKeeps ==
    ASSUME PeersInv, NEW a \in Callers, NEW status \in {"accepted", "declined", "failed", "error"},
           NEW found \in BOOLEAN, NEW c \in BOOLEAN, RegisterAnswered(a, status, found, c)
    PROVE  PeersInv'
<1>0. TasksTyped /\ a \in Doers
  BY DEF PeersInv, Doers
<1>1. idle(a) \/ \E at \in {"query", "find"} : goto(a, at)
  BY Zenon DEF RegisterAnswered
<1>2. /\ task' \in [Doers -> TaskRec] /\ \A d \in Doers : d # a => task'[d] = task[d]
      /\ task'[a].at \in {"idle", "query", "find"}
  <2>1. CASE idle(a)
    BY <1>0, <2>1, IdleIs
  <2>2. ASSUME NEW at \in {"query", "find"}, goto(a, at) PROVE <1>2!:
    <3>1. at \in Places
      BY DEF Places
    <3> QED
      BY <1>0, <2>2, <3>1, GotoIs
  <2> QED
    BY <1>1, <2>1, <2>2
<1>3. RegisteredWasAccepted'
  <2>1. CASE status = "accepted" /\ found
    <3>1. told' = told \cup {[to |-> "register", accepted |-> TRUE]}
      BY <2>1 DEF RegisterAnswered, is_accepted
    <3> QED
      BY <3>1 DEF PeersInv, RegisteredWasAccepted
  <2>2. CASE ~(status = "accepted" /\ found)
    <3>1. told' = told
      BY <2>2 DEF RegisterAnswered, is_accepted
    <3> QED
      BY <3>1 DEF PeersInv, RegisteredWasAccepted
  <2> QED
    BY <2>1, <2>2
<1>4. UNCHANGED <<offering, registering>> /\ relay' \in Turns
  BY <1>0 DEF RegisterAnswered, turnVars, offerVars, offering, registering, TasksTyped
<1> QED
  BY <1>2, <1>3, <1>4, CallerMoves

\* A task that ends: a caller is idle, the agent's is done.
LEMMA FinishedIs ==
    ASSUME TasksTyped, NEW a \in Doers, finished(a)
    PROVE  /\ task' \in [Doers -> TaskRec] /\ \A b \in Doers : b # a => task'[b] = task[b]
           /\ task'[a].at = IF a \in OfferIds THEN "done" ELSE "idle"
<1>1. "done" \in Places
  BY DEF Places
<1>2. CASE a \in OfferIds
  BY <1>1, <1>2, GotoIs DEF finished
<1>3. CASE a \notin OfferIds
  BY <1>3, IdleIs DEF finished
<1> QED
  BY <1>2, <1>3

\* A task that holds nothing afterwards; the agent's is done only when its offer no
\* longer waits, and has decided before.
LEMMA DoerMoves ==
    ASSUME PeersInv, NEW a \in Doers, task' \in [Doers -> TaskRec],
           \A b \in Doers : b # a => task'[b] = task[b],
           task'[a].at \notin {"answer", "send", "responding"},
           a \in OfferIds => /\ task[a].at \notin {"idle", "decide"} /\ task'[a].at \in {"take", "done"}
                             /\ task'[a].at = "done" => offer' # a,
           offer' \in {offer, 0}, UNCHANGED <<offers, answers, decided, registering, relay, told>>
    PROVE  PeersInv'
<1>1. OffersTyped' /\ RegsTyped' /\ TasksTyped' /\ RegisteredWasAccepted'
  <2>1. offer' \in 0 .. offers
    BY DEF PeersInv, OffersTyped
  <2> QED
    BY <2>1 DEF PeersInv, OffersTyped, RegsTyped, TasksTyped, RegisteredWasAccepted, registering
<1>2. OfferOnce' /\ RegOnce'
  <2>1. \A b \in Doers : /\ Answering(b)' => Answering(b) /\ task'[b] = task[b]
                        /\ Responding(b)' => Responding(b) /\ task'[b] = task[b]
    BY DEF Answering, Responding
  <2>2. \A b \in Doers : Answering(b) => task[b].of # 0
    BY DEF PeersInv, OffersTyped, OfferOnce
  <2>3. OfferOnce'
    <3>1. offer' # 0 => offer' = offer
      OBVIOUS
    <3>2. /\ offer' # 0 => answers'[offer'] = <<>>
          /\ \A o \in OfferIds : (o > offers' => answers'[o] = <<>>) /\ Len(answers'[o]) <= 1
      BY <3>1 DEF PeersInv, OfferOnce
    <3>3. ASSUME NEW b \in Doers, Answering(b)'
          PROVE  /\ task'[b].of \in 1 .. offers' /\ task'[b].of # offer' /\ answers'[task'[b].of] = <<>>
                 /\ \A d \in Doers : Answering(d)' /\ task'[d].of = task'[b].of => d = b
      <4>1. Answering(b) /\ task'[b] = task[b]
        BY <2>1, <3>3 DEF Answering
      <4>2. PICK p : p = task[b].of
        OBVIOUS
      <4>3. p \in 1 .. offers /\ p # offer /\ p # 0 /\ answers[p] = <<>>
        BY <2>2, <4>1, <4>2 DEF PeersInv, OfferOnce
      <4>4. \A d \in Doers : Answering(d)' /\ task'[d].of = p => d = b
        BY <2>1, <4>1, <4>2 DEF PeersInv, OfferOnce, Answering
      <4> QED
        BY <3>1, <4>1, <4>2, <4>3, <4>4
    <3> QED
      BY <3>2, <3>3 DEF OfferOnce
  <2>4. RegOnce'
    <3>1. UNCHANGED <<reg, regs, regAnswers>>
      BY DEF registering
    <3>2. /\ reg' # 0 => regAnswers'[reg'] = 0
          /\ \A r \in RegIds : (r > regs' => regAnswers'[r] = 0) /\ regAnswers'[r] <= 1
      BY <3>1 DEF PeersInv, RegOnce
    <3>3. ASSUME NEW b \in Doers, Responding(b)'
          PROVE  /\ task'[b].of \in 1 .. regs' /\ task'[b].of # reg' /\ regAnswers'[task'[b].of] = 0
                 /\ \A d \in Doers : Responding(d)' /\ task'[d].of = task'[b].of => d = b
      <4>1. Responding(b) /\ task'[b] = task[b]
        BY <2>1, <3>3 DEF Responding
      <4>2. PICK p : p = task[b].of
        OBVIOUS
      <4>3. p \in 1 .. regs /\ p # reg /\ regAnswers[p] = 0
        BY <4>1, <4>2 DEF PeersInv, RegOnce
      <4>4. \A d \in Doers : Responding(d)' /\ task'[d].of = p => d = b
        BY <2>1, <4>1, <4>2 DEF PeersInv, RegOnce, Responding
      <4> QED
        BY <3>1, <4>1, <4>2, <4>3, <4>4
    <3> QED
      BY <3>2, <3>3 DEF RegOnce
  <2> QED
    BY <2>3, <2>4
<1>3. AgentTakes'
  <2>1. \A o \in OfferIds : o # a => task'[o] = task[o]
    BY DEF Doers
  <2>2. \A o \in OfferIds : o # 0
    BY BoundsAreNat DEF OfferIds
  <2>3. a \in OfferIds => ~(a > offers)
    BY DEF PeersInv, AgentTakes
  <2> QED
    BY <2>1, <2>2, <2>3 DEF PeersInv, AgentTakes
<1> QED
  BY <1>1, <1>2, <1>3 DEF PeersInv

\* An accept of a peer that is connected is left out only where no offer waits.
LEMMA AnswerChecksKeeps ==
    ASSUME PeersInv, NEW a \in Doers, AnswerChecks(a)
    PROVE  PeersInv'
<1>0. TasksTyped /\ OffersTyped /\ task[a].at = "check"
  BY DEF PeersInv, AnswerChecks
<1>1. UNCHANGED <<offer, offers, answers, decided, registering, relay, told>>
  BY DEF AnswerChecks, turnVars, offerVars, regVars, registering
<1>2. CASE finished(a) /\ offer = 0
  <2>1. a \in OfferIds => a # 0
    BY BoundsAreNat DEF OfferIds
  <2> QED
    BY <1>0, <1>1, <1>2, <2>1, FinishedIs, DoerMoves
<1>3. CASE toTake(a)
  <2>1. PICK p \in Turns : p = IF a \in OfferIds THEN relay ELSE task[a].turn
    BY <1>0 DEF TasksTyped, TaskRec
  <2>2. task' = [task EXCEPT ![a] = [task[a] EXCEPT !.at = "take", !.turn = p]]
    BY <1>0, <1>3, <2>1 DEF toTake, TasksTyped
  <2>3. [task[a] EXCEPT !.at = "take", !.turn = p] \in TaskRec
    BY <1>0 DEF TasksTyped, TaskRec, Places
  <2>4. /\ task' \in [Doers -> TaskRec] /\ \A b \in Doers : b # a => task'[b] = task[b]
        /\ task'[a].at = "take"
    BY <1>0, <2>2, <2>3 DEF TasksTyped, TaskRec
  <2> QED
    BY <1>0, <1>1, <2>4, DoerMoves
<1> QED
  BY <1>2, <1>3 DEF AnswerChecks

\* What waits is taken by one.
LEMMA AnswerTakesKeeps ==
    ASSUME PeersInv, NEW a \in Doers, AnswerTakes(a)
    PROVE  PeersInv'
<1>0. TasksTyped /\ OffersTyped /\ task[a].at = "take" /\ offer' = 0
  BY DEF PeersInv, AnswerTakes
<1>1. UNCHANGED <<offers, answers, decided, registering, relay, told>>
  BY DEF AnswerTakes, turnVars, regVars, registering
<1>2. \A o \in OfferIds : o # 0
  BY BoundsAreNat DEF OfferIds
<1>3. CASE offer = 0
  BY <1>0, <1>1, <1>2, <1>3, FinishedIs, DoerMoves DEF AnswerTakes
<1>4. CASE offer # 0
  <2>0. offer \in Nat /\ offer \in 1 .. offers /\ offer \in OfferIds
    BY <1>0, <1>4, BoundsAreNat DEF OffersTyped, OfferIds
  <2>1. [task[a] EXCEPT !.at = "answer", !.of = offer] \in TaskRec
    BY <1>0, <2>0 DEF TasksTyped, TaskRec, Places
  <2>2. task' = [task EXCEPT ![a] = [task[a] EXCEPT !.at = "answer", !.of = offer]]
    BY <1>0, <1>4 DEF AnswerTakes, TasksTyped
  <2>3. /\ task' \in [Doers -> TaskRec] /\ \A b \in Doers : b # a => task'[b] = task[b]
        /\ task'[a].at = "answer" /\ task'[a].of = offer
    BY <1>0, <2>1, <2>2 DEF TasksTyped, TaskRec
  <2>4. OffersTyped' /\ RegsTyped' /\ TasksTyped' /\ RegisteredWasAccepted'
    <3>1. 0 \in 0 .. offers
      BY <1>0 DEF OffersTyped
    <3> QED
      BY <1>0, <1>1, <2>3, <3>1 DEF PeersInv, OffersTyped, RegsTyped, TasksTyped, RegisteredWasAccepted, registering
  <2>5. OfferOnce'
    BY <1>0, <1>1, <2>0, <2>3 DEF PeersInv, OfferOnce, Answering
  <2>6. RegOnce'
    BY <1>0, <1>1, <2>3 DEF PeersInv, RegOnce, Responding, registering
  <2>7. AgentTakes'
    <3>1. a \in OfferIds => ~(a > offers)
      BY <1>0 DEF PeersInv, AgentTakes
    <3> QED
      BY <1>0, <1>1, <1>2, <2>3, <3>1 DEF PeersInv, AgentTakes, Doers
  <2> QED
    BY <2>4, <2>5, <2>6, <2>7 DEF PeersInv
<1> QED
  BY <1>3, <1>4

LEMMA AnswerSetsKeeps ==
    ASSUME PeersInv, NEW a \in Doers, AnswerSets(a)
    PROVE  PeersInv'
<1>0. TasksTyped /\ OffersTyped /\ task[a].at = "answer"
  BY DEF PeersInv, AnswerSets
<1>1. UNCHANGED <<offer, offers, answers, decided, registering, relay, told>>
  BY DEF AnswerSets, offerVars, regVars, registering
<1>2. a \in OfferIds => offer # a
  BY <1>0 DEF PeersInv, AgentTakes
<1>3. CASE finished(a)
  BY <1>0, <1>1, <1>2, <1>3, FinishedIs, DoerMoves
<1>4. CASE goto(a, "send")
  <2>1. "send" \in Places
    BY DEF Places
  <2>2. /\ task' \in [Doers -> TaskRec] /\ \A b \in Doers : b # a => task'[b] = task[b]
        /\ task'[a].at = "send" /\ task'[a].of = task[a].of
    BY <1>0, <1>4, <2>1, GotoIs
  <2>3. OffersTyped' /\ RegsTyped' /\ TasksTyped' /\ RegisteredWasAccepted'
    BY <1>0, <1>1, <2>2 DEF PeersInv, OffersTyped, RegsTyped, TasksTyped, RegisteredWasAccepted, registering
  <2>4. OfferOnce' /\ RegOnce'
    BY <1>0, <1>1, <2>2 DEF PeersInv, OfferOnce, RegOnce, Answering, Responding, registering
  <2>5. AgentTakes'
    BY <1>0, <1>1, <1>2, <2>2 DEF PeersInv, AgentTakes, Doers
  <2> QED
    BY <2>3, <2>4, <2>5 DEF PeersInv
<1> QED
  BY <1>3, <1>4 DEF AnswerSets

\* The answer goes out, and nobody else has the offer.
LEMMA AnswerSendsKeeps ==
    ASSUME PeersInv, NEW a \in Doers, AnswerSends(a)
    PROVE  PeersInv'
<1>0. TasksTyped /\ OffersTyped /\ task[a].at = "send"
  BY DEF PeersInv, AnswerSends
<1>1. UNCHANGED <<offer, offers, decided, registering, relay, told>>
  BY DEF AnswerSends, turnVars, regVars, registering
<1>2. a \in OfferIds => offer # a
  BY <1>0 DEF PeersInv, AgentTakes
<1>3. /\ task' \in [Doers -> TaskRec] /\ \A b \in Doers : b # a => task'[b] = task[b]
      /\ task'[a].at = IF a \in OfferIds THEN "done" ELSE "idle"
  BY <1>0, FinishedIs DEF AnswerSends
<1>4. CASE answers' = answers
  BY <1>0, <1>1, <1>2, <1>3, <1>4, DoerMoves
<1>5. CASE answers' = [answers EXCEPT ![task[a].of] = Append(@, task[a].accept)]
  <2>1. PICK o \in OfferIds : o = task[a].of /\ o \in 1 .. offers /\ o # offer /\ answers[o] = <<>>
    BY <1>0, BoundsAreNat DEF PeersInv, OffersTyped, OfferOnce, Answering, OfferIds
  <2>2. PICK b \in BOOLEAN : b = task[a].accept
    BY <1>0 DEF TasksTyped, TaskRec
  <2>3. answers' = [answers EXCEPT ![o] = <<b>>]
    <3>1. Append(answers[o], task[a].accept) = <<b>>
      BY <2>1, <2>2
    <3> QED
      BY <1>5, <2>1, <3>1
  <2>4. answers' \in [OfferIds -> Seq(BOOLEAN)] /\ Len(answers'[o]) = 1
        /\ \A p \in OfferIds : p # o => answers'[p] = answers[p]
    BY <1>0, <2>3 DEF OffersTyped
  <2>5. OffersTyped' /\ RegsTyped' /\ TasksTyped' /\ RegisteredWasAccepted'
    BY <1>0, <1>1, <1>3, <2>4 DEF PeersInv, OffersTyped, RegsTyped, TasksTyped, RegisteredWasAccepted, registering
  <2>6. OfferOnce'
    <3>1. \A c \in Doers : Answering(c)' => c # a /\ Answering(c) /\ task'[c] = task[c] /\ task[c].of # o
      BY <1>0, <1>3, <2>1 DEF PeersInv, OfferOnce, Answering
    <3>2. \A c \in Doers : Answering(c) => task[c].of \in OfferIds
      BY <1>0, BoundsAreNat DEF PeersInv, OfferOnce, OffersTyped, OfferIds
    <3>3. offer \in 0 .. offers /\ offers \in 0 .. MaxOffers /\ o \in Nat
      BY <1>0, <2>1 DEF OffersTyped, OfferIds
    <3>4. offer # 0 => offer \in OfferIds
      BY <3>3, BoundsAreNat DEF OfferIds
    <3>5. offer' # 0 => answers'[offer'] = <<>>
      BY <1>1, <2>1, <2>4, <3>4 DEF PeersInv, OfferOnce
    <3>6. \A p \in OfferIds : p > offers' => answers'[p] = <<>>
      BY <1>1, <2>1, <2>4, <3>3 DEF PeersInv, OfferOnce
    <3>7. ASSUME NEW p \in OfferIds PROVE Len(answers'[p]) <= 1
      <4>1. CASE p = o
        <5>1. PICK n \in Nat : n = Len(answers'[p]) /\ n = 1
          BY <2>4, <4>1
        <5> QED
          BY <5>1
      <4>2. CASE p # o
        BY <2>4, <4>2 DEF PeersInv, OfferOnce
      <4> QED
        BY <4>1, <4>2
    <3>8. ASSUME NEW c \in Doers, Answering(c)'
          PROVE  /\ task'[c].of \in 1 .. offers' /\ task'[c].of # offer' /\ answers'[task'[c].of] = <<>>
                 /\ \A d \in Doers : Answering(d)' /\ task'[d].of = task'[c].of => d = c
      <4>1. PICK p \in OfferIds : p = task[c].of /\ p # o /\ task'[c].of = p
        BY <3>1, <3>2, <3>8
      <4>2. p \in 1 .. offers /\ p # offer /\ answers[p] = <<>>
        BY <3>1, <3>8, <4>1 DEF PeersInv, OfferOnce
      <4>3. \A d \in Doers : Answering(d)' /\ task'[d].of = p => d = c
        BY <3>1, <3>8, <4>1 DEF PeersInv, OfferOnce
      <4> QED
        BY <1>1, <2>4, <4>1, <4>2, <4>3
    <3> QED
      BY <3>5, <3>6, <3>7, <3>8 DEF OfferOnce
  <2>7. RegOnce'
    BY <1>0, <1>1, <1>3 DEF PeersInv, RegOnce, Responding, registering
  <2>8. AgentTakes'
    <3>1. a \in OfferIds => ~(a > offers)
      BY <1>0 DEF PeersInv, AgentTakes
    <3> QED
      BY <1>0, <1>1, <1>2, <1>3, <3>1 DEF PeersInv, AgentTakes, Doers
  <2> QED
    BY <2>5, <2>6, <2>7, <2>8 DEF PeersInv
<1> QED
  BY <1>4, <1>5 DEF AnswerSends

\* Registrations: taken by one, answered once.
LEMMA RespondTakesKeeps ==
    ASSUME PeersInv, NEW a \in Callers, RespondTakes(a)
    PROVE  PeersInv'
<1>0. TasksTyped /\ RegsTyped /\ task[a].at = "respond" /\ reg' = 0 /\ a \in Doers
  BY DEF PeersInv, RespondTakes, Doers
<1>1. UNCHANGED <<offering, regs, regAnswers, relay, told>>
  BY DEF RespondTakes, turnVars, offerVars, offering
<1>2. PICK at \in {"idle", "responding"} :
        /\ task' \in [Doers -> TaskRec] /\ \A b \in Doers : b # a => task'[b] = task[b]
        /\ task'[a].at = at /\ (at = "responding" => reg # 0 /\ task'[a].of = reg)
  <2>1. CASE reg = 0
    BY <1>0, <2>1, IdleIs DEF RespondTakes
  <2>2. CASE reg # 0
    <3>1. reg \in Nat
      BY <1>0, BoundsAreNat DEF RegsTyped
    <3>2. [task[a] EXCEPT !.at = "responding", !.of = reg] \in TaskRec
      BY <1>0, <3>1 DEF TasksTyped, TaskRec, Places
    <3>3. task' = [task EXCEPT ![a] = [task[a] EXCEPT !.at = "responding", !.of = reg]]
      BY <1>0, <2>2 DEF RespondTakes, TasksTyped
    <3> QED
      BY <1>0, <2>2, <3>2, <3>3 DEF TasksTyped, TaskRec
  <2> QED
    BY <2>1, <2>2
<1>3. OffersTyped' /\ RegsTyped' /\ TasksTyped' /\ RegisteredWasAccepted'
  <2>1. 0 \in 0 .. regs
    BY <1>0, BoundsAreNat DEF RegsTyped
  <2> QED
    BY <1>0, <1>1, <1>2, <2>1 DEF PeersInv, OffersTyped, RegsTyped, TasksTyped, RegisteredWasAccepted, offering
<1>4. OfferOnce'
  BY <1>0, <1>1, <1>2 DEF PeersInv, OfferOnce, Answering, offering
<1>5. RegOnce'
  <2>1. ASSUME NEW b \in Doers, Responding(b)'
        PROVE  \/ /\ b = a /\ task'[b].of = reg /\ reg # 0
               \/ /\ b # a /\ Responding(b) /\ task'[b] = task[b]
    <3>1. CASE b = a
      <4>1. task'[a].at = "responding"
        BY <2>1, <3>1 DEF Responding
      <4> QED
        BY <1>2, <3>1, <4>1
    <3>2. CASE b # a
      BY <1>2, <2>1, <3>2 DEF Responding
    <3> QED
      BY <3>1, <3>2
  <2>2. \A b \in Doers : Responding(b) => task[b].of \in 1 .. regs /\ task[b].of # reg /\ task[b].of # 0
    BY <1>0, BoundsAreNat DEF PeersInv, RegOnce, RegsTyped
  <2>3. reg # 0 => reg \in 1 .. regs /\ regAnswers[reg] = 0
    BY <1>0, BoundsAreNat DEF PeersInv, RegOnce, RegsTyped
  <2> QED
    BY <1>0, <1>1, <2>1, <2>2, <2>3 DEF PeersInv, RegOnce
<1>6. AgentTakes'
  <2>1. \A o \in OfferIds : task'[o] = task[o]
    BY <1>2, CallersApart DEF Doers, OfferIds
  <2> QED
    BY <1>1, <2>1 DEF PeersInv, AgentTakes, offering
<1> QED
  BY <1>3, <1>4, <1>5, <1>6 DEF PeersInv

LEMMA RespondSendsKeeps ==
    ASSUME PeersInv, NEW a \in Callers, RespondSends(a)
    PROVE  PeersInv'
<1>0. TasksTyped /\ RegsTyped /\ task[a].at = "responding" /\ a \in Doers
  BY DEF PeersInv, RespondSends, Doers
<1>1. UNCHANGED <<offering, reg, regs, relay>>
  BY DEF RespondSends, turnVars, offerVars, offering
<1>5. RegisteredWasAccepted'
  <2>1. CASE told' = told
    BY <2>1 DEF PeersInv, RegisteredWasAccepted
  <2>2. CASE \E accept \in BOOLEAN : told' = told \cup {[to |-> "respond", accepted |-> accept]}
    BY <2>2 DEF PeersInv, RegisteredWasAccepted
  <2> QED
    BY <2>1, <2>2 DEF RespondSends
<1>2. /\ task' \in [Doers -> TaskRec] /\ \A b \in Doers : b # a => task'[b] = task[b]
      /\ task'[a].at = "idle"
  BY <1>0, IdleIs DEF RespondSends
<1>3. CASE regAnswers' = regAnswers
  BY <1>0, <1>1, <1>2, <1>3, <1>5, CallerMoves DEF PeersInv, TasksTyped, registering
<1>4. CASE regAnswers' = [regAnswers EXCEPT ![task[a].of] = @ + 1]
  <2>1. PICK r \in RegIds : r = task[a].of /\ r \in 1 .. regs /\ r # reg /\ regAnswers[r] = 0
    BY <1>0, BoundsAreNat DEF PeersInv, RegsTyped, RegOnce, Responding, RegIds
  <2>2. regAnswers' \in [RegIds -> Nat] /\ regAnswers'[r] = 1
        /\ \A p \in RegIds : p # r => regAnswers'[p] = regAnswers[p]
    BY <1>0, <1>4, <2>1 DEF RegsTyped
  <2>3. OffersTyped' /\ RegsTyped' /\ TasksTyped' /\ RegisteredWasAccepted'
    BY <1>0, <1>1, <1>2, <1>5, <2>2 DEF PeersInv, OffersTyped, RegsTyped, TasksTyped, offering
  <2>4. OfferOnce'
    BY <1>0, <1>1, <1>2 DEF PeersInv, OfferOnce, Answering, offering
  <2>5. RegOnce'
    <3>1. \A b \in Doers : Responding(b)' => Responding(b) /\ task'[b] = task[b] /\ task[b].of # r
      BY <1>0, <1>2, <2>1 DEF PeersInv, RegOnce, Responding
    <3>2. \A b \in Doers : Responding(b) => task[b].of \in RegIds
      BY <1>0, BoundsAreNat DEF PeersInv, RegOnce, RegsTyped, RegIds
    <3>3. reg # 0 => reg \in RegIds
      BY <1>0, BoundsAreNat DEF RegsTyped, RegIds
    <3>4. reg' # 0 => regAnswers'[reg'] = 0
      BY <1>1, <2>1, <2>2, <3>3 DEF PeersInv, RegOnce
    <3>5. \A p \in RegIds : (p > regs' => regAnswers'[p] = 0) /\ regAnswers'[p] <= 1
      BY <1>0, <1>1, <2>1, <2>2 DEF PeersInv, RegOnce, RegsTyped, RegIds
    <3>6. \A b \in Doers : Responding(b)' =>
             /\ task'[b].of \in 1 .. regs' /\ task'[b].of # reg' /\ regAnswers'[task'[b].of] = 0
             /\ \A d \in Doers : Responding(d)' /\ task'[d].of = task'[b].of => d = b
      BY <1>1, <2>2, <3>1, <3>2 DEF PeersInv, RegOnce
    <3> QED
      BY <3>4, <3>5, <3>6 DEF RegOnce
  <2>6. AgentTakes'
    <3>1. \A o \in OfferIds : task'[o] = task[o]
      BY <1>2, CallersApart DEF Doers, OfferIds
    <3> QED
      BY <1>1, <3>1 DEF PeersInv, AgentTakes, offering
  <2> QED
    BY <2>3, <2>4, <2>5, <2>6 DEF PeersInv
<1> QED
  BY <1>3, <1>4 DEF RespondSends

\* A new offer is the agent's to decide on, and takes the place of the one before.
LEMMA PostConnectKeeps ==
    ASSUME PeersInv, PostConnect
    PROVE  PeersInv'
<1>0. TasksTyped /\ OffersTyped /\ offers < MaxOffers /\ offers \in Nat
  BY BoundsAreNat DEF PeersInv, PostConnect, OffersTyped
<1>1. PICK o \in Nat : o = offers + 1
  BY <1>0
<1>2. /\ offers' = o /\ offer' = o /\ task' = [task EXCEPT ![o].at = "decide"]
      /\ UNCHANGED <<answers, decided, registering, relay, told>>
  BY <1>1 DEF PostConnect, turnVars, regVars, registering
<1>3. o \in OfferIds /\ o \in Doers /\ o > offers
  BY <1>0, <1>1, BoundsAreNat DEF OfferIds, Doers
<1>4. /\ task' \in [Doers -> TaskRec] /\ \A b \in Doers : b # o => task'[b] = task[b]
      /\ task'[o].at = "decide"
  BY <1>0, <1>2, <1>3 DEF TasksTyped, TaskRec, Places
<1>5. OffersTyped' /\ RegsTyped' /\ TasksTyped' /\ RegisteredWasAccepted'
  <2>1. o \in 0 .. MaxOffers /\ o \in 0 .. o
    BY <1>0, <1>1, BoundsAreNat
  <2> QED
    BY <1>0, <1>2, <1>4, <2>1 DEF PeersInv, OffersTyped, RegsTyped, TasksTyped, RegisteredWasAccepted, registering
<1>6. OfferOnce'
  <2>1. \A b \in Doers : Answering(b)' => Answering(b) /\ task'[b] = task[b]
    BY <1>4 DEF Answering
  <2>2. \A b \in Doers : Answering(b) => task[b].of \in 1 .. o /\ task[b].of # o
    BY <1>0, <1>1 DEF PeersInv, OfferOnce
  <2>3. answers[o] = <<>> /\ \A p \in OfferIds : p > o => p > offers
    BY <1>0, <1>1, <1>3 DEF PeersInv, OfferOnce, OfferIds
  <2> QED
    BY <1>2, <2>1, <2>2, <2>3 DEF PeersInv, OfferOnce
<1>7. RegOnce'
  BY <1>2, <1>4 DEF PeersInv, RegOnce, Responding, registering
<1>8. AgentTakes'
  <2>1. \A p \in OfferIds : p > o => p > offers /\ p # o
    BY <1>0, <1>1 DEF OfferIds
  <2>2. decided[o] = "none"
    BY <1>3 DEF PeersInv, AgentTakes
  <2>3. \A p \in OfferIds : p # o => task'[p] = task[p]
    BY <1>4 DEF Doers
  <2>4. ~(o > o)
    BY <1>1
  <2> QED
    BY <1>2, <1>4, <2>1, <2>2, <2>3, <2>4 DEF PeersInv, AgentTakes
<1> QED
  BY <1>5, <1>6, <1>7, <1>8 DEF PeersInv

LEMMA DecideIs == \A f \in OfferFacts : decide(f) \in Answers \ {"none"}
  BY DEF decide, from_read, OfferFacts, Answers

LEMMA AgentAnswersKeeps ==
    ASSUME PeersInv, NEW o \in OfferIds, agent_answer_for(o)
    PROVE  PeersInv'
<1>0. TasksTyped /\ OffersTyped /\ task[o].at = "decide" /\ o \in Doers
  BY DEF PeersInv, agent_answer_for, Doers
<1>1. PICK f \in OfferFacts :
        /\ decided' = [decided EXCEPT ![o] = decide(f)]
        /\ task' = [task EXCEPT ![o] = IF decide(f) \in {"Accept", "Decline"}
                                       THEN [Idle EXCEPT !.at = "check", !.accept = (decide(f) = "Accept")]
                                       ELSE [Idle EXCEPT !.at = "done"]]
  <2>1. PICK answer \in {decide(f) : f \in OfferFacts} :
          /\ decided' = [decided EXCEPT ![o] = answer]
          /\ task' = [task EXCEPT ![o] = IF answer \in {"Accept", "Decline"}
                                         THEN [Idle EXCEPT !.at = "check", !.accept = (answer = "Accept")]
                                         ELSE [Idle EXCEPT !.at = "done"]]
    BY Zenon DEF agent_answer_for
  <2>2. PICK f \in OfferFacts : answer = decide(f)
    BY <2>1, Zenon
  <2> QED
    BY <2>1, <2>2, Zenon
<1>2. PICK d \in Answers \ {"none"} : d = decide(f)
  BY DecideIs
<1>3. UNCHANGED <<offer, offers, answers, registering, relay, told>>
  BY DEF agent_answer_for, turnVars, regVars, registering
<1>4. PICK r \in TaskRec : /\ task' = [task EXCEPT ![o] = r]
                           /\ r.at = IF d \in {"Accept", "Decline"} THEN "check" ELSE "done"
  <2>1. CASE d \in {"Accept", "Decline"}
    <3>1. (d = "Accept") \in BOOLEAN
      OBVIOUS
    <3>2. PICK b \in BOOLEAN : b = (d = "Accept")
      BY <3>1, Zenon
    <3>3. task' = [task EXCEPT ![o] = [Idle EXCEPT !.at = "check", !.accept = b]]
      BY <1>1, <1>2, <2>1, <3>2, Zenon
    <3>4. PICK r : r = [Idle EXCEPT !.at = "check", !.accept = b]
      OBVIOUS
    <3>5. r \in TaskRec /\ r.at = "check"
      BY <3>4, IdleTyped DEF TaskRec, Places
    <3> QED
      BY <2>1, <3>3, <3>4, <3>5
  <2>2. CASE d \notin {"Accept", "Decline"}
    <3>1. task' = [task EXCEPT ![o] = [Idle EXCEPT !.at = "done"]]
      BY <1>1, <1>2, <2>2, Zenon
    <3>2. [Idle EXCEPT !.at = "done"] \in TaskRec /\ [Idle EXCEPT !.at = "done"].at = "done"
      BY DEF Idle, TaskRec, Places, Turns
    <3> QED
      BY <2>2, <3>1, <3>2
  <2> QED
    BY <2>1, <2>2
<1>5. task' \in [Doers -> TaskRec] /\ task'[o] = r /\ \A b \in Doers : b # o => task'[b] = task[b]
  BY <1>0, <1>4 DEF TasksTyped
<1>6. decided' \in [OfferIds -> Answers] /\ decided'[o] = d /\ \A p \in OfferIds : p # o => decided'[p] = decided[p]
  BY <1>0, <1>1, <1>2 DEF OffersTyped
<1>7. OffersTyped' /\ RegsTyped' /\ TasksTyped' /\ RegisteredWasAccepted'
  BY <1>0, <1>3, <1>5, <1>6 DEF PeersInv, OffersTyped, RegsTyped, TasksTyped, RegisteredWasAccepted, registering
<1>8. OfferOnce'
  BY <1>0, <1>3, <1>4, <1>5 DEF PeersInv, OfferOnce, Answering
<1>9. RegOnce'
  BY <1>0, <1>3, <1>4, <1>5 DEF PeersInv, RegOnce, Responding, registering
<1>10. AgentTakes'
  <2>1. ~(o > offers)
    BY <1>0 DEF PeersInv, AgentTakes
  <2>2. \A p \in OfferIds : p # o => task'[p] = task[p]
    BY <1>5 DEF Doers
  <2> QED
    BY <1>3, <1>4, <1>5, <1>6, <2>1, <2>2 DEF PeersInv, AgentTakes
<1> QED
  BY <1>7, <1>8, <1>9, <1>10 DEF PeersInv

LEMMA PostRegisterKeeps ==
    ASSUME PeersInv, PostRegister
    PROVE  PeersInv'
<1>0. RegsTyped /\ regs < MaxRegs /\ regs \in Nat
  BY BoundsAreNat DEF PeersInv, PostRegister, RegsTyped
<1>1. PICK r \in Nat : r = regs + 1
  BY <1>0
<1>2. regs' = r /\ reg' = r /\ UNCHANGED <<offering, regAnswers, relay, told, task>>
  BY <1>1 DEF PostRegister, turnVars, offerVars, taskVars, offering
<1>3. OffersTyped' /\ RegsTyped' /\ TasksTyped' /\ RegisteredWasAccepted'
  <2>1. r \in 0 .. MaxRegs /\ r \in 0 .. r
    BY <1>0, <1>1, BoundsAreNat
  <2> QED
    BY <1>0, <1>2, <2>1 DEF PeersInv, OffersTyped, RegsTyped, TasksTyped, RegisteredWasAccepted, offering
<1>4. OfferOnce' /\ AgentTakes'
  BY <1>2 DEF PeersInv, OfferOnce, AgentTakes, Answering, offering
<1>5. RegOnce'
  <2>1. r \in RegIds /\ r > regs /\ \A p \in RegIds : p > r => p > regs
    BY <1>0, <1>1, BoundsAreNat DEF RegIds
  <2>2. \A b \in Doers : Responding(b) => task[b].of \in 1 .. r /\ task[b].of # r
    BY <1>0, <1>1 DEF PeersInv, RegOnce
  <2> QED
    BY <1>2, <2>1, <2>2 DEF PeersInv, RegOnce, Responding
<1> QED
  BY <1>3, <1>4, <1>5 DEF PeersInv

\* What waits may be dropped: with the connection, or with the session.
LEMMA Dropped ==
    ASSUME PeersInv, offer' \in {offer, 0}, reg' \in {reg, 0}, relay' \in Turns,
           UNCHANGED <<offers, answers, decided, regs, regAnswers, told, task>>
    PROVE  PeersInv'
<1>1. OffersTyped' /\ RegsTyped' /\ TasksTyped' /\ RegisteredWasAccepted'
  <2>1. offer' \in 0 .. offers /\ reg' \in 0 .. regs
    BY BoundsAreNat DEF PeersInv, OffersTyped, RegsTyped
  <2> QED
    BY <2>1 DEF PeersInv, OffersTyped, RegsTyped, TasksTyped, RegisteredWasAccepted
<1>2. OfferOnce'
  <2>1. \A b \in Doers : Answering(b) => task[b].of # 0
    BY DEF PeersInv, OffersTyped, OfferOnce
  <2> QED
    BY <2>1 DEF PeersInv, OfferOnce, Answering
<1>3. RegOnce'
  <2>1. \A b \in Doers : Responding(b) => task[b].of # 0
    BY DEF PeersInv, RegsTyped, RegOnce
  <2> QED
    BY <2>1 DEF PeersInv, RegOnce, Responding
<1>4. AgentTakes'
  <2>1. \A o \in OfferIds : o # 0
    BY BoundsAreNat DEF OfferIds
  <2> QED
    BY <2>1 DEF PeersInv, AgentTakes
<1> QED
  BY <1>1, <1>2, <1>3, <1>4 DEF PeersInv

LEMMA ChannelsAndEnds ==
    ASSUME PeersInv,
           \/ \E o \in OfferIds : ChannelCreated(o)
           \/ \E c \in 1 .. MaxConns : peer_path_up(c) \/ upsert_peer_connection(c)
           \/ \E named \in BOOLEAN : ConnectionEnds(named)
           \/ \E r \in reports : DisconnectReported(r)
           \/ \E e \in ending : cleanup_reported_peer(e)
           \/ PeerDisconnect \/ SessionEnds \/ SessionReturns \/ UNCHANGED vars
    PROVE  PeersInv'
<1>0. relay \in Turns /\ "absent" \in Turns
  BY DEF PeersInv, TasksTyped, Turns
<1>1. CASE \/ \E o \in OfferIds : ChannelCreated(o)
           \/ \E c \in 1 .. MaxConns : peer_path_up(c) \/ upsert_peer_connection(c)
  BY <1>0, <1>1, Dropped DEF ChannelCreated, peer_path_up, upsert_peer_connection, turnVars, offerVars, regVars, taskVars
<1>2. CASE \/ \E named \in BOOLEAN : ConnectionEnds(named)
           \/ \E r \in reports : DisconnectReported(r)
           \/ SessionReturns \/ UNCHANGED vars
  BY <1>0, <1>2, Dropped DEF ConnectionEnds, DisconnectReported, SessionReturns, vars, turnVars, offerVars, regVars, taskVars
<1>3. CASE (\E e \in ending : cleanup_reported_peer(e)) \/ PeerDisconnect \/ SessionEnds
  BY <1>0, <1>3, Dropped DEF cleanup_reported_peer, PeerDisconnect, SessionEnds, prune, turnVars, taskVars
<1> QED
  BY <1>1, <1>2, <1>3

LEMMA PeersStart == Init => PeersInv
<1> SUFFICES ASSUME Init PROVE PeersInv
  OBVIOUS
<1>1. task \in [Doers -> TaskRec] /\ \A a \in Doers : task[a].at = "idle"
  BY IdleTyped DEF Init, Doers
<1>2. OffersTyped /\ RegsTyped /\ TasksTyped
  BY <1>1, BoundsAreNat DEF Init, OffersTyped, RegsTyped, TasksTyped, Answers, Turns, RegIds
<1>3. OfferOnce /\ RegOnce /\ RegisteredWasAccepted
  BY <1>1 DEF Init, OfferOnce, RegOnce, Answering, Responding, RegIds, RegisteredWasAccepted
<1>4. AgentTakes
  <2>1. \A o \in OfferIds : o # 0
    BY BoundsAreNat DEF OfferIds
  <2> QED
    BY <1>1, <2>1 DEF Init, AgentTakes, Doers
<1> QED
  BY <1>2, <1>3, <1>4 DEF PeersInv

\* An offer and a registration request are answered at most once, whichever of the
\* agent and the windows come to it; an offer the agent decided to answer does not
\* stay waiting; a registration is told done only if it was accepted (answer.rs,
\* respond_register.rs, register.rs).
THEOREM PeersAreSound == Spec => []PeersSound
<1>1. PeersInv /\ [Next]_vars => PeersInv'
  <2> SUFFICES ASSUME PeersInv, [Next]_vars PROVE PeersInv'
    OBVIOUS
  <2>1. ASSUME NEW a \in Callers, NEW policy \in Policies,
               PeerConnect(a, policy) \/ \E accept \in BOOLEAN : PeerConnectAccept(a, accept, policy)
        PROVE  PeersInv'
    BY <2>1, CallsBegin
  <2>2. ASSUME NEW a \in Callers, PeerRegisterRespond(a) \/ PeerRegister(a)
        PROVE  PeersInv'
    BY <2>2, RegistersBegin
  <2>3. ASSUME NEW a \in Callers,
               \/ QuerySdk(a) \/ ClearStale(a) \/ FindTarget(a) \/ SetTurn(a) \/ ConnectToPeer(a)
               \/ RespondTakes(a) \/ RespondSends(a)
               \/ \E status \in {"accepted", "declined", "failed", "error"}, found, c \in BOOLEAN :
                     RegisterAnswered(a, status, found, c)
        PROVE  PeersInv'
    BY <2>3, DialsGoOn, RespondTakesKeeps, RespondSendsKeeps, RegisterAnsweredKeeps
  <2>4. ASSUME NEW a \in Doers, AnswerChecks(a) \/ AnswerTakes(a) \/ AnswerSets(a) \/ AnswerSends(a)
        PROVE  PeersInv'
    BY <2>4, AnswerChecksKeeps, AnswerTakesKeeps, AnswerSetsKeeps, AnswerSendsKeeps
  <2>5. CASE PostConnect \/ PostRegister \/ \E o \in OfferIds : agent_answer_for(o)
    BY <2>5, PostConnectKeeps, PostRegisterKeeps, AgentAnswersKeeps
  <2> QED
    BY <2>1, <2>2, <2>3, <2>4, <2>5, ChannelsAndEnds DEF Next, Doers
<1>2. PeersInv => PeersSound
  <2> SUFFICES ASSUME PeersInv PROVE PeersSound
    OBVIOUS
  <2>1. OneAnswerEach
    BY DEF PeersInv, OfferOnce, RegOnce, RegIds, OneAnswerEach
  <2>2. DecidedOfferIsTaken
    <3>1. offer # 0 => offer \in OfferIds
      BY BoundsAreNat DEF PeersInv, OffersTyped, OfferIds
    <3> QED
      BY <3>1 DEF PeersInv, AgentTakes, DecidedOfferIsTaken
  <2> QED
    BY <2>1, <2>2 DEF PeersInv, PeersSound
<1> QED
  BY PeersStart, <1>1, <1>2, PTL DEF Spec

-----------------------------------------------------------------------------
(* The session's groups.                                                   *)

PosNat == Nat \ {0}
AskKeys == GroupKeys \cup {G!Idle.key}
AskRec == [kind : {"idle", "message", "leave", "flag", "respond", "create"}, key : AskKeys, chan : Nat, yes : BOOLEAN]
ChanRec == [key : AskKeys, epoch : Nat, asked : BOOLEAN]

\* 0 is no channel.
GroupsTyped ==
    /\ ask \in [Callers -> AskRec] /\ groups \in [GroupKeys -> Nat] /\ epoch \in Nat
    /\ chan \in Seq(ChanRec) /\ waiting \subseteq 1 .. Len(chan)
    /\ receiving \subseteq PosNat /\ departed \subseteq PosNat

\* Events name a group of the session's.
EventsNameGroups == \A e \in toKernel : e.key \in GroupKeys

\* What the windows are told of, or are about to be, is flagged first.
OutIsFlagged ==
    /\ late = {} /\ out \subseteq departed /\ telling \subseteq departed
    /\ \A a \in Callers : ask[a].kind \in {"leave", "flag"} => ask[a].chan # 0 /\ ask[a].key \in GroupKeys

\* An invitation that is owed an answer is kept, and nobody is answering it.
OwedIsKept ==
    /\ owed \subseteq invites
    /\ \A a \in Callers : ask[a].kind = "respond" => ask[a].key \notin owed

LeftWereAsked == left \subseteq 1 .. Len(chan) /\ \A c \in left : chan[c].asked

\* The inductive invariant of the groups.
GroupsInv == GroupsTyped /\ OutIsFlagged /\ OwedIsKept /\ LeftWereAsked

LEMMA AskIdle == G!Idle \in AskRec /\ G!Idle.kind = "idle"
  BY DEF G!Idle, AskRec, AskKeys

LEMMA EventsStayNamed == GroupsInv /\ EventsNameGroups /\ [G!Next]_groupVars => EventsNameGroups'
<1> SUFFICES ASSUME GroupsInv, EventsNameGroups, [G!Next]_groupVars PROVE EventsNameGroups'
  OBVIOUS
<1>1. CASE toKernel' \subseteq toKernel
  BY <1>1 DEF EventsNameGroups
<1>2. ASSUME NEW k \in GroupKeys, NEW what, toKernel' = toKernel \cup {[what |-> what, key |-> k]} PROVE EventsNameGroups'
  BY <1>2 DEF EventsNameGroups
<1>3. CASE \E k \in GroupKeys : \/ G!ServerOpens(k) \/ G!Invites(k)
                                \/ \E what \in {"end", "disconnected", "nonexists"} : G!ServerRemoves(k, what)
  BY <1>1, <1>2, <1>3, Zenon DEF G!ServerOpens, G!Invites, G!ServerRemoves, G!Told, G!newsVars
<1>4. CASE \E a \in Callers, k \in GroupKeys :
              \/ G!GroupMessage(a, k) \/ G!GroupInvite(a, k) \/ G!GroupKick(a, k)
              \/ G!GroupLeave(a, k) \/ G!GroupEnd(a, k) \/ G!GroupCreate(a, k) \/ G!GroupCreateAppTopic(a, k)
              \/ \E accept \in BOOLEAN : G!GroupRespondRequest(a, k, accept)
  BY <1>1, <1>4 DEF G!GroupMessage, G!GroupInvite, G!GroupKick, G!GroupLeave, G!GroupEnd, G!GroupCreate,
                    G!GroupCreateAppTopic, G!GroupRespondRequest, G!Begin, G!newsVars
<1>5. CASE \E a \in Callers :
              \/ G!send_message(a) \/ G!LeaveSuccess(a) \/ G!create_with(a)
              \/ G!ChannelCreated(a) \/ G!Ended(a) \/ G!TimedOut(a)
              \/ \E success \in BOOLEAN : G!MembershipAnswered(a, success)
  BY <1>1, <1>5 DEF G!send_message, G!LeaveSuccess, G!create_with, G!ChannelCreated, G!Ended, G!TimedOut,
                    G!MembershipAnswered, G!newsVars
<1>8. ASSUME NEW a \in Callers, G!leave(a) PROVE EventsNameGroups'
  <2>1. PICK k \in GroupKeys : k = ask[a].key
    BY <1>8 DEF G!leave, GroupsInv, OutIsFlagged
  <2>2. \/ toKernel' = toKernel
        \/ toKernel' = toKernel \cup {[what |-> "end", key |-> k]}
        \/ toKernel' = toKernel \cup {[what |-> "left", key |-> k, chan |-> ask[a].chan]}
    BY <1>8, <2>1 DEF G!leave, G!serverAnswers
  <2> QED
    BY <2>2 DEF EventsNameGroups
<1>6. CASE \/ \E c \in waiting : G!GroupChannelCreated(c) \/ G!park(c)
           \/ \E e \in toRx : G!ReceiverFlags(e)
           \/ \E c \in telling : G!ReceiverTells(c)
           \/ \E e \in toKernel : G!GroupEvent(e) \/ G!EventLetGo(e)
  BY <1>1, <1>6 DEF G!GroupChannelCreated, G!park, G!ReceiverFlags, G!ReceiverTells, G!GroupEvent, G!EventLetGo, G!newsVars
<1>7. CASE G!SignOut \/ G!LinkDrops \/ G!DropReported \/ G!Connects \/ G!Mapped \/ UNCHANGED groupVars
  BY <1>1, <1>7 DEF G!SignOut, G!LinkDrops, G!DropReported, G!Connects, G!Mapped, G!newsVars, groupVars
<1> QED
  BY <1>3, <1>4, <1>5, <1>6, <1>7, <1>8 DEF G!Next

\* A leave's answer is of a channel that is flagged, or about to be.
LEMMA NoticesStay == GroupsInv /\ G!LeaveNoticeHasLeave /\ [G!Next]_groupVars => G!LeaveNoticeHasLeave'
<1> SUFFICES ASSUME GroupsInv, G!LeaveNoticeHasLeave, [G!Next]_groupVars PROVE G!LeaveNoticeHasLeave'
  OBVIOUS
<1> DEFINE Notices == {e \in toKernel : e.what = "left"}
           Flagging(c) == \E a \in Callers : ask[a].kind = "flag" /\ ask[a].chan = c
<1>0. ask \in [Callers -> AskRec]
  BY DEF GroupsInv, GroupsTyped
<1>1. ASSUME Notices' \subseteq Notices, departed \subseteq departed',
             \A a \in Callers : ask[a].kind = "flag" => ask'[a] = ask[a] \/ ask[a].chan \in departed'
      PROVE  G!LeaveNoticeHasLeave'
  BY <1>1 DEF G!LeaveNoticeHasLeave, G!Departed
<1>2. ASSUME UNCHANGED ask PROVE \A a \in Callers : ask[a].kind = "flag" => ask'[a] = ask[a] \/ ask[a].chan \in departed'
  BY <1>2
<1>3. CASE \E k \in GroupKeys : \/ G!ServerOpens(k) \/ G!Invites(k)
                                \/ \E what \in {"end", "disconnected", "nonexists"} : G!ServerRemoves(k, what)
  <2>1. Notices' \subseteq Notices
    <3>1. ASSUME NEW k, NEW what, toKernel' = toKernel \cup {[what |-> what, key |-> k]}, what # "left"
          PROVE  Notices' \subseteq Notices
      BY <3>1
    <3>2. CASE toKernel' = toKernel
      BY <3>2
    <3>3. CASE \E k \in GroupKeys : G!ServerOpens(k)
      BY <3>2, <3>3 DEF G!ServerOpens, G!newsVars
    <3>4. CASE \E k \in GroupKeys : G!Invites(k)
      BY <3>1, <3>4, Zenon DEF G!Invites, G!Told
    <3>5. ASSUME NEW k \in GroupKeys, NEW what \in {"end", "disconnected", "nonexists"}, G!ServerRemoves(k, what)
          PROVE  Notices' \subseteq Notices
      <4>1. what # "left"
        OBVIOUS
      <4>2. toKernel' = toKernel \/ toKernel' = toKernel \cup {[what |-> what, key |-> k]}
        BY <3>5, Zenon DEF G!ServerRemoves, G!Told
      <4> QED
        BY <3>1, <3>2, <4>1, <4>2
    <3> QED
      BY <1>3, <3>3, <3>4, <3>5
  <2>2. UNCHANGED <<ask, departed>>
    BY <1>3 DEF G!ServerOpens, G!Invites, G!ServerRemoves, G!askVars, G!mapVars
  <2> QED
    BY <1>1, <2>1, <2>2
<1>4. ASSUME NEW a \in Callers, NEW k \in GroupKeys,
              \/ G!GroupMessage(a, k) \/ G!GroupInvite(a, k) \/ G!GroupKick(a, k)
              \/ G!GroupLeave(a, k) \/ G!GroupEnd(a, k) \/ G!GroupCreate(a, k) \/ G!GroupCreateAppTopic(a, k)
              \/ \E accept \in BOOLEAN : G!GroupRespondRequest(a, k, accept)
      PROVE  G!LeaveNoticeHasLeave'
  <2>1. PICK kind, c, yes : G!Begin(a, kind, k, c, yes)
    BY <1>4 DEF G!GroupMessage, G!GroupInvite, G!GroupKick, G!GroupLeave, G!GroupEnd, G!GroupCreate,
                G!GroupCreateAppTopic, G!GroupRespondRequest
  <2>2. ask[a].kind = "idle" /\ \A b \in Callers \ {a} : ask'[b] = ask[b]
    BY <1>0, <2>1, AskIdle DEF G!Begin
  <2>3. UNCHANGED <<toKernel, departed>>
    BY <2>1 DEF G!Begin, G!newsVars, G!mapVars
  <2> QED
    BY <1>1, <2>2, <2>3
<1>5. ASSUME NEW a \in Callers,
              \/ G!send_message(a) \/ G!LeaveSuccess(a) \/ G!create_with(a)
              \/ G!ChannelCreated(a) \/ G!Ended(a) \/ G!TimedOut(a)
              \/ \E success \in BOOLEAN : G!MembershipAnswered(a, success)
      PROVE  G!LeaveNoticeHasLeave'
  <2>1. \A b \in Callers \ {a} : ask'[b] = ask[b]
    BY <1>0, <1>5 DEF G!send_message, G!LeaveSuccess, G!create_with, G!ChannelCreated, G!Ended, G!TimedOut,
                G!MembershipAnswered, G!done, G!answered
  <2>2. toKernel' = toKernel
    BY <1>5 DEF G!send_message, G!LeaveSuccess, G!create_with, G!ChannelCreated, G!Ended, G!TimedOut,
                G!MembershipAnswered, G!newsVars
  <2>3. departed \subseteq departed'
    BY <1>5 DEF G!send_message, G!LeaveSuccess, G!create_with, G!ChannelCreated, G!Ended, G!TimedOut,
                G!MembershipAnswered, G!mapVars, G!adopt_or_drop, G!adopt
  <2>4. ask[a].kind # "flag" \/ ask[a].chan \in departed'
    BY <1>5 DEF G!send_message, G!LeaveSuccess, G!create_with, G!ChannelCreated, G!Ended, G!TimedOut,
                G!MembershipAnswered
  <2> QED
    BY <1>1, <2>1, <2>2, <2>3, <2>4
<1>6. ASSUME NEW a \in Callers, G!leave(a) PROVE G!LeaveNoticeHasLeave'
  <2>0. ask[a].kind = "leave" /\ departed' = departed
    BY <1>6 DEF G!leave, G!mapVars
  <2>1. CASE toKernel' = toKernel /\ \A b \in Callers \ {a} : ask'[b] = ask[b]
    BY <1>1, <2>0, <2>1
  <2>2. CASE ask' = [ask EXCEPT ![a].kind = "flag"]
    <3>1. /\ ask'[a].kind = "flag" /\ ask'[a].chan = ask[a].chan
          /\ \A b \in Callers \ {a} : ask'[b] = ask[b]
      BY <1>0, <2>2 DEF AskRec
    <3>2. \A e \in Notices' : e \in Notices \/ e.chan = ask[a].chan
      BY <1>6 DEF G!leave, G!serverAnswers
    <3> QED
      BY <2>0, <3>1, <3>2 DEF G!LeaveNoticeHasLeave, G!Departed
  <2> QED
    BY <1>0, <1>6, <2>1, <2>2 DEF G!leave, G!done, G!answered
<1>7. CASE \/ \E c \in waiting : G!GroupChannelCreated(c) \/ G!park(c)
           \/ \E e \in toRx : G!ReceiverFlags(e)
           \/ \E c \in telling : G!ReceiverTells(c)
           \/ \E e \in toKernel : G!GroupEvent(e) \/ G!EventLetGo(e)
  <2>1. toKernel' \subseteq toKernel /\ departed \subseteq departed'
    BY <1>7 DEF G!GroupChannelCreated, G!adopt, G!park, G!ReceiverFlags, G!ReceiverTells, G!GroupEvent, G!EventLetGo,
                G!newsVars, G!mapVars
  <2>2. UNCHANGED ask
    BY <1>7 DEF G!GroupChannelCreated, G!park, G!ReceiverFlags, G!ReceiverTells, G!GroupEvent, G!EventLetGo, G!askVars
  <2> QED
    BY <1>1, <2>1, <2>2
<1>8. CASE G!SignOut \/ G!LinkDrops \/ G!DropReported \/ G!Connects \/ G!Mapped \/ UNCHANGED groupVars
  <2>1. UNCHANGED <<toKernel, departed, ask>>
    BY <1>8 DEF G!SignOut, G!LinkDrops, G!DropReported, G!Connects, G!Mapped, G!newsVars, G!mapVars, G!askVars, groupVars
  <2> QED
    BY <1>1, <2>1
<1> QED
  BY <1>3, <1>4, <1>5, <1>6, <1>7, <1>8 DEF G!Next

\* Steps that open no channel, flag none and answer nothing: they may drop what the
\* session holds.
LEMMA GroupsDrop ==
    ASSUME GroupsInv, UNCHANGED <<ask, chan, left, departed, late, out, telling>>,
           groups' \in [GroupKeys -> Nat], epoch' \in Nat, waiting' \subseteq waiting, receiving' \subseteq receiving,
           (invites' = invites /\ owed' = owed) \/ owed' = {}
    PROVE  GroupsInv'
  BY DEF GroupsInv, GroupsTyped, OutIsFlagged, OwedIsKept, LeftWereAsked

LEMMA OutsideSteps ==
    ASSUME GroupsInv,
           \/ \E k \in GroupKeys : \/ G!Invites(k)
                                   \/ \E what \in {"end", "disconnected", "nonexists"} : G!ServerRemoves(k, what)
           \/ \E c \in waiting : G!park(c)
           \/ \E e \in toKernel : G!EventLetGo(e)
           \/ G!SignOut \/ G!LinkDrops \/ G!DropReported \/ G!Connects \/ G!Mapped
           \/ UNCHANGED groupVars
    PROVE  GroupsInv'
<1>0. groups \in [GroupKeys -> Nat] /\ epoch \in Nat /\ G!NoGroups \in [GroupKeys -> Nat]
  BY DEF GroupsInv, GroupsTyped, G!NoGroups
<1>1. CASE \E k \in GroupKeys : G!Invites(k)
  BY <1>0, <1>1, GroupsDrop DEF G!Invites, G!sessionVars, G!channelVars, G!mapVars, G!inviteVars, G!askVars
<1>2. CASE \E k \in GroupKeys, what \in {"end", "disconnected", "nonexists"} : G!ServerRemoves(k, what)
  BY <1>0, <1>2, GroupsDrop DEF G!ServerRemoves, G!sessionVars, G!mapVars, G!inviteVars, G!askVars
<1>3. CASE \E c \in waiting : G!park(c)
  BY <1>0, <1>3, GroupsDrop DEF G!park, G!sessionVars, G!mapVars, G!newsVars, G!inviteVars, G!askVars
<1>4. CASE \E e \in toKernel : G!EventLetGo(e)
  BY <1>0, <1>4, GroupsDrop DEF G!EventLetGo, G!sessionVars, G!channelVars, G!mapVars, G!inviteVars, G!askVars
<1>5. CASE G!SignOut
  BY <1>0, <1>5, GroupsDrop DEF G!SignOut, G!removed, G!channelVars, G!newsVars, G!askVars
<1>6. CASE G!LinkDrops
  BY <1>0, <1>6, GroupsDrop DEF G!LinkDrops, G!channelVars, G!inviteVars, G!askVars
<1>7. CASE G!DropReported
  BY <1>0, <1>7, GroupsDrop DEF G!DropReported, G!removed, G!channelVars, G!newsVars, G!inviteVars, G!askVars
<1>8. CASE G!Connects
  BY <1>0, <1>8, GroupsDrop DEF G!Connects, G!channelVars, G!mapVars, G!newsVars, G!inviteVars, G!askVars
<1>9. CASE G!Mapped
  BY <1>0, <1>9, GroupsDrop DEF G!Mapped, G!channelVars, G!mapVars, G!newsVars, G!inviteVars, G!askVars
<1>10. CASE UNCHANGED groupVars
  BY <1>0, <1>10, GroupsDrop DEF groupVars
<1> QED
  BY <1>1, <1>2, <1>3, <1>4, <1>5, <1>6, <1>7, <1>8, <1>9, <1>10

\* A channel is opened.
LEMMA OpenedIs ==
    ASSUME GroupsInv, NEW k \in AskKeys, NEW wanted \in BOOLEAN, chan' = G!opened(k, wanted)
    PROVE  /\ chan' \in Seq(ChanRec) /\ Len(chan') = Len(chan) + 1 /\ Len(chan) \in Nat
           /\ \A c \in 1 .. Len(chan) : chan'[c] = chan[c]
           /\ chan'[Len(chan')].asked = wanted
           /\ 1 .. Len(chan) \subseteq 1 .. Len(chan') /\ Len(chan') \in 1 .. Len(chan') /\ Len(chan') \in PosNat
<1>1. PICK r \in ChanRec : r = [key |-> k, epoch |-> epoch, asked |-> wanted]
  BY DEF ChanRec, GroupsInv, GroupsTyped
<1>2. chan' = Append(chan, r) /\ chan \in Seq(ChanRec) /\ r.asked = wanted
  BY <1>1 DEF G!opened, GroupsInv, GroupsTyped
<1>3. chan' \in Seq(ChanRec) /\ Len(chan') = Len(chan) + 1 /\ Len(chan) \in Nat
  BY <1>2
<1>4. (\A c \in 1 .. Len(chan) : chan'[c] = chan[c]) /\ chan'[Len(chan')] = r
  BY <1>2, <1>3
<1> QED
  BY <1>2, <1>3, <1>4 DEF PosNat

LEMMA LeftStays ==
    ASSUME GroupsInv, \A c \in 1 .. Len(chan) : chan'[c] = chan[c], 1 .. Len(chan) \subseteq 1 .. Len(chan'),
           UNCHANGED left \/ (left' = left \cup {Len(chan')} /\ Len(chan') \in 1 .. Len(chan') /\ chan'[Len(chan')].asked)
    PROVE  LeftWereAsked'
  BY DEF GroupsInv, LeftWereAsked

LEMMA InsertTyped ==
    ASSUME GroupsInv, NEW k \in GroupKeys, NEW c \in Nat
    PROVE  G!insert(k, c) \in [GroupKeys -> Nat]
  BY DEF GroupsInv, GroupsTyped, G!insert

LEMMA ServerOpensKeeps ==
    ASSUME GroupsInv, NEW k \in GroupKeys, G!ServerOpens(k)
    PROVE  GroupsInv'
<1>1. chan' = G!opened(k, FALSE) /\ waiting' = waiting \cup {Len(chan')} /\ k \in AskKeys /\ FALSE \in BOOLEAN
      /\ UNCHANGED <<epoch, groups, departed, receiving, out, telling, invites, owed, ask, late, left>>
  BY DEF G!ServerOpens, G!sessionVars, G!mapVars, G!newsVars, G!inviteVars, G!askVars, AskKeys
<1>2. /\ chan' \in Seq(ChanRec) /\ \A c \in 1 .. Len(chan) : chan'[c] = chan[c]
      /\ 1 .. Len(chan) \subseteq 1 .. Len(chan') /\ Len(chan') \in 1 .. Len(chan')
  BY <1>1, OpenedIs
<1>3. LeftWereAsked'
  BY <1>1, <1>2, LeftStays
<1> QED
  BY <1>1, <1>2, <1>3 DEF GroupsInv, GroupsTyped, OutIsFlagged, OwedIsKept

LEMMA ChannelAdopted ==
    ASSUME GroupsInv, NEW c \in waiting, G!GroupChannelCreated(c)
    PROVE  GroupsInv'
<1>1. c \in PosNat /\ c \in Nat
  BY DEF GroupsInv, GroupsTyped, PosNat
<1>2. /\ groups' = G!insert(chan[c].key, c) /\ receiving' \in {receiving, receiving \cup {c}} /\ waiting' = waiting \ {c}
      /\ UNCHANGED <<epoch, chan, departed, out, telling, invites, owed, ask, late, left>>
  BY DEF G!GroupChannelCreated, G!adopt, G!sessionVars, G!newsVars, G!inviteVars, G!askVars
<1>3. groups' \in [GroupKeys -> Nat]
  BY <1>1, <1>2 DEF GroupsInv, GroupsTyped, G!insert
<1> QED
  BY <1>1, <1>2, <1>3 DEF GroupsInv, GroupsTyped, OutIsFlagged, OwedIsKept, LeftWereAsked

\* A request begins.
LEMMA BeginKeeps ==
    ASSUME GroupsInv, NEW a \in Callers, NEW kind \in {"message", "leave", "respond", "create"}, NEW k \in GroupKeys,
           NEW c \in Nat, NEW yes \in BOOLEAN, G!Begin(a, kind, k, c, yes),
           kind = "leave" => c # 0, owed' \subseteq owed, kind = "respond" => k \notin owed'
    PROVE  GroupsInv'
<1>1. [kind |-> kind, key |-> k, chan |-> c, yes |-> yes] \in AskRec
  BY DEF AskRec, AskKeys
<1>2. /\ ask' \in [Callers -> AskRec] /\ \A b \in Callers : b # a => ask'[b] = ask[b]
      /\ ask'[a].kind = kind /\ ask'[a].key = k /\ ask'[a].chan = c
  BY <1>1 DEF G!Begin, GroupsInv, GroupsTyped
<1>3. UNCHANGED <<epoch, chan, waiting, left, groups, departed, receiving, out, telling, invites, late>>
  BY DEF G!Begin, G!sessionVars, G!channelVars, G!mapVars, G!newsVars
<1> QED
  BY <1>2, <1>3 DEF GroupsInv, GroupsTyped, OutIsFlagged, OwedIsKept, LeftWereAsked

LEMMA RequestsBegin ==
    ASSUME GroupsInv, NEW a \in Callers, NEW k \in GroupKeys,
           \/ G!GroupMessage(a, k) \/ G!GroupInvite(a, k) \/ G!GroupKick(a, k)
           \/ G!GroupLeave(a, k) \/ G!GroupEnd(a, k) \/ G!GroupCreate(a, k) \/ G!GroupCreateAppTopic(a, k)
           \/ \E accept \in BOOLEAN : G!GroupRespondRequest(a, k, accept)
    PROVE  GroupsInv'
<1>0. PICK c \in Nat : c = G!get(k)
  BY DEF GroupsInv, GroupsTyped, G!get
<1>1. epoch \in Nat /\ TRUE \in BOOLEAN /\ FALSE \in BOOLEAN
  BY DEF GroupsInv, GroupsTyped
<1>2. CASE G!GroupMessage(a, k) \/ G!GroupInvite(a, k) \/ G!GroupKick(a, k)
  <2>1. G!Begin(a, "message", k, c, FALSE) /\ owed' = owed
    BY <1>0, <1>2 DEF G!GroupMessage, G!GroupInvite, G!GroupKick
  <2> QED
    BY <1>1, <2>1, BeginKeeps
<1>3. CASE G!GroupLeave(a, k) \/ G!GroupEnd(a, k)
  <2>1. PICK yes \in BOOLEAN : G!Begin(a, "leave", k, c, yes) /\ owed' = owed /\ c # 0
    BY <1>0, <1>3 DEF G!GroupLeave, G!GroupEnd
  <2> QED
    BY <1>1, <2>1, BeginKeeps
<1>4. CASE G!GroupCreate(a, k) \/ G!GroupCreateAppTopic(a, k)
  <2>1. PICK e \in Nat : e = epoch
    BY <1>1
  <2>2. G!Begin(a, "create", k, e, TRUE) /\ owed' = owed
    BY <1>4, <2>1 DEF G!GroupCreate, G!GroupCreateAppTopic
  <2> QED
    BY <1>1, <2>2, BeginKeeps
<1>5. ASSUME NEW accept \in BOOLEAN, G!GroupRespondRequest(a, k, accept) PROVE GroupsInv'
  <2>1. PICK e \in Nat : e = epoch
    BY <1>1
  <2>2. G!Begin(a, "respond", k, e, accept) /\ owed' = owed \ {k}
    BY <1>5, <2>1 DEF G!GroupRespondRequest
  <2> QED
    BY <2>2, BeginKeeps
<1> QED
  BY <1>2, <1>3, <1>4, <1>5

\* A request ends.
LEMMA AnsweredIs ==
    ASSUME GroupsInv, NEW a \in Callers, G!answered(a)
    PROVE  /\ ask' \in [Callers -> AskRec] /\ \A b \in Callers : b # a => ask'[b] = ask[b]
           /\ ask'[a].kind = "idle"
  BY AskIdle DEF G!answered, GroupsInv, GroupsTyped

\* Nothing is sent to a channel the windows were told of: the flag is seen first.
LEMMA SendKeeps ==
    ASSUME GroupsInv, NEW a \in Callers, G!send_message(a)
    PROVE  GroupsInv'
<1>1. /\ ask' \in [Callers -> AskRec] /\ \A b \in Callers : b # a => ask'[b] = ask[b]
      /\ ask'[a].kind = "idle"
  BY AnsweredIs DEF G!send_message
<1>2. late' = {}
  BY DEF G!send_message, G!Departed, GroupsInv, OutIsFlagged
<1>3. UNCHANGED <<epoch, chan, waiting, left, groups, departed, receiving, out, telling, invites, owed>>
  BY DEF G!send_message, G!sessionVars, G!channelVars, G!mapVars, G!newsVars, G!inviteVars
<1> QED
  BY <1>1, <1>2, <1>3 DEF GroupsInv, GroupsTyped, OutIsFlagged, OwedIsKept, LeftWereAsked

LEMMA LeaveKeeps ==
    ASSUME GroupsInv, NEW a \in Callers, G!leave(a)
    PROVE  GroupsInv'
<1>0. ask \in [Callers -> AskRec] /\ ask[a].kind = "leave" /\ ask[a].chan # 0 /\ ask[a].key \in GroupKeys
  BY DEF GroupsInv, GroupsTyped, OutIsFlagged, G!leave
<1>1. UNCHANGED <<epoch, chan, waiting, left, groups, departed, receiving, out, telling, invites, owed>>
  BY DEF G!leave, G!sessionVars, G!mapVars, G!newsVars, G!inviteVars
<1>2. /\ ask' \in [Callers -> AskRec] /\ \A b \in Callers : b # a => ask'[b] = ask[b]
      /\ ask'[a].kind \in {"idle", "flag"} /\ late' = late
      /\ (ask'[a].kind = "flag" => ask'[a].chan # 0 /\ ask'[a].key \in GroupKeys)
  <2>1. CASE G!done(a)
    BY <2>1, AnsweredIs DEF G!done
  <2>2. CASE ask' = [ask EXCEPT ![a].kind = "flag"] /\ late' = late
    BY <1>0, <2>2 DEF AskRec
  <2> QED
    BY <2>1, <2>2 DEF G!leave
<1> QED
  BY <1>1, <1>2 DEF GroupsInv, GroupsTyped, OutIsFlagged, OwedIsKept, LeftWereAsked

LEMMA LeaveSuccessKeeps ==
    ASSUME GroupsInv, NEW a \in Callers, G!LeaveSuccess(a)
    PROVE  GroupsInv'
<1>1. /\ ask' \in [Callers -> AskRec] /\ \A b \in Callers : b # a => ask'[b] = ask[b]
      /\ ask'[a].kind = "idle"
  BY AnsweredIs DEF G!LeaveSuccess, G!done
<1>2. PICK c \in PosNat : c = ask[a].chan
  BY DEF GroupsInv, GroupsTyped, OutIsFlagged, AskRec, PosNat, G!LeaveSuccess
<1>3. departed' = departed \cup {c} /\ out' = out \cup {c} /\ late' = late
      /\ UNCHANGED <<epoch, chan, waiting, left, groups, receiving, telling, invites, owed>>
  BY <1>2 DEF G!LeaveSuccess, G!done, G!sessionVars, G!channelVars, G!inviteVars
<1> QED
  BY <1>1, <1>2, <1>3 DEF GroupsInv, GroupsTyped, OutIsFlagged, OwedIsKept, LeftWereAsked

\* A channel that was asked for is adopted, or left.
LEMMA AskedOpens ==
    ASSUME GroupsInv, NEW a \in Callers, NEW k \in AskKeys, chan' = G!opened(k, TRUE), G!adopt_or_drop(k, Len(chan')),
           G!done(a), owed' = owed, owed \subseteq invites', UNCHANGED <<epoch, waiting, out, telling>>
    PROVE  GroupsInv'
<1>1. /\ ask' \in [Callers -> AskRec] /\ \A b \in Callers : b # a => ask'[b] = ask[b]
      /\ ask'[a].kind = "idle" /\ late' = late
  BY AnsweredIs DEF G!done
<1>2. /\ chan' \in Seq(ChanRec) /\ \A c \in 1 .. Len(chan) : chan'[c] = chan[c]
      /\ 1 .. Len(chan) \subseteq 1 .. Len(chan') /\ Len(chan') \in 1 .. Len(chan')
      /\ chan'[Len(chan')].asked = TRUE /\ Len(chan') \in PosNat
  BY OpenedIs
<1>3. left' = left \/ left' = left \cup {Len(chan')}
  BY DEF G!adopt_or_drop
<1>4. LeftWereAsked'
  BY <1>2, <1>3, LeftStays
<1>5. groups' \in [GroupKeys -> Nat] /\ receiving' \subseteq PosNat /\ departed' = departed
  <2>1. PICK c \in PosNat : c = Len(chan')
    BY <1>2
  <2>2. CASE G!adopt(k, c, epoch)
    BY <2>1, <2>2 DEF G!adopt, G!insert, GroupsInv, GroupsTyped, PosNat
  <2>3. CASE UNCHANGED G!mapVars
    BY <2>3 DEF G!mapVars, GroupsInv, GroupsTyped
  <2> QED
    BY <2>1, <2>2, <2>3 DEF G!adopt_or_drop
<1> QED
  BY <1>1, <1>2, <1>4, <1>5 DEF GroupsInv, GroupsTyped, OutIsFlagged, OwedIsKept

LEMMA KeyTyped == ASSUME GroupsInv, NEW a \in Callers PROVE ask[a].key \in AskKeys
  BY DEF GroupsInv, GroupsTyped, AskRec

LEMMA CreateKeeps ==
    ASSUME GroupsInv, NEW a \in Callers, G!create_with(a)
    PROVE  GroupsInv'
<1>0. PICK k \in AskKeys : k = ask[a].key
  BY KeyTyped
<1>1. /\ G!done(a) /\ UNCHANGED <<epoch, out, telling, invites, owed, waiting>>
      /\ \/ chan' = G!opened(k, TRUE) /\ G!adopt_or_drop(k, Len(chan'))
         \/ UNCHANGED <<chan, left, groups, departed, receiving>>
  BY <1>0 DEF G!create_with, G!sessionVars, G!newsVars, G!inviteVars, G!mapVars
<1>2. CASE chan' = G!opened(k, TRUE) /\ G!adopt_or_drop(k, Len(chan'))
  BY <1>1, <1>2, AskedOpens DEF GroupsInv, OwedIsKept
<1>3. CASE UNCHANGED <<chan, left, groups, departed, receiving>>
  <2>1. /\ ask' \in [Callers -> AskRec] /\ \A b \in Callers : b # a => ask'[b] = ask[b]
        /\ ask'[a].kind = "idle" /\ late' = late
    BY <1>1, AnsweredIs DEF G!done
  <2> QED
    BY <1>1, <1>3, <2>1 DEF GroupsInv, GroupsTyped, OutIsFlagged, OwedIsKept, LeftWereAsked
<1> QED
  BY <1>1, <1>2, <1>3

LEMMA ChannelKeeps ==
    ASSUME GroupsInv, NEW a \in Callers, G!ChannelCreated(a)
    PROVE  GroupsInv'
<1>0. PICK k \in AskKeys : k = ask[a].key
  BY KeyTyped
<1>1. k \notin owed
  BY <1>0 DEF GroupsInv, OwedIsKept, G!ChannelCreated
<1>2. /\ chan' = G!opened(k, TRUE) /\ G!adopt_or_drop(k, Len(chan')) /\ G!done(a)
      /\ UNCHANGED <<epoch, out, telling, owed, waiting>> /\ invites' \in {invites, invites \ {k}}
  BY <1>0 DEF G!ChannelCreated, G!sessionVars, G!newsVars, G!settle
<1> QED
  BY <1>1, <1>2, AskedOpens DEF GroupsInv, OwedIsKept

\* The other ends of an answer: what is owed again is kept, and answered by nobody.
LEMMA AnswerEnds ==
    ASSUME GroupsInv, NEW a \in Callers,
           G!Ended(a) \/ G!TimedOut(a) \/ \E success \in BOOLEAN : G!MembershipAnswered(a, success)
    PROVE  GroupsInv'
<1>0. PICK k \in AskKeys : k = ask[a].key
  BY KeyTyped
<1>1. ask[a].kind = "respond" /\ k \notin owed
  BY <1>0 DEF GroupsInv, OwedIsKept, G!Ended, G!TimedOut, G!MembershipAnswered
<1>2. /\ G!done(a)
      /\ UNCHANGED <<epoch, chan, waiting, left, groups, departed, receiving, out, telling>>
  BY DEF G!Ended, G!TimedOut, G!MembershipAnswered, G!sessionVars, G!channelVars, G!mapVars, G!newsVars
<1>3. /\ ask' \in [Callers -> AskRec] /\ \A b \in Callers : b # a => ask'[b] = ask[b]
      /\ ask'[a].kind = "idle" /\ late' = late
  BY <1>2, AnsweredIs DEF G!done
<1>4. \/ owed' \in {owed, owed \ {k}} /\ invites' \in {invites, invites \ {k}}
      \/ owed' = G!owedAgain(a) /\ invites' = invites
  BY <1>0, <1>1 DEF G!Ended, G!TimedOut, G!MembershipAnswered, G!settle
<1>5. OwedIsKept'
  <2>1. CASE owed' \in {owed, owed \ {k}} /\ invites' \in {invites, invites \ {k}}
    BY <1>1, <1>3, <2>1 DEF GroupsInv, OwedIsKept
  <2>2. CASE owed' = G!owedAgain(a) /\ invites' = invites
    <3>1. CASE owed' = owed
      BY <1>3, <2>2, <3>1 DEF GroupsInv, OwedIsKept
    <3>2. CASE owed' = owed \cup {k} /\ k \in invites /\ \A b \in Callers \ {a} : ~(ask[b].kind = "respond" /\ ask[b].key = k)
      BY <1>3, <2>2, <3>2 DEF GroupsInv, OwedIsKept
    <3> QED
      BY <1>0, <2>2, <3>1, <3>2 DEF G!owedAgain, G!Answering
  <2> QED
    BY <1>4, <2>1, <2>2
<1> QED
  BY <1>2, <1>3, <1>5 DEF GroupsInv, GroupsTyped, OutIsFlagged, LeftWereAsked

\* A departure is flagged before it is told, on either path.
LEMMA ReceiverKeeps ==
    ASSUME GroupsInv, (\E e \in toRx : G!ReceiverFlags(e)) \/ \E c \in telling : G!ReceiverTells(c)
    PROVE  GroupsInv'
<1>1. CASE \E e \in toRx : G!ReceiverFlags(e)
  <2>1. PICK c \in receiving : departed' = departed \cup {c} /\ telling' = telling \cup {c}
    BY <1>1 DEF G!ReceiverFlags
  <2>2. UNCHANGED <<epoch, chan, waiting, left, groups, receiving, out, invites, owed, ask, late>>
    BY <1>1 DEF G!ReceiverFlags, G!sessionVars, G!channelVars, G!inviteVars, G!askVars
  <2> QED
    BY <2>1, <2>2 DEF GroupsInv, GroupsTyped, OutIsFlagged, OwedIsKept, LeftWereAsked
<1>2. CASE \E c \in telling : G!ReceiverTells(c)
  <2>1. PICK c \in telling : telling' = telling \ {c} /\ out' = out \cup {c}
    BY <1>2 DEF G!ReceiverTells
  <2>2. UNCHANGED <<epoch, chan, waiting, left, groups, departed, receiving, invites, owed, ask, late>>
    BY <1>2 DEF G!ReceiverTells, G!sessionVars, G!channelVars, G!mapVars, G!inviteVars, G!askVars
  <2> QED
    BY <2>1, <2>2 DEF GroupsInv, GroupsTyped, OutIsFlagged, OwedIsKept, LeftWereAsked
<1> QED
  BY <1>1, <1>2

LEMMA EventKeeps ==
    ASSUME GroupsInv, EventsNameGroups, NEW e \in toKernel, G!GroupEvent(e)
    PROVE  GroupsInv'
<1>1. PICK k \in GroupKeys : k = e.key
  BY DEF EventsNameGroups
<1>2. UNCHANGED <<epoch, chan, waiting, left, groups, receiving, telling, ask, late>>
  BY DEF G!GroupEvent, G!sessionVars, G!channelVars, G!askVars
<1>3. PICK gone \in SUBSET PosNat : departed' = departed \cup gone /\ out' = out \cup gone
  <2>1. G!mark_departed(k) \in SUBSET PosNat
    <3>1. CASE G!get(k) = 0
      BY <3>1 DEF G!mark_departed
    <3>2. CASE G!get(k) # 0
      <4>1. G!get(k) \in PosNat
        BY <3>2 DEF G!get, GroupsInv, GroupsTyped, PosNat
      <4> QED
        BY <3>2, <4>1 DEF G!mark_departed
    <3> QED
      BY <3>1, <3>2
  <2> QED
    BY <1>1, <2>1 DEF G!GroupEvent
<1>4. OwedIsKept'
  <2>1. \/ owed' = owed /\ invites' = invites
        \/ owed' = owed \ {k} /\ invites' = invites \ {k}
        \/ owed' = owed /\ invites' = invites \cup {k}
        \/ owed' = owed \cup {k} /\ invites' = invites \cup {k} /\ ~G!Answering(k, Callers)
    BY <1>1 DEF G!GroupEvent, G!record, G!settle, G!inviteVars
  <2> QED
    BY <1>2, <2>1 DEF GroupsInv, OwedIsKept, G!Answering
<1> QED
  BY <1>2, <1>3, <1>4 DEF GroupsInv, GroupsTyped, OutIsFlagged, LeftWereAsked

LEMMA GroupsStart == G!Init => GroupsInv
  BY AskIdle DEF G!Init, G!NoGroups, GroupsInv, GroupsTyped, OutIsFlagged, OwedIsKept, LeftWereAsked, PosNat

LEMMA GroupsStepKeeps == GroupsInv /\ EventsNameGroups /\ [G!Next]_groupVars => GroupsInv'
<1> SUFFICES ASSUME GroupsInv, EventsNameGroups, [G!Next]_groupVars PROVE GroupsInv'
  OBVIOUS
<1>1. ASSUME NEW k \in GroupKeys, G!ServerOpens(k) PROVE GroupsInv'
  BY <1>1, ServerOpensKeeps
<1>2. ASSUME NEW c \in waiting, G!GroupChannelCreated(c) PROVE GroupsInv'
  BY <1>2, ChannelAdopted
<1>3. ASSUME NEW a \in Callers, NEW k \in GroupKeys,
             \/ G!GroupMessage(a, k) \/ G!GroupInvite(a, k) \/ G!GroupKick(a, k)
             \/ G!GroupLeave(a, k) \/ G!GroupEnd(a, k) \/ G!GroupCreate(a, k) \/ G!GroupCreateAppTopic(a, k)
             \/ \E accept \in BOOLEAN : G!GroupRespondRequest(a, k, accept)
      PROVE  GroupsInv'
  BY <1>3, RequestsBegin
<1>4. ASSUME NEW a \in Callers,
             \/ G!send_message(a) \/ G!leave(a) \/ G!LeaveSuccess(a) \/ G!create_with(a)
             \/ G!ChannelCreated(a) \/ G!Ended(a) \/ G!TimedOut(a)
             \/ \E success \in BOOLEAN : G!MembershipAnswered(a, success)
      PROVE  GroupsInv'
  BY <1>4, SendKeeps, LeaveKeeps, LeaveSuccessKeeps, CreateKeeps, ChannelKeeps, AnswerEnds
<1>5. ASSUME NEW e \in toKernel, G!GroupEvent(e) PROVE GroupsInv'
  BY <1>5, EventKeeps
<1> QED
  BY <1>1, <1>2, <1>3, <1>4, <1>5, OutsideSteps, ReceiverKeeps DEF G!Next

\* The windows are told the truth about their groups, at any number of channels,
\* callers, events and SDK sessions: no lookup finds a channel they were told the
\* session is out of and nothing is sent to it, the server's answer to a leave is of a
\* channel flagged or about to be, an invitation owed an answer stays
\* listed, and no restored membership is given up (group_channels.rs,
\* pending_group_invites.rs, session_wait.rs).
THEOREM GroupsAreSound == PeersSpec => []GroupsSound
<1>1. PeersInit => GroupsInv /\ EventsNameGroups /\ G!LeaveNoticeHasLeave
  BY GroupsStart DEF PeersInit, G!Init, EventsNameGroups, G!LeaveNoticeHasLeave
<1>2. GroupsInv /\ EventsNameGroups /\ G!LeaveNoticeHasLeave
        /\ [PeersStep \/ GroupsStep \/ PullsStep]_<<part, vars, groupVars, pullVars>>
        => GroupsInv' /\ EventsNameGroups' /\ G!LeaveNoticeHasLeave'
  BY GroupsStepKeeps, EventsStayNamed, NoticesStay DEF PeersStep, GroupsStep, PullsStep
<1>3. GroupsInv /\ G!LeaveNoticeHasLeave => GroupsSound
  <2> SUFFICES ASSUME GroupsInv, G!LeaveNoticeHasLeave PROVE G!GroupsSound
    BY DEF GroupsSound
  <2>1. G!ToldMeansLeft
    BY DEF GroupsInv, GroupsTyped, OutIsFlagged, G!ToldMeansLeft, G!get, G!Departed, PosNat
  <2>2. G!InviteKept
    BY DEF GroupsInv, OwedIsKept, G!InviteKept, G!list_joined, G!unanswered
  <2>3. G!RestoredNotLeft
    BY DEF GroupsInv, LeftWereAsked, G!RestoredNotLeft
  <2> QED
    BY <2>1, <2>2, <2>3 DEF G!GroupsSound
<1> QED
  BY <1>1, <1>2, <1>3, PTL DEF PeersSpec

-----------------------------------------------------------------------------
(* Pulled files, and the page's reads of them.                             *)

PullRec == [key : PulledKeys \cup {None}, watched : BOOLEAN,
            stream : {"none", "failed", "refused", "begun", "saved", "done"}, as : 0 .. MaxPulls]
Idents == PulledKeys \X Nat
EntryRec == [ident : Idents, generation : Nat, next : Nat \cup {None}, held : BOOLEAN, late : BOOLEAN, old : BOOLEAN]
ReadRec == [at : {"idle", "open", "read", "settle"}, key : PulledKeys \cup {None}, offset : Nat, ident : Idents \cup {0},
            generation : Nat, got : Nat, wanted : BOOLEAN]

PullsTyped ==
    /\ pull \in [F!Pulls -> PullRec]
    /\ pulls \in Seq(F!Pulls) /\ sending \in Seq(F!Pulls)
    /\ remote \in Seq(F!Pulls) /\ handles \in Seq(F!Pulls)
    /\ disturbed \in BOOLEAN /\ pulling \in BOOLEAN

ReadsTyped ==
    /\ entries \in [PulledKeys -> EntryRec \cup {None}] /\ generation \in Nat
    /\ file \in [PulledKeys -> Nat] /\ foreign \in Nat
    /\ reader \in [Readers -> ReadRec]
    /\ page \in [PulledKeys -> Seq(Nat)]

\* Requests on their way, and streams, are of a path.
PullsNamed ==
    /\ \A i \in DOMAIN sending : pull[sending[i]].key \in PulledKeys
    /\ \A i \in DOMAIN remote : pull[remote[i]].key \in PulledKeys
    /\ \A i \in DOMAIN handles : pull[handles[i]].key \in PulledKeys
    /\ \A p \in F!Pulls : pull[p].stream \in {"begun", "saved"} => pull[p].key \in PulledKeys

\* A request is sent once.
SentOnce ==
    /\ \A i, j \in DOMAIN sending : sending[i] = sending[j] => i = j
    /\ \A i \in DOMAIN sending : /\ \A j \in DOMAIN remote : sending[i] # remote[j]
                                 /\ \A j \in DOMAIN handles : sending[i] # handles[j]

\* The queue is what is yet to be sent, behind what the peer has yet to answer and
\* what it has answered.
InOrder ==
    ~disturbed =>
      /\ pulling /\ pulls = (handles \o remote) \o sending
      /\ \A p \in F!Pulls : pull[p].stream # "refused" /\ pull[p].as \in {0, p}

Reading(r) == reader[r].at # "idle"

\* A read knows its record by its generation, and returns bytes of its record's file.
ReadsKnown ==
    /\ ~pulling => \A k \in PulledKeys : entries[k] = None
    /\ \A k \in PulledKeys : entries[k] # None => entries[k].generation <= generation
    /\ \A r \in Readers : Reading(r) =>
          /\ reader[r].key \in PulledKeys /\ reader[r].ident \in Idents
          /\ reader[r].got \in {0, reader[r].ident[2]}
          /\ pulling => reader[r].generation <= generation
          /\ entries[reader[r].key] # None /\ entries[reader[r].key].generation = reader[r].generation
                => entries[reader[r].key].ident = reader[r].ident

\* The page waits for one read of a file, and what it holds is of that read's file.
OneWanted ==
    \A r \in Readers : Reading(r) /\ reader[r].wanted =>
        /\ \A i \in DOMAIN page[reader[r].key] : page[reader[r].key][i] = reader[r].ident[2]
        /\ \A s \in Readers : Reading(s) /\ reader[s].wanted /\ reader[s].key = reader[r].key => s = r

\* Once a record has been read from, the page has only bytes of it and waits for no
\* other: the first read of a record is at 0.
Begun(k) ==
    /\ entries[k] # None
    /\ \/ entries[k].next # None
       \/ \E r \in Readers : Reading(r) /\ reader[r].key = k /\ reader[r].generation = entries[k].generation

BegunIsAll ==
    \A k \in PulledKeys : Begun(k) =>
        /\ \A i \in DOMAIN page[k] : page[k][i] = entries[k].ident[2]
        /\ \A r \in Readers : Reading(r) /\ reader[r].wanted /\ reader[r].key = k
              => reader[r].generation = entries[k].generation

\* The inductive invariants: of the queue, and of the reads.
QueueInv == PullsTyped /\ PullsNamed /\ SentOnce /\ InOrder
ReadsInv == ReadsTyped /\ ReadsKnown /\ OneWanted /\ BegunIsAll /\ F!PageIsOneFile

LEMMA JoinedTyped ==
    ASSUME NEW S, NEW a \in Seq(S), NEW c \in Seq(S)
    PROVE  a \o c \in Seq(S) /\ Len(a \o c) = Len(a) + Len(c) /\ Len(a) \in Nat /\ Len(c) \in Nat
  OBVIOUS

\* An answer; a stream joined.
LEMMA QueueSteps ==
    ASSUME NEW S, NEW h \in Seq(S), NEW r \in Seq(S), NEW w \in Seq(S)
    PROVE  /\ r # <<>> => (Append(h, Head(r)) \o Tail(r)) \o w = (h \o r) \o w
           /\ h # <<>> => /\ (h \o r) \o w # <<>> /\ Head((h \o r) \o w) = Head(h)
                          /\ Tail((h \o r) \o w) = (Tail(h) \o r) \o w
<1>3. ASSUME r # <<>> PROVE Append(h, Head(r)) \o Tail(r) = h \o r
  BY <1>3
<1>4. ASSUME NEW q \in Seq(S), h # <<>> PROVE h \o q # <<>> /\ Head(h \o q) = Head(h) /\ Tail(h \o q) = Tail(h) \o q
  BY <1>4
<1>5. h # <<>> => Tail(h) \in Seq(S)
  OBVIOUS
<1>6. ASSUME NEW q \in Seq(S) PROVE (q \o r) \o w = q \o (r \o w) /\ r \o w \in Seq(S)
  OBVIOUS
<1>7. ASSUME h # <<>>
      PROVE  /\ (h \o r) \o w # <<>> /\ Head((h \o r) \o w) = Head(h)
             /\ Tail((h \o r) \o w) = (Tail(h) \o r) \o w
  <2>1. PICK q : q = r \o w
    OBVIOUS
  <2>2. q \in Seq(S) /\ (h \o r) \o w = h \o q /\ (Tail(h) \o r) \o w = Tail(h) \o q
    BY <1>5, <1>6, <1>7, <2>1
  <2>3. h \o q # <<>> /\ Head(h \o q) = Head(h) /\ Tail(h \o q) = Tail(h) \o q
    BY <1>4, <1>7, <2>2
  <2> QED
    BY <2>2, <2>3
<1> QED
  BY <1>3, <1>7

LEMMA CancelTyped ==
    ASSUME NEW S, NEW q \in Seq(S), NEW p \in S
    PROVE  F!cancel(q, p) \in Seq(S)
<1>1. ASSUME NEW i \in DOMAIN q PROVE F!RemoveAt(q, i) \in Seq(S)
  BY DEF F!RemoveAt
<1>2. CASE p \in F!Range(q)
  <2>1. (CHOOSE j \in DOMAIN q : q[j] = p) \in DOMAIN q
    BY <1>2, Zenon DEF F!Range
  <2> QED
    BY <1>1, <1>2, <2>1 DEF F!cancel
<1>3. CASE p \notin F!Range(q)
  BY <1>3 DEF F!cancel
<1> QED
  BY <1>2, <1>3

\* The only place of a request is taken out, and those behind it move up.
LEMMA CancelIs ==
    ASSUME NEW S, NEW q \in Seq(S), NEW i \in DOMAIN q, \A j \in DOMAIN q : q[j] = q[i] => j = i
    PROVE  /\ F!cancel(q, q[i]) \in Seq(S) /\ Len(F!cancel(q, q[i])) = Len(q) - 1
           /\ \A j \in 1 .. Len(q) - 1 : F!cancel(q, q[i])[j] = IF j < i THEN q[j] ELSE q[j + 1]
<1>1. (CHOOSE j \in DOMAIN q : q[j] = q[i]) = i /\ q[i] \in F!Range(q)
  BY DEF F!Range
<1>2. F!cancel(q, q[i]) = SubSeq(q, 1, i - 1) \o SubSeq(q, i + 1, Len(q))
  BY <1>1 DEF F!cancel, F!RemoveAt
<1>3. i \in 1 .. Len(q) /\ Len(q) \in Nat
  OBVIOUS
<1>4. PICK a : a = SubSeq(q, 1, i - 1) /\ a \in Seq(S)
  <2>1. SubSeq(q, 1, i - 1) \in Seq(S)
    BY <1>3
  <2> QED
    BY <2>1, Zenon
<1>5. PICK c : c = SubSeq(q, i + 1, Len(q)) /\ c \in Seq(S)
  <2>1. SubSeq(q, i + 1, Len(q)) \in Seq(S)
    BY <1>3
  <2> QED
    BY <2>1, Zenon
<1>6. Len(a) = i - 1 /\ \A j \in 1 .. i - 1 : a[j] = q[j]
  BY <1>3, <1>4
<1>7. Len(c) = Len(q) - i /\ \A j \in 1 .. Len(q) - i : c[j] = q[i + j]
  BY <1>3, <1>5
<1>8. a \o c \in Seq(S) /\ Len(a \o c) = Len(q) - 1
  <2>1. a \o c \in Seq(S) /\ Len(a \o c) = Len(a) + Len(c)
    BY <1>4, <1>5, JoinedTyped
  <2> QED
    BY <1>3, <1>6, <1>7, <2>1
<1>9. ASSUME NEW j \in 1 .. Len(q) - 1 PROVE (a \o c)[j] = IF j < i THEN q[j] ELSE q[j + 1]
  <2>1. CASE j < i
    BY <1>3, <1>6, <1>7, <2>1
  <2>2. CASE ~(j < i)
    <3>1. PICK n : n = j - (i - 1)
      OBVIOUS
    <3>2. n \in 1 .. Len(c) /\ j = Len(a) + n /\ i + n = j + 1 /\ Len(a) \in Nat
      BY <1>3, <1>6, <1>7, <2>2, <3>1
    <3>3. (a \o c)[Len(a) + n] = c[n]
      BY <3>2
    <3> QED
      BY <1>7, <2>2, <3>2, <3>3
  <2> QED
    BY <2>1, <2>2
<1> QED
  BY <1>2, <1>4, <1>5, <1>8, <1>9

\* The place at the head, and a place behind others' places.
LEMMA CancelHead ==
    ASSUME NEW S, NEW q \in Seq(S), q # <<>>, \A i, j \in DOMAIN q : q[i] = q[j] => i = j
    PROVE  F!cancel(q, Head(q)) = Tail(q)
<1>1. 1 \in DOMAIN q /\ q[1] = Head(q) /\ \A j \in DOMAIN q : q[j] = q[1] => j = 1
  OBVIOUS
<1>2. PICK c : c = F!cancel(q, q[1])
  OBVIOUS
<1>3. c \in Seq(S) /\ Len(c) = Len(q) - 1 /\ \A j \in 1 .. Len(q) - 1 : c[j] = q[j + 1]
  <2>1. \A j \in 1 .. Len(q) - 1 : ~(j < 1)
    OBVIOUS
  <2> QED
    BY <1>1, <1>2, <2>1, CancelIs
<1>4. c = Tail(q)
  BY <1>3
<1> QED
  BY <1>1, <1>2, <1>4

LEMMA CancelBehind ==
    ASSUME NEW S, NEW h \in Seq(S), NEW q \in Seq(S), \A i, j \in DOMAIN q : q[i] = q[j] => i = j,
           NEW k \in DOMAIN q, \A i \in DOMAIN h : h[i] # q[k]
    PROVE  F!cancel(h \o q, q[k]) = h \o F!cancel(q, q[k])
<1>1. PICK w : w = h \o q /\ w \in Seq(S)
  <2>1. h \o q \in Seq(S)
    OBVIOUS
  <2> QED
    BY <2>1, Zenon
<1>2. /\ Len(w) = Len(h) + Len(q) /\ Len(h) \in Nat /\ Len(q) \in Nat
      /\ \A i \in 1 .. Len(h) : w[i] = h[i]
      /\ \A i \in 1 .. Len(q) : w[Len(h) + i] = q[i]
  BY <1>1
<1>3. PICK m : m = Len(h) + k
  OBVIOUS
<1>4. m \in DOMAIN w /\ w[m] = q[k] /\ m \in 1 .. Len(w)
  <2>1. k \in 1 .. Len(q) /\ DOMAIN w = 1 .. Len(w)
    BY <1>1
  <2>2. m \in 1 .. Len(w)
    BY <1>2, <1>3, <2>1
  <2> QED
    BY <1>2, <1>3, <2>1, <2>2
<1>5. ASSUME NEW j \in DOMAIN w, w[j] = w[m] PROVE j = m
  <2>1. CASE j <= Len(h)
    BY <1>2, <1>4, <1>5, <2>1
  <2>2. CASE j > Len(h)
    <3>1. PICK n : n = j - Len(h)
      OBVIOUS
    <3>2. n \in DOMAIN q /\ j = Len(h) + n /\ n \in 1 .. Len(q)
      BY <1>2, <2>2, <3>1
    <3>3. w[Len(h) + n] = q[n]
      BY <1>2, <3>2
    <3>4. n = k
      BY <1>4, <1>5, <3>2, <3>3
    <3> QED
      BY <1>3, <3>2, <3>4
  <2> QED
    BY <1>2, <2>1, <2>2
<1>6. PICK c : c = F!cancel(w, w[m])
  OBVIOUS
<1>7. c \in Seq(S) /\ Len(c) = Len(w) - 1 /\ \A j \in 1 .. Len(w) - 1 : c[j] = IF j < m THEN w[j] ELSE w[j + 1]
  <2>1. \A j \in DOMAIN w : w[j] = w[m] => j = m
    BY <1>5
  <2> QED
    <3>1. /\ F!cancel(w, w[m]) \in Seq(S) /\ Len(F!cancel(w, w[m])) = Len(w) - 1
          /\ \A j \in 1 .. Len(w) - 1 : F!cancel(w, w[m])[j] = IF j < m THEN w[j] ELSE w[j + 1]
      BY <1>1, <1>4, <2>1, CancelIs, Zenon
    <3> QED
      BY <1>6, <3>1
<1>8. PICK d : d = F!cancel(q, q[k])
  OBVIOUS
<1>9. d \in Seq(S) /\ Len(d) = Len(q) - 1 /\ \A j \in 1 .. Len(q) - 1 : d[j] = IF j < k THEN q[j] ELSE q[j + 1]
  BY <1>8, CancelIs
<1>10. Len(h \o d) = Len(c) /\ h \o d \in Seq(S)
  <2>1. h \o d \in Seq(S) /\ Len(h \o d) = Len(h) + Len(d)
    BY <1>9, JoinedTyped
  <2> QED
    BY <1>2, <1>7, <1>9, <2>1
<1>11. ASSUME NEW j \in 1 .. Len(c) PROVE c[j] = (h \o d)[j]
  <2>0. k \in 1 .. Len(q)
    OBVIOUS
  <2>1. CASE j <= Len(h)
    <3>1. j \in 1 .. Len(h) /\ j \in 1 .. Len(w) - 1 /\ j < m
      BY <1>2, <1>3, <1>7, <2>0, <2>1
    <3>2. (h \o d)[j] = h[j]
      BY <1>9, <3>1
    <3> QED
      BY <1>2, <1>7, <3>1, <3>2
  <2>2. CASE j > Len(h)
    <3>1. PICK n : n = j - Len(h)
      OBVIOUS
    <3>2. n \in 1 .. Len(q) - 1 /\ j = Len(h) + n /\ (h \o d)[j] = d[n]
      BY <1>2, <1>7, <1>9, <1>11, <2>2, <3>1
    <3>3. w[j] = q[n] /\ w[j + 1] = q[n + 1]
      <4>1. n \in 1 .. Len(q) /\ n + 1 \in 1 .. Len(q) /\ j + 1 = Len(h) + (n + 1)
        BY <1>2, <3>2
      <4> QED
        BY <1>2, <3>2, <4>1
    <3>4. j \in 1 .. Len(w) - 1 /\ (j < m <=> n < k)
      BY <1>2, <1>3, <1>7, <2>0, <3>2
    <3>5. c[j] = IF n < k THEN q[n] ELSE q[n + 1]
      BY <1>7, <3>3, <3>4
    <3>6. d[n] = IF n < k THEN q[n] ELSE q[n + 1]
      BY <1>9, <3>2
    <3> QED
      BY <3>2, <3>5, <3>6
  <2>3. j <= Len(h) \/ j > Len(h)
    <3>1. j \in Nat /\ Len(h) \in Nat
      BY <1>2, <1>7
    <3> QED
      BY <3>1
  <2> QED
    BY <2>1, <2>2, <2>3, Zenon
<1>12. c = h \o d
  <2>1. PICK e : e = h \o d
    OBVIOUS
  <2>2. e \in Seq(S) /\ Len(e) = Len(c) /\ \A j \in 1 .. Len(c) : c[j] = e[j]
    BY <1>10, <1>11, <2>1
  <2>3. c = e
    BY <1>7, <2>2
  <2> QED
    BY <2>1, <2>3
<1> QED
  BY <1>1, <1>4, <1>6, <1>8, <1>12

\* What is left of the others.
LEMMA CancelLeaves ==
    ASSUME NEW S, NEW q \in Seq(S), \A i, j \in DOMAIN q : q[i] = q[j] => i = j, NEW k \in DOMAIN q,
           NEW c, c = F!cancel(q, q[k])
    PROVE  /\ c \in Seq(S) /\ \A i, j \in DOMAIN c : c[i] = c[j] => i = j
           /\ \A j \in DOMAIN c : c[j] # q[k] /\ \E i \in DOMAIN q : c[j] = q[i]
<1>1. /\ c \in Seq(S) /\ Len(c) = Len(q) - 1
      /\ \A j \in 1 .. Len(q) - 1 : c[j] = IF j < k THEN q[j] ELSE q[j + 1]
  BY CancelIs
<1>2. DOMAIN c = 1 .. Len(q) - 1 /\ DOMAIN q = 1 .. Len(q) /\ Len(q) \in Nat
  BY <1>1
<1>3. ASSUME NEW j \in DOMAIN c
      PROVE  \E i \in DOMAIN q : c[j] = q[i] /\ i # k /\ (j < k => i = j) /\ (~(j < k) => i = j + 1)
  <2>1. j \in 1 .. Len(q) - 1 /\ j \in DOMAIN q /\ j + 1 \in DOMAIN q /\ k \in 1 .. Len(q)
    BY <1>2
  <2>2. CASE j < k
    BY <1>1, <2>1, <2>2
  <2>3. CASE ~(j < k)
    BY <1>1, <2>1, <2>3
  <2> QED
    BY <2>2, <2>3
<1>4. ASSUME NEW i \in DOMAIN c, NEW j \in DOMAIN c, c[i] = c[j] PROVE i = j
  <2>1. PICK m \in DOMAIN q : c[i] = q[m] /\ m # k /\ (i < k => m = i) /\ (~(i < k) => m = i + 1)
    BY <1>3
  <2>2. PICK n \in DOMAIN q : c[j] = q[n] /\ n # k /\ (j < k => n = j) /\ (~(j < k) => n = j + 1)
    BY <1>3
  <2>3. m = n
    BY <1>4, <2>1, <2>2
  <2> QED
    BY <1>2, <2>1, <2>2, <2>3
<1>5. ASSUME NEW j \in DOMAIN c PROVE c[j] # q[k] /\ \E i \in DOMAIN q : c[j] = q[i]
  BY <1>3
<1> QED
  BY <1>1, <1>4, <1>5

\* A request moves on: its path and its name stay.
LEMMA RequestMoves ==
    ASSUME QueueInv, NEW p \in F!Pulls, pull' \in [F!Pulls -> PullRec], \A q \in F!Pulls : q # p => pull'[q] = pull[q],
           pull'[p].key = pull[p].key, pull'[p].as = pull[p].as,
           pull'[p].stream \in {pull[p].stream, "failed", "saved", "done"},
           pull'[p].stream = "saved" => pull[p].stream \in {"begun", "saved"},
           UNCHANGED <<pulls, sending, remote, handles, disturbed, pulling>>
    PROVE  QueueInv'
<1>1. PullsTyped'
  BY DEF QueueInv, PullsTyped
<1>2. \A q \in F!Pulls : pull'[q].key = pull[q].key /\ pull'[q].as = pull[q].as
  OBVIOUS
<1>3. /\ \A i \in DOMAIN sending : sending[i] \in F!Pulls
      /\ \A i \in DOMAIN remote : remote[i] \in F!Pulls
      /\ \A i \in DOMAIN handles : handles[i] \in F!Pulls
  BY DEF QueueInv, PullsTyped
<1>4. PullsNamed'
  BY <1>2, <1>3 DEF QueueInv, PullsNamed
<1>5. InOrder' /\ SentOnce'
  BY <1>2 DEF QueueInv, InOrder, SentOnce
<1> QED
  BY <1>1, <1>4, <1>5 DEF QueueInv

LEMMA RequestSteps ==
    ASSUME QueueInv, NEW p \in F!Pulls, F!StopsWaiting(p) \/ F!Saves(p) \/ F!StreamFails(p) \/ F!Completes(p)
    PROVE  QueueInv'
<1>0. pull \in [F!Pulls -> PullRec]
  BY DEF QueueInv, PullsTyped
<1>1. UNCHANGED <<pulls, sending, remote, handles, disturbed, pulling>>
  BY DEF F!StopsWaiting, F!Saves, F!StreamFails, F!Completes
<1>2. CASE F!StopsWaiting(p)
  <2>1. pull' = [pull EXCEPT ![p].watched = FALSE]
    BY <1>2 DEF F!StopsWaiting
  <2>2. pull' \in [F!Pulls -> PullRec] /\ pull'[p] = [pull[p] EXCEPT !.watched = FALSE]
        /\ \A q \in F!Pulls : q # p => pull'[q] = pull[q]
    BY <1>0, <2>1 DEF PullRec
  <2> QED
    BY <1>0, <1>1, <2>2, RequestMoves DEF PullRec
<1>3. ASSUME NEW st \in {"failed", "saved", "done"}, pull' = [pull EXCEPT ![p].stream = st],
             st = "saved" => pull[p].stream = "begun"
      PROVE  QueueInv'
  <2>2. pull' \in [F!Pulls -> PullRec] /\ pull'[p] = [pull[p] EXCEPT !.stream = st]
        /\ \A q \in F!Pulls : q # p => pull'[q] = pull[q]
    BY <1>0, <1>3 DEF PullRec
  <2>3. pull'[p].stream = st /\ pull'[p].key = pull[p].key /\ pull'[p].as = pull[p].as
    BY <1>0, <2>2 DEF PullRec
  <2> QED
    BY <1>1, <1>3, <2>2, <2>3, RequestMoves
<1> QED
  BY <1>2, <1>3 DEF F!Saves, F!StreamFails, F!Completes

LEMMA DownloadKeeps ==
    ASSUME QueueInv, NEW p \in F!Pulls, NEW k \in PulledKeys, F!Download(p, k)
    PROVE  QueueInv'
<1>0. /\ pull \in [F!Pulls -> PullRec] /\ pulls \in Seq(F!Pulls) /\ sending \in Seq(F!Pulls)
      /\ remote \in Seq(F!Pulls) /\ handles \in Seq(F!Pulls) /\ pull[p].key = None /\ None \notin PulledKeys
  BY PullsAssumption DEF QueueInv, PullsTyped, F!Download, F!NoPull
<1>1. /\ UNCHANGED <<remote, handles, disturbed, pulling>>
      /\ pulls' = Append(pulls, p) /\ sending' = Append(sending, p)
  BY DEF F!Download, F!register
<1>2. PICK r \in PullRec : pull' = [pull EXCEPT ![p] = r] /\ r.key = k /\ r.as = 0 /\ r.stream = "none"
  <2>1. 0 \in 0 .. MaxPulls
    BY PullsAssumption
  <2>2. PICK r : r = [F!NoPull EXCEPT !.key = k]
    OBVIOUS
  <2>3. r \in PullRec /\ r.key = k /\ r.as = 0 /\ r.stream = "none"
    BY <2>1, <2>2 DEF F!NoPull, PullRec
  <2> QED
    BY <2>2, <2>3 DEF F!Download
<1>3. /\ pull' \in [F!Pulls -> PullRec] /\ pull'[p] = r
      /\ \A q \in F!Pulls : q # p => pull'[q] = pull[q]
  BY <1>0, <1>2
<1>4. /\ \A i \in DOMAIN sending : sending[i] \in F!Pulls /\ sending[i] # p
      /\ \A i \in DOMAIN remote : remote[i] \in F!Pulls /\ remote[i] # p
      /\ \A i \in DOMAIN handles : handles[i] \in F!Pulls /\ handles[i] # p
  BY <1>0 DEF QueueInv, PullsNamed
<1>5. /\ sending' \in Seq(F!Pulls) /\ pulls' \in Seq(F!Pulls)
      /\ \A i \in DOMAIN sending' : \/ i \in DOMAIN sending /\ sending'[i] = sending[i]
                                    \/ i = Len(sending) + 1 /\ sending'[i] = p
  BY <1>0, <1>1
<1>6. PullsNamed'
  <2>1. \A i \in DOMAIN sending' : pull'[sending'[i]].key \in PulledKeys
    BY <1>2, <1>3, <1>4, <1>5 DEF QueueInv, PullsNamed
  <2>2. \A q \in F!Pulls : pull'[q].stream \in {"begun", "saved"} => pull'[q].key \in PulledKeys
    BY <1>2, <1>3 DEF QueueInv, PullsNamed
  <2> QED
    BY <1>1, <1>3, <1>4, <2>1, <2>2 DEF QueueInv, PullsNamed
<1>7. SentOnce'
  BY <1>1, <1>4, <1>5 DEF QueueInv, SentOnce
<1>8. InOrder'
  <2>1. ~disturbed => pulls' = (handles \o remote) \o sending'
    <3>1. PICK u : u = handles \o remote /\ u \in Seq(F!Pulls)
      <4>1. handles \o remote \in Seq(F!Pulls)
        BY <1>0, JoinedTyped
      <4> QED
        BY <4>1, Zenon
    <3>2. PICK w : w = sending
      OBVIOUS
    <3>3. PICK before, after : before = Append(u \o w, p) /\ after = u \o Append(w, p)
      OBVIOUS
    <3>4. /\ w \in Seq(F!Pulls) /\ Len(u) \in Nat /\ Len(w) \in Nat
          /\ before \in Seq(F!Pulls) /\ Len(before) = Len(u) + Len(w) + 1
          /\ after \in Seq(F!Pulls) /\ Len(after) = Len(u) + Len(w) + 1
      BY <1>0, <3>1, <3>2, <3>3
    <3>5. \A i \in 1 .. Len(u) : before[i] = u[i] /\ after[i] = u[i]
      BY <3>1, <3>3, <3>4
    <3>6. \A i \in 1 .. Len(w) : before[Len(u) + i] = w[i] /\ after[Len(u) + i] = w[i]
      BY <3>1, <3>3, <3>4
    <3>7. before[Len(u) + (Len(w) + 1)] = p /\ after[Len(u) + (Len(w) + 1)] = p
      BY <3>1, <3>3, <3>4
    <3>8. ASSUME NEW i \in 1 .. Len(u) + Len(w) + 1 PROVE before[i] = after[i]
      <4>1. i \in 1 .. Len(u) \/ i - Len(u) \in 1 .. Len(w) \/ i = Len(u) + (Len(w) + 1)
        BY <3>4
      <4>2. i - Len(u) \in 1 .. Len(w) => i = Len(u) + (i - Len(u))
        BY <3>4
      <4> QED
        BY <3>5, <3>6, <3>7, <4>1, <4>2
    <3>9. before = after
      BY <3>4, <3>8
    <3> QED
      BY <1>1, <3>1, <3>2, <3>3, <3>9 DEF QueueInv, InOrder
  <2> QED
    BY <1>1, <1>2, <1>3, <2>1 DEF QueueInv, InOrder
<1> QED
  BY <1>1, <1>3, <1>5, <1>6, <1>7, <1>8 DEF QueueInv, PullsTyped

\* A request that is sent in its turn is behind those that are sent already; one
\* that is not gives its own place back.
LEMMA SendsKeeps ==
    ASSUME QueueInv, NEW p \in F!Pulls, F!Sends(p)
    PROVE  QueueInv'
<1>0. /\ pull \in [F!Pulls -> PullRec] /\ pulls \in Seq(F!Pulls) /\ sending \in Seq(F!Pulls)
      /\ remote \in Seq(F!Pulls) /\ handles \in Seq(F!Pulls) /\ disturbed \in BOOLEAN /\ pulling \in BOOLEAN
  BY DEF QueueInv, PullsTyped
<1>1. UNCHANGED <<handles, pulling>> /\ sending' = F!cancel(sending, p) /\ p \in F!Range(sending)
  BY DEF F!Sends
<1>2. PICK k \in DOMAIN sending : sending[k] = p
  BY <1>1, Zenon DEF F!Range
<1>3. \A i, j \in DOMAIN sending : sending[i] = sending[j] => i = j
  BY DEF QueueInv, SentOnce
<1>4. /\ sending' \in Seq(F!Pulls) /\ \A i, j \in DOMAIN sending' : sending'[i] = sending'[j] => i = j
      /\ \A j \in DOMAIN sending' : sending'[j] # p /\ \E i \in DOMAIN sending : sending'[j] = sending[i]
  <2>1. PICK c : c = F!cancel(sending, sending[k])
    OBVIOUS
  <2>2. /\ c \in Seq(F!Pulls) /\ \A i, j \in DOMAIN c : c[i] = c[j] => i = j
        /\ \A j \in DOMAIN c : c[j] # sending[k] /\ \E i \in DOMAIN sending : c[j] = sending[i]
    BY <1>0, <1>3, <2>1, CancelLeaves
  <2> QED
    BY <1>1, <1>2, <2>1, <2>2
<1>5. /\ \A i \in DOMAIN sending : sending[i] \in F!Pulls
      /\ \A i \in DOMAIN remote : remote[i] \in F!Pulls /\ remote[i] # p
      /\ \A i \in DOMAIN handles : handles[i] \in F!Pulls /\ handles[i] # p
  BY <1>0, <1>2 DEF QueueInv, SentOnce
<1>6. pull[p].key \in PulledKeys
  BY <1>2 DEF QueueInv, PullsNamed
<1>7. ASSUME NEW r \in PullRec, r.key = pull[p].key, pull' = [pull EXCEPT ![p] = r]
      PROVE  /\ pull' \in [F!Pulls -> PullRec] /\ pull'[p] = r /\ \A q \in F!Pulls : q # p => pull'[q] = pull[q]
             /\ \A q \in F!Pulls : pull'[q].key = pull[q].key
             /\ \A i \in DOMAIN sending' : pull'[sending'[i]].key \in PulledKeys
             /\ \A i \in DOMAIN remote : pull'[remote[i]].key \in PulledKeys
             /\ \A i \in DOMAIN handles : pull'[handles[i]].key \in PulledKeys
  <2>1. /\ pull' \in [F!Pulls -> PullRec] /\ pull'[p] = r /\ \A q \in F!Pulls : q # p => pull'[q] = pull[q]
    BY <1>0, <1>7
  <2>2. \A q \in F!Pulls : pull'[q].key = pull[q].key
    BY <1>7, <2>1
  <2> QED
    BY <1>4, <1>5, <2>1, <2>2 DEF QueueInv, PullsNamed
<1>8. CASE /\ pull' = [pull EXCEPT ![p].watched = TRUE] /\ remote' = Append(remote, p)
           /\ disturbed' = (disturbed \/ p # Head(sending)) /\ UNCHANGED pulls
  <2>1. PICK r : r = [pull[p] EXCEPT !.watched = TRUE]
    OBVIOUS
  <2>2. r \in PullRec /\ r.key = pull[p].key /\ r.as = pull[p].as /\ r.stream = pull[p].stream
    BY <1>0, <2>1 DEF PullRec
  <2>3. pull' = [pull EXCEPT ![p] = r]
    BY <1>0, <1>8, <2>1
  <2>4. /\ pull' \in [F!Pulls -> PullRec] /\ pull'[p] = r /\ \A q \in F!Pulls : q # p => pull'[q] = pull[q]
        /\ \A q \in F!Pulls : pull'[q].key = pull[q].key
        /\ \A i \in DOMAIN sending' : pull'[sending'[i]].key \in PulledKeys
        /\ \A i \in DOMAIN remote : pull'[remote[i]].key \in PulledKeys
        /\ \A i \in DOMAIN handles : pull'[handles[i]].key \in PulledKeys
    BY <1>7, <2>2, <2>3
  <2>5. /\ remote' \in Seq(F!Pulls)
        /\ \A i \in DOMAIN remote' : (i \in DOMAIN remote /\ remote'[i] = remote[i]) \/ remote'[i] = p
    BY <1>0, <1>8
  <2>6. PullsNamed'
    <3>1. \A i \in DOMAIN remote' : pull'[remote'[i]].key \in PulledKeys
      BY <1>6, <2>2, <2>4, <2>5
    <3>2. \A q \in F!Pulls : pull'[q].stream \in {"begun", "saved"} => pull'[q].key \in PulledKeys
      BY <2>2, <2>4 DEF QueueInv, PullsNamed
    <3> QED
      BY <1>1, <2>4, <3>1, <3>2 DEF PullsNamed
  <2>7. SentOnce'
    BY <1>1, <1>4, <2>5 DEF QueueInv, SentOnce
  <2>8. InOrder'
    <3> SUFFICES ASSUME ~disturbed' PROVE InOrder'
      BY DEF InOrder
    <3>1. ~disturbed /\ p = Head(sending) /\ sending # <<>>
      <4>1. sending # <<>>
        BY <1>0, <1>2
      <4> QED
        BY <1>8, <4>1, Zenon
    <3>2. sending' = Tail(sending)
      BY <1>0, <1>1, <1>3, <3>1, CancelHead
    <3>3. (handles \o Append(remote, Head(sending))) \o Tail(sending) = (handles \o remote) \o sending
      <4>1. PICK S : S = F!Pulls
        OBVIOUS
      <4>2. PICK h \in Seq(S), sent \in Seq(S), w \in Seq(S) : h = handles /\ sent = remote /\ w = sending
        BY <1>0, <4>1
      <4>3. h \o Append(sent, Head(w)) = Append(h \o sent, Head(w)) /\ h \o sent \in Seq(S) /\ w # <<>>
        BY <3>1, <4>2
      <4>4. ASSUME NEW q \in Seq(S) PROVE Append(q, Head(w)) \o Tail(w) = q \o w
        BY <4>3
      <4> QED
        BY <4>2, <4>3, <4>4
    <3>4. pulls' = (handles' \o remote') \o sending' /\ pulling'
      BY <1>1, <1>8, <3>1, <3>2, <3>3 DEF QueueInv, InOrder
    <3>5. \A q \in F!Pulls : pull'[q].stream # "refused" /\ pull'[q].as \in {0, q}
      BY <2>2, <2>4, <3>1 DEF QueueInv, InOrder
    <3> QED
      BY <3>4, <3>5 DEF InOrder
  <2>9. disturbed' \in BOOLEAN
    BY <1>8
  <2> QED
    BY <1>0, <1>1, <1>4, <1>8, <2>4, <2>5, <2>6, <2>7, <2>8, <2>9 DEF QueueInv, PullsTyped
<1>9. CASE /\ pull' = [pull EXCEPT ![p].stream = "failed"] /\ UNCHANGED <<remote, disturbed>>
           /\ pulls' = IF pulling THEN F!cancel(pulls, p) ELSE pulls
  <2>1. PICK r : r = [pull[p] EXCEPT !.stream = "failed"]
    OBVIOUS
  <2>2. r \in PullRec /\ r.key = pull[p].key /\ r.as = pull[p].as /\ r.stream = "failed"
    BY <1>0, <2>1 DEF PullRec
  <2>3. pull' = [pull EXCEPT ![p] = r]
    BY <1>0, <1>9, <2>1
  <2>4. /\ pull' \in [F!Pulls -> PullRec] /\ pull'[p] = r /\ \A q \in F!Pulls : q # p => pull'[q] = pull[q]
        /\ \A q \in F!Pulls : pull'[q].key = pull[q].key
        /\ \A i \in DOMAIN sending' : pull'[sending'[i]].key \in PulledKeys
        /\ \A i \in DOMAIN remote : pull'[remote[i]].key \in PulledKeys
        /\ \A i \in DOMAIN handles : pull'[handles[i]].key \in PulledKeys
    BY <1>7, <2>2, <2>3
  <2>5. pulls' \in Seq(F!Pulls)
    BY <1>0, <1>9, CancelTyped
  <2>6. PullsNamed'
    <3>2. \A q \in F!Pulls : pull'[q].stream \in {"begun", "saved"} => pull'[q].key \in PulledKeys
      BY <2>2, <2>4 DEF QueueInv, PullsNamed
    <3> QED
      BY <1>1, <1>9, <2>4, <3>2 DEF PullsNamed
  <2>7. SentOnce'
    BY <1>1, <1>4, <1>9 DEF QueueInv, SentOnce
  <2>8. InOrder'
    <3> SUFFICES ASSUME ~disturbed PROVE InOrder'
      BY <1>9 DEF InOrder
    <3>1. pulling /\ pulls = (handles \o remote) \o sending
      BY DEF QueueInv, InOrder
    <3>2. PICK h : h = handles \o remote /\ h \in Seq(F!Pulls)
      <4>1. handles \o remote \in Seq(F!Pulls)
        BY <1>0
      <4> QED
        BY <4>1, Zenon
    <3>3. \A i \in DOMAIN h : h[i] # sending[k]
      BY <1>0, <1>2, <1>5, <3>2
    <3>4. F!cancel(h \o sending, sending[k]) = h \o F!cancel(sending, sending[k])
      <4>1. PICK S : S = F!Pulls
        OBVIOUS
      <4>2. PICK q \in Seq(S) : q = sending
        BY <1>0, <4>1
      <4>3. h \in Seq(S) /\ k \in DOMAIN q /\ (\A i, j \in DOMAIN q : q[i] = q[j] => i = j) /\ \A i \in DOMAIN h : h[i] # q[k]
        BY <1>3, <3>2, <3>3, <4>1, <4>2
      <4>4. F!cancel(h \o q, q[k]) = h \o F!cancel(q, q[k])
        BY <4>3, CancelBehind
      <4> QED
        BY <4>2, <4>4
    <3>5. pulls' = (handles' \o remote') \o sending' /\ pulling'
      BY <1>1, <1>2, <1>9, <3>1, <3>2, <3>4
    <3>6. \A q \in F!Pulls : pull'[q].stream # "refused" /\ pull'[q].as \in {0, q}
      BY <2>2, <2>4 DEF QueueInv, InOrder
    <3> QED
      BY <3>5, <3>6 DEF InOrder
  <2> QED
    BY <1>0, <1>1, <1>4, <1>9, <2>4, <2>5, <2>6, <2>7, <2>8 DEF QueueInv, PullsTyped
<1> QED
  BY <1>8, <1>9 DEF F!Sends

LEMMA AgesKeeps ==
    ASSUME QueueInv, F!CorrelationAges
    PROVE  QueueInv'
<1>1. UNCHANGED <<pull, sending, remote, handles, pulling>> /\ disturbed' = TRUE
  BY DEF F!CorrelationAges
<1>2. pulls' \in Seq(F!Pulls)
  <2>1. PICK n \in 1 .. Len(pulls) : pulls' = SubSeq(pulls, n + 1, Len(pulls))
    BY DEF F!CorrelationAges
  <2> QED
    BY <2>1 DEF QueueInv, PullsTyped
<1> QED
  BY <1>1, <1>2 DEF QueueInv, PullsTyped, PullsNamed, SentOnce, InOrder

LEMMA ServeKeeps ==
    ASSUME QueueInv, F!Serve
    PROVE  QueueInv'
<1>0. /\ pull \in [F!Pulls -> PullRec] /\ remote \in Seq(F!Pulls) /\ handles \in Seq(F!Pulls) /\ remote # <<>>
      /\ sending \in Seq(F!Pulls) /\ \A i \in DOMAIN sending : sending[i] \in F!Pulls
  BY DEF QueueInv, PullsTyped, F!Serve
<1>1. UNCHANGED <<pulls, sending, pulling>> /\ remote' = Tail(remote)
  BY DEF F!Serve
<1>2. remote' \in Seq(F!Pulls) /\ Head(remote) \in F!Pulls
  BY <1>0, <1>1
<1>3. PICK p \in F!Pulls : /\ p = Head(remote) /\ pull[p].key \in PulledKeys
                           /\ \A i \in DOMAIN sending : sending[i] # p
  <2>1. 1 \in DOMAIN remote /\ Head(remote) = remote[1]
    BY <1>0
  <2> QED
    BY <1>2, <2>1 DEF QueueInv, PullsNamed, SentOnce
<1>4. \A i \in DOMAIN remote' : /\ remote'[i] \in F!Pulls /\ pull[remote'[i]].key \in PulledKeys
                                /\ \A j \in DOMAIN sending : sending[j] # remote'[i]
  <2>1. ASSUME NEW i \in DOMAIN remote' PROVE i + 1 \in DOMAIN remote /\ remote'[i] = remote[i + 1]
    BY <1>0, <1>1
  <2> QED
    BY <1>0, <2>1 DEF QueueInv, PullsNamed, SentOnce
<1>5. CASE handles' = Append(handles, p) /\ UNCHANGED <<pull, disturbed>>
  <2>1. handles' \in Seq(F!Pulls)
    BY <1>0, <1>5
  <2>2. ASSUME NEW i \in DOMAIN handles'
        PROVE  pull[handles'[i]].key \in PulledKeys /\ \A j \in DOMAIN sending : sending[j] # handles'[i]
    <3>1. (i \in DOMAIN handles /\ handles'[i] = handles[i]) \/ handles'[i] = p
      BY <1>0, <1>5
    <3> QED
      BY <1>3, <3>1 DEF QueueInv, PullsNamed, SentOnce
  <2>3. (handles' \o remote') \o sending = (handles \o remote) \o sending
    BY <1>0, <1>1, <1>3, <1>5, QueueSteps
  <2>4. PullsNamed' /\ SentOnce'
    BY <1>1, <1>4, <1>5, <2>2 DEF QueueInv, PullsNamed, SentOnce
  <2>5. InOrder'
    BY <1>1, <1>5, <2>3 DEF QueueInv, InOrder
  <2> QED
    BY <1>1, <1>2, <1>5, <2>1, <2>4, <2>5 DEF QueueInv, PullsTyped
<1>6. CASE pull' = [pull EXCEPT ![p].stream = "refused"] /\ disturbed' = TRUE /\ UNCHANGED handles
  <2>1. /\ pull' \in [F!Pulls -> PullRec] /\ \A q \in F!Pulls : pull'[q].key = pull[q].key
        /\ pull'[p].stream = "refused" /\ \A q \in F!Pulls : q # p => pull'[q] = pull[q]
    BY <1>0, <1>6 DEF PullRec
  <2>2. PullsNamed' /\ SentOnce'
    <3>1. \A i \in DOMAIN handles : handles[i] \in F!Pulls
      BY <1>0
    <3> QED
      BY <1>0, <1>1, <1>4, <1>6, <2>1, <3>1 DEF QueueInv, PullsNamed, SentOnce
  <2>3. InOrder'
    BY <1>6 DEF InOrder
  <2> QED
    BY <1>1, <1>2, <1>6, <2>1, <2>2, <2>3 DEF QueueInv, PullsTyped
<1> QED
  BY <1>3, <1>5, <1>6 DEF F!Serve

LEMMA RefusalKeeps ==
    ASSUME QueueInv, NEW p \in F!Pulls, F!RefusalHeard(p)
    PROVE  QueueInv'
<1>0. pull \in [F!Pulls -> PullRec] /\ pulls \in Seq(F!Pulls) /\ disturbed
  BY DEF QueueInv, PullsTyped, InOrder, F!RefusalHeard
<1>1. UNCHANGED <<sending, remote, handles, disturbed, pulling>> /\ pulls' \in Seq(F!Pulls)
  <2>1. F!cancel(pulls, p) \in Seq(F!Pulls)
    BY <1>0, CancelTyped
  <2> QED
    BY <1>0, <2>1 DEF F!RefusalHeard
<1>2. pull' = [pull EXCEPT ![p] = [pull[p] EXCEPT !.watched = FALSE, !.stream = "failed"]]
  BY <1>0 DEF F!RefusalHeard
<1>3. [pull[p] EXCEPT !.watched = FALSE, !.stream = "failed"] \in PullRec
  BY <1>0 DEF PullRec
<1>4. /\ pull' \in [F!Pulls -> PullRec] /\ \A q \in F!Pulls : pull'[q].key = pull[q].key
      /\ pull'[p].stream = "failed" /\ \A q \in F!Pulls : q # p => pull'[q] = pull[q]
  BY <1>0, <1>2, <1>3 DEF PullRec
<1>5. /\ \A i \in DOMAIN sending : sending[i] \in F!Pulls
      /\ \A i \in DOMAIN remote : remote[i] \in F!Pulls
      /\ \A i \in DOMAIN handles : handles[i] \in F!Pulls
  BY DEF QueueInv, PullsTyped
<1>6. PullsNamed' /\ SentOnce'
  BY <1>1, <1>4, <1>5 DEF QueueInv, PullsNamed, SentOnce
<1> QED
  BY <1>0, <1>1, <1>4, <1>6 DEF QueueInv, PullsTyped, InOrder

\* The oldest place is that of the stream that comes first.
LEMMA HandleKeeps ==
    ASSUME QueueInv, F!ReceiverHandle
    PROVE  QueueInv'
<1>0. /\ pull \in [F!Pulls -> PullRec] /\ pulls \in Seq(F!Pulls) /\ remote \in Seq(F!Pulls) /\ handles \in Seq(F!Pulls)
      /\ handles # <<>> /\ sending \in Seq(F!Pulls)
  BY DEF QueueInv, PullsTyped, F!ReceiverHandle
<1>1. UNCHANGED <<sending, remote, disturbed, pulling>> /\ handles' = Tail(handles) /\ handles' \in Seq(F!Pulls)
  BY <1>0 DEF F!ReceiverHandle
<1>2. PICK p \in F!Pulls : p = Head(handles) /\ pull[p].key \in PulledKeys
  <2>1. 1 \in DOMAIN handles /\ Head(handles) = handles[1] /\ Head(handles) \in F!Pulls
    BY <1>0
  <2> QED
    BY <2>1 DEF QueueInv, PullsNamed
<1>3. \A i \in DOMAIN handles' : /\ handles'[i] \in F!Pulls /\ pull[handles'[i]].key \in PulledKeys
                                 /\ \A j \in DOMAIN sending : sending[j] # handles'[i]
  <2>1. ASSUME NEW i \in DOMAIN handles' PROVE i + 1 \in DOMAIN handles /\ handles'[i] = handles[i + 1]
    BY <1>0, <1>1
  <2> QED
    BY <1>0, <2>1 DEF QueueInv, PullsNamed, SentOnce
<1>4. PICK n \in 0 .. MaxPulls : n = F!take(pulls)
  <2>1. CASE pulls = <<>>
    BY <2>1, PullsAssumption DEF F!take
  <2>2. CASE pulls # <<>>
    <3>1. Head(pulls) \in F!Pulls
      BY <1>0, <2>2
    <3> QED
      BY <2>2, <3>1, PullsAssumption DEF F!take, F!Pulls
  <2> QED
    BY <2>1, <2>2
<1>5. F!taken(pulls) \in Seq(F!Pulls)
  BY <1>0 DEF F!taken
<1>6. PICK r \in PullRec : /\ pull' = [pull EXCEPT ![p] = r] /\ r.key = pull[p].key /\ r.stream \in {"begun", "failed"}
                           /\ r.as = IF pulling THEN n ELSE pull[p].as
  <2>1. CASE pulling
    <3>1. pull' = [pull EXCEPT ![p] = [pull[p] EXCEPT !.as = n, !.stream = "begun"]]
      BY <1>0, <1>2, <1>4, <2>1 DEF F!ReceiverHandle
    <3>2. PICK r : r = [pull[p] EXCEPT !.as = n, !.stream = "begun"]
      OBVIOUS
    <3>3. r \in PullRec /\ r.key = pull[p].key /\ r.stream = "begun" /\ r.as = n
      BY <1>0, <3>2 DEF PullRec
    <3> QED
      BY <2>1, <3>1, <3>2, <3>3
  <2>2. CASE ~pulling
    <3>1. pull' = [pull EXCEPT ![p] = [pull[p] EXCEPT !.stream = "failed"]]
      BY <1>0, <1>2, <2>2 DEF F!ReceiverHandle
    <3>2. PICK r : r = [pull[p] EXCEPT !.stream = "failed"]
      OBVIOUS
    <3>3. r \in PullRec /\ r.key = pull[p].key /\ r.stream = "failed" /\ r.as = pull[p].as
      BY <1>0, <3>2 DEF PullRec
    <3> QED
      BY <2>2, <3>1, <3>2, <3>3
  <2> QED
    BY <2>1, <2>2
<1>7. /\ pull' \in [F!Pulls -> PullRec] /\ pull'[p] = r /\ \A q \in F!Pulls : q # p => pull'[q] = pull[q]
      /\ \A q \in F!Pulls : pull'[q].key = pull[q].key
  BY <1>0, <1>6
<1>8. pulls' = IF pulling THEN F!taken(pulls) ELSE pulls
  BY DEF F!ReceiverHandle
<1>9. PullsNamed' /\ SentOnce'
  <2>1. (\A i \in DOMAIN remote : remote[i] \in F!Pulls) /\ \A i \in DOMAIN sending : sending[i] \in F!Pulls
    BY <1>0
  <2>2. PullsNamed'
    BY <1>1, <1>2, <1>3, <1>6, <1>7, <2>1 DEF QueueInv, PullsNamed
  <2>3. SentOnce'
    BY <1>1, <1>3 DEF QueueInv, SentOnce
  <2> QED
    BY <2>2, <2>3
<1>10. InOrder'
  <2> SUFFICES ASSUME ~disturbed PROVE InOrder'
    BY <1>1 DEF InOrder
  <2>1. pulling /\ pulls = (handles \o remote) \o sending
    BY DEF QueueInv, InOrder
  <2>2. pulls # <<>> /\ Head(pulls) = p /\ Tail(pulls) = (handles' \o remote) \o sending
    BY <1>0, <1>1, <1>2, <2>1, QueueSteps
  <2>3. n = p /\ pulls' = (handles' \o remote) \o sending
    BY <1>4, <1>8, <2>1, <2>2 DEF F!take, F!taken
  <2> QED
    BY <1>1, <1>6, <1>7, <2>1, <2>3 DEF QueueInv, InOrder
<1> QED
  BY <1>0, <1>1, <1>5, <1>7, <1>8, <1>9, <1>10 DEF QueueInv, PullsTyped

LEMMA QueueStays ==
    ASSUME QueueInv, UNCHANGED <<pull, pulls, sending, remote, handles, disturbed, pulling>>
    PROVE  QueueInv'
  BY DEF QueueInv, PullsTyped, PullsNamed, SentOnce, InOrder

LEMMA SessionKeeps ==
    ASSUME QueueInv, F!SessionEnds \/ F!SignsIn
    PROVE  QueueInv'
<1>1. UNCHANGED <<pull, sending, remote, handles>> /\ disturbed' /\ disturbed' \in BOOLEAN /\ pulls' \in {pulls, <<>>}
      /\ pulling' \in BOOLEAN
  BY DEF F!SessionEnds, F!SignsIn, QueueInv, InOrder, PullsTyped
<1>2. pulls' \in Seq(F!Pulls)
  <2>1. pulls \in Seq(F!Pulls) /\ <<>> \in Seq(F!Pulls)
    BY DEF QueueInv, PullsTyped
  <2> QED
    BY <1>1, <2>1, Zenon
<1> QED
  BY <1>1, <1>2 DEF QueueInv, PullsTyped, PullsNamed, SentOnce, InOrder

LEMMA QueueStepKeeps == QueueInv /\ [F!Next]_pullVars => QueueInv'
<1> SUFFICES ASSUME QueueInv, [F!Next]_pullVars PROVE QueueInv'
  OBVIOUS
<1>1. ASSUME NEW p \in F!Pulls,
             \/ \E k \in PulledKeys : F!Download(p, k)
             \/ F!Sends(p) \/ F!RefusalHeard(p) \/ F!StopsWaiting(p) \/ F!Saves(p) \/ F!StreamFails(p) \/ F!Completes(p)
      PROVE  QueueInv'
  BY <1>1, DownloadKeeps, SendsKeeps, RefusalKeeps, RequestSteps
<1>2. CASE \/ \E k \in PulledKeys : F!ForeignSaves(k) \/ F!ReadGivenUp(k) \/ F!RecordExpires(k)
           \/ UNCHANGED pullVars
  BY <1>2, QueueStays DEF F!ForeignSaves, F!ReadGivenUp, F!RecordExpires, pullVars
<1>3. CASE \E r \in Readers : \/ F!Identify(r) \/ F!ReadConfined(r) \/ F!Settle(r)
                              \/ \E k \in PulledKeys, offset \in 0 .. Total : F!BeginRead(r, k, offset)
  BY <1>3, QueueStays DEF F!Identify, F!ReadConfined, F!Settle, F!BeginRead
<1> QED
  BY <1>1, <1>2, <1>3, AgesKeeps, ServeKeeps, HandleKeeps, SessionKeeps DEF F!Next

-----------------------------------------------------------------------------
\* Steps that leave the records, the reads and the page alone.
LEMMA ReadsStay ==
    ASSUME ReadsInv, UNCHANGED <<entries, generation, reader, page, pulling>>, file' \in [PulledKeys -> Nat], foreign' \in Nat
    PROVE  ReadsInv'
<1>1. ReadsTyped' /\ ReadsKnown' /\ F!PageIsOneFile'
  BY DEF ReadsInv, ReadsTyped, ReadsKnown, Reading, F!PageIsOneFile
<1>2. OneWanted'
  BY DEF ReadsInv, OneWanted, Reading
<1>3. BegunIsAll'
  BY DEF ReadsInv, BegunIsAll, Begun, Reading
<1> QED
  BY <1>1, <1>2, <1>3 DEF ReadsInv

LEMMA OtherSteps ==
    ASSUME QueueInv, ReadsInv,
           \/ \E p \in F!Pulls : \/ \E k \in PulledKeys : F!Download(p, k)
                                 \/ F!Sends(p) \/ F!RefusalHeard(p) \/ F!StopsWaiting(p) \/ F!Saves(p) \/ F!StreamFails(p)
           \/ \E k \in PulledKeys : F!ForeignSaves(k)
           \/ F!CorrelationAges \/ F!Serve \/ F!ReceiverHandle \/ UNCHANGED pullVars
    PROVE  ReadsInv'
<1>0. file \in [PulledKeys -> Nat] /\ foreign \in Nat
  BY DEF ReadsInv, ReadsTyped
<1>1. CASE \E p \in F!Pulls : \/ \E k \in PulledKeys : F!Download(p, k)
                              \/ F!Sends(p) \/ F!RefusalHeard(p) \/ F!StopsWaiting(p) \/ F!StreamFails(p)
  BY <1>0, <1>1, ReadsStay DEF F!Download, F!Sends, F!RefusalHeard, F!StopsWaiting, F!StreamFails
<1>2. CASE F!CorrelationAges \/ F!Serve \/ F!ReceiverHandle \/ UNCHANGED pullVars
  BY <1>0, <1>2, ReadsStay DEF F!CorrelationAges, F!Serve, F!ReceiverHandle, pullVars
<1>3. ASSUME NEW p \in F!Pulls, F!Saves(p) PROVE ReadsInv'
  <2>1. p \in Nat
    BY PullsAssumption DEF F!Pulls
  <2>2. file' \in [PulledKeys -> Nat] /\ UNCHANGED <<entries, generation, reader, page, pulling, foreign>>
    BY <1>0, <1>3, <2>1 DEF F!Saves
  <2> QED
    BY <1>0, <2>2, ReadsStay
<1>4. ASSUME NEW k \in PulledKeys, F!ForeignSaves(k) PROVE ReadsInv'
  <2>1. file' \in [PulledKeys -> Nat] /\ foreign' \in Nat /\ UNCHANGED <<entries, generation, reader, page, pulling>>
    BY <1>0, <1>4, PullsAssumption DEF F!ForeignSaves
  <2> QED
    BY <2>1, ReadsStay
<1> QED
  BY <1>1, <1>2, <1>3, <1>4

\* A record is marked: given up, or expired.
LEMMA RecordMarked ==
    ASSUME ReadsInv, NEW k \in PulledKeys, F!ReadGivenUp(k) \/ F!RecordExpires(k)
    PROVE  ReadsInv'
<1>0. entries \in [PulledKeys -> EntryRec \cup {None}] /\ entries[k] \in EntryRec
  BY DEF ReadsInv, ReadsTyped, F!ReadGivenUp, F!RecordExpires
<1>1. UNCHANGED <<generation, reader, page, pulling, file, foreign>>
  BY DEF F!ReadGivenUp, F!RecordExpires
<1>2. PICK e \in EntryRec : /\ entries' = [entries EXCEPT ![k] = e]
                            /\ e.ident = entries[k].ident /\ e.generation = entries[k].generation /\ e.next = entries[k].next
  <2>1. CASE F!ReadGivenUp(k)
    <3>1. PICK e : e = [entries[k] EXCEPT !.late = TRUE]
      OBVIOUS
    <3>2. e \in EntryRec /\ e.ident = entries[k].ident /\ e.generation = entries[k].generation /\ e.next = entries[k].next
      BY <1>0, <3>1 DEF EntryRec
    <3>3. entries' = [entries EXCEPT ![k] = e]
      BY <1>0, <2>1, <3>1 DEF F!ReadGivenUp
    <3> QED
      BY <3>2, <3>3
  <2>2. CASE F!RecordExpires(k)
    <3>1. PICK e : e = [entries[k] EXCEPT !.old = TRUE]
      OBVIOUS
    <3>2. e \in EntryRec /\ e.ident = entries[k].ident /\ e.generation = entries[k].generation /\ e.next = entries[k].next
      BY <1>0, <3>1 DEF EntryRec
    <3>3. entries' = [entries EXCEPT ![k] = e]
      BY <1>0, <2>2, <3>1 DEF F!RecordExpires
    <3> QED
      BY <3>2, <3>3
  <2> QED
    BY <2>1, <2>2
<1>3. /\ entries' \in [PulledKeys -> EntryRec \cup {None}] /\ entries'[k] = e
      /\ \A x \in PulledKeys : x # k => entries'[x] = entries[x]
  BY <1>0, <1>2
<1>4. entries[k] # None
  BY DEF F!ReadGivenUp, F!RecordExpires
<1>5. ReadsTyped' /\ F!PageIsOneFile' /\ OneWanted'
  BY <1>1, <1>3 DEF ReadsInv, ReadsTyped, F!PageIsOneFile, OneWanted, Reading
<1>6. \A x \in PulledKeys : entries'[x] # None =>
         /\ entries[x] # None /\ entries'[x].ident = entries[x].ident /\ entries'[x].generation = entries[x].generation
         /\ entries'[x].next = entries[x].next
  BY <1>2, <1>3, <1>4
<1>7. ReadsKnown'
  <2>1. pulling
    BY <1>4 DEF ReadsInv, ReadsKnown
  <2> QED
    BY <1>1, <1>6, <2>1 DEF ReadsInv, ReadsKnown, Reading
<1>8. BegunIsAll'
  <2> SUFFICES ASSUME NEW x \in PulledKeys, Begun(x)'
               PROVE  /\ \A i \in DOMAIN page'[x] : page'[x][i] = entries'[x].ident[2]
                      /\ \A r \in Readers : Reading(r)' /\ reader'[r].wanted /\ reader'[r].key = x
                            => reader'[r].generation = entries'[x].generation
    BY DEF BegunIsAll
  <2>1. Begun(x) /\ entries'[x].ident = entries[x].ident /\ entries'[x].generation = entries[x].generation
    BY <1>1, <1>6 DEF Begun, Reading
  <2> QED
    BY <1>1, <2>1 DEF ReadsInv, BegunIsAll, Reading
<1> QED
  BY <1>5, <1>7, <1>8 DEF ReadsInv

\* A pull is recorded: nothing has been read of the new record.
LEMMA CompletesKeeps ==
    ASSUME QueueInv, ReadsInv, NEW p \in F!Pulls, F!Completes(p)
    PROVE  ReadsInv'
<1>0. /\ entries \in [PulledKeys -> EntryRec \cup {None}] /\ generation \in Nat /\ file \in [PulledKeys -> Nat]
      /\ pull[p].key \in PulledKeys /\ foreign \in Nat
  BY DEF ReadsInv, ReadsTyped, QueueInv, PullsNamed, F!Completes
<1>1. UNCHANGED <<reader, page, pulling, file, foreign>>
  BY DEF F!Completes
<1>2. CASE UNCHANGED <<generation, entries>>
  BY <1>0, <1>1, <1>2, ReadsStay
<1>3. CASE pulling /\ generation' = generation + 1
           /\ entries' = F!record(entries, pull[pull[p].as].key, <<pull[p].key, file[pull[p].key]>>, generation + 1)
  <2>1. PICK ident \in Idents : ident = <<pull[p].key, file[pull[p].key]>>
    BY <1>0 DEF Idents
  <2>2. PICK k : k = pull[pull[p].as].key
    OBVIOUS
  <2>3. PICK g \in Nat : g = generation + 1
    BY <1>0
  <2>4. PICK e : e = F!PulledRead(k, ident, g)
    OBVIOUS
  <2>5. e \in EntryRec /\ e.ident = ident /\ e.generation = g /\ e.next = None
    BY <2>4 DEF F!PulledRead, EntryRec
  <2>6. /\ entries' \in [PulledKeys -> EntryRec \cup {None}] /\ generation' = g /\ pulling
        /\ \A x \in PulledKeys : entries'[x] \in {e, entries[x], None}
    <3>1. PICK fresh : fresh = [x \in PulledKeys |-> IF x = k THEN e
                                   ELSE IF entries[x] # None /\ entries[x].old THEN None ELSE entries[x]]
      OBVIOUS
    <3>2. fresh \in [PulledKeys -> EntryRec \cup {None}] /\ \A x \in PulledKeys : fresh[x] \in {e, entries[x], None}
      BY <1>0, <2>5, <3>1
    <3>3. \E x : entries' = fresh \/ entries' = [fresh EXCEPT ![x] = None]
      BY <1>3, <2>1, <2>2, <2>3, <2>4, <3>1 DEF F!record
    <3> QED
      BY <1>3, <2>3, <3>2, <3>3
  <2>7. \A r \in Readers : Reading(r) => reader[r].generation \in Nat /\ reader[r].generation < g
    BY <1>0, <2>3, <2>6 DEF ReadsInv, ReadsTyped, ReadsKnown, ReadRec
  <2>8. ReadsTyped' /\ F!PageIsOneFile' /\ OneWanted'
    BY <1>1, <2>6 DEF ReadsInv, ReadsTyped, F!PageIsOneFile, OneWanted, Reading
  <2>9. ReadsKnown'
    <3>1. \A x \in PulledKeys : entries'[x] # None => entries'[x].generation <= g
      BY <1>0, <2>3, <2>5, <2>6 DEF ReadsInv, ReadsKnown, EntryRec
    <3>2. ASSUME NEW r \in Readers, Reading(r)'
          PROVE  /\ reader'[r].key \in PulledKeys /\ reader'[r].ident \in Idents
                 /\ reader'[r].got \in {0, reader'[r].ident[2]}
                 /\ reader'[r].generation <= g
                 /\ entries'[reader'[r].key] # None /\ entries'[reader'[r].key].generation = reader'[r].generation
                       => entries'[reader'[r].key].ident = reader'[r].ident
      <4>1. Reading(r) /\ reader'[r] = reader[r]
        BY <1>1, <3>2 DEF Reading
      <4>2. reader[r].generation \in Nat /\ reader[r].generation < g /\ g # reader[r].generation
        BY <2>7, <4>1
      <4>3. reader[r].key \in PulledKeys /\ reader[r].ident \in Idents /\ reader[r].got \in {0, reader[r].ident[2]}
        BY <4>1 DEF ReadsInv, ReadsKnown
      <4>4. entries'[reader[r].key] # None /\ entries'[reader[r].key].generation = reader[r].generation
              => entries'[reader[r].key].ident = reader[r].ident
        BY <2>5, <2>6, <4>1, <4>2, <4>3 DEF ReadsInv, ReadsKnown
      <4> QED
        BY <4>1, <4>2, <4>3, <4>4
    <3> QED
      BY <1>1, <2>6, <3>1, <3>2 DEF ReadsKnown
  <2>10. BegunIsAll'
    <3> SUFFICES ASSUME NEW x \in PulledKeys, Begun(x)'
                 PROVE  /\ \A i \in DOMAIN page'[x] : page'[x][i] = entries'[x].ident[2]
                        /\ \A r \in Readers : Reading(r)' /\ reader'[r].wanted /\ reader'[r].key = x
                              => reader'[r].generation = entries'[x].generation
      BY DEF BegunIsAll
    <3>1. entries'[x] # e
      BY <1>1, <2>3, <2>5, <2>7 DEF Begun, Reading
    <3>2. entries'[x] = entries[x] /\ Begun(x)
      BY <1>1, <2>6, <3>1 DEF Begun, Reading
    <3> QED
      BY <1>1, <3>2 DEF ReadsInv, BegunIsAll, Reading
  <2> QED
    BY <2>8, <2>9, <2>10 DEF ReadsInv
<1> QED
  BY <1>2, <1>3 DEF F!Completes

\* A read begins: at 0 the page starts over, and elsewhere it goes on with what the
\* record was read from.
LEMMA BeginReadKeeps ==
    ASSUME ReadsInv, NEW r \in Readers, NEW k \in PulledKeys, NEW offset \in 0 .. Total, F!BeginRead(r, k, offset)
    PROVE  ReadsInv'
<1>0. /\ entries \in [PulledKeys -> EntryRec \cup {None}] /\ reader \in [Readers -> ReadRec] /\ page \in [PulledKeys -> Seq(Nat)]
      /\ entries[k] \in EntryRec /\ entries[k] # None /\ offset \in Nat /\ pulling /\ generation \in Nat
  BY PullsAssumption DEF ReadsInv, ReadsTyped, F!BeginRead, F!may_begin
<1>1. UNCHANGED <<generation, file, foreign, pulling>>
  BY DEF F!BeginRead
<1>2. PICK old \in EntryRec : old = entries[k]
  BY <1>0
<1>3. PICK e : e = [old EXCEPT !.held = TRUE, !.late = FALSE]
  OBVIOUS
<1>4. e \in EntryRec /\ e.ident = old.ident /\ e.generation = old.generation /\ e.next = old.next
  BY <1>2, <1>3 DEF EntryRec
<1>5. entries' \in [PulledKeys -> EntryRec \cup {None}] /\ entries'[k] = e
      /\ \A x \in PulledKeys : x # k => entries'[x] = entries[x]
  <2>1. entries' = [entries EXCEPT ![k] = e]
    BY <1>0, <1>2, <1>3 DEF F!BeginRead
  <2> QED
    BY <1>0, <1>4, <2>1
<1>6. PICK rd : rd = [at |-> "open", key |-> k, offset |-> offset, ident |-> old.ident, generation |-> old.generation,
                     got |-> 0, wanted |-> TRUE]
  OBVIOUS
<1>7. rd \in ReadRec /\ rd.at = "open" /\ rd.key = k /\ rd.ident = old.ident /\ rd.generation = old.generation
      /\ rd.got = 0 /\ rd.wanted = TRUE /\ old.ident \in Idents /\ old.generation \in Nat
  BY <1>0, <1>2, <1>6 DEF ReadRec, EntryRec
<1>8. reader' = [x \in Readers |-> IF x = r THEN rd ELSE [reader[x] EXCEPT !.wanted = @ /\ reader[x].key # k]]
  BY <1>0, <1>2, <1>6 DEF F!BeginRead
<1>9. \A s \in Readers : s # r =>
        /\ reader'[s] \in ReadRec /\ reader'[s].at = reader[s].at /\ reader'[s].key = reader[s].key
        /\ reader'[s].ident = reader[s].ident /\ reader'[s].generation = reader[s].generation
        /\ reader'[s].got = reader[s].got
        /\ (reader'[s].wanted => reader[s].wanted /\ reader[s].key # k)
  <2> SUFFICES ASSUME NEW s \in Readers, s # r
               PROVE  /\ reader'[s] \in ReadRec /\ reader'[s].at = reader[s].at /\ reader'[s].key = reader[s].key
                      /\ reader'[s].ident = reader[s].ident /\ reader'[s].generation = reader[s].generation
                      /\ reader'[s].got = reader[s].got
                      /\ (reader'[s].wanted => reader[s].wanted /\ reader[s].key # k)
    OBVIOUS
  <2>1. PICK o \in ReadRec : o = reader[s]
    BY <1>0
  <2>2. (o.wanted /\ o.key # k) \in BOOLEAN
    BY <2>1 DEF ReadRec
  <2>3. PICK w \in BOOLEAN : w = (o.wanted /\ o.key # k)
    BY <2>2, Zenon
  <2>4. PICK n : n = [o EXCEPT !.wanted = w]
    OBVIOUS
  <2>5. reader'[s] = n
    BY <1>8, <2>1, <2>3, <2>4
  <2>6. n \in ReadRec /\ n.at = o.at /\ n.key = o.key /\ n.ident = o.ident /\ n.generation = o.generation /\ n.got = o.got
        /\ n.wanted = w
    BY <2>1, <2>4 DEF ReadRec
  <2> QED
    BY <2>1, <2>3, <2>5, <2>6
<1>10. reader'[r] = rd /\ reader' \in [Readers -> ReadRec]
  BY <1>7, <1>8, <1>9
<1>11. /\ page' \in [PulledKeys -> Seq(Nat)] /\ \A x \in PulledKeys : x # k => page'[x] = page[x]
       /\ page'[k] = IF offset = 0 THEN <<>> ELSE page[k]
  BY <1>0 DEF F!BeginRead
<1>12. \A i \in DOMAIN page'[k] : page'[k][i] = old.ident[2]
  <2>1. CASE offset = 0
    <3>1. DOMAIN page'[k] = {}
      BY <1>11, <2>1
    <3> QED
      BY <3>1
  <2>2. CASE offset # 0
    <3>1. old.next = offset /\ old.next # None
      BY <1>0, <1>2, <2>2, PullsAssumption DEF F!BeginRead, F!may_begin
    <3>2. Begun(k)
      BY <1>0, <1>2, <3>1 DEF Begun
    <3> QED
      BY <1>2, <1>11, <2>2, <3>2 DEF ReadsInv, BegunIsAll
  <2> QED
    BY <2>1, <2>2
<1>13. ReadsTyped'
  BY <1>1, <1>5, <1>10, <1>11 DEF ReadsInv, ReadsTyped
<1>14. F!PageIsOneFile'
  <2> SUFFICES ASSUME NEW x \in PulledKeys, NEW i \in DOMAIN page'[x], NEW j \in DOMAIN page'[x]
               PROVE  page'[x][i] = page'[x][j]
    BY DEF F!PageIsOneFile
  <2>1. CASE x = k
    BY <1>12, <2>1
  <2>2. CASE x # k
    BY <1>11, <2>2 DEF ReadsInv, F!PageIsOneFile
  <2> QED
    BY <2>1, <2>2
<1>15. \A s \in Readers : Reading(s)' /\ s # r => Reading(s)
  BY <1>9 DEF Reading
<1>16. ReadsKnown'
  <2>1. \A x \in PulledKeys : entries'[x] # None => entries'[x].generation <= generation'
    BY <1>1, <1>0, <1>2, <1>4, <1>5 DEF ReadsInv, ReadsKnown
  <2>2. ASSUME NEW s \in Readers, Reading(s)'
        PROVE  /\ reader'[s].key \in PulledKeys /\ reader'[s].ident \in Idents
               /\ reader'[s].got \in {0, reader'[s].ident[2]}
               /\ reader'[s].generation <= generation'
               /\ entries'[reader'[s].key] # None /\ entries'[reader'[s].key].generation = reader'[s].generation
                     => entries'[reader'[s].key].ident = reader'[s].ident
    <3>1. CASE s = r
      BY <1>0, <1>1, <1>2, <1>4, <1>5, <1>7, <1>10, <3>1 DEF ReadsInv, ReadsKnown
    <3>2. CASE s # r
      <4>1. Reading(s)
        BY <1>9, <2>2, <3>2 DEF Reading
      <4>2. /\ reader[s].key \in PulledKeys /\ reader[s].ident \in Idents /\ reader[s].got \in {0, reader[s].ident[2]}
            /\ reader[s].generation <= generation
            /\ entries[reader[s].key] # None /\ entries[reader[s].key].generation = reader[s].generation
                  => entries[reader[s].key].ident = reader[s].ident
        BY <1>0, <4>1 DEF ReadsInv, ReadsKnown
      <4>3. entries'[reader[s].key] # None => /\ entries[reader[s].key] # None
                                             /\ entries'[reader[s].key].generation = entries[reader[s].key].generation
                                             /\ entries'[reader[s].key].ident = entries[reader[s].key].ident
        BY <1>0, <1>2, <1>4, <1>5, <4>2
      <4> QED
        BY <1>1, <1>9, <3>2, <4>2, <4>3
    <3> QED
      BY <3>1, <3>2
  <2> QED
    BY <1>0, <1>1, <2>1, <2>2 DEF ReadsKnown
<1>17. OneWanted'
  <2> SUFFICES ASSUME NEW s \in Readers, Reading(s)', reader'[s].wanted
               PROVE  /\ \A i \in DOMAIN page'[reader'[s].key] : page'[reader'[s].key][i] = reader'[s].ident[2]
                      /\ \A z \in Readers : Reading(z)' /\ reader'[z].wanted /\ reader'[z].key = reader'[s].key => z = s
    BY DEF OneWanted
  <2>1. CASE s = r
    BY <1>7, <1>9, <1>10, <1>12, <2>1
  <2>2. CASE s # r
    <3>1. Reading(s) /\ reader[s].wanted /\ reader[s].key # k /\ reader[s].key \in PulledKeys
      BY <1>9, <2>2 DEF Reading, ReadsInv, ReadsKnown
    <3>2. \A i \in DOMAIN page[reader[s].key] : page[reader[s].key][i] = reader[s].ident[2]
      BY <3>1 DEF ReadsInv, OneWanted
    <3>3. ASSUME NEW z \in Readers, Reading(z)', reader'[z].wanted, reader'[z].key = reader'[s].key PROVE z = s
      <4>1. z # r
        BY <1>7, <1>9, <1>10, <2>2, <3>1, <3>3
      <4>2. Reading(z) /\ reader[z].wanted /\ reader[z].key = reader[s].key
        BY <1>9, <2>2, <3>3, <4>1 DEF Reading
      <4> QED
        BY <3>1, <4>2 DEF ReadsInv, OneWanted
    <3> QED
      BY <1>9, <1>11, <2>2, <3>1, <3>2, <3>3
  <2> QED
    BY <2>1, <2>2
<1>18. BegunIsAll'
  <2> SUFFICES ASSUME NEW x \in PulledKeys, Begun(x)'
               PROVE  /\ \A i \in DOMAIN page'[x] : page'[x][i] = entries'[x].ident[2]
                      /\ \A s \in Readers : Reading(s)' /\ reader'[s].wanted /\ reader'[s].key = x
                            => reader'[s].generation = entries'[x].generation
    BY DEF BegunIsAll
  <2>1. CASE x = k
    BY <1>4, <1>5, <1>7, <1>9, <1>10, <1>12, <2>1
  <2>2. CASE x # k
    <3>1. entries'[x] = entries[x] /\ page'[x] = page[x]
      BY <1>5, <1>11, <2>2
    <3>2. Begun(x)
      <4>1. CASE entries'[x].next # None
        BY <3>1, <4>1 DEF Begun
      <4>2. ASSUME NEW s \in Readers, Reading(s)', reader'[s].key = x, reader'[s].generation = entries'[x].generation
            PROVE  Begun(x)
        <5>1. s # r
          BY <1>7, <1>10, <2>2, <4>2
        <5>2. Reading(s) /\ reader[s].key = x /\ reader[s].generation = entries[x].generation
          BY <1>9, <3>1, <4>2, <5>1 DEF Reading
        <5> QED
          BY <3>1, <5>2 DEF Begun
      <4> QED
        BY <4>1, <4>2 DEF Begun
    <3>3. ASSUME NEW s \in Readers, Reading(s)', reader'[s].wanted, reader'[s].key = x
          PROVE  reader'[s].generation = entries'[x].generation
      <4>1. s # r
        BY <1>7, <1>10, <2>2, <3>3
      <4>2. Reading(s) /\ reader[s].key = x /\ reader[s].wanted
        BY <1>9, <3>3, <4>1 DEF Reading
      <4> QED
        BY <1>9, <3>1, <3>2, <4>1, <4>2 DEF ReadsInv, BegunIsAll
    <3> QED
      BY <3>1, <3>2, <3>3 DEF ReadsInv, BegunIsAll
  <2> QED
    BY <2>1, <2>2
<1> QED
  BY <1>13, <1>14, <1>16, <1>17, <1>18 DEF ReadsInv

\* A read moves on: with bytes of the record's file, or none.
LEMMA ReadMoves ==
    ASSUME ReadsInv, NEW r \in Readers, Reading(r), NEW at \in {"read", "settle"}, NEW got \in {0, reader[r].ident[2]},
           reader' = [reader EXCEPT ![r] = [reader[r] EXCEPT !.at = at, !.got = got]],
           UNCHANGED <<entries, generation, file, foreign, page, pulling>>
    PROVE  ReadsInv'
<1>0. reader \in [Readers -> ReadRec] /\ file \in [PulledKeys -> Nat]
  BY DEF ReadsInv, ReadsTyped
<1>1. UNCHANGED <<entries, generation, file, foreign, page, pulling>>
  OBVIOUS
<1>2. PICK old \in ReadRec : old = reader[r] /\ old.ident \in Idents
  BY <1>0 DEF ReadsInv, ReadsKnown
<1>3. got \in Nat /\ got \in {0, old.ident[2]} /\ reader' = [reader EXCEPT ![r] = [old EXCEPT !.at = at, !.got = got]]
  BY <1>2 DEF Idents
<1>4. PICK rd : rd = [old EXCEPT !.at = at, !.got = got]
  OBVIOUS
<1>5. rd \in ReadRec /\ rd.at = at /\ rd.got = got /\ rd.key = old.key /\ rd.ident = old.ident
      /\ rd.generation = old.generation /\ rd.wanted = old.wanted
  BY <1>2, <1>3, <1>4 DEF ReadRec
<1>6. reader' \in [Readers -> ReadRec] /\ reader'[r] = rd /\ \A s \in Readers : s # r => reader'[s] = reader[s]
  BY <1>0, <1>3, <1>4, <1>5
<1>7. \A s \in Readers : /\ Reading(s)' <=> Reading(s)
                         /\ reader'[s].key = reader[s].key /\ reader'[s].ident = reader[s].ident
                         /\ reader'[s].generation = reader[s].generation /\ reader'[s].wanted = reader[s].wanted
  BY <1>0, <1>2, <1>5, <1>6 DEF Reading
<1>8. ReadsTyped' /\ F!PageIsOneFile'
  BY <1>1, <1>6 DEF ReadsInv, ReadsTyped, F!PageIsOneFile
<1>9. ReadsKnown'
  <2>1. \A s \in Readers : Reading(s) => reader'[s].got \in {0, reader'[s].ident[2]}
    BY <1>2, <1>3, <1>5, <1>6 DEF ReadsInv, ReadsKnown
  <2>2. \A s \in Readers : Reading(s) =>
          /\ reader'[s].key \in PulledKeys /\ reader'[s].ident \in Idents
          /\ pulling => reader'[s].generation <= generation
          /\ entries[reader'[s].key] # None /\ entries[reader'[s].key].generation = reader'[s].generation
                => entries[reader'[s].key].ident = reader'[s].ident
    BY <1>7 DEF ReadsInv, ReadsKnown
  <2> QED
    BY <1>1, <1>7, <2>1, <2>2 DEF ReadsInv, ReadsKnown
<1>10. OneWanted'
  BY <1>1, <1>7 DEF ReadsInv, OneWanted
<1>11. BegunIsAll'
  <2>1. \A x \in PulledKeys : Begun(x)' => Begun(x)
    BY <1>1, <1>7 DEF Begun
  <2> QED
    BY <1>1, <1>7, <2>1 DEF ReadsInv, BegunIsAll
<1> QED
  BY <1>8, <1>9, <1>10, <1>11 DEF ReadsInv

LEMMA ConfinedKeeps ==
    ASSUME ReadsInv, ~InPlace, NEW r \in Readers, F!Identify(r) \/ F!ReadConfined(r)
    PROVE  ReadsInv'
<1>0. reader \in [Readers -> ReadRec] /\ Reading(r)
  BY DEF ReadsInv, ReadsTyped, F!Identify, F!ReadConfined, Reading
<1>1. UNCHANGED <<entries, generation, file, foreign, page, pulling>>
  BY DEF F!Identify, F!ReadConfined
<1>2. PICK old \in ReadRec : old = reader[r] /\ old.ident \in Idents /\ old.got \in {0, old.ident[2]}
  BY <1>0 DEF ReadsInv, ReadsKnown
<1>3. CASE F!Identify(r)
  <2>1. PICK at \in {"read", "settle"} : reader' = [reader EXCEPT ![r].at = at]
    BY <1>3 DEF F!Identify
  <2>2. [old EXCEPT !.at = at] = [old EXCEPT !.at = at, !.got = old.got]
    BY <1>2 DEF ReadRec
  <2>3. reader' = [reader EXCEPT ![r] = [reader[r] EXCEPT !.at = at, !.got = old.got]]
    BY <1>0, <1>2, <2>1, <2>2
  <2> QED
    BY <1>0, <1>1, <1>2, <2>3, ReadMoves
<1>4. CASE F!ReadConfined(r)
  <2>1. reader' = [reader EXCEPT ![r].at = "settle", ![r].got = old.ident[2]]
    BY <1>2, <1>4 DEF F!ReadConfined
  <2>2. reader' = [reader EXCEPT ![r] = [reader[r] EXCEPT !.at = "settle", !.got = old.ident[2]]]
    BY <1>0, <2>1
  <2> QED
    BY <1>0, <1>1, <1>2, <2>2, ReadMoves
<1> QED
  BY <1>3, <1>4

\* The answer goes to the page.
LEMMA SettleKeeps ==
    ASSUME ReadsInv, NEW r \in Readers, F!Settle(r)
    PROVE  ReadsInv'
<1>0. /\ reader \in [Readers -> ReadRec] /\ Reading(r) /\ entries \in [PulledKeys -> EntryRec \cup {None}]
      /\ page \in [PulledKeys -> Seq(Nat)] /\ generation \in Nat
  BY DEF ReadsInv, ReadsTyped, F!Settle, Reading
<1>1. UNCHANGED <<generation, file, foreign, pulling>>
  BY DEF F!Settle
<1>2. PICK rd \in ReadRec : rd = reader[r]
  BY <1>0
<1>3. PICK k \in PulledKeys : k = rd.key
  BY <1>0, <1>2 DEF ReadsInv, ReadsKnown
<1>4. rd.ident \in Idents /\ rd.got \in {0, rd.ident[2]} /\ rd.got \in Nat /\ rd.ident[2] \in Nat
  BY <1>0, <1>2 DEF ReadsInv, ReadsKnown, Idents
<1>5. /\ F!NoRead \in ReadRec /\ F!NoRead.at = "idle"
  BY DEF F!NoRead, ReadRec
<1>6. /\ reader' \in [Readers -> ReadRec] /\ ~Reading(r)' /\ \A s \in Readers : s # r => reader'[s] = reader[s]
  BY <1>0, <1>5 DEF F!Settle, Reading
<1>7. \A s \in Readers : Reading(s)' => s # r /\ Reading(s) /\ reader'[s] = reader[s]
  BY <1>6 DEF Reading
<1>8. PICK e \in EntryRec \cup {None} :
        /\ entries' \in [PulledKeys -> EntryRec \cup {None}] /\ entries'[k] = e
        /\ \A x \in PulledKeys : x # k => entries'[x] = entries[x]
        /\ \/ e = entries[k]
           \/ /\ entries[k] # None /\ entries[k].generation = rd.generation
              /\ e.ident = entries[k].ident /\ e.generation = entries[k].generation
  <2>1. CASE pulling /\ entries[k] # None /\ entries[k].generation = rd.generation
    <3>1. PICK old \in EntryRec : old = entries[k]
      BY <1>0, <2>1
    <3>2. PICK n \in Nat \cup {None} : n = IF rd.got # 0 THEN rd.offset + 1 ELSE old.next
      BY <1>2, <3>1 DEF ReadRec, EntryRec
    <3>3. PICK e : e = [old EXCEPT !.held = FALSE, !.late = FALSE, !.next = n]
      OBVIOUS
    <3>4. e \in EntryRec /\ e.ident = old.ident /\ e.generation = old.generation
      BY <3>1, <3>2, <3>3 DEF EntryRec
    <3>5. F!settle(entries[k], rd) = e
      BY <2>1, <3>1, <3>2, <3>3 DEF F!settle, EntryRec
    <3>6. entries' = [entries EXCEPT ![k] = e]
      BY <1>2, <1>3, <2>1, <3>5 DEF F!Settle
    <3> QED
      BY <1>0, <2>1, <3>1, <3>4, <3>6
  <2>2. CASE ~(pulling /\ entries[k] # None /\ entries[k].generation = rd.generation)
    <3>1. CASE ~pulling
      BY <1>0, <3>1 DEF F!Settle
    <3>2. CASE pulling
      <4>1. F!settle(entries[k], rd) = entries[k]
        BY <2>2, <3>2 DEF F!settle
      <4>2. entries' = [entries EXCEPT ![k] = entries[k]]
        BY <1>2, <1>3, <3>2, <4>1 DEF F!Settle
      <4> QED
        BY <1>0, <4>2
    <3> QED
      BY <3>1, <3>2
  <2> QED
    BY <2>1, <2>2
<1>9. \A x \in PulledKeys : entries'[x] # None =>
         /\ entries[x] # None /\ entries'[x].ident = entries[x].ident /\ entries'[x].generation = entries[x].generation
  BY <1>8
<1>10. /\ page' \in [PulledKeys -> Seq(Nat)] /\ \A x \in PulledKeys : x # k => page'[x] = page[x]
       /\ \/ page' = page
          \/ rd.wanted /\ rd.got # 0 /\ page'[k] = Append(page[k], rd.got)
  BY <1>0, <1>2, <1>3, <1>4 DEF F!Settle
<1>11. rd.wanted => \A i \in DOMAIN page[k] : page[k][i] = rd.ident[2]
  BY <1>0, <1>2, <1>3 DEF ReadsInv, OneWanted
<1>12. \/ page' = page
       \/ rd.wanted /\ \A i \in DOMAIN page'[k] : page'[k][i] = rd.ident[2]
  <2> SUFFICES ASSUME rd.wanted, rd.got # 0, page'[k] = Append(page[k], rd.got), NEW i \in DOMAIN page'[k]
               PROVE  page'[k][i] = rd.ident[2]
    BY <1>10
  <2>1. \/ /\ i \in DOMAIN page[k] /\ page'[k][i] = page[k][i]
        \/ page'[k][i] = rd.got
    <3>1. PICK q \in Seq(Nat) : q = page[k]
      BY <1>0
    <3>2. i \in DOMAIN Append(q, rd.got) /\ page'[k][i] = Append(q, rd.got)[i]
      BY <3>1
    <3>3. \/ /\ i \in DOMAIN q /\ Append(q, rd.got)[i] = q[i]
          \/ Append(q, rd.got)[i] = rd.got
      BY <1>4, <3>2
    <3> QED
      BY <3>1, <3>2, <3>3
  <2> QED
    BY <1>4, <1>11, <2>1
<1>13. ReadsTyped'
  BY <1>1, <1>6, <1>8, <1>10 DEF ReadsInv, ReadsTyped
<1>14. F!PageIsOneFile'
  <2> SUFFICES ASSUME NEW x \in PulledKeys, NEW i \in DOMAIN page'[x], NEW j \in DOMAIN page'[x]
               PROVE  page'[x][i] = page'[x][j]
    BY DEF F!PageIsOneFile
  <2>1. CASE page'[x] = page[x]
    BY <2>1 DEF ReadsInv, F!PageIsOneFile
  <2>2. CASE x = k /\ \A n \in DOMAIN page'[k] : page'[k][n] = rd.ident[2]
    BY <2>2
  <2> QED
    BY <1>10, <1>12, <2>1, <2>2
<1>15. ReadsKnown'
  <2>1. ~pulling => \A x \in PulledKeys : entries'[x] = None
    BY <1>9 DEF ReadsInv, ReadsKnown
  <2>2. \A x \in PulledKeys : entries'[x] # None => entries'[x].generation <= generation
    BY <1>9 DEF ReadsInv, ReadsKnown
  <2>3. ASSUME NEW s \in Readers, Reading(s)'
        PROVE  /\ reader'[s].key \in PulledKeys /\ reader'[s].ident \in Idents
               /\ reader'[s].got \in {0, reader'[s].ident[2]}
               /\ pulling' => reader'[s].generation <= generation'
               /\ entries'[reader'[s].key] # None /\ entries'[reader'[s].key].generation = reader'[s].generation
                     => entries'[reader'[s].key].ident = reader'[s].ident
    <3>1. Reading(s) /\ reader'[s] = reader[s]
      BY <1>7, <2>3 DEF Reading
    <3> QED
      BY <1>1, <1>9, <3>1 DEF ReadsInv, ReadsKnown
  <2> QED
    BY <1>1, <2>1, <2>2, <2>3 DEF ReadsKnown
<1>16. OneWanted'
  <2> SUFFICES ASSUME NEW s \in Readers, Reading(s)', reader'[s].wanted
               PROVE  /\ \A i \in DOMAIN page'[reader'[s].key] : page'[reader'[s].key][i] = reader'[s].ident[2]
                      /\ \A z \in Readers : Reading(z)' /\ reader'[z].wanted /\ reader'[z].key = reader'[s].key => z = s
    BY DEF OneWanted
  <2>1. Reading(s) /\ reader'[s] = reader[s] /\ s # r
    BY <1>6, <1>7 DEF Reading
  <2>2. reader[s].key \in PulledKeys
    BY <2>1 DEF ReadsInv, ReadsKnown
  <2>3. page'[reader[s].key] = page[reader[s].key]
    <3>1. CASE reader[s].key = k /\ rd.wanted
      <4>1. s = r
        BY <1>0, <1>2, <1>3, <2>1, <3>1 DEF ReadsInv, OneWanted
      <4> QED
        BY <2>1, <4>1
    <3>2. CASE reader[s].key # k \/ ~rd.wanted
      BY <1>10, <2>2, <3>2
    <3> QED
      BY <3>1, <3>2
  <2>4. ASSUME NEW z \in Readers, Reading(z)', reader'[z].wanted, reader'[z].key = reader'[s].key PROVE z = s
    <3>1. Reading(z) /\ reader'[z] = reader[z]
      BY <1>7, <2>4 DEF Reading
    <3> QED
      BY <2>1, <2>4, <3>1 DEF ReadsInv, OneWanted
  <2> QED
    BY <2>1, <2>3, <2>4 DEF ReadsInv, OneWanted
<1>17. BegunIsAll'
  <2> SUFFICES ASSUME NEW x \in PulledKeys, Begun(x)'
               PROVE  /\ \A i \in DOMAIN page'[x] : page'[x][i] = entries'[x].ident[2]
                      /\ \A s \in Readers : Reading(s)' /\ reader'[s].wanted /\ reader'[s].key = x
                            => reader'[s].generation = entries'[x].generation
    BY DEF BegunIsAll
  <2>1. entries[x] # None /\ entries'[x].ident = entries[x].ident /\ entries'[x].generation = entries[x].generation
    BY <1>9 DEF Begun
  <2>2. Begun(x)
    <3>1. CASE entries'[x] = entries[x]
      <4>1. CASE entries[x].next # None
        BY <2>1, <4>1 DEF Begun
      <4>2. ASSUME NEW s \in Readers, Reading(s)', reader'[s].key = x, reader'[s].generation = entries'[x].generation
            PROVE  Begun(x)
        <5>1. Reading(s) /\ reader'[s] = reader[s]
          BY <1>7, <4>2 DEF Reading
        <5> QED
          BY <2>1, <4>2, <5>1 DEF Begun
      <4> QED
        BY <3>1, <4>1, <4>2 DEF Begun
    <3>2. CASE x = k /\ entries[k].generation = rd.generation
      BY <1>0, <1>2, <1>3, <2>1, <3>2 DEF Begun
    <3> QED
      BY <1>8, <3>1, <3>2
  <2>3. \A i \in DOMAIN page'[x] : page'[x][i] = entries[x].ident[2]
    <3>1. CASE page'[x] = page[x]
      BY <2>2, <3>1 DEF ReadsInv, BegunIsAll
    <3>2. CASE x = k /\ rd.wanted /\ \A i \in DOMAIN page'[k] : page'[k][i] = rd.ident[2]
      <4>1. rd.generation = entries[k].generation
        BY <1>0, <1>2, <1>3, <2>2, <3>2 DEF ReadsInv, BegunIsAll
      <4>2. rd.ident = entries[k].ident
        BY <1>0, <1>2, <1>3, <2>1, <3>2, <4>1 DEF ReadsInv, ReadsKnown
      <4> QED
        BY <3>2, <4>2
    <3> QED
      BY <1>10, <1>12, <3>1, <3>2
  <2>4. ASSUME NEW s \in Readers, Reading(s)', reader'[s].wanted, reader'[s].key = x
        PROVE  reader'[s].generation = entries[x].generation
    <3>1. Reading(s) /\ reader'[s] = reader[s]
      BY <1>7, <2>4 DEF Reading
    <3> QED
      BY <2>2, <2>4, <3>1 DEF ReadsInv, BegunIsAll
  <2> QED
    BY <2>1, <2>3, <2>4
<1> QED
  BY <1>13, <1>14, <1>15, <1>16, <1>17 DEF ReadsInv

\* Records go with the session; nothing of an ended session is read when it is back.
LEMMA SessionReads ==
    ASSUME ReadsInv, ~Returns, F!SessionEnds \/ F!SignsIn
    PROVE  ReadsInv'
<1>1. UNCHANGED <<file, foreign, reader, page>> /\ \A k \in PulledKeys : entries'[k] = None
  BY DEF F!SessionEnds, F!SignsIn, ReadsInv, ReadsKnown
<1>2. entries' \in [PulledKeys -> EntryRec \cup {None}] /\ generation' \in Nat
  BY DEF F!SessionEnds, F!SignsIn, ReadsInv, ReadsTyped
<1>3. pulling' => \A r \in Readers : ~Reading(r)
  BY DEF F!SessionEnds, F!SignsIn, Reading
<1>4. ReadsTyped' /\ F!PageIsOneFile' /\ OneWanted'
  BY <1>1, <1>2 DEF ReadsInv, ReadsTyped, F!PageIsOneFile, OneWanted, Reading
<1>5. ReadsKnown'
  BY <1>1, <1>3 DEF ReadsInv, ReadsKnown, Reading
<1>6. BegunIsAll'
  BY <1>1 DEF BegunIsAll, Begun
<1> QED
  BY <1>4, <1>5, <1>6 DEF ReadsInv

LEMMA ReadsStepKeeps ==
    ASSUME ~Returns, ~InPlace
    PROVE  QueueInv /\ ReadsInv /\ [F!Next]_pullVars => ReadsInv'
<1> SUFFICES ASSUME QueueInv, ReadsInv, [F!Next]_pullVars PROVE ReadsInv'
  OBVIOUS
<1>1. ASSUME NEW p \in F!Pulls, F!Completes(p) PROVE ReadsInv'
  BY <1>1, CompletesKeeps
<1>2. ASSUME NEW k \in PulledKeys, F!ReadGivenUp(k) \/ F!RecordExpires(k) PROVE ReadsInv'
  BY <1>2, RecordMarked
<1>3. ASSUME NEW r \in Readers,
             \/ F!Identify(r) \/ F!ReadConfined(r) \/ F!Settle(r)
             \/ \E k \in PulledKeys, offset \in 0 .. Total : F!BeginRead(r, k, offset)
      PROVE  ReadsInv'
  BY <1>3, ConfinedKeeps, SettleKeeps, BeginReadKeeps
<1> QED
  BY <1>1, <1>2, <1>3, OtherSteps, SessionReads DEF F!Next

LEMMA PullsStart == F!Init => QueueInv /\ ReadsInv
<1> SUFFICES ASSUME F!Init PROVE QueueInv /\ ReadsInv
  OBVIOUS
<1>1. F!NoPull \in PullRec /\ F!NoPull.as = 0 /\ F!NoPull.stream = "none"
  <2>1. 0 \in 0 .. MaxPulls
    BY PullsAssumption
  <2> QED
    BY <2>1 DEF F!NoPull, PullRec
<1>2. F!NoRead \in ReadRec /\ F!NoRead.at = "idle"
  BY DEF F!NoRead, ReadRec
<1>3. pull \in [F!Pulls -> PullRec] /\ \A p \in F!Pulls : pull[p].as = 0 /\ pull[p].stream = "none"
  BY <1>1 DEF F!Init
<1>4. pulls = <<>> /\ sending = <<>> /\ remote = <<>> /\ handles = <<>> /\ pulling = TRUE /\ disturbed = FALSE
  BY DEF F!Init
<1>5. QueueInv
  <2>1. <<>> \in Seq(F!Pulls) /\ DOMAIN (<<>>) = {}
    OBVIOUS
  <2>2. PullsTyped
    BY <1>3, <1>4, <2>1 DEF PullsTyped
  <2>3. PullsNamed
    BY <1>3, <1>4, <2>1 DEF PullsNamed
  <2>4. pulls = (handles \o remote) \o sending
    BY <1>4
  <2>5. SentOnce
    BY <1>4, <2>1 DEF SentOnce
  <2> QED
    BY <1>3, <1>4, <2>2, <2>3, <2>4, <2>5 DEF QueueInv, InOrder
<1>6. reader \in [Readers -> ReadRec] /\ \A r \in Readers : ~Reading(r)
  BY <1>2 DEF F!Init, Reading
<1>7. ReadsTyped /\ F!PageIsOneFile
  BY <1>6 DEF F!Init, ReadsTyped, F!PageIsOneFile
<1>8. ReadsKnown /\ OneWanted /\ BegunIsAll
  BY <1>4, <1>6 DEF F!Init, ReadsKnown, OneWanted, BegunIsAll, Begun
<1> QED
  BY <1>5, <1>7, <1>8 DEF ReadsInv

\* What a page has put together is of one file, whatever was pulled again, replaced,
\* given up or answered late meanwhile; and while requests are sent in the order they
\* took their places and the peer answers each with its stream, and in time, a stream
\* has the name of its own request, also when sends fail - at any number of pulls, reads
\* and chunks, for an account that does not come back while a read of its ended session
\* runs, and saves that replace a file that is being read instead of overwriting it
\* (download.rs, pulled_reads.rs, revfs_correlation.rs).
THEOREM PullsAreSound ==
    ASSUME ~Returns, ~InPlace
    PROVE  PeersSpec => []PullsSound
<1>1. PeersInit => QueueInv /\ ReadsInv
  BY PullsStart DEF PeersInit
<1>2. QueueInv /\ ReadsInv /\ [PeersStep \/ GroupsStep \/ PullsStep]_<<part, vars, groupVars, pullVars>>
        => QueueInv' /\ ReadsInv'
  BY QueueStepKeeps, ReadsStepKeeps DEF PeersStep, GroupsStep, PullsStep
<1>3. QueueInv /\ ReadsInv => PullsSound
  BY DEF QueueInv, InOrder, ReadsInv, PullsSound, F!PullsSound, F!StreamIsItsOwn
<1> QED
  BY <1>1, <1>2, <1>3, PTL DEF PeersSpec
=============================================================================
