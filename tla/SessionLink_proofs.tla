-------------------------- MODULE SessionLink_proofs --------------------------
(***************************************************************************)
(* Theorems about SessionLink, for every number of reconnect tasks, SDK    *)
(* sessions, entries and generations: its types, who owns an entry's mark, *)
(* and what the reconnect machinery guarantees - a session left            *)
(* Reconnecting is being reconnected, one SDK connect at a time, and a     *)
(* live link is not taken for a dropped one.                               *)
(***************************************************************************)
EXTENDS SessionLink, TLAPS

-----------------------------------------------------------------------------
(* Type correctness.                                                       *)

\* A takeover marks only a generation that can still be handed back.
HandBackRoom == link = "SigningIn" => gen < MaxGen

TypeInv == TypeOK /\ HandBackRoom

\* The bounds are naturals, and zero is within every one of them.
LEMMA Bounds ==
  /\ MaxInsts \in Nat /\ MaxLives \in Nat /\ MaxGen \in Nat
  /\ MaxTries \in Nat /\ MaxSpawns \in Nat
  /\ 0 \in 0..MaxInsts /\ 0 \in 0..MaxLives /\ 0 \in 0..MaxGen
  /\ 0 \in 0..MaxTries /\ 0 \in 0..MaxSpawns
  BY BoundsAssumption DEF BoundsAssumption

\* The records of a task that is not running.
LEMMA IdleTypes == OffRun \in RunRec /\ IdleCon \in ConRec /\ IdleForce \in ForceRec
  BY Bounds
  DEF OffRun, IdleCon, IdleForce, RunRec, ConRec, ForceRec, RunPcs, ConPcs

\* The record of a run that was just spawned.
LEMMA NewRunType ==
  ASSUME TypeInv, NEW g \in 0..MaxGen
  PROVE  NewRun(g) \in RunRec
  BY Bounds DEF TypeInv, TypeOK, EntryTypes, NewRun, RunRec, RunPcs

\* An installed session is the newest, and within the bound.
LEMMA OpenTypes ==
  ASSUME TypeInv, SdkOpens
  PROVE  insts + 1 \in 0..MaxInsts
  BY Bounds DEF TypeInv, TypeOK, EntryTypes, SdkOpens

\* The events the SDK sends are reports, and only Deregister ends an account.
LEMMA EventTypes ==
  ASSUME TypeInv, SdkOpens \/ SdkRefuses \/ SdkEnds
  PROVE  reports' \subseteq ReportRec /\ registered' = registered
  <1> USE DEF TypeInv, TypeOK, FlagTypes
  <1>1. CASE SdkOpens
    BY <1>1 DEF SdkOpens
  <1>2. CASE SdkRefuses
    <2>1. Refusal \in ReportRec
      BY Bounds DEF Refusal, ReportRec
    <2> QED
      BY <1>2, <2>1 DEF SdkRefuses
  <1>3. CASE SdkEnds
    <2>1. Named(sdk) \in ReportRec /\ Unnamed \in ReportRec
      BY Bounds DEF Named, Unnamed, ReportRec, EntryTypes
    <2> QED
      BY <1>3, <2>1 DEF SdkEnds
  <1> QED
    BY <1>1, <1>2, <1>3

\* The initial state has the right types.
LEMMA TypeInit == Init => TypeInv
  <1> SUFFICES ASSUME Init PROVE TypeInv
    OBVIOUS
  <1> USE Bounds DEF Init
  <1>1. EntryTypes /\ HandBackRoom
    BY DEF EntryTypes, HandBackRoom, LinkState
  <1>2. FlagTypes
    BY DEF FlagTypes
  <1>3. HandlerTypes
    BY IdleTypes DEF HandlerTypes
  <1> QED
    BY <1>1, <1>2, <1>3 DEF TypeInv, TypeOK

\* A drop report, a reconnect's start, and the end of an Ending session.
LEMMA TypeReport == TypeInv /\ ReportNext => TypeInv'
  <1> SUFFICES ASSUME TypeInv, ReportNext PROVE TypeInv'
    OBVIOUS
  <1> USE Bounds DEF TypeInv, TypeOK, entry, sdkVars, handlers
  <1>1. CASE SdkDrop
    <2>1. EntryTypes' /\ HandBackRoom'
      BY <1>1 DEF SdkDrop, EntryTypes, LinkState, HandBackRoom
    <2>2. FlagTypes'
      <3>1. \A t \in BOOLEAN : [inst |-> sdk, refusal |-> t] \in ReportRec
        BY DEF ReportRec, EntryTypes
      <3>2. DropTexts \subseteq BOOLEAN
        BY BoundsAssumption DEF BoundsAssumption
      <3> QED
        BY <1>1, <3>1, <3>2 DEF SdkDrop, FlagTypes
    <2>3. HandlerTypes'
      BY <1>1 DEF SdkDrop, HandlerTypes, EntryTypes, RunRec, ConRec, ForceRec
    <2> QED
      BY <2>1, <2>2, <2>3
  <1>2. CASE RemoveEnding
    BY <1>2 DEF RemoveEnding, RemoveEntry, EntryTypes, FlagTypes,
          HandlerTypes, HandBackRoom, LinkState, ReportRec, RunRec, ConRec,
          ForceRec
  <1>3. CASE Spawn
    <2>1. EntryTypes' /\ HandBackRoom'
      BY <1>3 DEF Spawn, NewRun, OffRun, RunPcs, EntryTypes, LinkState,
            HandBackRoom
    <2>2. FlagTypes'
      BY <1>3 DEF Spawn, NewRun, OffRun, RunPcs, FlagTypes, EntryTypes,
            ReportRec
    <2>3. HandlerTypes'
      <3>1. NewRun(gen) \in RunRec
        BY NewRunType DEF EntryTypes
      <3> QED
        BY <1>3, <3>1 DEF Spawn, HandlerTypes
    <2> QED
      BY <2>1, <2>2, <2>3
  <1>4. ASSUME NEW q \in reports, HandleReport(q) PROVE TypeInv'
    <2>1. EntryTypes' /\ HandBackRoom'
      BY <1>4 DEF HandleReport, Begin, EntryTypes, LinkState, HandBackRoom
    <2>2. FlagTypes'
      BY <1>4 DEF HandleReport, Begin, FlagTypes, EntryTypes, ReportRec
    <2>3. HandlerTypes'
      BY <1>4 DEF HandleReport, Begin, HandlerTypes, EntryTypes, RunRec,
            ConRec, ForceRec
    <2> QED
      BY <2>1, <2>2, <2>3
  <1>5. ASSUME NEW q \in reports, HandleRefusal(q) PROVE TypeInv'
    <2>1. EntryTypes' /\ HandBackRoom'
      BY <1>5 DEF HandleRefusal, Named, EntryTypes, LinkState, HandBackRoom
    <2>2. FlagTypes'
      <3>1. q \in ReportRec
        BY DEF FlagTypes
      <3>2. Named(q.inst) \in ReportRec
        BY <3>1 DEF Named, ReportRec
      <3> QED
        BY <1>5, <3>2 DEF HandleRefusal, FlagTypes
    <2>3. HandlerTypes'
      BY <1>5 DEF HandleRefusal, Named, HandlerTypes, EntryTypes, RunRec,
            ConRec, ForceRec
    <2> QED
      BY <2>1, <2>2, <2>3
  <1> QED
    BY <1>1, <1>2, <1>3, <1>4, <1>5 DEF ReportNext

\* A reconnect run's steps.
LEMMA TypeRun == \A r \in Runs : TypeInv /\ RunNext(r) => TypeInv'
  <1> SUFFICES ASSUME NEW r \in Runs, TypeInv, RunNext(r) PROVE TypeInv'
    OBVIOUS
  <1> USE Bounds DEF TypeInv, TypeOK, entry, sdkVars, handlers
  <1>1. CASE RunWake(r)
    BY <1>1 DEF RunWake, StopRun, OffRun, RunPcs, EntryTypes, FlagTypes,
          HandlerTypes, HandBackRoom, LinkState, ReportRec, RunRec, ConRec,
          ForceRec
  <1>2. CASE RunCheck(r)
    BY <1>2 DEF RunCheck, StopRun, OffRun, RunPcs, RunHolds, EntryTypes,
          FlagTypes, HandlerTypes, HandBackRoom, LinkState, ReportRec, RunRec,
          ConRec, ForceRec
  <1>3. CASE RunDialed(r)
    <2>1. EntryTypes' /\ HandBackRoom'
      BY <1>3 DEF RunDialed, SdkOpens, RunPcs, RunHolds, EntryTypes,
            LinkState, HandBackRoom
    <2>2. FlagTypes'
      BY <1>3, EventTypes DEF RunDialed, FlagTypes
    <2>3. HandlerTypes'
      <3>1. insts + 1 \in 0..MaxInsts
        BY <1>3, OpenTypes DEF RunDialed
      <3> QED
        BY <1>3, <3>1 DEF RunDialed, HandlerTypes, RunRec, RunPcs, RunHolds
    <2> QED
      BY <2>1, <2>2, <2>3
  <1>4. CASE RunDialFailed(r)
    <2>1. EntryTypes' /\ HandBackRoom'
      BY <1>4 DEF RunDialFailed, SdkRefuses, Refusal, RunPcs, RunHolds,
            EntryTypes, LinkState, HandBackRoom
    <2>2. FlagTypes'
      BY <1>4, EventTypes DEF RunDialFailed, FlagTypes
    <2>3. HandlerTypes'
      BY <1>4 DEF RunDialFailed, SdkRefuses, Refusal, RunPcs, RunHolds,
            HandlerTypes, EntryTypes, RunRec, ConRec, ForceRec
    <2> QED
      BY <2>1, <2>2, <2>3
  <1>5. CASE RunInstall(r)
    BY <1>5 DEF RunInstall, PutLink, StopRun, OffRun, RunPcs, RunHolds,
          EntryTypes, FlagTypes, HandlerTypes, HandBackRoom, LinkState,
          ReportRec, RunRec, ConRec, ForceRec
  <1>6. CASE RunClose(r)
    <2>1. EntryTypes' /\ HandBackRoom'
      BY <1>6 DEF RunClose, SdkEnds, Named, Unnamed, StopRun, OffRun, RunPcs,
            EntryTypes, LinkState, HandBackRoom
    <2>2. FlagTypes'
      BY <1>6, EventTypes DEF RunClose, FlagTypes
    <2>3. HandlerTypes'
      BY <1>6 DEF RunClose, SdkEnds, Named, Unnamed, StopRun, OffRun, RunPcs,
            HandlerTypes, EntryTypes, RunRec, ConRec, ForceRec
    <2> QED
      BY <2>1, <2>2, <2>3
  <1>7. CASE RunFail(r)
    <2>1. EntryTypes' /\ HandBackRoom'
      BY <1>7 DEF RunFail, RemoveEntry, StopRun, OffRun, RunPcs, EntryTypes,
            LinkState, HandBackRoom
    <2>2. FlagTypes'
      BY <1>7 DEF RunFail, RemoveEntry, StopRun, OffRun, RunPcs, FlagTypes,
            EntryTypes, ReportRec
    <2>3. HandlerTypes'
      BY <1>7 DEF RunFail, RemoveEntry, StopRun, OffRun, RunPcs, HandlerTypes,
            EntryTypes, RunRec, ConRec, ForceRec
    <2> QED
      BY <2>1, <2>2, <2>3
  <1> QED
    BY <1>1, <1>2, <1>3, <1>4, <1>5, <1>6, <1>7 DEF RunNext

\* A sign-in to a session nobody is reconnecting.
LEMMA TypeConnect == TypeInv /\ ConnectNext => TypeInv'
  <1> SUFFICES ASSUME TypeInv, ConnectNext PROVE TypeInv'
    OBVIOUS
  <1> USE Bounds DEF TypeInv, TypeOK, entry, sdkVars, handlers
  <1>1. CASE ConnectStart
    BY <1>1 DEF ConnectStart, ConPcs, EntryTypes, FlagTypes, HandlerTypes,
          HandBackRoom, LinkState, ReportRec, RunRec, ConRec, ForceRec
  <1>2. CASE ConnectAsk
    BY <1>2 DEF ConnectAsk, IdleCon, ConPcs, EntryTypes, FlagTypes,
          HandlerTypes, HandBackRoom, LinkState, ReportRec, RunRec, ConRec,
          ForceRec
  <1>3. CASE ConnectReplaceStale
    BY <1>3 DEF ConnectReplaceStale, RemoveEntry, ConPcs, EntryTypes,
          FlagTypes, HandlerTypes, HandBackRoom, LinkState, ReportRec, RunRec,
          ConRec, ForceRec
  <1>4. CASE ConnectDialed
    <2>1. EntryTypes' /\ HandBackRoom'
      BY <1>4 DEF ConnectDialed, SdkOpens, ConPcs, EntryTypes, LinkState,
            HandBackRoom
    <2>2. FlagTypes'
      BY <1>4, EventTypes DEF ConnectDialed, FlagTypes
    <2>3. HandlerTypes'
      <3>1. insts + 1 \in 0..MaxInsts
        BY <1>4, OpenTypes DEF ConnectDialed
      <3> QED
        BY <1>4, <3>1 DEF ConnectDialed, HandlerTypes, ConRec, ConPcs
    <2> QED
      BY <2>1, <2>2, <2>3
  <1>5. CASE ConnectDialFailed
    <2>1. EntryTypes' /\ HandBackRoom'
      BY <1>5 DEF ConnectDialFailed, SdkRefuses, Refusal, IdleCon, ConPcs,
            EntryTypes, LinkState, HandBackRoom
    <2>2. FlagTypes'
      BY <1>5, EventTypes DEF ConnectDialFailed, FlagTypes
    <2>3. HandlerTypes'
      BY <1>5 DEF ConnectDialFailed, SdkRefuses, Refusal, IdleCon, ConPcs,
            HandlerTypes, EntryTypes, RunRec, ConRec, ForceRec
    <2> QED
      BY <2>1, <2>2, <2>3
  <1>6. CASE ConnectInsert
    <2>1. EntryTypes' /\ HandBackRoom'
      <3>1. con.inst \in 0..MaxInsts
        BY DEF HandlerTypes, ConRec
      <3> QED
        BY <1>6, <3>1 DEF ConnectInsert, InsertEntry, EntryTypes, HandBackRoom, LinkState
    <2>2. FlagTypes'
      BY <1>6 DEF ConnectInsert, InsertEntry, IdleCon, ConPcs, FlagTypes,
            EntryTypes, ReportRec
    <2>3. HandlerTypes'
      BY <1>6 DEF ConnectInsert, InsertEntry, IdleCon, ConPcs, HandlerTypes,
            EntryTypes, RunRec, ConRec, ForceRec
    <2> QED
      BY <2>1, <2>2, <2>3
  <1>7. CASE ConnectUnreadable
    BY <1>7 DEF ConnectUnreadable, IdleCon, ConPcs, EntryTypes, FlagTypes,
          HandlerTypes, HandBackRoom, LinkState, ReportRec, RunRec, ConRec,
          ForceRec
  <1> QED
    BY <1>1, <1>2, <1>3, <1>4, <1>5, <1>6, <1>7 DEF ConnectNext

\* A sign-in that takes a reconnecting session over.
LEMMA TypeTakeOver == TypeInv /\ TakeOverNext => TypeInv'
  <1> SUFFICES ASSUME TypeInv, TakeOverNext PROVE TypeInv'
    OBVIOUS
  <1> USE Bounds DEF TypeInv, TypeOK, entry, sdkVars, handlers
  <1>1. CASE TakeOverMark
    <2>1. EntryTypes' /\ HandBackRoom'
      BY <1>1 DEF TakeOverMark, SetLink, IdleCon, ConPcs, EntryTypes,
            LinkState, HandBackRoom
    <2>2. FlagTypes'
      BY <1>1 DEF TakeOverMark, SetLink, IdleCon, ConPcs, FlagTypes,
            EntryTypes, ReportRec
    <2>3. HandlerTypes'
      <3>1. [con EXCEPT !.pc = "tkGate", !.gate = life] \in ConRec
        BY DEF EntryTypes, HandlerTypes, ConRec, ConPcs
      <3> QED
        BY <1>1, <3>1, IdleTypes DEF TakeOverMark, HandlerTypes
    <2> QED
      BY <2>1, <2>2, <2>3
  <1>2. CASE TakeOverLock
    BY <1>2 DEF TakeOverLock, IdleCon, ConPcs, ConHolds, EntryTypes,
          FlagTypes, HandlerTypes, HandBackRoom, LinkState, ReportRec, RunRec,
          ConRec, ForceRec
  <1>3. CASE TakeOverDialed
    <2>1. EntryTypes' /\ HandBackRoom'
      BY <1>3 DEF TakeOverDialed, SdkOpens, ConPcs, ConHolds, EntryTypes,
            LinkState, HandBackRoom
    <2>2. FlagTypes'
      BY <1>3, EventTypes DEF TakeOverDialed, FlagTypes
    <2>3. HandlerTypes'
      <3>1. insts + 1 \in 0..MaxInsts
        BY <1>3, OpenTypes DEF TakeOverDialed
      <3> QED
        BY <1>3, <3>1 DEF TakeOverDialed, HandlerTypes, ConRec, ConPcs, ConHolds
    <2> QED
      BY <2>1, <2>2, <2>3
  <1>4. CASE HandBack
    <2>1. EntryTypes' /\ HandBackRoom'
      BY <1>4 DEF HandBack, SdkRefuses, Refusal, IdleCon, ConPcs, NewRun,
            OffRun, RunPcs, EntryTypes, LinkState, HandBackRoom
    <2>2. FlagTypes'
      BY <1>4, EventTypes DEF HandBack, FlagTypes
    <2>3. HandlerTypes'
      <3>1. link = "SigningIn" => NewRun(gen + 1) \in RunRec
        BY NewRunType DEF EntryTypes, HandBackRoom
      <3> QED
        BY <1>4, <3>1, IdleTypes DEF HandBack, HandlerTypes
    <2> QED
      BY <2>1, <2>2, <2>3
  <1>5. CASE TakeOverInstall
    BY <1>5 DEF TakeOverInstall, PutLink, IdleCon, ConPcs, ConHolds,
          EntryTypes, FlagTypes, HandlerTypes, HandBackRoom, LinkState,
          ReportRec, RunRec, ConRec, ForceRec
  <1>6. CASE TakeOverClose
    <2>1. EntryTypes' /\ HandBackRoom'
      BY <1>6 DEF TakeOverClose, SdkEnds, Named, Unnamed, IdleCon, ConPcs,
            EntryTypes, LinkState, HandBackRoom
    <2>2. FlagTypes'
      BY <1>6, EventTypes DEF TakeOverClose, FlagTypes
    <2>3. HandlerTypes'
      BY <1>6 DEF TakeOverClose, SdkEnds, Named, Unnamed, IdleCon, ConPcs,
            HandlerTypes, EntryTypes, RunRec, ConRec, ForceRec
    <2> QED
      BY <2>1, <2>2, <2>3
  <1> QED
    BY <1>1, <1>2, <1>3, <1>4, <1>5, <1>6 DEF TakeOverNext

\* Disconnect, DisconnectOrphan, Deregister and ClaimSession.
LEMMA TypeEnd == TypeInv /\ EndNext => TypeInv'
  <1> SUFFICES ASSUME TypeInv, EndNext PROVE TypeInv'
    OBVIOUS
  <1> USE Bounds DEF TypeInv, TypeOK, entry, sdkVars, handlers
  <1>1. CASE DisconnectStart
    BY <1>1 DEF DisconnectStart, EntryTypes, FlagTypes, HandlerTypes,
          HandBackRoom, LinkState, ReportRec, RunRec, ConRec, ForceRec
  <1>2. CASE DisconnectRemove
    BY <1>2 DEF DisconnectRemove, RemoveEntry, EntryTypes, FlagTypes,
          HandlerTypes, HandBackRoom, LinkState, ReportRec, RunRec, ConRec,
          ForceRec
  <1>3. CASE DisconnectSdk
    <2>1. EntryTypes' /\ HandBackRoom'
      BY <1>3 DEF DisconnectSdk, SdkEnds, Named, Unnamed, EntryTypes,
            LinkState, HandBackRoom
    <2>2. FlagTypes'
      BY <1>3, EventTypes DEF DisconnectSdk, FlagTypes
    <2>3. HandlerTypes'
      BY <1>3 DEF DisconnectSdk, SdkEnds, Named, Unnamed, HandlerTypes,
            EntryTypes, RunRec, ConRec, ForceRec
    <2> QED
      BY <2>1, <2>2, <2>3
  <1>4. CASE DisconnectAbandon
    <2>1. EntryTypes' /\ HandBackRoom'
      BY <1>4 DEF DisconnectAbandon, SdkEnds, Named, Unnamed, EntryTypes,
            LinkState, HandBackRoom
    <2>2. FlagTypes'
      BY <1>4, EventTypes DEF DisconnectAbandon, FlagTypes
    <2>3. HandlerTypes'
      BY <1>4 DEF DisconnectAbandon, SdkEnds, Named, Unnamed, HandlerTypes,
            EntryTypes, RunRec, ConRec, ForceRec
    <2> QED
      BY <2>1, <2>2, <2>3
  <1>5. CASE DisconnectOrphan
    BY <1>5 DEF DisconnectOrphan, RemoveEntry, EntryTypes, FlagTypes,
          HandlerTypes, HandBackRoom, LinkState, ReportRec, RunRec, ConRec,
          ForceRec
  <1>6. CASE DisconnectOrphanSdk
    <2>1. EntryTypes' /\ HandBackRoom'
      BY <1>6 DEF DisconnectOrphanSdk, SdkEnds, Named, Unnamed, EntryTypes,
            LinkState, HandBackRoom
    <2>2. FlagTypes'
      BY <1>6, EventTypes DEF DisconnectOrphanSdk, FlagTypes
    <2>3. HandlerTypes'
      BY <1>6 DEF DisconnectOrphanSdk, SdkEnds, Named, Unnamed, HandlerTypes,
            EntryTypes, RunRec, ConRec, ForceRec
    <2> QED
      BY <2>1, <2>2, <2>3
  <1>7. CASE DeregisterStart
    BY <1>7 DEF DeregisterStart, SetLink, EntryTypes, FlagTypes, HandlerTypes,
          HandBackRoom, LinkState, ReportRec, RunRec, ConRec, ForceRec
  <1>8. CASE ServerDeletes
    <2>1. EntryTypes' /\ HandBackRoom'
      BY <1>8 DEF ServerDeletes, Named, EntryTypes, LinkState, HandBackRoom
    <2>2. FlagTypes'
      <3>1. Named(sdk) \in ReportRec
        BY DEF Named, ReportRec, EntryTypes
      <3> QED
        BY <1>8, <3>1 DEF ServerDeletes, FlagTypes
    <2>3. HandlerTypes'
      BY <1>8 DEF ServerDeletes, Named, HandlerTypes, EntryTypes, RunRec,
            ConRec, ForceRec
    <2> QED
      BY <2>1, <2>2, <2>3
  <1>9. CASE DeregisterDone
    BY <1>9 DEF DeregisterDone, RemoveEntry, EntryTypes, FlagTypes,
          HandlerTypes, HandBackRoom, LinkState, ReportRec, RunRec, ConRec,
          ForceRec
  <1>10. CASE DeregisterFailed
    BY <1>10 DEF DeregisterFailed, SetLink, EntryTypes, FlagTypes,
          HandlerTypes, HandBackRoom, LinkState, ReportRec, RunRec, ConRec,
          ForceRec
  <1>11. CASE ClaimAsk
    BY <1>11 DEF ClaimAsk, EntryTypes, FlagTypes, HandlerTypes, HandBackRoom,
          LinkState, ReportRec, RunRec, ConRec, ForceRec
  <1>12. CASE ClaimAnswered
    BY <1>12 DEF ClaimAnswered, EntryTypes, FlagTypes, HandlerTypes,
          HandBackRoom, LinkState, ReportRec, RunRec, ConRec, ForceRec
  <1>13. CASE ClaimRemove
    BY <1>13 DEF ClaimRemove, RemoveEntry, EntryTypes, FlagTypes,
          HandlerTypes, HandBackRoom, LinkState, ReportRec, RunRec, ConRec,
          ForceRec
  <1> QED
    BY <1>1, <1>2, <1>3, <1>4, <1>5, <1>6, <1>7, <1>8, <1>9, <1>10, <1>11,
          <1>12, <1>13 DEF EndNext

\* A probe, and a forced reconnect.
LEMMA TypeForce == TypeInv /\ ForceNext => TypeInv'
  <1> SUFFICES ASSUME TypeInv, ForceNext PROVE TypeInv'
    OBVIOUS
  <1> USE Bounds DEF TypeInv, TypeOK, entry, sdkVars, handlers
  <1>1. CASE Probe
    BY <1>1 DEF Probe, EntryTypes, FlagTypes, HandlerTypes, HandBackRoom,
          LinkState, ReportRec, RunRec, ConRec, ForceRec
  <1>2. CASE ForceStart
    BY <1>2 DEF ForceStart, EntryTypes, FlagTypes, HandlerTypes, HandBackRoom,
          LinkState, ReportRec, RunRec, ConRec, ForceRec
  <1>3. CASE ForceLock
    BY <1>3 DEF ForceLock, IdleForce, EntryTypes, FlagTypes, HandlerTypes,
          HandBackRoom, LinkState, ReportRec, RunRec, ConRec, ForceRec
  <1>4. CASE ForceAbandon
    <2>1. EntryTypes' /\ HandBackRoom'
      BY <1>4 DEF ForceAbandon, SdkEnds, Named, Unnamed, IdleForce,
            EntryTypes, LinkState, HandBackRoom
    <2>2. FlagTypes'
      BY <1>4, EventTypes DEF ForceAbandon, FlagTypes
    <2>3. HandlerTypes'
      <3>1. [force EXCEPT !.pc = "restart", !.gate = 0] \in ForceRec
        BY DEF HandlerTypes, ForceRec
      <3> QED
        BY <1>4, <3>1, IdleTypes DEF ForceAbandon, HandlerTypes
    <2> QED
      BY <2>1, <2>2, <2>3
  <1>5. CASE ForceRestart
    BY <1>5 DEF ForceRestart, IdleForce, Begin, EntryTypes, FlagTypes,
          HandlerTypes, HandBackRoom, LinkState, ReportRec, RunRec, ConRec,
          ForceRec
  <1> QED
    BY <1>1, <1>2, <1>3, <1>4, <1>5 DEF ForceNext
\* Every step preserves the types.
LEMMA TypeStep == TypeInv /\ [Next]_vars => TypeInv'
  <1> SUFFICES ASSUME TypeInv, [Next]_vars PROVE TypeInv'
    OBVIOUS
  <1>1. CASE UNCHANGED vars
    <2> USE <1>1 DEF TypeInv, TypeOK, vars, entry, sdkVars, handlers
    <2>1. EntryTypes' /\ HandBackRoom'
      BY DEF EntryTypes, HandBackRoom
    <2>2. FlagTypes'
      BY DEF FlagTypes
    <2>3. HandlerTypes'
      BY DEF HandlerTypes
    <2> QED
      BY <2>1, <2>2, <2>3
  <1>2. CASE Next
    BY <1>2, TypeReport, TypeRun, TypeConnect, TypeTakeOver, TypeEnd, TypeForce DEF Next
  <1> QED
    BY <1>1, <1>2

\* Every reachable state of the session, the SDK and the handlers has its type.
THEOREM TypeCorrect == Spec => []TypeOK
  <1>1. TypeInv => TypeOK
    BY DEF TypeInv
  <1> QED
    BY <1>1, TypeInit, TypeStep, PTL DEF Spec

\* The inductive type invariant itself, which the other theorems rest on.
LEMMA TypeInvAlways == Spec => []TypeInv
  BY TypeInit, TypeStep, PTL DEF Spec

-----------------------------------------------------------------------------
(* An account is never reported both signed in and signed out.             *)

\* Only a removal or an insert touches a state in which the record is set.
LEMMA SignedOutStep == SignedOutExclusive /\ [Next]_vars => SignedOutExclusive'
  <1> SUFFICES ASSUME SignedOutExclusive, [Next]_vars PROVE SignedOutExclusive'
    OBVIOUS
  <1> USE DEF SignedOutExclusive, entry, sdkVars, handlers
  <1>1. CASE UNCHANGED vars
    BY <1>1 DEF vars
  <1>2. CASE ReportNext
    <2>1. CASE SdkDrop \/ RemoveEnding \/ Spawn
      BY <2>1 DEF SdkDrop, RemoveEnding, RemoveEntry, Spawn
    <2>2. ASSUME NEW q \in reports, HandleReport(q) PROVE SignedOutExclusive'
      BY <2>2 DEF HandleReport, Begin
    <2>3. ASSUME NEW q \in reports, HandleRefusal(q) PROVE SignedOutExclusive'
      BY <2>3 DEF HandleRefusal
    <2> QED
      BY <1>2, <2>1, <2>2, <2>3 DEF ReportNext
  <1>3. ASSUME NEW r \in Runs, RunNext(r) PROVE SignedOutExclusive'
    <2>1. CASE RunWake(r) \/ RunCheck(r) \/ RunDialed(r) \/ RunDialFailed(r) \/ RunClose(r)
      BY <2>1 DEF RunWake, RunCheck, RunDialed, RunDialFailed, RunClose
    <2>2. CASE RunInstall(r)
      BY <2>2 DEF RunInstall, PutLink, AttemptInstalls
    <2>3. CASE RunFail(r)
      BY <2>3 DEF RunFail, RemoveEntry
    <2> QED
      BY <1>3, <2>1, <2>2, <2>3 DEF RunNext
  <1>4. CASE ConnectNext
    <2>1. CASE ConnectStart \/ ConnectAsk \/ ConnectDialed \/ ConnectDialFailed \/ ConnectUnreadable
      BY <2>1 DEF ConnectStart, ConnectAsk, ConnectDialed, ConnectDialFailed, ConnectUnreadable
    <2>2. CASE ConnectReplaceStale
      BY <2>2 DEF ConnectReplaceStale, RemoveEntry
    <2>3. CASE ConnectInsert
      BY <2>3 DEF ConnectInsert, InsertEntry
    <2> QED
      BY <1>4, <2>1, <2>2, <2>3 DEF ConnectNext
  <1>5. CASE TakeOverNext
    <2>1. CASE TakeOverLock \/ TakeOverDialed \/ TakeOverClose
      BY <2>1 DEF TakeOverLock, TakeOverDialed, TakeOverClose
    <2>2. CASE TakeOverMark
      BY <2>2 DEF TakeOverMark, SetLink
    <2>3. CASE HandBack
      BY <2>3 DEF HandBack
    <2>4. CASE TakeOverInstall
      BY <2>4 DEF TakeOverInstall, PutLink
    <2> QED
      BY <1>5, <2>1, <2>2, <2>3, <2>4 DEF TakeOverNext
  <1>6. CASE EndNext
    <2>1. CASE DisconnectStart \/ DisconnectSdk \/ DisconnectAbandon \/ DisconnectOrphanSdk
      BY <2>1 DEF DisconnectStart, DisconnectSdk, DisconnectAbandon, DisconnectOrphanSdk
    <2>2. CASE DisconnectRemove \/ DisconnectOrphan \/ DeregisterDone \/ ClaimRemove
      BY <2>2 DEF DisconnectRemove, DisconnectOrphan, DeregisterDone, ClaimRemove, RemoveEntry
    <2>3. CASE DeregisterStart \/ DeregisterFailed
      BY <2>3 DEF DeregisterStart, DeregisterFailed, SetLink
    <2>4. CASE ServerDeletes \/ ClaimAsk \/ ClaimAnswered
      BY <2>4 DEF ServerDeletes, ClaimAsk, ClaimAnswered
    <2> QED
      BY <1>6, <2>1, <2>2, <2>3, <2>4 DEF EndNext
  <1>7. CASE ForceNext
    <2>1. CASE Probe \/ ForceStart \/ ForceLock \/ ForceAbandon
      BY <2>1 DEF Probe, ForceStart, ForceLock, ForceAbandon
    <2>2. CASE ForceRestart
      BY <2>2 DEF ForceRestart, Begin
    <2> QED
      BY <1>7, <2>1, <2>2 DEF ForceNext
  <1> QED
    BY <1>1, <1>2, <1>3, <1>4, <1>5, <1>6, <1>7 DEF Next

\* `fail` records a signed-out account and a sign-in clears the record, each
\* under the map lock with the entry: no reader ever sees both.
THEOREM SignedOutIsExclusive == Spec => []SignedOutExclusive
  <1>1. Init => SignedOutExclusive
    BY DEF Init, SignedOutExclusive
  <1> QED
    BY <1>1, SignedOutStep, PTL DEF Spec

-----------------------------------------------------------------------------
(* An Ending mark never outlives the Deregister that set it.               *)

\* The steps of an end request, the only ones that set or clear the mark.
LEMMA EndingEnd == TypeInv /\ EndingOwned /\ EndNext => EndingOwned'
  <1> SUFFICES ASSUME TypeInv, EndingOwned, EndNext PROVE EndingOwned'
    OBVIOUS
  <1> USE DEF EndingOwned, entry, sdkVars
  <1>0. dereg \in [pc : {"idle", "asked", "deleted"}, ending : BOOLEAN]
    BY DEF TypeInv, TypeOK, FlagTypes
  <1>1. CASE DisconnectStart \/ DisconnectSdk \/ DisconnectAbandon \/ DisconnectOrphanSdk
    BY <1>1 DEF DisconnectStart, DisconnectSdk, DisconnectAbandon, DisconnectOrphanSdk
  <1>2. CASE DisconnectRemove \/ DisconnectOrphan \/ DeregisterDone \/ ClaimRemove
    BY <1>2 DEF DisconnectRemove, DisconnectOrphan, DeregisterDone, ClaimRemove, RemoveEntry
  <1>3. CASE DeregisterStart
    <2>1. CASE link = "Up"
      BY <1>3, <2>1 DEF DeregisterStart, SetLink
    <2>2. CASE link # "Up"
      BY <1>3, <2>2 DEF DeregisterStart
    <2> QED
      BY <2>1, <2>2
  <1>4. CASE ServerDeletes
    BY <1>0, <1>4 DEF ServerDeletes
  <1>5. CASE DeregisterFailed
    BY <1>5 DEF DeregisterFailed, SetLink
  <1>6. CASE ClaimAsk \/ ClaimAnswered
    BY <1>6 DEF ClaimAsk, ClaimAnswered
  <1> QED
    BY <1>1, <1>2, <1>3, <1>4, <1>5, <1>6 DEF EndNext

\* Every other step leaves the Deregister alone and marks nothing Ending.
LEMMA EndingStep == TypeInv /\ EndingOwned /\ [Next]_vars => EndingOwned'
  <1> SUFFICES ASSUME TypeInv, EndingOwned, [Next]_vars PROVE EndingOwned'
    OBVIOUS
  <1> USE DEF EndingOwned, entry, sdkVars, handlers
  <1>1. CASE UNCHANGED vars
    BY <1>1 DEF vars
  <1>2. CASE ReportNext
    <2>1. CASE SdkDrop \/ RemoveEnding \/ Spawn
      BY <2>1 DEF SdkDrop, RemoveEnding, RemoveEntry, Spawn
    <2>2. ASSUME NEW q \in reports, HandleReport(q) PROVE EndingOwned'
      BY <2>2 DEF HandleReport, Begin
    <2>3. ASSUME NEW q \in reports, HandleRefusal(q) PROVE EndingOwned'
      BY <2>3 DEF HandleRefusal
    <2> QED
      BY <1>2, <2>1, <2>2, <2>3 DEF ReportNext
  <1>3. ASSUME NEW r \in Runs, RunNext(r) PROVE EndingOwned'
    <2>1. CASE RunWake(r) \/ RunCheck(r) \/ RunDialed(r) \/ RunDialFailed(r) \/ RunClose(r)
      BY <2>1 DEF RunWake, RunCheck, RunDialed, RunDialFailed, RunClose
    <2>2. CASE RunInstall(r) \/ RunFail(r)
      BY <2>2 DEF RunInstall, PutLink, RunFail, RemoveEntry
    <2> QED
      BY <1>3, <2>1, <2>2 DEF RunNext
  <1>4. CASE ConnectNext
    BY <1>4 DEF ConnectNext, ConnectStart, ConnectAsk, ConnectReplaceStale, ConnectDialed,
                ConnectDialFailed, ConnectInsert, ConnectUnreadable, RemoveEntry, InsertEntry
  <1>5. CASE TakeOverNext
    BY <1>5 DEF TakeOverNext, TakeOverMark, TakeOverLock, TakeOverDialed, HandBack,
                TakeOverInstall, TakeOverClose, SetLink, PutLink
  <1>6. CASE EndNext
    BY <1>6, EndingEnd
  <1>7. CASE ForceNext
    BY <1>7 DEF ForceNext, Probe, ForceStart, ForceLock, ForceAbandon, ForceRestart, Begin
  <1> QED
    BY <1>1, <1>2, <1>3, <1>4, <1>5, <1>6, <1>7 DEF Next

\* Deregister's mark is always taken back or goes with the entry.
THEOREM EndingIsOwned == Spec => []EndingOwned
  <1>1. Init => EndingOwned
    BY DEF Init, EndingOwned
  <1> QED
    BY <1>1, TypeInvAlways, EndingStep, PTL DEF Spec

-----------------------------------------------------------------------------
(* A session being signed in to has the sign-in that settles it.           *)

\* The takeover's own steps.
LEMMA SigningInTakeOver == TypeInv /\ SigningInOwned /\ TakeOverNext => SigningInOwned'
  <1> SUFFICES ASSUME TypeInv, SigningInOwned, TakeOverNext PROVE SigningInOwned'
    OBVIOUS
  <1> USE DEF SigningInOwned, entry
  <1>0. con \in ConRec
    BY DEF TypeInv, TypeOK, HandlerTypes
  <1> USE <1>0 DEF ConRec
  <1>1. CASE TakeOverMark
    BY <1>1 DEF TakeOverMark, SetLink
  <1>2. CASE TakeOverLock
    BY <1>2 DEF TakeOverLock
  <1>3. CASE TakeOverDialed
    BY <1>3 DEF TakeOverDialed
  <1>4. CASE HandBack
    BY <1>4 DEF HandBack
  <1>5. CASE TakeOverInstall
    BY <1>5 DEF TakeOverInstall, PutLink
  <1>6. CASE TakeOverClose
    BY <1>6 DEF TakeOverClose
  <1> QED
    BY <1>1, <1>2, <1>3, <1>4, <1>5, <1>6 DEF TakeOverNext

\* Nobody else marks a session SigningIn, or moves the handler that did.
LEMMA SigningInStep == TypeInv /\ SigningInOwned /\ [Next]_vars => SigningInOwned'
  <1> SUFFICES ASSUME TypeInv, SigningInOwned, [Next]_vars PROVE SigningInOwned'
    OBVIOUS
  <1> USE DEF SigningInOwned, entry, sdkVars, handlers
  <1>1. CASE UNCHANGED vars
    BY <1>1 DEF vars
  <1>2. CASE ReportNext
    <2>1. CASE SdkDrop \/ RemoveEnding \/ Spawn
      BY <2>1 DEF SdkDrop, RemoveEnding, RemoveEntry, Spawn
    <2>2. ASSUME NEW q \in reports, HandleReport(q) PROVE SigningInOwned'
      BY <2>2 DEF HandleReport, Begin
    <2>3. ASSUME NEW q \in reports, HandleRefusal(q) PROVE SigningInOwned'
      BY <2>3 DEF HandleRefusal
    <2> QED
      BY <1>2, <2>1, <2>2, <2>3 DEF ReportNext
  <1>3. ASSUME NEW r \in Runs, RunNext(r) PROVE SigningInOwned'
    <2>1. CASE RunWake(r) \/ RunCheck(r) \/ RunDialed(r) \/ RunDialFailed(r) \/ RunClose(r)
      BY <2>1 DEF RunWake, RunCheck, RunDialed, RunDialFailed, RunClose
    <2>2. CASE RunInstall(r)
      BY <2>2 DEF RunInstall, PutLink
    <2>3. CASE RunFail(r)
      BY <2>3 DEF RunFail, RemoveEntry
    <2> QED
      BY <1>3, <2>1, <2>2, <2>3 DEF RunNext
  <1>4. CASE ConnectNext
    <2>1. CASE ConnectStart \/ ConnectAsk \/ ConnectDialed \/ ConnectDialFailed \/ ConnectUnreadable
      BY <2>1 DEF ConnectStart, ConnectAsk, ConnectDialed, ConnectDialFailed, ConnectUnreadable
    <2>2. CASE ConnectReplaceStale \/ ConnectInsert
      BY <2>2 DEF ConnectReplaceStale, ConnectInsert, RemoveEntry, InsertEntry
    <2> QED
      BY <1>4, <2>1, <2>2 DEF ConnectNext
  <1>5. CASE TakeOverNext
    BY <1>5, SigningInTakeOver
  <1>6. CASE EndNext
    BY <1>6 DEF EndNext, DisconnectStart, DisconnectRemove, DisconnectSdk, DisconnectAbandon,
                DisconnectOrphan, DisconnectOrphanSdk, DeregisterStart, ServerDeletes,
                DeregisterDone, DeregisterFailed, ClaimAsk, ClaimAnswered, ClaimRemove,
                RemoveEntry, SetLink
  <1>7. CASE ForceNext
    BY <1>7 DEF ForceNext, Probe, ForceStart, ForceLock, ForceAbandon, ForceRestart, Begin
  <1> QED
    BY <1>1, <1>2, <1>3, <1>4, <1>5, <1>6, <1>7 DEF Next

\* A takeover never returns leaving its mark on the session it marked.
THEOREM SigningInIsOwned == Spec => []SigningInOwned
  <1>1. Init => SigningInOwned
    BY DEF Init, SigningInOwned
  <1> QED
    BY <1>1, TypeInvAlways, SigningInStep, PTL DEF Spec

-----------------------------------------------------------------------------
(* A Reconnecting session has a run of its generation, or one to come.     *)

\* The steps of a run: it leaves the session only when it is not its run, or
\* no longer Reconnecting.
LEMMA DrivenRun ==
  \A r \in Runs : TypeInv /\ ReconnectingDriven /\ RunNext(r) => ReconnectingDriven'
  <1> SUFFICES ASSUME NEW r \in Runs, TypeInv, ReconnectingDriven, RunNext(r)
               PROVE  ReconnectingDriven'
    OBVIOUS
  <1>0. run \in [Runs -> RunRec]
    BY DEF TypeInv, TypeOK, HandlerTypes
  <1> USE <1>0 DEF ReconnectingDriven, Drives, entry, RunRec
  <1>1. CASE RunWake(r)
    BY <1>1 DEF RunWake, StopRun
  <1>2. CASE RunCheck(r)
    BY <1>2 DEF RunCheck, AttemptWanted, StopRun
  <1>3. CASE RunDialed(r)
    BY <1>3 DEF RunDialed
  <1>4. CASE RunDialFailed(r)
    BY <1>4 DEF RunDialFailed
  <1>5. CASE RunInstall(r)
    BY <1>5 DEF RunInstall, AttemptInstalls, PutLink, StopRun
  <1>6. CASE RunClose(r)
    BY <1>6 DEF RunClose, StopRun
  <1>7. CASE RunFail(r)
    BY <1>7 DEF RunFail, AttemptWanted, RemoveEntry, StopRun
  <1> QED
    BY <1>1, <1>2, <1>3, <1>4, <1>5, <1>6, <1>7 DEF RunNext

\* A drop report starts a generation with its run still to be spawned; the
\* spawn reads the generation the session has by then.
LEMMA DrivenReport == TypeInv /\ ReconnectingDriven /\ ReportNext => ReconnectingDriven'
  <1> SUFFICES ASSUME TypeInv, ReconnectingDriven, ReportNext PROVE ReconnectingDriven'
    OBVIOUS
  <1>0. run \in [Runs -> RunRec] /\ spawning \in Nat
    BY Bounds DEF TypeInv, TypeOK, HandlerTypes, EntryTypes
  <1> USE <1>0 DEF ReconnectingDriven, Drives, entry, handlers
  <1>1. CASE SdkDrop
    BY <1>1 DEF SdkDrop
  <1>2. CASE RemoveEnding
    BY <1>2 DEF RemoveEnding, RemoveEntry
  <1>3. CASE Spawn
    <2>1. CASE link = "None"
      BY <1>3, <2>1 DEF Spawn
    <2>2. CASE link # "None"
      <3>1. PICK r \in Runs : run' = [run EXCEPT ![r] = NewRun(gen)]
        BY <1>3, <2>2 DEF Spawn
      <3>2. Drives(r)'
        BY <1>3, <3>1 DEF Spawn, NewRun
      <3> QED
        BY <3>2
    <2> QED
      BY <2>1, <2>2
  <1>4. ASSUME NEW q \in reports, HandleReport(q) PROVE ReconnectingDriven'
    BY <1>4 DEF HandleReport, Begin
  <1>5. ASSUME NEW q \in reports, HandleRefusal(q) PROVE ReconnectingDriven'
    BY <1>5 DEF HandleRefusal
  <1> QED
    BY <1>1, <1>2, <1>3, <1>4, <1>5 DEF ReportNext

\* A takeover that fails hands the session back to a new run.
LEMMA DrivenTakeOver == TypeInv /\ ReconnectingDriven /\ TakeOverNext => ReconnectingDriven'
  <1> SUFFICES ASSUME TypeInv, ReconnectingDriven, TakeOverNext PROVE ReconnectingDriven'
    OBVIOUS
  <1>0. run \in [Runs -> RunRec]
    BY DEF TypeInv, TypeOK, HandlerTypes
  <1> USE <1>0 DEF ReconnectingDriven, Drives, entry
  <1>1. CASE TakeOverMark
    BY <1>1 DEF TakeOverMark, SetLink
  <1>2. CASE TakeOverLock \/ TakeOverDialed \/ TakeOverClose
    BY <1>2 DEF TakeOverLock, TakeOverDialed, TakeOverClose
  <1>3. CASE HandBack
    <2>1. CASE link = "SigningIn"
      <3>1. PICK r \in Runs : run' = [run EXCEPT ![r] = NewRun(gen + 1)]
        BY <1>3, <2>1 DEF HandBack
      <3>2. Drives(r)'
        BY <1>3, <2>1, <3>1 DEF HandBack, NewRun
      <3> QED
        BY <3>2
    <2>2. CASE link # "SigningIn"
      BY <1>3, <2>2 DEF HandBack
    <2> QED
      BY <2>1, <2>2
  <1>4. CASE TakeOverInstall
    BY <1>4 DEF TakeOverInstall, PutLink
  <1> QED
    BY <1>1, <1>2, <1>3, <1>4 DEF TakeOverNext

\* Every step keeps a Reconnecting session driven.
LEMMA DrivenStep == TypeInv /\ ReconnectingDriven /\ [Next]_vars => ReconnectingDriven'
  <1> SUFFICES ASSUME TypeInv, ReconnectingDriven, [Next]_vars PROVE ReconnectingDriven'
    OBVIOUS
  <1> USE DEF ReconnectingDriven, Drives, entry, sdkVars, handlers
  <1>1. CASE UNCHANGED vars
    BY <1>1 DEF vars
  <1>2. CASE ReportNext
    BY <1>2, DrivenReport
  <1>3. ASSUME NEW r \in Runs, RunNext(r) PROVE ReconnectingDriven'
    BY <1>3, DrivenRun
  <1>4. CASE ConnectNext
    <2>1. CASE ConnectStart \/ ConnectAsk \/ ConnectDialed \/ ConnectDialFailed \/ ConnectUnreadable
      BY <2>1 DEF ConnectStart, ConnectAsk, ConnectDialed, ConnectDialFailed, ConnectUnreadable
    <2>2. CASE ConnectReplaceStale \/ ConnectInsert
      BY <2>2 DEF ConnectReplaceStale, ConnectInsert, RemoveEntry, InsertEntry
    <2> QED
      BY <1>4, <2>1, <2>2 DEF ConnectNext
  <1>5. CASE TakeOverNext
    BY <1>5, DrivenTakeOver
  <1>6. CASE EndNext
    <2>1. CASE DisconnectStart \/ DisconnectSdk \/ DisconnectAbandon \/ DisconnectOrphanSdk
      BY <2>1 DEF DisconnectStart, DisconnectSdk, DisconnectAbandon, DisconnectOrphanSdk
    <2>2. CASE DisconnectRemove \/ DisconnectOrphan \/ DeregisterDone \/ ClaimRemove
      BY <2>2 DEF DisconnectRemove, DisconnectOrphan, DeregisterDone, ClaimRemove, RemoveEntry
    <2>3. CASE DeregisterStart \/ DeregisterFailed
      BY <2>3 DEF DeregisterStart, DeregisterFailed, SetLink
    <2>4. CASE ServerDeletes \/ ClaimAsk \/ ClaimAnswered
      BY <2>4 DEF ServerDeletes, ClaimAsk, ClaimAnswered
    <2> QED
      BY <1>6, <2>1, <2>2, <2>3, <2>4 DEF EndNext
  <1>7. CASE ForceNext
    <2>1. CASE Probe \/ ForceStart \/ ForceLock \/ ForceAbandon
      BY <2>1 DEF Probe, ForceStart, ForceLock, ForceAbandon
    <2>2. CASE ForceRestart
      <3>1. spawning \in Nat
        BY Bounds DEF TypeInv, TypeOK, EntryTypes
      <3> QED
        BY <2>2, <3>1 DEF ForceRestart, Begin
    <2> QED
      BY <1>7, <2>1, <2>2 DEF ForceNext
  <1> QED
    BY <1>1, <1>2, <1>3, <1>4, <1>5, <1>6, <1>7 DEF Next

\* Whatever interleaves with it, a reconnect is never silently lost: while the
\* session is Reconnecting, a run of its generation lives or is being spawned.
THEOREM ReconnectingIsDriven == Spec => []ReconnectingDriven
  <1>1. Init => ReconnectingDriven
    BY DEF Init, ReconnectingDriven
  <1> QED
    BY <1>1, TypeInvAlways, DrivenStep, PTL DEF Spec

-----------------------------------------------------------------------------
(* One SDK connect at a time: the attempt lock.                            *)

\* OneAttempt by pairs of holders.
RunsApart ==
    \A r, o \in Runs : r # o /\ run[r].gate = run[o].gate
        => ~(run[r].pc \in RunHolds /\ run[o].pc \in RunHolds)
RunConApart ==
    \A r \in Runs : run[r].gate = con.gate => ~(run[r].pc \in RunHolds /\ con.pc \in ConHolds)
RunForceApart ==
    \A r \in Runs : run[r].gate = force.gate => ~(run[r].pc \in RunHolds /\ force.pc = "abandon")
ConForceApart == con.gate = force.gate => ~(con.pc \in ConHolds /\ force.pc = "abandon")
Apart == RunsApart /\ RunConApart /\ RunForceApart /\ ConForceApart

\* The pairs say what OneAttempt says.
LEMMA ApartIsOneAttempt == Apart <=> OneAttempt
  BY DEF Apart, RunsApart, RunConApart, RunForceApart, ConForceApart, OneAttempt

\* A run takes the lock only when it is free, and keeps the lock it took.
LEMMA ApartRun == \A r \in Runs : TypeInv /\ Apart /\ RunNext(r) => Apart'
  <1> SUFFICES ASSUME NEW r \in Runs, TypeInv, Apart, RunNext(r) PROVE Apart'
    OBVIOUS
  <1>0. run \in [Runs -> RunRec]
    BY DEF TypeInv, TypeOK, HandlerTypes
  <1> USE <1>0 DEF Apart, RunsApart, RunConApart, RunForceApart, ConForceApart, RunHolds,
                   RunRec, handlers
  <1>1. CASE RunWake(r)
    BY <1>1 DEF RunWake, StopRun, OffRun
  <1>2. CASE RunCheck(r)
    BY <1>2 DEF RunCheck, GateFree, StopRun, OffRun
  <1>3. CASE RunDialed(r)
    BY <1>3 DEF RunDialed
  <1>4. CASE RunDialFailed(r)
    BY <1>4 DEF RunDialFailed
  <1>5. CASE RunInstall(r)
    BY <1>5 DEF RunInstall, StopRun, OffRun
  <1>6. CASE RunClose(r) \/ RunFail(r)
    BY <1>6 DEF RunClose, RunFail, StopRun, OffRun
  <1> QED
    BY <1>1, <1>2, <1>3, <1>4, <1>5, <1>6 DEF RunNext

\* A sign-in or a hand-back never holds the lock beside a run.
LEMMA ApartConnect == TypeInv /\ Apart /\ (ConnectNext \/ TakeOverNext) => Apart'
  <1> SUFFICES ASSUME TypeInv, Apart, ConnectNext \/ TakeOverNext PROVE Apart'
    OBVIOUS
  <1>0. run \in [Runs -> RunRec] /\ con \in ConRec
    BY DEF TypeInv, TypeOK, HandlerTypes
  <1>a. con'.pc \notin ConHolds /\ UNCHANGED <<run, force>> => Apart'
    BY DEF Apart, RunsApart, RunConApart, RunForceApart, ConForceApart
  <1> USE <1>0 DEF ConHolds, ConRec, IdleCon
  <1>1. CASE ConnectStart
    BY <1>1, <1>a DEF ConnectStart
  <1>2. CASE ConnectAsk \/ ConnectReplaceStale \/ ConnectDialed
    <2>1. con'.pc \in {"idle", "stale", "dial", "opened"}
      <3>1. CASE ConnectAsk
        BY <3>1 DEF ConnectAsk
      <3>2. CASE ConnectReplaceStale
        BY <3>2 DEF ConnectReplaceStale
      <3>3. CASE ConnectDialed
        BY <3>3 DEF ConnectDialed
      <3> QED
        BY <1>2, <3>1, <3>2, <3>3
    <2> QED
      BY <1>2, <1>a, <2>1 DEF ConnectAsk, ConnectReplaceStale, ConnectDialed
  <1>3. CASE ConnectDialFailed \/ ConnectInsert \/ ConnectUnreadable
    BY <1>3, <1>a DEF ConnectDialFailed, ConnectInsert, ConnectUnreadable
  <1>4. CASE TakeOverMark
    <2>1. con'.pc \in {"idle", "tkGate"}
      <3>1. CASE con' = IdleCon
        BY <3>1
      <3>2. CASE con' = [con EXCEPT !.pc = "tkGate", !.gate = life]
        BY <3>2
      <3> QED
        BY <1>4, <3>1, <3>2 DEF TakeOverMark
    <2> QED
      BY <1>4, <1>a, <2>1 DEF TakeOverMark
  <1>5. CASE TakeOverLock
    BY <1>5, <1>a DEF TakeOverLock, GateFree, Apart, RunsApart, RunConApart, RunForceApart,
                      ConForceApart
  <1>6. CASE TakeOverDialed
    BY <1>6 DEF TakeOverDialed, Apart, RunsApart, RunConApart, RunForceApart, ConForceApart
  <1>7. CASE HandBack
    BY <1>7 DEF HandBack, NewRun, Apart, RunsApart, RunConApart, RunForceApart, ConForceApart,
                RunHolds, RunRec
  <1>8. CASE TakeOverInstall
    BY <1>8 DEF TakeOverInstall, Apart, RunsApart, RunConApart, RunForceApart, ConForceApart
  <1>9. CASE TakeOverClose
    BY <1>9, <1>a DEF TakeOverClose
  <1> QED
    BY <1>1, <1>2, <1>3, <1>4, <1>5, <1>6, <1>7, <1>8, <1>9 DEF ConnectNext, TakeOverNext

\* A force takes the lock only when it is free.
LEMMA ApartForce == TypeInv /\ Apart /\ ForceNext => Apart'
  <1> SUFFICES ASSUME TypeInv, Apart, ForceNext PROVE Apart'
    OBVIOUS
  <1>0. force \in ForceRec
    BY DEF TypeInv, TypeOK, HandlerTypes
  <1> USE <1>0 DEF Apart, RunsApart, RunConApart, RunForceApart, ConForceApart, ForceRec,
                   IdleForce, handlers
  <1>1. CASE Probe \/ ForceStart
    BY <1>1 DEF Probe, ForceStart
  <1>2. CASE ForceLock
    BY <1>2 DEF ForceLock, GateFree
  <1>3. CASE ForceAbandon
    <2>1. force'.pc # "abandon"
      <3>1. CASE force' = IdleForce
        BY <3>1
      <3>2. CASE force' = [force EXCEPT !.pc = "restart", !.gate = 0]
        BY <3>2
      <3> QED
        BY <1>3, <3>1, <3>2 DEF ForceAbandon
    <2>2. UNCHANGED <<run, con>>
      BY <1>3 DEF ForceAbandon
    <2> QED
      BY <2>1, <2>2
  <1>4. CASE ForceRestart
    BY <1>4 DEF ForceRestart
  <1> QED
    BY <1>1, <1>2, <1>3, <1>4 DEF ForceNext

\* Every step keeps the holders of an attempt lock apart.
LEMMA ApartStep == TypeInv /\ Apart /\ [Next]_vars => Apart'
  <1> SUFFICES ASSUME TypeInv, Apart, [Next]_vars PROVE Apart'
    OBVIOUS
  <1> DEFINE Still == UNCHANGED <<run, con, force>>
  <1>0. Still => Apart'
    BY DEF Apart, RunsApart, RunConApart, RunForceApart, ConForceApart
  <1>1. CASE UNCHANGED vars
    BY <1>0, <1>1 DEF vars, handlers
  <1>2. CASE ReportNext
    <2>1. CASE SdkDrop \/ RemoveEnding
      BY <1>0, <2>1 DEF SdkDrop, RemoveEnding, handlers
    <2>2. CASE Spawn
      <3>1. run \in [Runs -> RunRec]
        BY DEF TypeInv, TypeOK, HandlerTypes
      <3> QED
        BY <2>2, <3>1 DEF Spawn, NewRun, RunHolds, Apart, RunsApart, RunConApart,
                          RunForceApart, ConForceApart, handlers
    <2>3. ASSUME NEW q \in reports, HandleReport(q) \/ HandleRefusal(q) PROVE Apart'
      BY <1>0, <2>3 DEF HandleReport, HandleRefusal, handlers
    <2> QED
      BY <1>2, <2>1, <2>2, <2>3 DEF ReportNext
  <1>3. ASSUME NEW r \in Runs, RunNext(r) PROVE Apart'
    BY <1>3, ApartRun
  <1>4. CASE ConnectNext \/ TakeOverNext
    BY <1>4, ApartConnect
  <1>5. CASE EndNext
    BY <1>0, <1>5 DEF EndNext, DisconnectStart, DisconnectRemove, DisconnectSdk,
        DisconnectAbandon, DisconnectOrphan, DisconnectOrphanSdk, DeregisterStart,
        ServerDeletes, DeregisterDone, DeregisterFailed, ClaimAsk, ClaimAnswered, ClaimRemove
  <1>6. CASE ForceNext
    BY <1>6, ApartForce
  <1> QED
    BY <1>1, <1>2, <1>3, <1>4, <1>5, <1>6 DEF Next

\* A reconnect attempt, a sign-in's connect and a force's abandon of one entry
\* never overlap: each holds that entry's attempt lock throughout.
THEOREM OneAttemptAtATime == Spec => []OneAttempt
  <1>1. Init => Apart
    BY DEF Init, Apart, RunsApart, RunConApart, RunForceApart, ConForceApart, OffRun, RunHolds,
           IdleCon, IdleForce, ConHolds
  <1> QED
    BY <1>1, TypeInvAlways, ApartStep, ApartIsOneAttempt, PTL DEF Spec

-----------------------------------------------------------------------------
(* A live link is not taken for a dropped one.                             *)

\* A report that names a session is of one the SDK no longer holds.
ReportsArePast ==
    /\ sdk <= insts
    /\ \A q \in reports : q.inst <= insts /\ (q.inst # 0 => q.inst # sdk)

\* An SDK operation keeps reports in the past.
LEMMA PastSdk ==
  ASSUME TypeInv, ReportsArePast, SdkOpens \/ SdkRefuses \/ SdkEnds
  PROVE  ReportsArePast'
  <1>0. /\ insts \in Nat /\ sdk \in Nat
        /\ \A q \in reports : q.inst \in Nat
    BY Bounds DEF TypeInv, TypeOK, EntryTypes, FlagTypes, ReportRec
  <1> USE <1>0 DEF ReportsArePast
  <1>1. CASE SdkOpens
    BY <1>1 DEF SdkOpens
  <1>2. CASE SdkRefuses
    BY <1>2 DEF SdkRefuses, Refusal
  <1>3. CASE SdkEnds
    BY <1>3 DEF SdkEnds, Named, Unnamed
  <1> QED
    BY <1>1, <1>2, <1>3

\* Every step keeps reports in the past.
LEMMA PastStep == TypeInv /\ ReportsArePast /\ [Next]_vars => ReportsArePast'
  <1> SUFFICES ASSUME TypeInv, ReportsArePast, [Next]_vars PROVE ReportsArePast'
    OBVIOUS
  <1>0. /\ insts \in Nat /\ sdk \in Nat
        /\ \A q \in reports : q.inst \in Nat
    BY Bounds DEF TypeInv, TypeOK, EntryTypes, FlagTypes, ReportRec
  <1>a. UNCHANGED sdkVars => ReportsArePast'
    BY DEF ReportsArePast, sdkVars
  <1>1. CASE UNCHANGED vars
    BY <1>1, <1>a DEF vars
  <1>2. CASE ReportNext
    <2>1. CASE SdkDrop
      BY <1>0, <2>1 DEF SdkDrop, ReportsArePast
    <2>2. CASE RemoveEnding \/ Spawn
      BY <1>a, <2>2 DEF RemoveEnding, Spawn
    <2>3. ASSUME NEW q \in reports, HandleReport(q) PROVE ReportsArePast'
      BY <1>0, <2>3 DEF HandleReport, ReportsArePast
    <2>4. ASSUME NEW q \in reports, HandleRefusal(q) PROVE ReportsArePast'
      BY <1>0, <2>4 DEF HandleRefusal, ReportsArePast, Named
    <2> QED
      BY <1>2, <2>1, <2>2, <2>3, <2>4 DEF ReportNext
  <1>3. ASSUME NEW r \in Runs, RunNext(r) PROVE ReportsArePast'
    BY <1>3, <1>a, PastSdk DEF RunNext, RunWake, RunCheck, RunDialed, RunDialFailed, RunInstall,
                               RunClose, RunFail
  <1>4. CASE ConnectNext
    BY <1>4, <1>a, PastSdk DEF ConnectNext, ConnectStart, ConnectAsk, ConnectReplaceStale,
                               ConnectDialed, ConnectDialFailed, ConnectInsert, ConnectUnreadable
  <1>5. CASE TakeOverNext
    BY <1>5, <1>a, PastSdk DEF TakeOverNext, TakeOverMark, TakeOverLock, TakeOverDialed,
                               HandBack, TakeOverInstall, TakeOverClose
  <1>6. CASE EndNext
    <2>1. CASE ServerDeletes
      BY <1>0, <2>1 DEF ServerDeletes, ReportsArePast, Named
    <2>2. CASE DisconnectSdk \/ DisconnectAbandon \/ DisconnectOrphanSdk
      BY <1>a, <2>2, PastSdk DEF DisconnectSdk, DisconnectAbandon, DisconnectOrphanSdk
    <2>3. CASE DisconnectStart \/ DisconnectRemove \/ DisconnectOrphan \/ DeregisterStart
               \/ DeregisterDone \/ DeregisterFailed \/ ClaimAsk \/ ClaimAnswered \/ ClaimRemove
      BY <1>a, <2>3 DEF DisconnectStart, DisconnectRemove, DisconnectOrphan, DeregisterStart,
                        DeregisterDone, DeregisterFailed, ClaimAsk, ClaimAnswered, ClaimRemove
    <2> QED
      BY <1>6, <2>1, <2>2, <2>3 DEF EndNext
  <1>7. CASE ForceNext
    BY <1>7, <1>a, PastSdk DEF ForceNext, Probe, ForceStart, ForceLock, ForceAbandon, ForceRestart
  <1> QED
    BY <1>1, <1>2, <1>3, <1>4, <1>5, <1>6, <1>7 DEF Next

\* What LiveLinkKept says of one step.
LiveLinkStep ==
    link = "Up" /\ link' = "Reconnecting" /\ sdk = instance
        => Unnamed \in reports \ reports' \/ force.pc = "restart"

\* Only a handled report or a force takes an Up link for dropped, and a report
\* that names the session the SDK still holds does not exist.
LEMMA LiveLinkNext == TypeInv /\ ReportsArePast /\ [Next]_vars => LiveLinkStep
  <1> SUFFICES ASSUME TypeInv, ReportsArePast, [Next]_vars,
                      link = "Up", link' = "Reconnecting", sdk = instance
               PROVE  Unnamed \in reports \ reports' \/ force.pc = "restart"
    BY DEF LiveLinkStep
  <1> USE DEF entry
  <1>1. CASE UNCHANGED vars
    BY <1>1 DEF vars
  <1>2. CASE ReportNext
    <2>1. CASE SdkDrop \/ RemoveEnding \/ Spawn
      BY <2>1 DEF SdkDrop, RemoveEnding, RemoveEntry, Spawn
    <2>2. ASSUME NEW q \in reports, HandleReport(q) PROVE Unnamed \in reports \ reports'
      <3>1. q.inst = 0 \/ q.inst = sdk
        BY <2>2 DEF HandleReport, Begin, NamesThisInstance
      <3>2. q.inst = 0 /\ ~q.refusal
        BY <2>2, <3>1 DEF HandleReport, ReportsArePast
      <3>3. q = Unnamed
        BY <3>2 DEF TypeInv, TypeOK, FlagTypes, ReportRec, Unnamed, Named
      <3> QED
        BY <2>2, <3>3 DEF HandleReport
    <2>3. ASSUME NEW q \in reports, HandleRefusal(q) PROVE FALSE
      BY <2>3 DEF HandleRefusal
    <2> QED
      BY <1>2, <2>1, <2>2, <2>3 DEF ReportNext
  <1>3. ASSUME NEW r \in Runs, RunNext(r) PROVE FALSE
    BY <1>3 DEF RunNext, RunWake, RunCheck, RunDialed, RunDialFailed, RunInstall, RunClose,
                RunFail, PutLink, RemoveEntry
  <1>4. CASE ConnectNext
    BY <1>4 DEF ConnectNext, ConnectStart, ConnectAsk, ConnectReplaceStale, ConnectDialed,
                ConnectDialFailed, ConnectInsert, ConnectUnreadable, RemoveEntry, InsertEntry
  <1>5. CASE TakeOverNext
    BY <1>5 DEF TakeOverNext, TakeOverMark, TakeOverLock, TakeOverDialed, HandBack,
                TakeOverInstall, TakeOverClose, SetLink, PutLink
  <1>6. CASE EndNext
    BY <1>6 DEF EndNext, DisconnectStart, DisconnectRemove, DisconnectSdk, DisconnectAbandon,
                DisconnectOrphan, DisconnectOrphanSdk, DeregisterStart, ServerDeletes,
                DeregisterDone, DeregisterFailed, ClaimAsk, ClaimAnswered, ClaimRemove,
                RemoveEntry, SetLink
  <1>7. CASE ForceNext
    BY <1>7 DEF ForceNext, Probe, ForceStart, ForceLock, ForceAbandon, ForceRestart
  <1> QED
    BY <1>1, <1>2, <1>3, <1>4, <1>5, <1>6, <1>7 DEF Next

\* A replaced session's late report never costs its successor: a link whose SDK
\* session lives is taken for dropped only on a report that names no session.
THEOREM LiveLinkIsKept == Spec => LiveLinkKept
  <1>1. Init => ReportsArePast
    BY DEF Init, ReportsArePast
  <1>2. Spec => []ReportsArePast
    BY <1>1, TypeInvAlways, PastStep, PTL DEF Spec
  <1>3. TypeInv /\ ReportsArePast /\ [Next]_vars => [LiveLinkStep]_vars
    BY LiveLinkNext
  <1>4. Spec => [][LiveLinkStep]_vars
    BY <1>2, <1>3, TypeInvAlways, PTL DEF Spec
  <1> QED
    BY <1>4 DEF LiveLinkKept, LiveLinkStep
=============================================================================
