------------------------------ MODULE SessionLink ------------------------------
(***************************************************************************)
(* The life of one account's session in the agent: its entry in            *)
(* `server_connection_map`, the reconnect runs that bring a dropped link   *)
(* back, and every handler that races with them (Connect and its takeover, *)
(* Disconnect, DisconnectOrphan, Deregister, ClaimSession, the             *)
(* supervisor's force, the SDK's drop reports).                            *)
(*                                                                         *)
(* One action is one section of the code between two awaits, or under one  *)
(* acquisition of the map's lock. The CID is permanent per account, so the *)
(* map is modelled at that one key. The SDK is external: it holds at most  *)
(* one session of the account, refuses a second, and reports every end.    *)
(***************************************************************************)
EXTENDS Naturals

CONSTANTS
    Runs,       \* slots for reconnect tasks (reconnect/task.rs, `run`)
    MaxInsts,   \* SDK sessions the account ever gets
    MaxLives,   \* entries (`Connection`s) ever inserted for the account
    MaxGen,     \* generations of one entry's `Handoff`
    MaxTries,   \* failed attempts after which a run is out of time
    MaxSpawns,  \* reconnects begun and not yet spawned
    DropTexts,  \* whether a drop's message may read like a refused attempt's
    Requests    \* what else happens to the session in the instance

ASSUME BoundsAssumption ==
    /\ MaxInsts \in Nat \ {0}
    /\ MaxLives \in Nat \ {0}
    /\ MaxGen \in Nat \ {0}
    /\ MaxTries \in Nat
    /\ MaxSpawns \in Nat \ {0}
    /\ DropTexts \subseteq BOOLEAN
    /\ Requests \subseteq {"Disconnect", "DisconnectOrphan", "Deregister",
                           "ClaimSession", "ForceReconnect"}

VARIABLES
    link,       \* the entry's LinkState, "None" when the map has no entry
    instance,   \* the SDK session the entry's link is
    life,       \* which `Connection` the entry is (each has its own Handoff)
    gen,        \* the entry's Handoff generation
    lives,      \* `Connection`s inserted so far
    insts,      \* SDK sessions opened so far
    sdk,        \* the SDK session the account has, 0 for none
    registered, \* whether the server still has the account
    reports,    \* Disconnect events the SDK sent and the kernel has not handled
    spawning,   \* reconnects begun whose `spawn` has not read the generation
    removing,   \* a drop report answered `Remove` whose cleanup is still to run
    run,        \* the reconnect tasks
    con,        \* the Connect handler (GUARD 1 admits one per username)
    dis,        \* the Disconnect or DisconnectOrphan handler
    dereg,      \* the Deregister handler
    claim,      \* the ClaimSession handler
    force,      \* the supervisor's force_reconnect
    probed,     \* the instance the supervisor's latest probe was sent on
    signedOut,  \* whether `SignedOut` lists the account
    stranded    \* history: the life whose new link had no channel to open

entry == <<link, instance, life, gen>>
sdkVars == <<sdk, insts, registered, reports>>
handlers == <<con, dis, dereg, claim>>
vars == <<entry, lives, sdkVars, spawning, removing, run, handlers, force,
          probed, signedOut, stranded>>

LinkState == {"None", "Up", "Reconnecting", "Ending", "SigningIn"}

-----------------------------------------------------------------------------
(* The entry.                                                              *)

\* The entry leaves the map, with its Handoff.
RemoveEntry == link' = "None" /\ instance' = 0 /\ life' = 0 /\ gen' = 0

\* A new `Connection` is inserted: link Up, a fresh Handoff at generation 0.
InsertEntry(i) ==
    /\ lives < MaxLives
    /\ lives' = lives + 1
    /\ link' = "Up" /\ instance' = i /\ life' = lives + 1 /\ gen' = 0

\* The link moves and nothing else of the entry does.
SetLink(to) == link' = to /\ UNCHANGED <<instance, life, gen>>

\* The installed link replaces the entry's.
PutLink(i) == link' = "Up" /\ instance' = i /\ UNCHANGED <<life, gen>>

-----------------------------------------------------------------------------
(* The SDK (external): sessions and the events it sends the kernel.        *)

Named(i) == [inst |-> i, refusal |-> FALSE]
Unnamed == Named(0)
Refusal == [inst |-> 0, refusal |-> TRUE]

\* A connect succeeds: the SDK refuses while it holds a session of the CID.
SdkOpens ==
    /\ registered /\ sdk = 0 /\ insts < MaxInsts
    /\ insts' = insts + 1 /\ sdk' = insts + 1
    /\ UNCHANGED <<registered, reports>>

\* A connect is refused or times out; the refusal may be sent as an event too.
SdkRefuses ==
    /\ \/ reports' = reports
       \/ sdk # 0 /\ reports' = reports \cup {Refusal}
    /\ UNCHANGED <<sdk, insts, registered>>

\* `disconnect()` and `abandon_session` act by CID, on whichever session the
\* account has. The answer names no instance; the teardown names its own.
SdkEnds ==
    /\ sdk # 0
    /\ sdk' = 0
    /\ reports' = reports \cup {Named(sdk), Unnamed}
    /\ UNCHANGED <<insts, registered>>

\* The link dies, or the server drops it, and the SDK reports which session.
SdkDrop ==
    /\ sdk # 0
    /\ sdk' = 0
    /\ \E refusal \in DropTexts :
          reports' = reports \cup {[inst |-> sdk, refusal |-> refusal]}
    /\ UNCHANGED <<entry, lives, insts, registered, spawning, removing, run,
                   handlers, force, probed, signedOut, stranded>>

-----------------------------------------------------------------------------
(* Attempt locks. `Handoff::hold_attempts` is one mutex per entry life.    *)

RunHolds == {"attempt", "opened", "closing", "failing"}
ConHolds == {"tkDial", "tkOpened", "tkClosing"}

GateFree(l) ==
    /\ \A r \in Runs : run[r].gate = l => run[r].pc \notin RunHolds
    /\ con.gate = l => con.pc \notin ConHolds
    /\ force.gate = l => force.pc # "abandon"

-----------------------------------------------------------------------------
(* Drop reports: responses/disconnect.rs, reconnect/task.rs `begin`,       *)
(* `spawn`.                                                                *)

OffRun == [pc |-> "off", gen |-> 0, gate |-> 0, own |-> 0, inst |-> 0, tries |-> 0]

\* A run starts asleep, with the generation it is the run of.
NewRun(g) ==
    [pc |-> "asleep", gen |-> g, gate |-> 0, own |-> life, inst |-> 0, tries |-> 0]

NamesAnyInstance(i) == TRUE

\* `names_this_instance`: a report naming none is taken as the entry's.
NamesThisInstance(i) == i = 0 \/ i = instance

\* `begin`: what an unrequested drop of instance i does to the entry.
Begin(i) ==
    \/ /\ link = "None" \/ ~NamesThisInstance(i) \/ link \in {"Reconnecting", "SigningIn"}
       /\ UNCHANGED <<entry, spawning, removing>>
    \/ /\ link = "Up" /\ NamesThisInstance(i)
       /\ gen < MaxGen /\ spawning < MaxSpawns
       /\ link' = "Reconnecting" /\ gen' = gen + 1
       /\ spawning' = spawning + 1
       /\ UNCHANGED <<instance, life, removing>>
    \/ /\ link = "Ending" /\ NamesThisInstance(i)
       /\ removing' = TRUE
       /\ UNCHANGED <<entry, spawning>>

\* A drop report is handled.
HandleReport(q) ==
    /\ q \in reports /\ ~q.refusal
    /\ reports' = reports \ {q}
    /\ Begin(q.inst)
    /\ UNCHANGED <<lives, sdk, insts, registered, run, handlers, force, probed,
                   signedOut, stranded>>

\* A report worded as a refused attempt is a drop only if the SDK answers that
\* it holds nothing; otherwise, or if the query fails, it is ignored.
HandleRefusal(q) ==
    /\ q \in reports /\ q.refusal
    /\ \/ reports' = reports \ {q}
       \/ sdk = 0 /\ reports' = (reports \ {q}) \cup {Named(q.inst)}
    /\ UNCHANGED <<entry, lives, sdk, insts, registered, spawning, removing, run,
                   handlers, force, probed, signedOut, stranded>>

\* `remove`: the session its user is ending goes, whatever the link is by now.
RemoveEnding ==
    /\ removing
    /\ removing' = FALSE
    /\ RemoveEntry
    /\ UNCHANGED <<lives, sdkVars, spawning, run, handlers, force, probed,
                   signedOut, stranded>>

\* `spawn` reads the generation of whatever entry is there, and starts a run.
Spawn ==
    /\ spawning > 0
    /\ spawning' = spawning - 1
    /\ \/ link = "None" /\ UNCHANGED run
       \/ /\ link # "None"
          /\ \E r \in Runs : /\ run[r].pc = "off"
                             /\ run' = [run EXCEPT ![r] = NewRun(gen)]
    /\ UNCHANGED <<entry, lives, sdkVars, removing, handlers, force, probed,
                   signedOut, stranded>>

-----------------------------------------------------------------------------
(* The reconnect run: reconnect/task.rs `run`, `install`; report.rs `fail`.*)

StopRun(r) == run' = [run EXCEPT ![r] = OffRun]

\* `attempt_wanted`: the session still waits for this run.
AttemptWanted(r) == link = "Reconnecting" /\ gen = run[r].gen

\* `attempt_installs`: a sign-in waiting on the attempt wants it too.
AttemptInstalls(r) == link \in {"Reconnecting", "SigningIn"} /\ gen = run[r].gen

\* The delay is over: fetch the entry's attempt lock, or stop without one.
RunWake(r) ==
    /\ run[r].pc = "asleep"
    /\ \/ link = "None" /\ StopRun(r)
       \/ /\ link # "None"
          /\ run' = [run EXCEPT ![r].pc = "gate", ![r].gate = life]
    /\ UNCHANGED <<entry, lives, sdkVars, spawning, removing, handlers, force,
                   probed, signedOut, stranded>>

RunCheckUngated(r) ==
    /\ run[r].pc = "gate"
    /\ \/ ~AttemptWanted(r) /\ StopRun(r)
       \/ AttemptWanted(r) /\ \E pc \in {"attempt", "failing"} :
             run' = [run EXCEPT ![r].pc = pc]
    /\ UNCHANGED <<entry, lives, sdkVars, spawning, removing, handlers, force,
                   probed, signedOut, stranded>>

\* With the attempt lock: stop, attempt, or give up at once (a session that
\* only its user can sign in to again, `Reauth::NeedsUser`).
RunCheck(r) ==
    /\ run[r].pc = "gate" /\ GateFree(run[r].gate)
    /\ \/ ~AttemptWanted(r) /\ StopRun(r)
       \/ AttemptWanted(r) /\ \E pc \in {"attempt", "failing"} :
             run' = [run EXCEPT ![r].pc = pc]
    /\ UNCHANGED <<entry, lives, sdkVars, spawning, removing, handlers, force,
                   probed, signedOut, stranded>>

\* The SDK connect of an attempt lands.
RunDialed(r) ==
    /\ run[r].pc = "attempt"
    /\ SdkOpens
    /\ run' = [run EXCEPT ![r].pc = "opened", ![r].inst = insts + 1]
    /\ UNCHANGED <<entry, lives, spawning, removing, handlers, force, probed,
                   signedOut, stranded>>

RunDialFailedForever(r) ==
    /\ run[r].pc = "attempt"
    /\ SdkRefuses
    /\ run' = [run EXCEPT ![r].pc = "asleep", ![r].gate = 0, ![r].tries = @ + 1]
    /\ UNCHANGED <<entry, lives, spawning, removing, handlers, force, probed,
                   signedOut, stranded>>

\* It fails or times out: sleep again, or give up (refused, out of time, or
\* the server answered under another CID, whose link is closed).
RunDialFailed(r) ==
    /\ run[r].pc = "attempt"
    /\ SdkRefuses
    /\ \/ run[r].tries < MaxTries
          /\ run' = [run EXCEPT ![r].pc = "asleep", ![r].gate = 0, ![r].tries = @ + 1]
       \/ run' = [run EXCEPT ![r].pc = "failing"]
    /\ UNCHANGED <<entry, lives, spawning, removing, handlers, force, probed,
                   signedOut, stranded>>

\* `put_link` for the run: installed, or not wanted and to be closed, or the
\* connection had no channel and nothing is done with it.
RunInstall(r) ==
    /\ run[r].pc = "opened"
    /\ \/ AttemptInstalls(r) /\ PutLink(run[r].inst) /\ StopRun(r) /\ UNCHANGED stranded
       \/ /\ ~AttemptInstalls(r)
          /\ run' = [run EXCEPT ![r].pc = "closing"]
          /\ UNCHANGED <<entry, stranded>>
       \/ StopRun(r) /\ stranded' = life /\ UNCHANGED entry
    /\ UNCHANGED <<lives, sdkVars, spawning, removing, handlers, force, probed,
                   signedOut>>

\* Closing a link nobody admitted, by CID; a failure is only logged.
RunClose(r) ==
    /\ run[r].pc = "closing"
    /\ SdkEnds \/ UNCHANGED sdkVars
    /\ StopRun(r)
    /\ UNCHANGED <<entry, lives, spawning, removing, handlers, force, probed,
                   signedOut, stranded>>

RunFailQuietly(r) ==
    /\ run[r].pc = "failing"
    /\ StopRun(r)
    /\ UNCHANGED <<entry, lives, sdkVars, spawning, removing, handlers, force, probed,
                   signedOut, stranded>>

\* `fail`: the entry is removed and recorded as signed out, under one lock,
\* only while it is still this run's.
RunFail(r) ==
    /\ run[r].pc = "failing"
    /\ StopRun(r)
    /\ \/ AttemptWanted(r) /\ RemoveEntry /\ signedOut' = TRUE
       \/ ~AttemptWanted(r) /\ UNCHANGED <<entry, signedOut>>
    /\ UNCHANGED <<lives, sdkVars, spawning, removing, handlers, force, probed,
                   stranded>>

-----------------------------------------------------------------------------
(* Connect: requests/connect.rs, and reconnect/takeover.rs.                *)

IdleCon == [pc |-> "idle", gate |-> 0, inst |-> 0]

\* GUARD 1 and GUARD 2: one handler per username, and what it finds.
ConnectStart ==
    /\ con.pc = "idle"
    /\ con' = [con EXCEPT !.pc = CASE link = "None" -> "dial"
                                   [] link \in {"Up", "Ending"} -> "ask"
                                   [] OTHER -> "tkMark"]
    /\ UNCHANGED <<entry, lives, sdkVars, spawning, removing, run, dis, dereg,
                   claim, force, probed, signedOut, stranded>>

\* The SDK is asked about the tracked session: held (answered as active, or
\* refused), not answered (refused, nothing changed), or stale.
ConnectAsk ==
    /\ con.pc = "ask"
    /\ \/ con' = IdleCon
       \/ sdk = 0 /\ con' = [con EXCEPT !.pc = "stale"]
    /\ UNCHANGED <<entry, lives, sdkVars, spawning, removing, run, dis, dereg,
                   claim, force, probed, signedOut, stranded>>

\* ReplaceStale: whatever entry is there by now goes.
ConnectReplaceStale ==
    /\ con.pc = "stale"
    /\ RemoveEntry
    /\ con' = [con EXCEPT !.pc = "dial"]
    /\ UNCHANGED <<lives, sdkVars, spawning, removing, run, dis, dereg, claim,
                   force, probed, signedOut, stranded>>

\* The sign-in's SDK connect lands.
ConnectDialed ==
    /\ con.pc = "dial"
    /\ SdkOpens
    /\ con' = [con EXCEPT !.pc = "opened", !.inst = insts + 1]
    /\ UNCHANGED <<entry, lives, spawning, removing, run, dis, dereg, claim,
                   force, probed, signedOut, stranded>>

\* It is refused, or no factor could be offered.
ConnectDialFailed ==
    /\ con.pc = "dial"
    /\ SdkRefuses
    /\ con' = IdleCon
    /\ UNCHANGED <<entry, lives, spawning, removing, run, dis, dereg, claim,
                   force, probed, signedOut, stranded>>

ConnectInsertKeepingRecord ==
    /\ con.pc = "opened"
    /\ InsertEntry(con.inst)
    /\ con' = IdleCon
    /\ UNCHANGED <<sdkVars, spawning, removing, run, dis, dereg, claim, force,
                   probed, signedOut, stranded>>

\* The session is recorded, and no longer listed as signed out, under one lock.
ConnectInsert ==
    /\ con.pc = "opened"
    /\ InsertEntry(con.inst)
    /\ signedOut' = FALSE
    /\ con' = IdleCon
    /\ UNCHANGED <<sdkVars, spawning, removing, run, dis, dereg, claim, force,
                   probed, stranded>>

\* No channel, or its username or server address cannot be read: answered as a
\* failure, and the SDK session stays up with no entry.
ConnectUnreadable ==
    /\ con.pc = "opened"
    /\ con' = IdleCon
    /\ UNCHANGED <<entry, lives, sdkVars, spawning, removing, run, dis, dereg,
                   claim, force, probed, signedOut, stranded>>

\* The password is checked; then only a Reconnecting session is taken over
\* (`may_take_over`), checked and marked under one lock.
TakeOverMark ==
    /\ con.pc = "tkMark"
    /\ \/ link = "Reconnecting" /\ gen < MaxGen /\ SetLink("SigningIn")
          /\ con' = [con EXCEPT !.pc = "tkGate", !.gate = life]
       \/ con' = IdleCon /\ UNCHANGED entry
    /\ UNCHANGED <<lives, sdkVars, spawning, removing, run, dis, dereg, claim,
                   force, probed, signedOut, stranded>>

\* No attempt is in flight any more: the one it waited on may have landed, or
\* the session may have been ended.
TakeOverLock ==
    /\ con.pc = "tkGate" /\ GateFree(con.gate)
    /\ con' = IF link = "SigningIn" THEN [con EXCEPT !.pc = "tkDial"] ELSE IdleCon
    /\ UNCHANGED <<entry, lives, sdkVars, spawning, removing, run, dis, dereg,
                   claim, force, probed, signedOut, stranded>>

\* The forced connect lands.
TakeOverDialed ==
    /\ con.pc = "tkDial"
    /\ SdkOpens
    /\ con' = [con EXCEPT !.pc = "tkOpened", !.inst = insts + 1]
    /\ UNCHANGED <<entry, lives, spawning, removing, run, dis, dereg, claim,
                   force, probed, signedOut, stranded>>

HandBackSilently ==
    /\ con.pc = "tkDial"
    /\ SdkRefuses
    /\ con' = IdleCon
    /\ \/ link = "SigningIn"
          /\ link' = "Reconnecting" /\ gen' = gen + 1
          /\ UNCHANGED <<instance, life, run>>
       \/ link # "SigningIn" /\ UNCHANGED <<entry, run>>
    /\ UNCHANGED <<lives, spawning, removing, dis, dereg, claim, force, probed,
                   signedOut, stranded>>

HandBackKeepingMark ==
    /\ con.pc = "tkDial"
    /\ SdkRefuses
    /\ con' = IdleCon
    /\ UNCHANGED <<entry, run, lives, spawning, removing, dis, dereg, claim, force, probed,
                   signedOut, stranded>>

\* It fails: `hand_back` to a new reconnect run, unless the session was ended.
HandBack ==
    /\ con.pc = "tkDial"
    /\ SdkRefuses
    /\ con' = IdleCon
    /\ \/ /\ link = "SigningIn"
          /\ link' = "Reconnecting" /\ gen' = gen + 1
          /\ \E r \in Runs : /\ run[r].pc = "off"
                             /\ run' = [run EXCEPT ![r] = NewRun(gen + 1)]
          /\ UNCHANGED <<instance, life>>
       \/ link # "SigningIn" /\ UNCHANGED <<entry, run>>
    /\ UNCHANGED <<lives, spawning, removing, dis, dereg, claim, force, probed,
                   signedOut, stranded>>

\* `put_link` for the sign-in.
TakeOverInstall ==
    /\ con.pc = "tkOpened"
    /\ \/ link = "SigningIn" /\ PutLink(con.inst) /\ con' = IdleCon /\ UNCHANGED stranded
       \/ /\ link # "SigningIn"
          /\ con' = [con EXCEPT !.pc = "tkClosing"]
          /\ UNCHANGED <<entry, stranded>>
       \/ con' = IdleCon /\ stranded' = life /\ UNCHANGED entry
    /\ UNCHANGED <<lives, sdkVars, spawning, removing, run, dis, dereg, claim,
                   force, probed, signedOut>>

\* The session was ended meanwhile: the new link is closed, by CID.
TakeOverClose ==
    /\ con.pc = "tkClosing"
    /\ SdkEnds \/ UNCHANGED sdkVars
    /\ con' = IdleCon
    /\ UNCHANGED <<entry, lives, spawning, removing, run, dis, dereg, claim,
                   force, probed, signedOut, stranded>>

-----------------------------------------------------------------------------
(* Disconnect: requests/peer/disconnect.rs; DisconnectOrphan:              *)
(* requests/connection_management.rs.                                      *)

\* The session is in the map; its CID-scoped state is pruned first.
DisconnectStart ==
    /\ "Disconnect" \in Requests
    /\ dis = "idle" /\ link # "None"
    /\ dis' = "remove"
    /\ UNCHANGED <<entry, lives, sdkVars, spawning, removing, run, con, dereg,
                   claim, force, probed, signedOut, stranded>>

\* `cleanup_state`: the entry goes before the SDK is asked.
DisconnectRemove ==
    /\ dis = "remove"
    /\ RemoveEntry
    /\ dis' = IF link = "None" THEN "idle" ELSE "sdk"
    /\ UNCHANGED <<lives, sdkVars, spawning, removing, run, con, dereg, claim,
                   force, probed, signedOut, stranded>>

\* The SDK disconnect, and on a failure or a timeout whether it is still live.
DisconnectSdk ==
    /\ dis = "sdk"
    /\ \/ SdkEnds /\ dis' \in {"idle", "abandon"}
       \/ UNCHANGED sdkVars /\ dis' \in {"abandon"} \cup {d \in {"idle"} : sdk = 0}
    /\ UNCHANGED <<entry, lives, spawning, removing, run, con, dereg, claim,
                   force, probed, signedOut, stranded>>

\* The session survived: it is ended on this device, or the answer is a failure.
DisconnectAbandon ==
    /\ dis = "abandon"
    /\ SdkEnds \/ UNCHANGED sdkVars
    /\ dis' = "idle"
    /\ UNCHANGED <<entry, lives, spawning, removing, run, con, dereg, claim,
                   force, probed, signedOut, stranded>>

\* An orphan is removed and pruned under one lock.
DisconnectOrphan ==
    /\ "DisconnectOrphan" \in Requests
    /\ dis = "idle" /\ link # "None"
    /\ RemoveEntry
    /\ dis' = "orphanSdk"
    /\ UNCHANGED <<lives, sdkVars, spawning, removing, run, con, dereg, claim,
                   force, probed, signedOut, stranded>>

\* The orphan's SDK disconnect; a failure is reported to the caller.
DisconnectOrphanSdk ==
    /\ dis = "orphanSdk"
    /\ SdkEnds \/ UNCHANGED sdkVars
    /\ dis' = "idle"
    /\ UNCHANGED <<entry, lives, spawning, removing, run, con, dereg, claim,
                   force, probed, signedOut, stranded>>

-----------------------------------------------------------------------------
(* Deregister: requests/deregister.rs.                                     *)

\* An Up link is marked Ending, so the drop to come is not reconnected.
DeregisterStart ==
    /\ "Deregister" \in Requests
    /\ dereg.pc = "idle" /\ registered
    /\ dereg' = [pc |-> "asked", ending |-> link = "Up"]
    /\ IF link = "Up" THEN SetLink("Ending") ELSE UNCHANGED entry
    /\ UNCHANGED <<lives, sdkVars, spawning, removing, run, con, dis, claim,
                   force, probed, signedOut, stranded>>

\* The server deletes the account (external), which ends its session.
ServerDeletes ==
    /\ dereg.pc = "asked" /\ registered /\ sdk # 0
    /\ dereg' = [dereg EXCEPT !.pc = "deleted"]
    /\ registered' = FALSE
    /\ sdk' = 0 /\ reports' = reports \cup {Named(sdk)}
    /\ UNCHANGED <<entry, lives, insts, spawning, removing, run, con, dis, claim,
                   force, probed, signedOut, stranded>>

\* The protocol says the account is gone: only now is the entry removed.
DeregisterDone ==
    /\ dereg.pc = "deleted"
    /\ RemoveEntry
    /\ dereg' = [pc |-> "idle", ending |-> FALSE]
    /\ UNCHANGED <<lives, sdkVars, spawning, removing, run, con, dis, claim,
                   force, probed, signedOut, stranded>>

DeregisterFailedStaysEnding ==
    /\ dereg.pc # "idle"
    /\ dereg' = [pc |-> "idle", ending |-> FALSE]
    /\ UNCHANGED entry
    /\ UNCHANGED <<lives, sdkVars, spawning, removing, run, con, dis, claim,
                   force, probed, signedOut, stranded>>

\* Refused, unanswered, or no answer in DEREGISTER_WAIT (the server may have
\* deleted the account all the same): an Ending link is Up again.
DeregisterFailed ==
    /\ dereg.pc # "idle"
    /\ dereg' = [pc |-> "idle", ending |-> FALSE]
    /\ IF dereg.ending /\ link = "Ending" THEN SetLink("Up") ELSE UNCHANGED entry
    /\ UNCHANGED <<lives, sdkVars, spawning, removing, run, con, dis, claim,
                   force, probed, signedOut, stranded>>

-----------------------------------------------------------------------------
(* ClaimSession's check of the SDK: requests/connection_management_claim.rs*)
(* and _claim_sdk.rs. A claim that succeeds changes no link.               *)

\* `claim_requires_sdk_session`: only an entry whose link is not being
\* reconnected is looked up in the SDK.
ClaimAsk ==
    /\ "ClaimSession" \in Requests
    /\ claim = "idle" /\ link \in {"Up", "Ending"}
    /\ claim' = "asked"
    /\ UNCHANGED <<entry, lives, sdkVars, spawning, removing, run, con, dis,
                   dereg, force, probed, signedOut, stranded>>

\* The SDK answers: the session is held (or could not be asked about), or not.
ClaimAnswered ==
    /\ claim = "asked"
    /\ claim' \in {"idle"} \cup {c \in {"remove"} : sdk = 0}
    /\ UNCHANGED <<entry, lives, sdkVars, spawning, removing, run, con, dis,
                   dereg, force, probed, signedOut, stranded>>

\* Not held: the entry is removed, whatever its link is by now.
ClaimRemove ==
    /\ claim = "remove"
    /\ claim' = "idle"
    /\ RemoveEntry
    /\ UNCHANGED <<lives, sdkVars, spawning, removing, run, con, dis, dereg,
                   force, probed, signedOut, stranded>>

-----------------------------------------------------------------------------
(* The supervisor's force: supervisor/adapters/server_link.rs, force.rs.   *)

IdleForce == [pc |-> "idle", probed |-> 0, gate |-> 0]

\* A probe is sent on the link the session has.
Probe ==
    /\ "ForceReconnect" \in Requests
    /\ link = "Up" /\ probed # instance
    /\ probed' = instance
    /\ UNCHANGED <<entry, lives, sdkVars, spawning, removing, run, handlers,
                   force, signedOut, stranded>>

\* Probes went unanswered: force the link they were sent on.
ForceStart ==
    /\ force.pc = "idle" /\ probed # 0 /\ link # "None"
    /\ force' = [pc |-> "gate", probed |-> probed, gate |-> life]
    /\ UNCHANGED <<entry, lives, sdkVars, spawning, removing, run, handlers,
                   probed, signedOut, stranded>>

\* `probed_link_is_current`, with the attempt lock held.
ForceLock ==
    /\ force.pc = "gate" /\ GateFree(force.gate)
    /\ force' = IF link = "Up" /\ instance = force.probed
                THEN [force EXCEPT !.pc = "abandon"] ELSE IdleForce
    /\ UNCHANGED <<entry, lives, sdkVars, spawning, removing, run, handlers,
                   probed, signedOut, stranded>>

\* `abandon_session`, by CID; an error (no such session) ends the force.
ForceAbandon ==
    /\ force.pc = "abandon"
    /\ \/ SdkEnds /\ force' = [force EXCEPT !.pc = "restart", !.gate = 0]
       \/ UNCHANGED sdkVars /\ force' = IdleForce
    /\ UNCHANGED <<entry, lives, spawning, removing, run, handlers, probed,
                   signedOut, stranded>>

\* `force::restart`: the reconnect a drop gets; a link being ended is left.
ForceRestart ==
    /\ force.pc = "restart"
    /\ force' = IdleForce
    /\ IF link = "Ending" THEN UNCHANGED <<entry, spawning, removing>> ELSE Begin(0)
    /\ UNCHANGED <<lives, sdkVars, run, handlers, probed, signedOut, stranded>>

-----------------------------------------------------------------------------
Init ==
    /\ link = "None" /\ instance = 0 /\ life = 0 /\ gen = 0 /\ lives = 0
    /\ sdk = 0 /\ insts = 0 /\ registered = TRUE /\ reports = {}
    /\ spawning = 0 /\ removing = FALSE
    /\ run = [r \in Runs |-> OffRun]
    /\ con = IdleCon /\ dis = "idle" /\ claim = "idle"
    /\ dereg = [pc |-> "idle", ending |-> FALSE]
    /\ force = IdleForce /\ probed = 0
    /\ signedOut = FALSE /\ stranded = 0

RunNext(r) ==
    \/ RunWake(r) \/ RunCheck(r) \/ RunDialed(r) \/ RunDialFailed(r)
    \/ RunInstall(r) \/ RunClose(r) \/ RunFail(r)

ConnectNext ==
    \/ ConnectStart \/ ConnectAsk \/ ConnectReplaceStale \/ ConnectDialed
    \/ ConnectDialFailed \/ ConnectInsert \/ ConnectUnreadable

TakeOverNext ==
    \/ TakeOverMark \/ TakeOverLock \/ TakeOverDialed \/ HandBack
    \/ TakeOverInstall \/ TakeOverClose

EndNext ==
    \/ DisconnectStart \/ DisconnectRemove \/ DisconnectSdk \/ DisconnectAbandon
    \/ DisconnectOrphan \/ DisconnectOrphanSdk
    \/ DeregisterStart \/ ServerDeletes \/ DeregisterDone \/ DeregisterFailed
    \/ ClaimAsk \/ ClaimAnswered \/ ClaimRemove

ForceNext == Probe \/ ForceStart \/ ForceLock \/ ForceAbandon \/ ForceRestart

ReportNext ==
    \/ SdkDrop \/ RemoveEnding \/ Spawn
    \/ \E q \in reports : HandleReport(q) \/ HandleRefusal(q)

Next ==
    \/ ReportNext
    \/ \E r \in Runs : RunNext(r)
    \/ ConnectNext \/ TakeOverNext \/ EndNext \/ ForceNext

Spec == Init /\ [][Next]_vars

\* A spawned task runs: sleeps end, an attempt is bounded by its timeout, the
\* map's lock is always released, and the attempt lock is a fair queue.
RunFairness ==
    /\ WF_vars(Spawn)
    /\ \A r \in Runs :
          /\ WF_vars(RunWake(r)) /\ SF_vars(RunCheck(r))
          /\ WF_vars(RunDialed(r) \/ RunDialFailed(r))
          /\ WF_vars(RunInstall(r)) /\ WF_vars(RunClose(r)) /\ WF_vars(RunFail(r))
    /\ WF_vars(ForceAbandon)

FairSpec == Spec /\ RunFairness

-----------------------------------------------------------------------------
(* Properties.                                                             *)

RunPcs == {"off", "asleep", "gate"} \cup RunHolds
ConPcs == {"idle", "ask", "stale", "dial", "opened", "tkMark", "tkGate"} \cup ConHolds

ReportRec == [inst : 0..MaxInsts, refusal : BOOLEAN]
RunRec == [pc : RunPcs, gen : 0..MaxGen, gate : 0..MaxLives, own : 0..MaxLives,
           inst : 0..MaxInsts, tries : 0..MaxTries]
ConRec == [pc : ConPcs, gate : 0..MaxLives, inst : 0..MaxInsts]
ForceRec == [pc : {"idle", "gate", "abandon", "restart"}, probed : 0..MaxInsts,
             gate : 0..MaxLives]

EntryTypes ==
    /\ link \in LinkState
    /\ instance \in 0..MaxInsts /\ life \in 0..MaxLives /\ gen \in 0..MaxGen
    /\ lives \in 0..MaxLives /\ insts \in 0..MaxInsts /\ sdk \in 0..MaxInsts
    /\ spawning \in 0..MaxSpawns /\ probed \in 0..MaxInsts
    /\ stranded \in 0..MaxLives

FlagTypes ==
    /\ registered \in BOOLEAN /\ removing \in BOOLEAN /\ signedOut \in BOOLEAN
    /\ reports \subseteq ReportRec
    /\ dereg \in [pc : {"idle", "asked", "deleted"}, ending : BOOLEAN]

HandlerTypes ==
    /\ run \in [Runs -> RunRec]
    /\ con \in ConRec /\ force \in ForceRec
    /\ dis \in {"idle", "remove", "sdk", "abandon", "orphanSdk"}
    /\ claim \in {"idle", "asked", "remove"}

\* Type invariant of the session, the SDK and every handler.
TypeOK == EntryTypes /\ FlagTypes /\ HandlerTypes

\* requests/get_sessions.rs: "an account is never reported both signed in and
\* signed out". The give-up records, and the sign-in clears, under the map lock.
SignedOutExclusive == signedOut => link = "None"

\* A session being signed in to always has the sign-in that will settle it: the
\* mark is never left behind by a takeover that returned. The one exception is
\* a connection the SDK gave no channel, which put_link returns on.
SigningInOwned ==
    link = "SigningIn" =>
        \/ con.pc \in {"tkGate", "tkDial", "tkOpened"} /\ con.gate = life
        \/ stranded = life

\* requests/deregister.rs: marked while the answer is awaited, "unmarked if the
\* account stays". An Ending mark never outlives the Deregister that set it.
EndingOwned == link = "Ending" => dereg.pc # "idle" /\ dereg.ending

\* A run that is alive and would still act on the entry when it gets there.
Drives(r) ==
    /\ run[r].pc \in {"asleep", "gate", "attempt", "opened", "failing"}
    /\ run[r].gen = gen

\* A session is never left Reconnecting with nobody reconnecting it: a run of
\* the entry's generation lives, or one is about to be spawned.
ReconnectingDriven ==
    link = "Reconnecting" => spawning > 0 \/ (\E r \in Runs : Drives(r)) \/ stranded = life

\* reconnect/takeover.rs: a sign-in never runs an SDK connect beside an attempt
\* of the session it takes over, nor do two runs, nor a force's abandon.
OneAttempt ==
    /\ \A r \in Runs : run[r].pc \in RunHolds =>
          /\ \A o \in Runs \ {r} : run[o].gate = run[r].gate => run[o].pc \notin RunHolds
          /\ con.gate = run[r].gate => con.pc \notin ConHolds
          /\ force.gate = run[r].gate => force.pc # "abandon"
    /\ con.pc \in ConHolds /\ con.gate = force.gate => force.pc # "abandon"

\* reconnect/instance.rs: a live link is taken for dropped only on a report that
\* names no session; a replaced session's late report never costs its successor.
LiveLinkKept ==
    [][link = "Up" /\ link' = "Reconnecting" /\ sdk = instance
          => Unnamed \in reports \ reports' \/ force.pc = "restart"]_vars

-----------------------------------------------------------------------------
(* What comments of the code say and the code does not keep.  TLC refutes  *)
(* each; README, "Known gaps", gives the bounds and the counterexamples.   *)

\* reconnect/mod.rs: an older run, asleep between attempts, stops at its next
\* check instead of attempting beside the run the session's generation names.
WantedRunIsOwn ==
    [][\A r \in Runs : run[r].pc = "gate" /\ run'[r].pc = "attempt" => run[r].own = life]_vars

\* responses/disconnect.rs: an unrequested drop keeps the session and reconnects
\* it, so an Up link whose SDK session is gone has its report still to come.
UpLinkNoticed ==
    link = "Up" /\ sdk # instance =>
        (\E q \in reports : q.inst \in {0, instance}) \/ force.pc = "restart"

\* reconnect/policy.rs: a claim must not read a reconnecting session's absence
\* from the SDK as its death and remove it.
ClaimSparesReconnect ==
    [][claim = "remove" /\ claim' = "idle" => link # "Reconnecting"]_vars

\* supervisor/adapters/server_link.rs: with the attempt lock held, the link
\* checked is the one abandoned.
AbandonsTheProbedLink ==
    [][force.pc = "abandon" /\ force'.pc = "restart" => sdk = force.probed]_vars

\* A reconnect always ends: installed, given up, taken over or ended by its user.
ReconnectSettles ==
    link = "Reconnecting" ~> link # "Reconnecting" \/ stranded # 0
=============================================================================
