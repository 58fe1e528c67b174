-------------------------------- MODULE Gate --------------------------------
(* handle_request's gate: which requests of a connection reach their handler,*)
(* and which of those refused are answered.  Pure: the facts it reads are in *)
(* env.                                                                      *)
EXTENDS Naturals, Sequences, FiniteSets

\* The request variants, in the order of the enumeration.
TransferRequests ==
    {"Message", "Disconnect", "MediaOpen", "MediaSend", "MediaClose", "Deregister", "SendFile",
     "StageUploadChunk", "ReadPulledFileChunk", "RespondFileTransfer", "DownloadFile",
     "DeleteVirtualFile", "PickFile"}
PeerRequests ==
    {"ListAllPeers", "ListRegisteredPeers", "PeerConnect", "PeerDisconnect", "PeerConnectAccept",
     "PeerRegister", "PeerRegisterRespond"}
StoreRequests ==
    {"LocalDBGetKV", "LocalDBSetKV", "LocalDBDeleteKV", "LocalDBGetAllKV", "LocalDBClearAllKV"}
GroupRequests ==
    {"GroupCreate", "GroupCreateAppTopic", "GroupLeave", "GroupEnd", "GroupMessage", "GroupInvite",
     "GroupRespondRequest", "GroupKick", "GroupListGroupsFor", "GroupListJoined", "GroupRequestJoin"}
ConversationRequests ==
    {"ConversationSend", "ConversationResend", "ConversationEdit", "ConversationDelete",
     "ConversationReact", "ConversationMarkRead", "ConversationRecord", "ConversationPatch",
     "ConversationClear", "ConversationList", "ConversationPage", "SetAccountPreferences",
     "GetAccountPreferences"}
AppRequests ==
    {"AppsGetAgentSettings", "AppsSetAgentSettings", "AppFetch", "AppFetchCredit", "AppFetchCancel",
     "GetAppNetUsage", "AppKv", "IhttpSend"}
SessionlessRequests ==
    {"Connect", "Register", "Batched", "ConnectionManagement", "GetSessions",
     "GetAccountInformation", "NoticeSubscribe", "NoticeSetMuted", "UpdateGetStatus",
     "UpdateCheckNow", "UpdateApply", "UpdateSetSettings", "UpdateInstallResult",
     "SecurityKeyAnswer", "SecurityKeyDecline"}
InternalServiceRequest ==
    UNION {TransferRequests, PeerRequests, StoreRequests, GroupRequests, ConversationRequests,
           AppRequests, SessionlessRequests, {"SendReliable", "SignInManagement", "BrowserConsole"}}

\* A key is an app's or the agent's own record, one of ILM's with the session it
\* names, a conversation page of an account, or ordinary.
Keys == [of : {"reserved", "ordinary"}] \cup [of : {"ilm", "conversation"}, cid : 0 .. 2]

session_cid(r) == IF r.kind \in SessionlessRequests THEN {} ELSE {r.cid}

is_request(r) == r.kind \in ConversationRequests
requires_owned_session(r) ==
    \/ r.kind \in StoreRequests \cup AppRequests \cup {"ReadPulledFileChunk", "BrowserConsole", "Deregister"}
    \/ is_request(r)

is_ilm_key_for(key, cid) == key.of = "ilm" /\ key.cid = cid
is_exempt_from_ownership_gate(r) == r.kind = "LocalDBGetKV" /\ is_ilm_key_for(r.key, r.cid)

\* attached: <<>> for a session not in the map, else <<is the caller attached>>.
gate_decision(r, attached) ==
    \/ 0 \in session_cid(r)
    \/ attached = <<TRUE>>
    \/ attached = <<>> /\ ~requires_owned_session(r)

\* A recovery session: sign out, or the management the SDK allows in one.
allows(r) == r.kind = "Disconnect" \/ (r.kind = "SignInManagement" /\ r.in_recovery)

smuggles_internal_http(r) == r.kind \in {"Message", "SendReliable"} /\ r.envelope

reserved_key(key) == key.of = "reserved"
names_reserved_key(r) == r.kind \in {"LocalDBGetKV", "LocalDBSetKV", "LocalDBDeleteKV"} /\ reserved_key(r.key)
hide_reserved_keys(stored) == {key \in stored : ~reserved_key(key)}
keys_a_window_clears(stored) == {key \in stored : ~reserved_key(key)}

conversation_owner(key) == IF key.of = "conversation" THEN {key.cid} ELSE {}
writes_hosted_conversation(r, hosted) ==
    /\ r.kind \in {"LocalDBSetKV", "LocalDBDeleteKV"} /\ r.cid = 0
    /\ conversation_owner(r.key) \cap hosted # {}

\* Which refusals are told to the caller: those with a failure of their own.
SilentRequests ==
    {"BrowserConsole", "AppFetchCredit", "AppFetchCancel", "GroupListGroupsFor", "MediaOpen",
     "MediaClose", "MediaSend", "RespondFileTransfer", "PeerRegisterRespond"}
AnsweredAfterPeers ==
    {"PickFile", "SendFile", "StageUploadChunk", "ReadPulledFileChunk", "Message", "SendReliable",
     "PeerConnectAccept", "LocalDBGetKV", "SignInManagement", "GroupListJoined"}
        \cup (AppRequests \ SilentRequests)
refusal_response(r) ==
    IF \/ is_request(r)
       \/ r.kind \in {"Disconnect", "Deregister", "DeleteVirtualFile", "DownloadFile"}
       \/ r.kind \in (StoreRequests \cup GroupRequests \cup PeerRequests) \ SilentRequests
       \/ r.kind \in AnsweredAfterPeers
    THEN "refused"
    ELSE "silent"

\* Every variant has its handler; the other modules are about them.
dispatch(r) == IF r.kind \in InternalServiceRequest THEN "dispatched" ELSE "silent"

handle_request(r, env) ==
    IF \/ \E cid \in session_cid(r) :
             ~gate_decision(r, env.attached[cid]) \/ (cid \in env.recovery /\ ~allows(r))
       \/ smuggles_internal_http(r)
       \/ names_reserved_key(r)
       \/ writes_hosted_conversation(r, env.hosted)
    THEN refusal_response(r)
    ELSE dispatch(r)

\* Each command of a batch is gated for the same connection; the answers keep
\* the commands' order, those without one left out.
Batched(commands, env) ==
    SelectSeq([i \in DOMAIN commands |-> handle_request(commands[i], env)], LAMBDA o : o # "silent")

-----------------------------------------------------------------------------
(* Every request over small facts *)

\* The key, the operation and the envelope only where the variant has one.
Requests ==
    {r \in [kind : InternalServiceRequest, cid : 0 .. 2, key : Keys, in_recovery : BOOLEAN, envelope : BOOLEAN] :
        /\ r.kind \notin StoreRequests => r.key = [of |-> "ordinary"]
        /\ r.in_recovery => r.kind = "SignInManagement"
        /\ r.envelope => r.kind \in {"Message", "SendReliable"}}

Envs ==
    {e \in [attached : [0 .. 2 -> {<<>>, <<TRUE>>, <<FALSE>>}], recovery : SUBSET {1, 2}, hosted : {{}, {1}}] :
        e.attached[0] = <<>>}

\* A request for a session the caller is not attached to reaches no handler,
\* and one that reads or writes an account's store needs that attachment even
\* where nobody has the session (requests/mod.rs, the ownership gate).
ASSUME OnlyTheAttached ==
    \A r \in Requests, e \in Envs :
        handle_request(r, e) = "dispatched" /\ r.kind \notin SessionlessRequests /\ r.cid # 0 =>
            /\ e.attached[r.cid] # <<FALSE>>
            /\ requires_owned_session(r) => e.attached[r.cid] = <<TRUE>>

\* Knowing one of ILM's keys opens nothing: the exemption was narrowed away.
ASSUME NoKeyOpensASession ==
    \A r \in Requests, e \in Envs :
        is_exempt_from_ownership_gate(r) /\ r.cid # 0 /\ e.attached[r.cid] # <<TRUE>>
            => handle_request(r, e) # "dispatched"

\* No window names an app's record or the agent's settings, whichever session
\* and whether or not it is attached.
ASSUME ReservedStaysReserved ==
    /\ \A r \in Requests, e \in Envs : names_reserved_key(r) => handle_request(r, e) # "dispatched"
    /\ \A stored \in {S \in SUBSET Keys : Cardinality(S) <= 3} :
          \A key \in hide_reserved_keys(stored) \cup keys_a_window_clears(stored) : ~reserved_key(key)

\* A recovery session's windows only sign out or manage its sign-in.
ASSUME RecoveryOnly ==
    \A r \in Requests, e \in Envs :
        handle_request(r, e) = "dispatched" /\ r.kind \notin SessionlessRequests /\ r.cid \in e.recovery =>
            r.kind \in {"Disconnect", "SignInManagement"}

\* Every gated variant is answered when it is refused, but for the ones named.
ASSUME RefusalsAreTold ==
    \A r \in Requests :
        refusal_response(r) = "silent" <=> r.kind \in SilentRequests \cup SessionlessRequests

\* Not assumed, because it does not hold: clearing cid 0's records also clears
\* the conversation pages of the accounts the agent hosts (see the README).
HostedConversationsGuarded ==
    \A r \in Requests, e \in Envs :
        handle_request(r, e) = "dispatched" /\ r.cid = 0 /\ r.kind \in {"LocalDBSetKV", "LocalDBDeleteKV", "LocalDBClearAllKV"} =>
            LET touched == IF r.kind = "LocalDBClearAllKV" THEN keys_a_window_clears(Keys) ELSE {r.key}
            IN  \A key \in touched : conversation_owner(key) \cap e.hosted = {}
=============================================================================
