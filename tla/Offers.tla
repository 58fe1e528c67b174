------------------------------ MODULE Offers -------------------------------
(* Transfers a session is offered and what it may name: the offer of a peer *)
(* or the server and its answer (RespondFileTransfer), the deletion of a    *)
(* remote file (DeleteVirtualFile), the files picked on this machine        *)
(* (PickFile) and sent by path or by reference (SendFile).                  *)
EXTENDS Naturals, Sequences, SequencesExt, FiniteSets

CONSTANTS
    Windows,
    Transfers,     \* offers made
    Paths,
    MaxPicked,     \* MAX_PICKED_FILES
    MaxPicks

VARIABLES
    account,   \* the account's entry: absent, without the peer, with it
    attached,  \* windows of the session; all of them connected
    offer,     \* each transfer: where its handle is
    snapshot,  \* the windows a delivery found attached
    told,      \* windows that showed the offer
    deletion, remote_file, ack,
    picked, picks, sent

vars == <<account, attached, offer, snapshot, told, deletion, remote_file, ack, picked,
          picks, sent>>

Init ==
    /\ account = "peer"
    /\ attached \in SUBSET Windows
    /\ offer = [t \in Transfers |-> "none"]
    /\ snapshot = [t \in Transfers |-> {}]
    /\ told = [t \in Transfers |-> {}]
    /\ deletion = "none"
    /\ remote_file = TRUE
    /\ ack = "none"
    /\ picked = <<>>
    /\ picks = 0
    /\ sent = {}

fileVars == <<deletion, remote_file, ack, picked, picks, sent>>

-----------------------------------------------------------------------------
(* The offer. *)

\* add_object_transfer_handler: a handle is kept with the peer it came from.  The
\* server's handles carry a source that is no peer, and are not kept.
kept(from) == account = "peer" /\ from = "peer"

\* A storage push is accepted at once, a transfer is kept for an answer and the
\* windows attached at that moment are to be told.
ReceiverHandle(t, from, storage) ==
    /\ offer[t] = "none"
    /\ IF account = "none"
       THEN /\ offer' = [offer EXCEPT ![t] = "dropped"]
            /\ UNCHANGED snapshot
       ELSE IF storage
       THEN /\ \E answer \in {"accepted", "dropped"} : offer' = [offer EXCEPT ![t] = answer]
            /\ UNCHANGED snapshot
       ELSE /\ offer' = [offer EXCEPT ![t] = IF kept(from) THEN "telling" ELSE "tellingGone"]
            /\ snapshot' = [snapshot EXCEPT ![t] = attached]
    /\ UNCHANGED <<account, attached, told, fileVars>>

\* take_file_transfer_handle finds it
takeable(t) == offer[t] \in {"telling", "held"}

\* deliver_offer_to_localhost_client, and the reclaim when nobody could be told.
DeliverUnchecked(t) ==
    /\ offer[t] \in {"telling", "tellingGone"}
    /\ told' = [told EXCEPT ![t] = snapshot[t] \cap attached]
    /\ offer' = [offer EXCEPT ![t] = IF offer[t] = "tellingGone" THEN "dropped" ELSE "held"]
    /\ snapshot' = [snapshot EXCEPT ![t] = {}]
    /\ UNCHANGED <<account, attached, fileVars>>

Deliver(t) ==
    /\ offer[t] \in {"telling", "tellingGone"}
    /\ LET live == snapshot[t] \cap attached
       IN /\ told' = [told EXCEPT ![t] = live]
          /\ offer' = [offer EXCEPT ![t] = IF offer[t] = "tellingGone" THEN "dropped"
                                           ELSE IF live = {} THEN "declined" ELSE "held"]
    /\ snapshot' = [snapshot EXCEPT ![t] = {}]
    /\ UNCHANGED <<account, attached, fileVars>>

\* RespondFileTransfer from a window that shows the offer; accept or decline may
\* itself fail, and the handle is gone all the same.
Respond(t, w) ==
    /\ w \in told[t]
    /\ account # "none" /\ takeable(t)
    /\ \E answer \in {"accepted", "declined", "dropped"} : offer' = [offer EXCEPT ![t] = answer]
    /\ UNCHANGED <<account, attached, snapshot, told, fileVars>>

Attach(w) ==
    /\ account # "none"
    /\ w \notin attached
    /\ attached' = attached \cup {w}
    /\ UNCHANGED <<account, offer, snapshot, told, fileVars>>

WindowCloses(w) ==
    /\ w \in attached
    /\ attached' = attached \ {w}
    /\ told' = [t \in Transfers |-> told[t] \ {w}]
    /\ UNCHANGED <<account, offer, snapshot, fileVars>>

\* Handles are dropped with their peer, and with the session.
SessionShrinks(s) ==
    /\ <<account, s>> \in {<<"peer", "server">>, <<"peer", "none">>, <<"server", "none">>}
    /\ account' = s
    /\ offer' = [t \in Transfers |-> CASE offer[t] = "held" -> "dropped"
                                       [] offer[t] = "telling" -> "tellingGone"
                                       [] OTHER -> offer[t]]
    /\ picked' = IF s = "none" THEN <<>> ELSE picked
    /\ UNCHANGED <<attached, snapshot, told, deletion, remote_file, ack, picks, sent>>

-----------------------------------------------------------------------------
(* DeleteVirtualFile: the answer waits for the remote's acknowledgement. *)

offerVars == <<account, attached, offer, snapshot, told, picked, picks, sent>>

Delete ==
    /\ account # "none"
    /\ deletion = "none"
    /\ deletion' = "waiting"
    /\ UNCHANGED <<offerVars, remote_file, ack>>

RemoteDeletes ==
    /\ deletion # "none" /\ ack = "none"
    /\ \/ remote_file' = FALSE /\ ack' = "ok"
       \/ remote_file' = remote_file /\ ack' = "error"
    /\ UNCHANGED <<offerVars, deletion>>

\* DeleteOutcome; the wait ends without an acknowledgement at DELETE_WAIT or when
\* the subscription ends.
await_delete_outcome ==
    /\ deletion = "waiting"
    /\ deletion' \in (CASE ack = "ok" -> {"Deleted"}
                        [] ack = "error" -> {"Rejected"}
                        [] OTHER -> {}) \cup {"Ended", "TimedOut"}
    /\ UNCHANGED <<offerVars, remote_file, ack>>

-----------------------------------------------------------------------------
(* Picked files. *)

pickVars == <<account, attached, offer, snapshot, told, deletion, remote_file, ack>>

live(list) == SelectSeq(list, LAMBDA e : ~e.old)

\* The expired go, then the oldest past the cap.
store(list, e) ==
    LET kept_ == Append(live(list), e)
    IN IF Len(kept_) > MaxPicked THEN Tail(kept_) ELSE kept_

was_picked(list, path) == \E i \in DOMAIN list : list[i].path = path /\ ~list[i].old

\* PickFile, or a pull that completed: a path this session may name.
PickFile(path) ==
    /\ account # "none" /\ picks < MaxPicks
    /\ picks' = picks + 1
    /\ picked' = store(picked, [id |-> picks + 1, path |-> path, old |-> FALSE])
    /\ UNCHANGED <<pickVars, sent>>

\* PICKED_FILE_TTL
PickExpires ==
    /\ \E n \in DOMAIN picked :
         /\ ~picked[n].old
         /\ picked' = [i \in DOMAIN picked |-> [picked[i] EXCEPT !.old = @ \/ i <= n]]
    /\ UNCHANGED <<pickVars, picks, sent>>

\* SendFile with Path or PickFileRef; the record stays for another send.
SendPicked(path) ==
    /\ account # "none"
    /\ was_picked(picked, path)
    /\ sent' = sent \cup {path}
    /\ UNCHANGED <<pickVars, picked, picks>>

-----------------------------------------------------------------------------
Next ==
    \/ \E t \in Transfers :
         \/ \E from \in {"peer", "server"}, storage \in BOOLEAN : ReceiverHandle(t, from, storage)
         \/ Deliver(t)
         \/ \E w \in Windows : Respond(t, w)
    \/ \E w \in Windows : Attach(w) \/ WindowCloses(w)
    \/ \E s \in {"none", "server"} : SessionShrinks(s)
    \/ Delete \/ RemoteDeletes \/ await_delete_outcome
    \/ \E path \in Paths : PickFile(path) \/ SendPicked(path)
    \/ PickExpires

Spec == Init /\ [][Next]_vars

-----------------------------------------------------------------------------
(* Properties. *)

\* An offer is kept only while somebody was told of it or is about to be: what no
\* window could show is declined, so its sender is not left waiting.  (Windows
\* that showed it may close; the offer then stays open.)
KeptOfferWasTold ==
    [][\A t \in Transfers : offer'[t] = "held" /\ offer[t] # "held" => told'[t] # {}]_vars

\* A window that shows an offer can answer it.  Not so for the server's offers,
\* nor when the peer left between the handle and the delivery.
ToldCanAnswer == \A t \in Transfers : told[t] # {} => offer[t] # "dropped"
=============================================================================
