------------------------------ MODULE Mailbox ------------------------------
(* What the messenger promises an account's ILM, whatever order a           *)
(* multiplex, a drop and an arrival happen in: every frame addressed to the *)
(* account is kept, and is read at most once; frames are given up only when *)
(* a handle of the account closes.                                          *)
EXTENDS Naturals

CONSTANTS Cids, Handles, Frames

VARIABLES box,     \* cid -> frames kept for the account and not read yet
          read,    \* cid -> frames its ILM has read
          open     \* handle -> the account it serves, or no account

vars == <<box, read, open>>

NoCid == "no account"

Init ==
    /\ box = [c \in Cids |-> {}]
    /\ read = [c \in Cids |-> {}]
    /\ open = [h \in Handles |-> NoCid]

Arrive(c, f) ==
    /\ \A d \in Cids : f \notin box[d] \cup read[d]
    /\ box' = [box EXCEPT ![c] = @ \cup {f}]
    /\ UNCHANGED <<read, open>>

Read(c, f) ==
    /\ f \in box[c]
    /\ \E h \in Handles : open[h] = c
    /\ box' = [box EXCEPT ![c] = @ \ {f}]
    /\ read' = [read EXCEPT ![c] = @ \cup {f}]
    /\ UNCHANGED open

Open(h, c) ==
    /\ open[h] = NoCid
    /\ open' = [open EXCEPT ![h] = c]
    /\ UNCHANGED <<box, read>>

\* What the closing handle had been given goes with it.
Close(h) ==
    /\ open[h] # NoCid
    /\ open' = [open EXCEPT ![h] = NoCid]
    /\ \E S \in SUBSET box[open[h]] : box' = [box EXCEPT ![open[h]] = @ \ S]
    /\ UNCHANGED read

Next ==
    \/ \E c \in Cids, f \in Frames : Arrive(c, f) \/ Read(c, f)
    \/ \E h \in Handles : Close(h) \/ \E c \in Cids : Open(h, c)

Spec == Init /\ [][Next]_vars
=============================================================================
