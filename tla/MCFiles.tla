------------------------------ MODULE MCFiles ------------------------------
(* TLC instance of the file components.  They share the session's entry but *)
(* no step of one reads the other's state, so each behaviour runs one.      *)
EXTENDS Sends, FileNames

CONSTANTS u1, w1, w2, t1, f1, f2
CONSTANTS Windows, Transfers, Paths, MaxPicked, MaxPicks

VARIABLES part, account, attached, offer, snapshot, told, deletion, remote_file, ack,
          picked, picks, sent

O == INSTANCE Offers

offersVars == <<account, attached, offer, snapshot, told, deletion, remote_file, ack,
                picked, picks, sent>>

FilesInit ==
    /\ part \in {"sends", "offers"}
    /\ Init
    /\ O!Init
    /\ part = "sends" => attached = {}

SendsStep == part = "sends" /\ Next /\ UNCHANGED <<part, offersVars>>
OffersStep == part = "offers" /\ O!Next /\ UNCHANGED <<part, vars>>

FilesSpec ==
    /\ FilesInit
    /\ [][SendsStep \/ OffersStep]_<<part, vars, offersVars>>
    /\ \A d \in Dirs : WF_vars(Writer(d)) /\ WF_vars(Cleaner(d)) /\ WF_vars(Ages(d))

\* An offer is kept only when a window was told of it (Offers).
KeptOfferWasTold == O!KeptOfferWasTold
=============================================================================
