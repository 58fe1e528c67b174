------------------------------- MODULE Sends -------------------------------
(* A file from the browser on its way to the SDK.  Its bytes are written to *)
(* a request directory under the browser-transfer root, in one request      *)
(* (ByteContents) or chunk by chunk (StageUploadChunk), count against the   *)
(* root's cap while they are there, and leave when the transfer ends, when  *)
(* the directory is too old, or at a restart.                               *)
EXTENDS Integers, FiniteSets, Functions

CONSTANTS
    Ids,           \* upload ids of the page
    MaxDirs,       \* request directories made
    Cap,           \* MAX_BROWSER_TRANSFER_TOTAL_BYTES, and MAX_STAGED_UPLOAD_BYTES
    MaxBytes,      \* MAX_BYTE_CONTENTS_BYTES
    MaxChunk,      \* MAX_STAGE_CHUNK_BYTES
    MaxCrashes,
    FreshIds,      \* the page never stages two files under one id
    None

ASSUME SendBounds ==
    /\ {MaxDirs, MaxCrashes} \subseteq Nat
    /\ {Cap, MaxBytes, MaxChunk} \subseteq Nat \ {0}
    /\ FreshIds \in BOOLEAN
    /\ IsFiniteSet(Ids)
    /\ None \notin [dir : 1 .. MaxDirs, total : Nat, received : Nat, writing : BOOLEAN, rest : Nat]

VARIABLES
    session,    \* the account's entry: absent, without the peer, with it
    in_flight,  \* BrowserTransferRoot.in_flight
    dir,        \* each request directory and the task that fills or sends it
    uploads,    \* staged_uploads of the session
    append,     \* the chunk being written to a staged file
    correlated, \* send_correlations: the sends whose handle has not come
    removing,   \* remove_request_dir_soon
    crashes, used

vars == <<session, in_flight, dir, uploads, append, correlated, removing, crashes, used>>

Dirs == 1 .. MaxDirs
Chunks == 1 .. MaxChunk

MAX_BYTE_CONTENTS_BYTES == MaxBytes
MAX_BROWSER_TRANSFER_TOTAL_BYTES == Cap
MAX_STAGED_UPLOAD_BYTES == MAX_BROWSER_TRANSFER_TOTAL_BYTES

-----------------------------------------------------------------------------
(* State of one directory. *)

\* at:   where its task is; "staged" while the table owns it
\* held: what is left of its task's reservation
\* seen: in_flight before that reservation
\* sdk:  the SDK's side of the transfer
NoDir ==
    [at |-> "none", staged |-> FALSE, id |-> None, size |-> 0, len |-> 0, disk |-> 0,
     held |-> 0, seen |-> 0, to_peer |-> FALSE, sdk |-> "none", watched |-> FALSE,
     timer |-> FALSE, old |-> FALSE, orphan |-> FALSE]

StagedUpload(d, total, received, rest) ==
    [dir |-> d, total |-> total, received |-> received, writing |-> FALSE, rest |-> rest]

Init ==
    /\ session = "peer"
    /\ in_flight = 0
    /\ dir = [d \in Dirs |-> NoDir]
    /\ uploads = [i \in Ids |-> None]
    /\ append = [d \in Dirs |-> 0]
    /\ correlated = {}
    /\ removing = {}
    /\ crashes = 0
    /\ used = {}

\* browser_transfer_root_bytes
root_bytes == SumFunction([d \in Dirs |-> dir[d].disk])

\* The reservation is added before the disk is measured, so a later racer sees
\* either its bytes in flight or its bytes on disk.
fits_uncounted(d) == root_bytes + dir[d].size <= MAX_BROWSER_TRANSFER_TOTAL_BYTES
fits(d) == root_bytes + dir[d].seen + dir[d].size <= MAX_BROWSER_TRANSFER_TOTAL_BYTES

\* A reservation dropped whole.
Release(d) == in_flight' = in_flight - dir[d].held

Reachable(to_peer) == IF to_peer THEN session = "peer" ELSE session # "none"

\* A directory not used before, with a task at its start.
Fresh(d, task) ==
    /\ dir[d].at = "none"
    /\ \A e \in Dirs : dir[e].at = "none" => d <= e
    /\ dir' = [dir EXCEPT ![d] = task]

-----------------------------------------------------------------------------
(* SendFile with ByteContents. *)

\* Session, peer and size are checked before any disk I/O.
early_check(to_peer) == Reachable(to_peer)

SendBytes(d) ==
    \E n \in 1 .. MAX_BYTE_CONTENTS_BYTES, to_peer \in BOOLEAN :
        /\ early_check(to_peer)
        /\ Fresh(d, [NoDir EXCEPT !.at = "root", !.size = n, !.len = n, !.to_peer = to_peer])
        /\ UNCHANGED <<session, in_flight, uploads, append, correlated, removing, crashes, used>>

(* StageUploadChunk. *)

\* plan_chunk; "Refuse" is every refusal.
plan_chunk(existing, offset, len, total) ==
    IF \/ total = 0 \/ total > MAX_STAGED_UPLOAD_BYTES
       \/ len = 0 \/ len > MaxChunk \/ offset + len > total
    THEN "Refuse"
    ELSE IF existing = None THEN IF offset = 0 THEN "Start" ELSE "Refuse"
    ELSE IF existing.total # total \/ existing.writing \/ offset # existing.received
         THEN "Refuse" ELSE "Append"

\* What prune takes out of the table at the start of every stage call: the
\* uploads that are too old, their reservations returned.
stale == {i \in Ids : uploads[i] # None /\ dir[uploads[i].dir].old}
pruned == [i \in Ids |-> IF i \in stale THEN None ELSE uploads[i]]
Rest(table) == SumFunction([i \in Ids |-> IF table[i] = None THEN 0 ELSE table[i].rest])
Prune == in_flight' = in_flight - (Rest(uploads) - Rest(pruned))
prunedDirs == {uploads[i].dir : i \in stale}

StageStart(d, i) ==
    \E total \in 1 .. Cap, len \in Chunks :
        /\ session # "none"
        /\ FreshIds => i \notin used
        /\ plan_chunk(pruned[i], 0, len, total) = "Start"
        /\ Fresh(d, [NoDir EXCEPT !.at = "root", !.staged = TRUE, !.id = i,
                                  !.size = total, !.len = len])
        /\ uploads' = pruned
        /\ Prune
        /\ removing' = removing \cup prunedDirs
        /\ used' = used \cup {i}
        /\ UNCHANGED <<session, append, correlated, crashes>>

StageAppend(i) ==
    /\ session # "none"
    /\ pruned[i] # None
    /\ \E len \in Chunks :
         /\ plan_chunk(pruned[i], pruned[i].received, len, pruned[i].total) = "Append"
         /\ uploads' = [pruned EXCEPT ![i].writing = TRUE]
         /\ append' = [append EXCEPT ![pruned[i].dir] = len]
    /\ Prune
    /\ removing' = removing \cup prunedDirs
    /\ UNCHANGED <<session, dir, correlated, crashes, used>>

\* Any chunk the table refuses still prunes.
StageRefused ==
    /\ session # "none"
    /\ stale # {}
    /\ uploads' = pruned
    /\ Prune
    /\ removing' = removing \cup prunedDirs
    /\ UNCHANGED <<session, dir, append, correlated, crashes, used>>

-----------------------------------------------------------------------------
(* The blocking write shared by both: materialize_byte_contents and start.   *)

\* ensure_private_root refused the root: nothing reserved, nothing written.
RootRefused(d) ==
    /\ dir[d].at = "root"
    /\ dir' = [dir EXCEPT ![d].at = "over", ![d].timer = TRUE]
    /\ removing' = IF dir[d].staged THEN removing \cup {d} ELSE removing
    /\ UNCHANGED <<session, in_flight, uploads, append, correlated, crashes, used>>

Reserve(d) ==
    /\ dir[d].at = "root"
    /\ in_flight' = in_flight + dir[d].size
    /\ dir' = [dir EXCEPT ![d].at = "reserved", ![d].held = dir[d].size, ![d].seen = in_flight]
    /\ UNCHANGED <<session, uploads, append, correlated, removing, crashes, used>>

\* The measure and the verdict; a refused request drops its reservation.
Measure(d) ==
    /\ dir[d].at = "reserved"
    /\ IF fits(d)
       THEN /\ dir' = [dir EXCEPT ![d].at = "fits", ![d].seen = 0]
            /\ UNCHANGED <<in_flight, removing>>
       ELSE /\ dir' = [dir EXCEPT ![d].at = "over", ![d].held = 0, ![d].seen = 0,
                               ![d].timer = TRUE]
            /\ Release(d)
            /\ removing' = IF dir[d].staged THEN removing \cup {d} ELSE removing
    /\ UNCHANGED <<session, uploads, append, correlated, crashes, used>>

WritePayload(d) ==
    /\ dir[d].at = "fits"
    /\ dir' = [dir EXCEPT ![d].at = "written", ![d].disk = dir[d].len]
    /\ UNCHANGED <<session, in_flight, uploads, append, correlated, removing, crashes, used>>

\* Creating the directory or the file failed, possibly half way.
WriteFails(d) ==
    /\ dir[d].at = "fits"
    /\ \E left \in 0 .. dir[d].len :
         dir' = [dir EXCEPT ![d].at = "over", ![d].disk = left, ![d].held = 0,
                            ![d].timer = TRUE]
    /\ Release(d)
    /\ removing' = IF dir[d].staged THEN removing \cup {d} ELSE removing
    /\ UNCHANGED <<session, uploads, append, correlated, crashes, used>>

\* InFlightReservation drops: the bytes are on disk.
BytesReadyUntimed(d) ==
    /\ dir[d].at = "written" /\ ~dir[d].staged
    /\ Release(d)
    /\ dir' = [dir EXCEPT ![d].at = "resolved", ![d].held = 0]
    /\ UNCHANGED <<session, uploads, append, correlated, removing, crashes, used>>

BytesReady(d) ==
    /\ dir[d].at = "written" /\ ~dir[d].staged
    /\ Release(d)
    /\ dir' = [dir EXCEPT ![d].at = "resolved", ![d].held = 0, ![d].timer = TRUE]
    /\ UNCHANGED <<session, uploads, append, correlated, removing, crashes, used>>

\* Reservation::landed
landed(held, len) == IF len <= held THEN held - len ELSE 0

\* The first chunk's entry goes in, unless the session is gone or the id taken;
\* then the upload, its reservation with it, is dropped.
StageReady(d) ==
    /\ dir[d].at = "written" /\ dir[d].staged
    /\ LET i == dir[d].id
           rest == landed(dir[d].held, dir[d].len)
       IN IF session # "none" /\ uploads[i] = None
          THEN /\ uploads' = [uploads EXCEPT ![i] =
                                StagedUpload(d, dir[d].size, dir[d].len, rest)]
               /\ in_flight' = in_flight - (dir[d].held - rest)
               /\ dir' = [dir EXCEPT ![d].at = "staged", ![d].held = 0, ![d].timer = TRUE]
               /\ UNCHANGED removing
          ELSE /\ Release(d)
               /\ dir' = [dir EXCEPT ![d].at = "over", ![d].held = 0, ![d].timer = TRUE]
               /\ removing' = removing \cup {d}
               /\ UNCHANGED uploads
    /\ UNCHANGED <<session, append, correlated, crashes, used>>

-----------------------------------------------------------------------------
(* A later chunk: written, then settled in the table. *)

Abandon(i) ==
    /\ uploads' = [uploads EXCEPT ![i] = None]
    /\ in_flight' = in_flight - uploads[i].rest
    /\ removing' = removing \cup {uploads[i].dir}

\* The bytes land, or only some: the file is gone or the disk is full, and the
\* copy is dropped whole.
AppendLands(d) ==
    /\ append[d] > 0
    /\ LET i == dir[d].id
           len == append[d]
       IN \E written \in 0 .. len :
            /\ written > 0 => dir[d].disk > 0
            /\ dir' = [dir EXCEPT ![d].disk = @ + written]
            /\ append' = [append EXCEPT ![d] = IF written = len THEN 0 - len ELSE 0]
            /\ IF written < len /\ session # "none" /\ uploads[i] # None
               THEN Abandon(i)
               ELSE UNCHANGED <<uploads, in_flight, removing>>
    /\ UNCHANGED <<session, correlated, crashes, used>>

\* The table entry of the id is the one that is credited.
Credit(i, len) ==
    LET rest == landed(uploads[i].rest, len)
    IN /\ uploads' = [uploads EXCEPT ![i].writing = FALSE, ![i].received = @ + len, ![i].rest = rest]
       /\ in_flight' = in_flight - (uploads[i].rest - rest)

AppendSettles(d) ==
    /\ append[d] < 0
    /\ append' = [append EXCEPT ![d] = 0]
    /\ IF session # "none" /\ uploads[dir[d].id] # None
       THEN Credit(dir[d].id, 0 - append[d])
       ELSE UNCHANGED <<uploads, in_flight>>
    /\ UNCHANGED <<session, dir, correlated, removing, crashes, used>>

-----------------------------------------------------------------------------
(* SendFile, from the resolved path on. *)

take_whatever(u) == u # None /\ ~u.writing
take_complete(u) == u # None /\ ~u.writing /\ u.received >= u.total

\* SendFile with StagedUpload: the upload leaves the table.
SendStaged(i) ==
    /\ take_complete(uploads[i])
    /\ \E to_peer \in BOOLEAN :
         /\ early_check(to_peer)
         /\ dir' = [dir EXCEPT ![uploads[i].dir].at = "resolved",
                               ![uploads[i].dir].to_peer = to_peer]
    /\ uploads' = [uploads EXCEPT ![i] = None]
    /\ in_flight' = in_flight - uploads[i].rest
    /\ UNCHANGED <<session, append, correlated, removing, crashes, used>>

\* The request is built under a lock of its own: the session or the peer may
\* have gone since the early check.
Build(d) ==
    /\ dir[d].at = "resolved"
    /\ LET ok == Reachable(dir[d].to_peer)
       IN /\ dir' = [dir EXCEPT ![d].at = IF ok THEN "built" ELSE "over"]
          /\ removing' = IF ok THEN removing ELSE removing \cup {d}
    /\ UNCHANGED <<session, in_flight, uploads, append, correlated, crashes, used>>

\* send_callback_subscription: the correlation is registered on the entry there
\* is, and a task waits for the first event.
Ask(d) ==
    /\ dir[d].at = "built"
    /\ dir' = [dir EXCEPT ![d].at = "sent", ![d].sdk = "asked", ![d].watched = TRUE]
    /\ correlated' = IF session # "none" THEN correlated \cup {d} ELSE correlated
    /\ UNCHANGED <<session, in_flight, uploads, append, removing, crashes, used>>

AskFails(d) ==
    /\ dir[d].at = "built"
    /\ dir' = [dir EXCEPT ![d].at = "over"]
    /\ removing' = removing \cup {d}
    /\ UNCHANGED <<session, in_flight, uploads, append, correlated, crashes, used>>

\* FIRST_EVENT_TIMEOUT
WatchTimesOut(d) ==
    /\ dir[d].watched /\ dir[d].sdk = "asked"
    /\ dir' = [dir EXCEPT ![d].watched = FALSE]
    /\ UNCHANGED <<session, in_flight, uploads, append, correlated, removing, crashes, used>>

\* The SDK refuses.  While the task waits it takes the correlation and drops the
\* payload; a refusal after its timeout reaches nobody.
SdkRefuses(d) ==
    /\ dir[d].sdk = "asked"
    /\ dir' = [dir EXCEPT ![d].sdk = "refused", ![d].watched = FALSE]
    /\ IF dir[d].watched
       THEN /\ removing' = IF d \in correlated THEN removing \cup {d} ELSE removing
            /\ correlated' = correlated \ {d}
       ELSE UNCHANGED <<removing, correlated>>
    /\ UNCHANGED <<session, in_flight, uploads, append, crashes, used>>

\* The peer accepted: the SDK opened the payload and the Sender handle arrives,
\* through the waiting task or the kernel's catch-all.  Its ticket finds the send;
\* the tick task's on_end removes the payload.
SenderHandle(d) ==
    /\ dir[d].sdk = "asked"
    /\ dir[d].disk > 0
    /\ dir' = [dir EXCEPT ![d].sdk = IF d \in correlated THEN "open" ELSE "unowned",
                          ![d].watched = FALSE]
    /\ correlated' = correlated \ {d}
    /\ UNCHANGED <<session, in_flight, uploads, append, removing, crashes, used>>

\* TransferComplete, a failure, or the SDK dropping the stream.
StreamEnds(d) ==
    /\ dir[d].sdk \in {"open", "unowned"}
    /\ dir' = [dir EXCEPT ![d].sdk = "ended"]
    /\ removing' = IF dir[d].sdk = "open" THEN removing \cup {d} ELSE removing
    /\ UNCHANGED <<session, in_flight, uploads, append, correlated, crashes, used>>

-----------------------------------------------------------------------------
(* Removal, time, the session, the process. *)

\* remove_request_dir: an error is logged, and what it was about stays.
Left(d) == {0, dir[d].disk}

RemoveDir(d) ==
    /\ d \in removing
    /\ removing' = removing \ {d}
    /\ \E left \in Left(d) : dir' = [dir EXCEPT ![d].disk = left]
    /\ UNCHANGED <<session, in_flight, uploads, append, correlated, crashes, used>>

\* TEMP_FILE_TTL has passed since the directory was made.
Ages(d) ==
    /\ dir[d].at # "none" /\ ~dir[d].old
    /\ dir[d].timer \/ dir[d].orphan
    /\ dir' = [dir EXCEPT ![d].old = TRUE]
    /\ UNCHANGED <<session, in_flight, uploads, append, correlated, removing, crashes, used>>

\* schedule_temp_dir_cleanup: once.  What it could not remove has no timer any more.
TimerFires(d) ==
    /\ dir[d].timer /\ dir[d].old
    /\ \E left \in Left(d) :
         dir' = [dir EXCEPT ![d].timer = FALSE, ![d].disk = left, ![d].orphan = left > 0]
    /\ UNCHANGED <<session, in_flight, uploads, append, correlated, removing, crashes, used>>

\* The entry goes with its uploads, reservations and correlations; only the peer
\* goes; or the account signs in again, to an empty entry.
SessionChanges(s) ==
    /\ s # session
    /\ session' = s
    /\ IF s = "none"
       THEN /\ in_flight' = in_flight - Rest(uploads)
            /\ uploads' = [i \in Ids |-> None]
            /\ correlated' = {}
       ELSE UNCHANGED <<in_flight, uploads, correlated>>
    /\ UNCHANGED <<dir, append, removing, crashes, used>>

\* The process dies and comes back.  sweep_stale_browser_transfers removes what
\* is old, or some of it where it meets errors; what is young has no timer any more.
Crash == \E swept \in SUBSET {d \in Dirs : dir[d].old} :
    /\ crashes < MaxCrashes
    /\ crashes' = crashes + 1
    /\ session' = "none"
    /\ in_flight' = 0
    /\ uploads' = [i \in Ids |-> None]
    /\ append' = [d \in Dirs |-> 0]
    /\ correlated' = {}
    /\ removing' = {}
    /\ dir' = [d \in Dirs |->
                 IF dir[d].at = "none" THEN NoDir
                 ELSE [NoDir EXCEPT !.at = IF dir[d].at = "staged" THEN "staged" ELSE "over",
                         !.old = dir[d].old,
                         !.disk = IF d \in swept THEN 0 ELSE dir[d].disk,
                         !.orphan = d \notin swept /\ dir[d].disk > 0]]
    /\ UNCHANGED used

-----------------------------------------------------------------------------
Writer(d) ==
    \/ RootRefused(d) \/ Reserve(d) \/ Measure(d) \/ WritePayload(d) \/ WriteFails(d)
    \/ BytesReady(d) \/ StageReady(d) \/ AppendLands(d) \/ AppendSettles(d)
    \/ Build(d) \/ Ask(d) \/ AskFails(d)

Cleaner(d) == RemoveDir(d) \/ TimerFires(d)

Next ==
    \/ \E d \in Dirs : \/ SendBytes(d) \/ Writer(d) \/ Cleaner(d) \/ Ages(d)
                       \/ WatchTimesOut(d) \/ SdkRefuses(d) \/ SenderHandle(d) \/ StreamEnds(d)
                       \/ \E i \in Ids : StageStart(d, i)
    \/ \E i \in Ids : StageAppend(i) \/ SendStaged(i)
    \/ StageRefused
    \/ \E s \in {"none", "server", "peer"} : SessionChanges(s)
    \/ Crash

Spec == Init /\ [][Next]_vars

\* Spawned tasks run, clocks advance; nothing is assumed of the page, the peer,
\* the SDK or the session.
FairSpec ==
    /\ Spec
    /\ \A d \in Dirs : WF_vars(Writer(d)) /\ WF_vars(Cleaner(d)) /\ WF_vars(Ages(d))

-----------------------------------------------------------------------------
(* Properties. *)

\* A staged file that no table entry and no send owns any more: pruned, refused
\* after the session's end, or of a session that ended.
Unowned(d) == dir[d].at = "staged" /\ \A i \in Ids : uploads[i] = None \/ uploads[i].dir # d

\* The root stays within its cap, except for the one chunk that may land on each
\* upload whose reservation was returned while it was being written (upload.rs
\* calls the cap best effort).
CapHolds == root_bytes <= Cap + MaxChunk * Cardinality({d \in Dirs : Unowned(d) /\ dir[d].disk > 0})

\* in_flight is exactly what running tasks and staged uploads still hold: no exit
\* keeps a reservation or returns one twice.
InFlightIsOwed == in_flight = SumFunction([d \in Dirs |-> dir[d].held]) + Rest(uploads)

\* Both: the bytes of the root are accounted for.
PayloadsAccounted == CapHolds /\ InFlightIsOwed

\* What the SDK is given to send is the whole file, unless its directory has
\* reached its age limit.
SentIsWhole ==
    \A d \in Dirs : dir[d].sdk \in {"asked", "open"} => dir[d].disk = dir[d].size \/ dir[d].old

\* The agent drops a payload before its age limit only when no transfer of it can
\* still begin or is running.
LiveTransferKept == \A d \in removing : dir[d].sdk \notin {"asked", "open", "unowned"}

\* Both: a transfer sends what was staged, and keeps it until it is over.
TransfersSound == SentIsWhole /\ LiveTransferKept

\* Every payload leaves the root, or was left behind: by a crash, or by a removal at
\* its limit that failed.
PayloadLeaves == \A d \in Dirs : dir[d].disk > 0 ~> dir[d].disk = 0 \/ dir[d].orphan

\* Not so for the ones left behind: nothing removes them until the next start.
EveryPayloadLeaves == \A d \in Dirs : dir[d].disk > 0 ~> dir[d].disk = 0
=============================================================================
