------------------------------- MODULE Pulls -------------------------------
(* Files a session pulls from a peer's storage (DownloadFile): the queue    *)
(* that joins an arriving stream to the request that asked for it, the      *)
(* record of what the pull saved, and the page's reads of it                *)
(* (ReadPulledFileChunk).  Saved files share one folder with the other      *)
(* accounts of the agent.                                                   *)
EXTENDS Naturals, Sequences, SequencesExt, FiniteSets

CONSTANTS
    Keys,          \* virtual paths pulled, in one scope (one peer, or the server)
    MaxPulls,      \* DownloadFile requests
    Readers,       \* reads in progress at once
    MaxReads,
    Total,         \* chunks of a file
    MaxForeign,    \* pulls of other accounts that save under the same name
    MaxKept,       \* MAX_PICKED_FILES
    Returns,       \* the account may sign in again while a read of its ended session runs
    InPlace,       \* a save may overwrite a file that a read has open, instead of replacing it
    None

VARIABLES
    session,
    pull,       \* each request: its key, and how far its stream is
    pulls,      \* RevfsCorrelations: requests waiting for their stream, in order
    sending,    \* requests with a place that have not been sent, in the order of their places
    remote,     \* requests the peer has not answered, in order
    handles,    \* streams on their way, in order
    entries,    \* PulledReads.entries
    generation, \* PulledReads.next_generation
    file,       \* the saved file of each key: which pull wrote it
    foreign,
    reader,     \* each read in progress
    reads,
    page,       \* the chunks of each key the page has put together: whose bytes
    disturbed   \* a request lost its place other than by its stream, or was sent out of turn

vars == <<session, pull, pulls, sending, remote, handles, entries, generation, file,
          foreign, reader, reads, page, disturbed>>

Pulls == 1 .. MaxPulls

-----------------------------------------------------------------------------
\* as: the request whose name the stream was given
NoPull == [key |-> None, watched |-> FALSE, stream |-> "none", as |-> 0]

\* ident: the file the pull had saved when it completed
PulledRead(k, ident, g) ==
    [ident |-> ident, generation |-> g, next |-> None, held |-> FALSE, late |-> FALSE,
     old |-> FALSE]

\* got: whose bytes were read, 0 for none; wanted: the page has not read again since
NoRead == [at |-> "idle", key |-> None, offset |-> 0, ident |-> 0, generation |-> 0, got |-> 0,
           wanted |-> TRUE]

Init ==
    /\ session = TRUE
    /\ pull = [p \in Pulls |-> NoPull]
    /\ pulls = <<>>
    /\ sending = <<>>
    /\ remote = <<>>
    /\ handles = <<>>
    /\ entries = [k \in Keys |-> None]
    /\ generation = 0
    /\ file = [k \in Keys |-> 0]
    /\ foreign = 0
    /\ reader = [r \in Readers |-> NoRead]
    /\ reads = 0
    /\ page = [k \in Keys |-> <<>>]
    /\ disturbed = FALSE

-----------------------------------------------------------------------------
(* FifoByScope.  Whatever uses a place first drops those past CORRELATION_TTL, *)
(* so that a place is out of the queue when it ages.                           *)

register(queue, p) == Append(queue, p)

takeNewest(queue) == IF queue = <<>> THEN 0 ELSE Last(queue)

take(queue) == IF queue = <<>> THEN 0 ELSE Head(queue)

taken(queue) == IF queue = <<>> THEN <<>> ELSE Tail(queue)

\* A request has one place at most.
cancel(queue, p) ==
    IF p \in Range(queue) THEN RemoveAt(queue, CHOOSE i \in DOMAIN queue : queue[i] = p) ELSE queue

(* DownloadFile *)

\* The request takes its place in the queue, under the map's lock.
Download(p, k) ==
    /\ session
    /\ pull[p] = NoPull /\ \A q \in Pulls : q < p => pull[q] # NoPull
    /\ pull' = [pull EXCEPT ![p] = [NoPull EXCEPT !.key = k]]
    /\ pulls' = register(pulls, p)
    /\ sending' = register(sending, p)
    /\ UNCHANGED <<session, remote, handles, entries, generation, file, foreign, reader,
                   reads, page, disturbed>>

\* The request is sent, in whatever order the handlers get there; a send that
\* fails gives the place back.
Sends(p) ==
    /\ p \in Range(sending)
    /\ sending' = cancel(sending, p)
    /\ \/ /\ pull' = [pull EXCEPT ![p].watched = TRUE]
          /\ remote' = Append(remote, p)
          /\ disturbed' = (disturbed \/ p # Head(sending))
          /\ UNCHANGED pulls
       \/ /\ pull' = [pull EXCEPT ![p].stream = "failed"]
          /\ pulls' = IF session THEN cancel(pulls, p) ELSE pulls
          /\ UNCHANGED <<remote, disturbed>>
    /\ UNCHANGED <<session, handles, entries, generation, file, foreign, reader, reads, page>>

\* CORRELATION_TTL: the places before a stale one are stale too.
CorrelationAges ==
    /\ \E n \in 1 .. Len(pulls) : pulls' = SubSeq(pulls, n + 1, Len(pulls))
    /\ disturbed' = TRUE
    /\ UNCHANGED <<session, pull, sending, remote, handles, entries, generation, file,
                   foreign, reader, reads, page>>

\* The peer answers in order: with a stream, or with an error to the request's
\* own subscription.
Serve ==
    /\ remote # <<>>
    /\ remote' = Tail(remote)
    /\ \/ /\ handles' = Append(handles, Head(remote))
          /\ UNCHANGED <<pull, disturbed>>
       \/ /\ pull' = [pull EXCEPT ![Head(remote)].stream = "refused"]
          /\ disturbed' = TRUE
          /\ UNCHANGED handles
    /\ UNCHANGED <<session, pulls, sending, entries, generation, file,
                   foreign, reader, reads, page>>

\* The waiting task hears the refusal and gives the place back.
RefusalHeard(p) ==
    /\ pull[p].watched /\ pull[p].stream = "refused"
    /\ pull' = [pull EXCEPT ![p].watched = FALSE, ![p].stream = "failed"]
    /\ pulls' = IF session THEN cancel(pulls, p) ELSE pulls
    /\ UNCHANGED <<session, sending, remote, handles, entries, generation, file,
                   foreign, reader, reads, page, disturbed>>

\* FIRST_EVENT_TIMEOUT
StopsWaiting(p) ==
    /\ pull[p].watched
    /\ pull' = [pull EXCEPT ![p].watched = FALSE]
    /\ UNCHANGED <<session, pulls, sending, remote, handles, entries, generation, file,
                   foreign, reader, reads, page, disturbed>>

-----------------------------------------------------------------------------
(* The stream: ObjectTransferHandle of a pull, its ticks. *)

\* The first request in the queue names the stream; without a session the handle
\* is dropped.
ReceiverHandle ==
    /\ handles # <<>>
    /\ LET p == Head(handles)
       IN /\ handles' = Tail(handles)
          /\ IF session
             THEN /\ pull' = [pull EXCEPT ![p].as = take(pulls), ![p].stream = "begun"]
                  /\ pulls' = taken(pulls)
             ELSE /\ pull' = [pull EXCEPT ![p].stream = "failed"]
                  /\ UNCHANGED pulls
    /\ UNCHANGED <<session, sending, remote, entries, generation, file,
                   foreign, reader, reads, page, disturbed>>

\* The bytes are saved; ReceptionComplete is on its way to the tick task.
Saves(p) ==
    /\ pull[p].stream = "begun"
    /\ file' = [file EXCEPT ![pull[p].key] = p]
    /\ pull' = [pull EXCEPT ![p].stream = "saved"]
    /\ UNCHANGED <<session, pulls, sending, remote, handles, entries, generation,
                   foreign, reader, reads, page, disturbed>>

\* A Fail tick: PulledOutput forgets what had begun.
StreamFails(p) ==
    /\ pull[p].stream = "begun"
    /\ pull' = [pull EXCEPT ![p].stream = "failed"]
    /\ UNCHANGED <<session, pulls, sending, remote, handles, entries, generation, file,
                   foreign, reader, reads, page, disturbed>>

\* PulledReads::record: expired records go, the new one starts over, and the
\* oldest goes if there are too many.
record(table, k, ident, g) ==
    LET fresh == [x \in Keys |-> IF x = k THEN PulledRead(k, ident, g)
                                 ELSE IF table[x] # None /\ table[x].old THEN None ELSE table[x]]
        held == {x \in Keys : fresh[x] # None}
        oldest == CHOOSE x \in held : \A y \in held : fresh[x].generation <= fresh[y].generation
    IN IF Cardinality(held) > MaxKept THEN [fresh EXCEPT ![oldest] = None] ELSE fresh

\* on_pulled: what the file is now, recorded under the name of the request the
\* stream was joined to.
Completes(p) ==
    /\ pull[p].stream = "saved"
    /\ pull' = [pull EXCEPT ![p].stream = "done"]
    /\ IF session /\ pull[p].as # 0 /\ file[pull[p].key] # 0
       THEN /\ generation' = generation + 1
            /\ entries' = record(entries, pull[pull[p].as].key,
                                 <<pull[p].key, file[pull[p].key]>>, generation + 1)
       ELSE UNCHANGED <<generation, entries>>
    /\ UNCHANGED <<session, pulls, sending, remote, handles, file,
                   foreign, reader, reads, page, disturbed>>

\* Another account pulls a file of the same name from the same peer.
ForeignSaves(k) ==
    /\ foreign < MaxForeign
    /\ foreign' = foreign + 1
    /\ file' = [file EXCEPT ![k] = MaxPulls + foreign + 1]
    /\ UNCHANGED <<session, pull, pulls, sending, remote, handles, entries, generation, reader,
                   reads, page, disturbed>>

-----------------------------------------------------------------------------
(* ReadPulledFileChunk *)

\* begin_read: a read starts at 0 or where the last chunk ended, one at a time
\* unless the one in progress has been given up.  Offset 0 starts over: the page
\* holds nothing then.
may_begin(e, offset) ==
    /\ e # None /\ ~e.old
    /\ offset # 0 => e.next = offset
    /\ e.held => e.late

BeginRead(r, k, offset) ==
    /\ session
    /\ reader[r].at = "idle" /\ reads < MaxReads
    /\ may_begin(entries[k], offset)
    /\ reads' = reads + 1
    /\ reader' = [x \in Readers |->
                    IF x = r
                    THEN [at |-> "open", key |-> k, offset |-> offset,
                          ident |-> entries[k].ident, generation |-> entries[k].generation,
                          got |-> 0, wanted |-> TRUE]
                    ELSE [reader[x] EXCEPT !.wanted = @ /\ reader[x].key # k]]
    /\ entries' = [entries EXCEPT ![k] = [@ EXCEPT !.held = TRUE, !.late = FALSE]]
    /\ page' = IF offset = 0 THEN [page EXCEPT ![k] = <<>>] ELSE page
    /\ UNCHANGED <<session, pull, pulls, sending, remote, handles, generation, file,
                   foreign, disturbed>>

\* pulled_reads::plan_chunk, a chunk at a time
plan_chunk(offset) == offset < Total

\* read_confined: the opened file must be the recorded one.
Identify(r) ==
    /\ reader[r].at = "open"
    /\ LET same == file[reader[r].ident[1]] = reader[r].ident[2]
       IN reader' = [reader EXCEPT ![r].at = IF same /\ plan_chunk(reader[r].offset)
                                             THEN "read" ELSE "settle"]
    /\ UNCHANGED <<session, pull, pulls, sending, remote, handles, entries, generation,
                   file, foreign, reads, page, disturbed>>

\* The bytes are those of the opened file, whatever has been saved under its name
\* since; or of what overwrote it.
ReadConfined(r) ==
    /\ reader[r].at = "read"
    /\ \E bytes \in {reader[r].ident[2], IF InPlace THEN file[reader[r].ident[1]] ELSE reader[r].ident[2]} :
          reader' = [reader EXCEPT ![r].at = "settle", ![r].got = bytes]
    /\ UNCHANGED <<session, pull, pulls, sending, remote, handles, entries, generation,
                   file, foreign, reads, page, disturbed>>

\* settle: nothing of a record that was replaced meanwhile
settle(e, rd) ==
    IF e = None \/ e.generation # rd.generation THEN e
    ELSE [e EXCEPT !.held = FALSE, !.late = FALSE,
                   !.next = IF rd.got # 0 THEN rd.offset + 1 ELSE @]

\* The record is settled and the answer goes to the page, which keeps the chunk if
\* it answers its last read and follows what it holds.
Settle(r) ==
    /\ reader[r].at = "settle"
    /\ LET rd == reader[r]
       IN /\ entries' = IF session THEN [entries EXCEPT ![rd.key] = settle(@, rd)] ELSE entries
          /\ page' = IF rd.got # 0 /\ rd.wanted /\ rd.offset = Len(page[rd.key])
                     THEN [page EXCEPT ![rd.key] = Append(@, rd.got)]
                     ELSE page
    /\ reader' = [reader EXCEPT ![r] = NoRead]
    /\ UNCHANGED <<session, pull, pulls, sending, remote, handles, generation, file,
                   foreign, reads, disturbed>>

\* READ_IN_FLIGHT_TIMEOUT, PICKED_FILE_TTL
ReadGivenUp(k) ==
    /\ entries[k] # None /\ entries[k].held /\ ~entries[k].late
    /\ entries' = [entries EXCEPT ![k].late = TRUE]
    /\ UNCHANGED <<session, pull, pulls, sending, remote, handles, generation, file,
                   foreign, reader, reads, page, disturbed>>

RecordExpires(k) ==
    /\ entries[k] # None /\ ~entries[k].old
    /\ entries' = [entries EXCEPT ![k].old = TRUE]
    /\ UNCHANGED <<session, pull, pulls, sending, remote, handles, generation, file,
                   foreign, reader, reads, page, disturbed>>

\* The entry of the account goes, with everything recorded in it, or comes back
\* empty.  Streams and reads under way go on.
SessionEnds ==
    /\ session
    /\ session' = FALSE
    /\ pulls' = <<>>
    /\ entries' = [k \in Keys |-> None]
    /\ generation' = 0
    /\ disturbed' = TRUE
    /\ UNCHANGED <<pull, sending, remote, handles, file, foreign, reader, reads, page>>

SignsIn ==
    /\ ~session
    /\ Returns \/ \A r \in Readers : reader[r].at = "idle"
    /\ session' = TRUE
    /\ UNCHANGED <<pull, pulls, sending, remote, handles, entries, generation, file,
                   foreign, reader, reads, page, disturbed>>

-----------------------------------------------------------------------------
Next ==
    \/ \E p \in Pulls : \/ \E k \in Keys : Download(p, k)
                        \/ Sends(p) \/ RefusalHeard(p) \/ StopsWaiting(p) \/ Saves(p) \/ StreamFails(p)
                        \/ Completes(p)
    \/ \E k \in Keys : ForeignSaves(k) \/ ReadGivenUp(k) \/ RecordExpires(k)
    \/ \E r \in Readers : \/ Identify(r) \/ ReadConfined(r) \/ Settle(r)
                          \/ \E k \in Keys, offset \in 0 .. Total : BeginRead(r, k, offset)
    \/ CorrelationAges \/ Serve \/ ReceiverHandle \/ SessionEnds \/ SignsIn

Spec == Init /\ [][Next]_vars

-----------------------------------------------------------------------------
(* Properties. *)

\* The chunks a page has put together are of one file, whatever was pulled again,
\* overwritten, given up or answered late in between.
PageIsOneFile ==
    \A k \in Keys : \A i, j \in DOMAIN page[k] : page[k][i] = page[k][j]

\* While requests are sent in the order of their places, and the peer answers each
\* with its stream, and in time, a stream carries the name of the request that
\* asked for it; a send that fails takes no other's place with it.
StreamIsItsOwn ==
    ~disturbed => \A p \in Pulls : pull[p].as # 0 => pull[p].as = p

\* Both: what a page reads is one file, under the name it was asked for
\* (pulled_reads.rs, revfs_correlation.rs).
PullsSound == PageIsOneFile /\ StreamIsItsOwn

\* Not so once a request of the same scope was refused, or when two at once are
\* sent in the other order than they took their places: a stream takes the name
\* of the request before it, and is read under it.
EveryStreamIsItsOwn == \A p \in Pulls : pull[p].as # 0 => pull[p].as = p

\* The page never reads another account's file under its own pull's name.  Not so
\* when that account saves between the completion and the record of it.
PageIsOurs == \A k \in Keys : Range(page[k]) \subseteq Pulls
=============================================================================
