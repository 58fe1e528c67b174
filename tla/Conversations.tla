---------------------------- MODULE Conversations ----------------------------
(* One account's conversation with one peer, as the agent keeps it: pages of *)
(* messages and the metadata that points at them, in the agent's key-value   *)
(* store.  One operation at a time holds the conversation's lock; each of    *)
(* its writes is a step of its own, after which it may fail or the agent may *)
(* end.  Options are sequences of length 0 or 1.                             *)
EXTENDS Naturals, Sequences, FiniteSets

CONSTANTS
    MESSAGES_PER_PAGE,
    MaxPage, MaxPeerIds, MaxOwnIds, MaxOps,
    Indices,       \* the indices a window gives what it records
    ByWindow,      \* the ids of what windows record, or make pending
    Uncounted,     \* whether they record a message of the peer's as not delivered yet
    MaxFaults,     \* writes that fail, and ends of the agent
    LegacyOwners   \* who may own a record kept under the peer alone

VARIABLES
    scoped, legacy, \* the two key shapes, each [pages, meta]
    prefs,
    op,             \* what the lock's holder has left to write, and what follows
    untold,         \* stored, the lock released, not yet announced and acknowledged
    sent,           \* what the peer has sent
    acked,          \* what the ILM was told is handled
    announced,
    removed,        \* deleted, cleared or expired, or hidden when first handled
    owned, ops, faults

vars == <<scoped, legacy, prefs, op, untold, sent, acked, announced, removed, owned, ops, faults>>

Pages == 0 .. MaxPage
Statuses == {"pending", "sent", "delivered", "read", "failed"}
Parties == {"own", "peer"}
Now == 2
Cutoff == 2

\* The peer numbers its messages; the account's own, and those of a record it had
\* before, are apart from them.
OwnId(n) == MaxPeerIds + 1 + n
OldId(n) == MaxPeerIds + MaxOwnIds + n

-----------------------------------------------------------------------------
(* The rules of a page and its metadata *)

received(id, from, ts, index, status) ==
    [id |-> id, from |-> from, ts |-> ts, index |-> index, status |-> status, editor |-> "none", reacted |-> 0]

empty_page == <<>>

\* What s has at the positions in I, in their order.  It is SelectSeq, in terms
\* that can be reasoned about without induction.
Picked(s, I) ==
    [k \in 1 .. Cardinality(I) |-> s[CHOOSE i \in I : Cardinality({j \in I : j <= i}) = k]]

Larger(a, b) == IF a > b THEN a ELSE b

\* Pushed, and sorted by time without disturbing what has the same.
place(page, m) ==
    LET before == {i \in 1 .. Len(page) : page[i].ts <= m.ts}
    IN  Picked(page, before) \o <<m>> \o Picked(page, (1 .. Len(page)) \ before)

record_append(meta, m, is_new) ==
    [meta EXCEPT !.total = @ + 1,
                 !.oldest = IF is_new \/ meta.total = 0 \/ m.ts < @ THEN m.ts ELSE @,
                 !.index = Larger(@, m.index),
                 !.unread = IF m.from = "peer" /\ m.status = "delivered" THEN @ + 1 ELSE @]

rank(status) == CASE status = "sent" -> 1 [] status = "delivered" -> 2 [] status = "read" -> 3 [] OTHER -> 0

status_advances(current, next) ==
    /\ current # next
    /\ CASE next = "failed" -> current \notin {"delivered", "read"}
         [] current = "failed" -> TRUE
         [] OTHER -> rank(next) > rank(current)

\* A change no newer than the one held for the same reactor and emoji is none.
fold(held, change) == IF held >= change THEN held ELSE change

\* Once the peer has a message, no late news takes that back: whatever order two
\* pieces of it come in, the message ends no lower than either (store_rules.rs).
LadderHolds ==
    \A s, a, b \in Statuses :
        LET step(x, y) == IF status_advances(x, y) THEN y ELSE x
        IN  rank(a) >= 2 => rank(step(step(s, a), b)) >= 2 /\ rank(step(step(s, b), a)) >= rank(a)

-----------------------------------------------------------------------------
(* Loading *)

metadata_at(record) == record.meta
page_at(record, n) == record.pages[n]

load_metadata ==
    IF metadata_at(scoped) # <<>> THEN metadata_at(scoped)
    ELSE IF metadata_at(legacy) # <<>> /\ metadata_at(legacy)[1].owner \in {"none", "own"}
         THEN metadata_at(legacy) ELSE <<>>

load_page(n) == IF page_at(scoped, n) # <<>> THEN page_at(scoped, n) ELSE page_at(legacy, n)

OnPage(n) == IF load_page(n) = <<>> THEN <<>> ELSE load_page(n)[1]
IdsOn(n) == {OnPage(n)[i].id : i \in 1 .. Len(OnPage(n))}
LatestPage == IF load_metadata = <<>> THEN 0 ELSE load_metadata[1].latest
Reachable == UNION {IdsOn(n) : n \in 0 .. LatestPage}

\* Newest first; where the message is, 0-based page and index on it.
find(id) ==
    LET at == {n \in 0 .. LatestPage : id \in IdsOn(n)}
        n == CHOOSE x \in at : \A y \in at : y <= x
        i == CHOOSE x \in 1 .. Len(OnPage(n)) : OnPage(n)[x].id = id
                /\ \A y \in 1 .. (x - 1) : OnPage(n)[y].id # id
    IN  IF load_metadata = <<>> \/ at = {} THEN <<>> ELSE <<[page |-> n, index |-> i]>>

save_page(n, page) == [key |-> "page", n |-> n, value |-> <<page>>]
save_metadata(meta) == [key |-> "metadata", n |-> 0, value |-> <<meta>>]
delete_key(key, n) == [key |-> key, n |-> n, value |-> <<>>]

\* One write, in the store.
set(w) ==
    /\ scoped' = CASE w.key = "page" -> [scoped EXCEPT !.pages[w.n] = w.value]
                   [] w.key = "metadata" -> [scoped EXCEPT !.meta = w.value]
                   [] OTHER -> scoped
    /\ legacy' = CASE w.key = "legacy_page" -> [legacy EXCEPT !.pages[w.n] = w.value]
                   [] w.key = "legacy_metadata" -> [legacy EXCEPT !.meta = w.value]
                   [] OTHER -> legacy

-----------------------------------------------------------------------------
(* What an operation writes *)

already_stored(meta, id) == id \in IdsOn(meta.latest) \/ (meta.latest > 0 /\ id \in IdsOn(meta.latest - 1))

fresh == [owner |-> "own", total |-> 0, oldest |-> 0, latest |-> 0, unread |-> 0, index |-> 0]
current == IF load_metadata = <<>> THEN fresh
           ELSE [load_metadata[1] EXCEPT !.owner = IF @ = "none" THEN "own" ELSE @]
rolls(meta) == Len(OnPage(meta.latest)) >= MESSAGES_PER_PAGE

\* Page first, pointer last.
appended(m) ==
    LET is_new == load_metadata = <<>>
        rolled == [current EXCEPT !.latest = IF rolls(current) THEN @ + 1 ELSE @]
        page == IF rolls(current) THEN empty_page ELSE OnPage(current.latest)
    IN  (IF rolls(current) THEN <<save_page(current.latest, OnPage(current.latest))>> ELSE <<>>)
        \o <<save_page(rolled.latest, place(page, m)), save_metadata(record_append(rolled, m, is_new))>>

\* The duplicate looked for on the page that is about to take the message.
appendAfterRollover(m) ==
    LET page == IF rolls(current) THEN {} ELSE IdsOn(current.latest)
    IN  IF m.id \in page THEN <<>> ELSE appended(m)

append(m) == IF already_stored(current, m.id) THEN <<>> ELSE appended(m)

CanAppend == current.latest < MaxPage \/ ~rolls(current)

\* changed: the message after the change, the same when there is none.
update(id, changed) ==
    IF find(id) = <<>> THEN <<>>
    ELSE LET at == find(id)[1]
         IN  IF changed = OnPage(at.page)[at.index] THEN <<>>
             ELSE <<save_page(at.page, [OnPage(at.page) EXCEPT ![at.index] = changed])>>

Stored(id) == OnPage(find(id)[1].page)[find(id)[1].index]

set_status(id, status) ==
    IF find(id) = <<>> THEN <<>>
    ELSE update(id, [Stored(id) EXCEPT !.status = IF status_advances(@, status) THEN status ELSE @])

patch(id, status) == set_status(id, status)

react(id, at) == IF find(id) = <<>> THEN <<>> ELSE update(id, [Stored(id) EXCEPT !.reacted = fold(@, at)])

Without(page, i) == SubSeq(page, 1, i - 1) \o SubSeq(page, i + 1, Len(page))

remove(id) ==
    LET at == find(id)[1]
    IN  <<save_page(at.page, Without(OnPage(at.page), at.index)),
          save_metadata([load_metadata[1] EXCEPT !.total = IF @ > 0 THEN @ - 1 ELSE 0])>>

\* By the message's sender, or nothing.
revise(id, reviser, revision) ==
    IF find(id) = <<>> \/ Stored(id).from # reviser THEN <<>>
    ELSE IF revision = "delete" THEN remove(id)
    ELSE update(id, [Stored(id) EXCEPT !.editor = reviser])

\* The pages, as f leaves them, that differ: in the order of numbers.
Changed(numbers, f) ==
    LET Differs(n) == load_page(n) # <<>> /\ f[n] # OnPage(n)
        touched == Picked(numbers, {k \in 1 .. Len(numbers) : Differs(numbers[k])})
    IN  [k \in 1 .. Len(touched) |-> save_page(touched[k], f[touched[k]])]

Ascending(top) == [k \in 1 .. (top + 1) |-> k - 1]
Descending(top) == [k \in 1 .. (top + 1) |-> top + 1 - k]

\* Each delivered message of the peer, newest first, up to the unread count.
mark_read ==
    LET meta == load_metadata[1]
        unread(n, i) == OnPage(n)[i].from = "peer" /\ OnPage(n)[i].status = "delivered"
        places == UNION {{<<n, i>> : i \in 1 .. Len(OnPage(n))} : n \in 0 .. meta.latest}
        newer(p) == {q \in places : unread(q[1], q[2]) /\ (q[1] > p[1] \/ (q[1] = p[1] /\ q[2] > p[2]))}
        read == [n \in 0 .. meta.latest |->
                    [i \in 1 .. Len(OnPage(n)) |->
                        IF unread(n, i) /\ Cardinality(newer(<<n, i>>)) < meta.unread
                        THEN [OnPage(n)[i] EXCEPT !.status = "read"] ELSE OnPage(n)[i]]]
    IN  Changed(Descending(meta.latest), read) \o <<save_metadata([meta EXCEPT !.unread = 0])>>

MinTime(times) == IF times = {} THEN 0 ELSE CHOOSE t \in times : \A u \in times : t <= u

prune_older_than(cutoff) ==
    LET meta == load_metadata[1]
        Kept(n) == {i \in 1 .. Len(OnPage(n)) : OnPage(n)[i].ts >= cutoff}
        kept == [n \in 0 .. meta.latest |-> Picked(OnPage(n), Kept(n))]
        writes == Changed(Ascending(meta.latest), kept)
        gone == Cardinality(UNION {{<<n, i>> : i \in (1 .. Len(OnPage(n))) \ Kept(n)} : n \in 0 .. meta.latest})
        times == UNION {{kept[n][i].ts : i \in 1 .. Len(kept[n])} : n \in 0 .. meta.latest}
    IN  IF load_metadata = <<>> \/ meta.total = 0 \/ (meta.oldest > 0 /\ meta.oldest >= cutoff) \/ gone = 0
        THEN <<>>
        ELSE writes \o <<save_metadata([meta EXCEPT !.total = IF @ > gone THEN @ - gone ELSE 0,
                                                    !.oldest = MinTime(times)])>>

may(meta, include_unattributed) == meta.owner = "own" \/ (meta.owner = "none" /\ include_unattributed)

\* Both key shapes, the legacy one only where this account may.
delete(include_unattributed) ==
    LET latest == load_metadata[1].latest
        drop(key, pagekey, top) ==
            [k \in 1 .. (top + 1) |-> delete_key(pagekey, k - 1)] \o <<delete_key(key, 0)>>
        legacy_pages == IF legacy.meta = <<>> THEN latest ELSE legacy.meta[1].latest
        allowed == IF legacy.meta = <<>> THEN include_unattributed ELSE may(legacy.meta[1], include_unattributed)
    IN  drop("metadata", "page", latest)
        \o (IF allowed THEN drop("legacy_metadata", "legacy_page", legacy_pages) ELSE <<>>)

-----------------------------------------------------------------------------
NoPages == [n \in Pages |-> <<>>]
Nothing == [pages |-> NoPages, meta |-> <<>>]
OldRecord(owner) ==
    [pages |-> [NoPages EXCEPT ![0] = <<<<received(OldId(1), "own", 1, 1, "sent"), received(OldId(2), "peer", 2, 1, "delivered")>>>>],
     meta |-> <<[owner |-> owner, total |-> 2, oldest |-> 1, latest |-> 0, unread |-> 1, index |-> 1]>>]

Idle == [at |-> "done", writes |-> <<>>, id |-> 0]

\* What an account that never set its preferences has.
UI_DEFAULTS == [accept_requests_from_strangers |-> TRUE, retention |-> FALSE]

Init ==
    /\ scoped = Nothing
    /\ legacy \in {Nothing} \cup {OldRecord(owner) : owner \in LegacyOwners}
    /\ prefs = UI_DEFAULTS
    /\ op = Idle
    /\ untold = {} /\ sent = {} /\ acked = {} /\ announced = {} /\ removed = {}
    /\ owned = 0 /\ ops = 0 /\ faults = 0

counters == <<owned, faults>>
told == <<untold, sent, acked, announced>>
store == <<scoped, legacy>>

\* The lock is taken and what will be written is known; at: what follows the writes.
Free == op = Idle /\ ops < MaxOps
lock(at, writes, id) ==
    /\ ops' = ops + 1
    /\ op' = [at |-> at, writes |-> writes, id |-> id]

-----------------------------------------------------------------------------
(* From the peer *)

Told == {u.id : u \in untold}

\* Handled, and not stored; the lock is not taken.
hidden(m) ==
    /\ ops' = ops + 1
    /\ sent' = sent \cup {m}
    /\ acked' = acked \cup {m.id}
    /\ removed' = IF m.id \in acked \cup Told THEN removed ELSE removed \cup {m.id}
    /\ UNCHANGED <<store, prefs, op, untold, announced, counters>>

\* A stranger's message.
Hide(m) == ~prefs.accept_requests_from_strangers /\ hidden(m)

\* A message, the first time or again.
Incoming(m) ==
    /\ CanAppend
    /\ \A x \in sent : x.id = m.id => x = m
    /\ m.id <= Cardinality(sent) + 1
    /\ lock(IF append(m) = <<>> THEN "duplicate" ELSE "stored", append(m), m.id)
    /\ sent' = sent \cup {m}
    /\ UNCHANGED <<store, prefs, untold, acked, announced, removed, counters>>

\* A notice is stored like a message where the account asks for it.
screenshot(m, notify_on_screenshot) == IF notify_on_screenshot THEN Incoming(m) ELSE hidden(m)

\* A name learned since is kept in the metadata, under the lock still, and it is only
\* logged where it could not be.  The name is not modelled; where it goes is.
set_peer_username ==
    /\ op.at \in {"stored", "duplicate"} /\ op.writes = <<>>
    /\ scoped' = [scoped EXCEPT !.meta = load_metadata]
    /\ UNCHANGED <<legacy, prefs, op, told, removed, ops, counters>>

\* The change is there and the lock is released: a duplicate is acknowledged too.
Released ==
    /\ op.at \in {"stored", "duplicate"} /\ op.writes = <<>>
    /\ untold' = untold \cup {[id |-> op.id, new |-> op.at = "stored"]}
    /\ removed' = IF op.at = "stored" THEN removed \ {op.id} ELSE removed
    /\ op' = Idle
    /\ UNCHANGED <<store, prefs, sent, acked, announced, ops, counters>>

\* The receipt, the notice and the event go out, and the ILM is answered.
Handled(u) ==
    /\ u \in untold
    /\ untold' = untold \ {u}
    /\ acked' = acked \cup {u.id}
    /\ announced' = IF u.new THEN announced \cup {u.id} ELSE announced
    /\ UNCHANGED <<store, prefs, op, sent, removed, ops, counters>>

revision(id, kind) ==
    /\ lock("done", CASE kind \in {"edit", "delete"} -> revise(id, "peer", kind)
                      [] kind = "react" -> react(id, 1)
                      [] OTHER -> set_status(id, kind), 0)
    /\ removed' = IF kind = "delete" /\ revise(id, "peer", kind) # <<>> THEN removed \cup {id} ELSE removed
    /\ UNCHANGED <<store, prefs, told, counters>>

-----------------------------------------------------------------------------
(* From a window *)

NextIndex == IF load_metadata = <<>> THEN 1 ELSE load_metadata[1].index + 1

send ==
    /\ owned < MaxOwnIds /\ CanAppend
    /\ owned' = owned + 1
    /\ lock("transmit", append(received(OwnId(owned), "own", Now, NextIndex, "pending")), OwnId(owned))
    /\ UNCHANGED <<store, prefs, told, removed, faults>>

resend(id) ==
    /\ find(id) # <<>>
    /\ Stored(id).status = "failed" /\ Stored(id).from = "own"
    /\ lock("transmit", set_status(id, "pending"), id)
    /\ UNCHANGED <<store, prefs, told, removed, counters>>

\* The ILM has it, or the send failed; the lock is still held.
transmit(status) ==
    /\ op.at = "transmit" /\ op.writes = <<>>
    /\ op' = [at |-> "done", writes |-> set_status(op.id, status), id |-> 0]
    /\ UNCHANGED <<store, prefs, told, removed, ops, counters>>

revise_own(id, kind) ==
    /\ find(id) # <<>> /\ Stored(id).from = "own"
    /\ lock("done", revise(id, "own", kind), 0)
    /\ removed' = IF kind = "delete" THEN removed \cup {id} ELSE removed
    /\ UNCHANGED <<store, prefs, told, counters>>

React(id) ==
    /\ find(id) # <<>>
    /\ lock("done", react(id, 2), 0)
    /\ UNCHANGED <<store, prefs, told, removed, counters>>

MarkRead ==
    /\ load_metadata # <<>>
    /\ lock("done", mark_read, 0)
    /\ UNCHANGED <<store, prefs, told, removed, counters>>

\* A message as the window has it, such as a file it sent or was sent: only its
\* parties are checked.  Its id may be new, or another message's.
Record(m) ==
    /\ CanAppend
    /\ m.id \in ByWindow /\ m.id <= OwnId(owned)
    /\ m.from = "peer" /\ m.status \notin {"delivered", "read"} => Uncounted
    /\ owned' = IF m.id = OwnId(owned) THEN owned + 1 ELSE owned
    /\ lock("done", append(m), 0)
    /\ UNCHANGED <<store, prefs, told, removed, faults>>

\* Any status, where the ladder lets it: what failed may be made pending.
Patch(id, status) ==
    /\ status = "pending" /\ patch(id, status) # <<>> => id \in ByWindow
    /\ lock("done", patch(id, status), 0)
    /\ UNCHANGED <<store, prefs, told, removed, counters>>

Clear(include_unattributed) ==
    /\ load_metadata # <<>> /\ may(load_metadata[1], include_unattributed)
    /\ lock("done", delete(include_unattributed), 0)
    /\ removed' = removed \cup Reachable
    /\ UNCHANGED <<store, prefs, told, counters>>

-----------------------------------------------------------------------------
(* The sweeper, and what a step's end is *)

\* Saved without the conversation's lock; the sweep that follows is a Sweep.
SetAccountPreferences(p) ==
    /\ p # prefs
    /\ prefs' = p
    /\ ops' = ops + 1
    /\ UNCHANGED <<store, op, told, removed, counters>>

\* sweep, hourly or from SetAccountPreferences.
Sweep ==
    LET writes == IF load_metadata # <<>> THEN prune_older_than(Cutoff) ELSE <<>>
    IN  /\ prefs.retention
        /\ lock("done", writes, 0)
        /\ removed' = IF writes = <<>> THEN removed
                      ELSE removed \cup UNION {{OnPage(n)[i].id : i \in {j \in 1 .. Len(OnPage(n)) : OnPage(n)[j].ts < Cutoff}}
                                               : n \in 0 .. LatestPage}
        /\ UNCHANGED <<store, prefs, told, counters>>

Write ==
    /\ op.writes # <<>>
    /\ set(Head(op.writes))
    /\ op' = [op EXCEPT !.writes = Tail(@)]
    /\ UNCHANGED <<prefs, told, removed, ops, counters>>

\* A read or a write fails: the operation ends there, an arriving message unhandled.
WriteFails ==
    /\ op.writes # <<>> /\ faults < MaxFaults
    /\ faults' = faults + 1
    /\ op' = Idle
    /\ UNCHANGED <<store, prefs, told, removed, ops, owned>>

Crash ==
    /\ faults < MaxFaults /\ (op # Idle \/ untold # {})
    /\ faults' = faults + 1
    /\ op' = Idle /\ untold' = {}
    /\ UNCHANGED <<store, prefs, sent, acked, announced, removed, ops, owned>>

PeerMessages == [id : 1 .. MaxPeerIds, ts : 1 .. 2]
AsMessage(m) == received(m.id, "peer", m.ts, m.id, "delivered")

Recorded ==
    {received(id, from, ts, index, status) :
        id \in 1 .. (MaxPeerIds + MaxOwnIds), from \in Parties, ts \in 1 .. 2, index \in Indices, status \in Statuses}

\* What takes the lock.
Begin ==
    \/ \E m \in PeerMessages :
          \/ Incoming(AsMessage(m))
          \/ screenshot(AsMessage(m), TRUE)
    \/ \E id \in Reachable :
          \/ \E kind \in {"edit", "delete", "react", "delivered", "read", "failed"} : revision(id, kind)
          \/ resend(id) \/ React(id)
          \/ \E kind \in {"edit", "delete"} : revise_own(id, kind)
          \/ \E status \in Statuses : Patch(id, status)
    \/ send \/ MarkRead \/ Sweep
    \/ \E m \in Recorded : Record(m)
    \/ \E include_unattributed \in BOOLEAN : Clear(include_unattributed)

\* What does not.
Beside ==
    \/ \E m \in PeerMessages : Hide(AsMessage(m)) \/ screenshot(AsMessage(m), FALSE)
    \/ \E p \in [accept_requests_from_strangers : BOOLEAN, retention : BOOLEAN] : SetAccountPreferences(p)

Next ==
    \/ Free /\ Begin
    \/ ops < MaxOps /\ Beside
    \/ \E u \in untold : Handled(u)
    \/ \E status \in {"sent", "failed"} : transmit(status)
    \/ set_peer_username \/ Released \/ Write \/ WriteFails \/ Crash

Spec == Init /\ [][Next]_vars

-----------------------------------------------------------------------------
Settled == op = Idle /\ faults = 0
Messages == UNION {{OnPage(n)[i] : i \in 1 .. Len(OnPage(n))} : n \in 0 .. LatestPage}
Total == Cardinality(UNION {{<<n, i>> : i \in 1 .. Len(OnPage(n))} : n \in 0 .. LatestPage})

\* A message the ILM was told to retire is on a page the conversation reaches,
\* unless it was deleted, cleared, expired or hidden, and windows were told of it, unless
\* one recorded it; that the conversation is listed too needs every write to have worked
\* (store.rs, inbound.rs).
NothingHandledIsLost ==
    /\ acked \ removed \subseteq Reachable
    /\ faults = 0 => announced \subseteq acked /\ acked \ removed \subseteq announced \cup Told \cup ByWindow
    /\ Settled /\ acked \ removed # {} => load_metadata # <<>>

\* No message is on the two newest pages twice, whatever is sent again while a
\* page fills (store.rs, already_stored).
NoTwins ==
    op = Idle => \A n \in {LatestPage, LatestPage - 1} \cap Pages : \A i \in 1 .. Len(OnPage(n)) :
        /\ \A j \in 1 .. Len(OnPage(n)) : OnPage(n)[i].id = OnPage(n)[j].id => i = j
        /\ n = LatestPage /\ n > 0 => OnPage(n)[i].id \notin IdsOn(n - 1)

\* What the metadata counts is what the pages hold: the total, on which retention
\* and the list go; the oldest time, below which nothing is, or an expired message
\* would never go; and as many unread as mark_read will need to read them all, where
\* no window recorded something of the peer's as not yet delivered.
MetadataIsTrue ==
    Settled /\ load_metadata # <<>> =>
        LET meta == load_metadata[1]
            messages == Messages
        IN  /\ meta.total = Total
            /\ \A m \in messages : m.ts >= meta.oldest
            /\ ~Uncounted => Cardinality({m \in messages : m.from = "peer" /\ m.status = "delivered"}) <= meta.unread

\* A message is changed by its sender only.  One the agent sent keeps its index apart
\* from every other it sent, whatever indices windows record, and waits as pending only
\* while its send is under way, unless a window made it pending.
OwnMessagesHold ==
    LET messages == Messages
        own == {m \in messages : m.from = "own" /\ m.id \notin ByWindow}
    IN  /\ \A m \in messages : m.editor \in {"none", m.from}
        /\ Settled => \A m \in own : m.status # "pending"
        /\ faults = 0 => \A m, k \in own : m.index = k.index => m.id = k.id

\* What the code does not keep (README).  With a failed write or an end of the
\* agent: what was handled is in a listed conversation, and no send stays pending.
HandledIsListed == op = Idle /\ acked \ removed # {} => load_metadata # <<>>
NoSendIsStranded == op = Idle => \A m \in Messages : ~(m.from = "own" /\ m.status = "pending" /\ m.id \notin ByWindow)

\* With what a window records or makes pending: no index twice, nothing pending with no send
\* under way, and the unread count.
IndicesAreApart ==
    LET own == {m \in Messages : m.from = "own"} IN faults = 0 => \A m, k \in own : m.index = k.index => m.id = k.id
NothingIsPending == Settled => \A m \in Messages : m.status # "pending"
UnreadIsCounted ==
    Settled /\ load_metadata # <<>> =>
        Cardinality({m \in Messages : m.from = "peer" /\ m.status = "delivered"}) <= load_metadata[1].unread

\* With a record under the peer alone that another account owns: none of its messages are read.
OnlyOwnRecords == load_metadata # <<>> /\ legacy.meta # <<>> /\ legacy.meta[1].owner = "other" => Reachable \cap {OldId(1), OldId(2)} = {}

\* All of them: what was handled is there once, counted truly and as its sender left
\* it, under redelivery, failed writes and an agent that ends (store.rs, inbound.rs).
ConversationsSound == NothingHandledIsLost /\ NoTwins /\ MetadataIsTrue /\ OwnMessagesHold
=============================================================================
