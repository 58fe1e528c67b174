---------------------------- MODULE AccountsInv -----------------------------
(* What the proofs of Accounts_proofs show to be kept by every step: the     *)
(* inductive invariants of a conversation's store (ConversationInv), of the  *)
(* updater (UpdaterInv) and of a browser's client (ClientInv).               *)
EXTENDS MCAccounts

-----------------------------------------------------------------------------
(* A conversation's store. *)

\* The positions on pages 0 to top.
Slots(g, top) == UNION {{<<n, i>> : i \in 1 .. Len(g[n])} : n \in 0 .. top}

(* A store as it is shown: s the scoped record, l the one under the peer alone. *)

OldIds == {C!OldId(1), C!OldId(2)}
Msgs == [id : Nat, from : C!Parties, ts : Nat, index : Nat, status : C!Statuses,
         editor : {"none"} \cup C!Parties, reacted : Nat]
Metas == [owner : {"none", "own"}, total : Nat, oldest : Nat, latest : C!Pages, unread : Nat, index : Nat]
Options(S) == {<<>>} \cup {<<x>> : x \in S}
Records == [pages : [C!Pages -> Options(Seq(Msgs))], meta : Options(Metas)]

ShownMeta(s, l) == IF s.meta # <<>> THEN s.meta ELSE l.meta
ShownPage(s, l, n) ==
    IF s.pages[n] # <<>> THEN s.pages[n][1] ELSE IF l.pages[n] # <<>> THEN l.pages[n][1] ELSE <<>>
\* What is on each page, and the metadata.
View(s, l) == [page |-> [n \in C!Pages |-> ShownPage(s, l, n)], meta |-> ShownMeta(s, l)]
Top(v) == IF v.meta = <<>> THEN 0 ELSE v.meta[1].latest
Ids(page) == {page[i].id : i \in 1 .. Len(page)}
ShownIds(v) == UNION {Ids(v.page[n]) : n \in 0 .. Top(v)}
Places(v) == Slots(v.page, Top(v))
At(v, p) == v.page[p[1]][p[2]]
IsUnread(m) == m.from = "peer" /\ m.status = "delivered"
UnreadPlaces(v) == {p \in Places(v) : IsUnread(At(v, p))}

\* What is at a key once the writes todo are made.
After(todo, key, n, now) ==
    IF \E k \in 1 .. Len(todo) : todo[k].key = key /\ todo[k].n = n
    THEN todo[CHOOSE k \in 1 .. Len(todo) : todo[k].key = key /\ todo[k].n = n].value
    ELSE now
ScopedAfter(todo, s) ==
    [pages |-> [n \in C!Pages |-> After(todo, "page", n, s.pages[n])], meta |-> After(todo, "metadata", 0, s.meta)]
LegacyAfter(todo, l) ==
    [pages |-> [n \in C!Pages |-> After(todo, "legacy_page", n, l.pages[n])], meta |-> After(todo, "legacy_metadata", 0, l.meta)]

\* What is shown, and what will be when the operation under way has ended.
ViewNow == View(scoped, legacy)
ScopedAhead == ScopedAfter(op.writes, scoped)
LegacyAhead == LegacyAfter(op.writes, legacy)
ViewAhead == View(ScopedAhead, LegacyAhead)

\* A message of the account's that no window recorded or made pending.
Sent(m) == m.from = "own" /\ m.id \notin ByWindow
\* A message under an id known so far, changed by its sender only; a peer's is delivered
\* or read, unless a window recorded it otherwise.
GoodMsg(m, own) ==
    /\ m \in Msgs /\ m.ts \in 1 .. 2
    /\ m.id \in 1 .. (MaxPeerIds + own) \/ m.id \in OldIds
    /\ m.editor \in {"none", m.from}
    /\ Sent(m) => m.id > MaxPeerIds
    /\ Uncounted \/ (m.from = "peer" => m.status \in {"delivered", "read"})
\* A page has no message twice, and only the first has an old record's.
GoodPage(n, page, own) ==
    /\ page \in Seq(Msgs)
    /\ \A i \in 1 .. Len(page) : GoodMsg(page[i], own) /\ (n # 0 => page[i].id \notin OldIds)
    /\ \A i, j \in 1 .. Len(page) : page[i].id = page[j].id => i = j
GoodOption(n, o, own) == o \in Options(Seq(Msgs)) /\ (o # <<>> => GoodPage(n, o[1], own))

OldPage == C!OldRecord("own").pages[0]
OldMeta(owner) == C!OldRecord(owner).meta
StoreTyped ==
    /\ scoped \in Records /\ legacy \in Records
    /\ \A n \in C!Pages : GoodOption(n, scoped.pages[n], owned)
    /\ legacy.pages[0] \in {<<>>, OldPage} /\ \A n \in C!Pages \ {0} : legacy.pages[n] = <<>>
    /\ legacy.meta \in {<<>>, OldMeta("own"), OldMeta("none")}

WriteKeys == {"page", "metadata", "legacy_page", "legacy_metadata"}
Writes == [key : WriteKeys, n : C!Pages, value : Options(Seq(Msgs)) \cup Options(Metas)]
GoodWrite(w, own) ==
    /\ w \in Writes
    /\ w.key = "page" => GoodOption(w.n, w.value, own)
    /\ w.key = "metadata" => w.n = 0 /\ w.value \in Options(Metas)
    /\ w.key \in {"legacy_page", "legacy_metadata"} => w.value = <<>>
    /\ w.key = "legacy_metadata" => w.n = 0
\* No key is written twice.
Distinct(todo) == \A j, k \in 1 .. Len(todo) : todo[j].key = todo[k].key /\ todo[j].n = todo[k].n => j = k
GoodWrites(todo, own) == todo \in Seq(Writes) /\ Distinct(todo) /\ \A k \in 1 .. Len(todo) : GoodWrite(todo[k], own)

ToldIds == {u.id : u \in untold}
RestTyped ==
    /\ untold \subseteq [id : 1 .. MaxPeerIds, new : BOOLEAN]
    /\ acked \subseteq 1 .. MaxPeerIds
    /\ owned \in 0 .. MaxOwnIds /\ faults \in Nat /\ ops \in Nat
OpTyped ==
    /\ op = [at |-> op.at, writes |-> op.writes, id |-> op.id]
    /\ op.at \in {"done", "stored", "duplicate", "transmit"} /\ op.id \in Nat
    /\ op.at \in {"stored", "duplicate"} => op.id \in 1 .. MaxPeerIds
    /\ GoodWrites(op.writes, owned)

\* The three ways an operation writes.  It changes pages that are there, and what is
\* no longer on them was removed;
Trims ==
    \A k \in 1 .. Len(op.writes) :
        LET w == op.writes[k] IN
        /\ w.value # <<>>
        /\ \/ /\ w.key = "page" /\ w.n <= Top(ViewNow)
              /\ Ids(w.value[1]) \subseteq Ids(ViewNow.page[w.n])
              /\ Ids(ViewNow.page[w.n]) \ Ids(w.value[1]) \subseteq removed
           \/ w.key = "metadata" /\ w.value[1].latest = Top(ViewNow)
\* or it drops what is there, when all that was handled counts as removed;
Clears ==
    /\ acked \cup ToldIds \subseteq removed
    /\ \A k \in 1 .. Len(op.writes) : op.writes[k].value = <<>>
\* or it adds to the newest page, the page before the metadata, or begins the next when
\* the newest is full, which it saves again first.
Appends ==
    LET n == Len(op.writes)
        w == op.writes
        top == Top(ViewNow)
    IN  /\ n \in 1 .. 3 /\ \A k \in 1 .. n : w[k].value # <<>>
        /\ w[n].key = "metadata" /\ w[n].value[1].latest \in {top, top + 1}
        /\ n >= 2 => /\ w[n - 1].key = "page" /\ w[n - 1].n = w[n].value[1].latest
                     /\ w[n - 1].n = top => Ids(ViewNow.page[top]) \subseteq Ids(w[n - 1].value[1])
        /\ n = 3 => /\ w[1].key = "page" /\ w[1].n = top /\ w[2].n = top + 1
                    /\ Ids(w[1].value[1]) = Ids(ViewNow.page[top])

\* No message is on both of the newest two pages.
NewestApart(v) == Top(v) > 0 => Ids(v.page[Top(v)]) \cap Ids(v.page[Top(v) - 1]) = {}
\* What was handled, or will be when the lock is released, is reached from the metadata.
HandledIsShown == (acked \cup ToldIds) \ removed \subseteq ShownIds(ViewNow)
StoredIsAhead == op.at \in {"stored", "duplicate"} => op.id \in ShownIds(ViewAhead)

\* What holds whatever failed.
Kept ==
    /\ StoreTyped /\ RestTyped /\ OpTyped
    /\ Trims \/ Clears \/ Appends
    /\ NewestApart(ViewNow) /\ NewestApart(ViewAhead)
    /\ HandledIsShown /\ StoredIsAhead

-----------------------------------------------------------------------------
(* While nothing failed. *)
Held(o) == IF o = <<>> THEN {} ELSE {o[1][i] : i \in 1 .. Len(o[1])}
Stock(s, l) == UNION {Held(s.pages[n]) \cup Held(l.pages[n]) : n \in C!Pages}
ToBe == UNION {Held(op.writes[k].value) : k \in {j \in 1 .. Len(op.writes) : op.writes[j].key = "page"}}
IndexApart(M) == \A m, k \in M : Sent(m) /\ Sent(k) /\ m.index = k.index => m.id = k.id
News == announced \cup {u.id : u \in {x \in untold : x.new}}

\* The metadata counts what the pages have.
Counted(v) ==
    v.meta # <<>> =>
        /\ v.meta[1].total = Cardinality(Places(v))
        /\ Uncounted \/ Cardinality(UnreadPlaces(v)) <= v.meta[1].unread
        /\ \A p \in Places(v) : At(v, p).ts >= v.meta[1].oldest
\* No page is beyond the metadata's newest, and no index above its last.
Whole(s, l) ==
    /\ \A n \in C!Pages : n > Top(View(s, l)) => s.pages[n] = <<>>
    /\ ShownMeta(s, l) = <<>> => s.pages[0] = <<>>
    /\ (l.pages[0] = <<>>) <=> (l.meta = <<>>)
    /\ \A m \in Stock(s, l) : m.index <= ShownMeta(s, l)[1].index
OwnOnce(v) ==
    \A p, q \in Places(v) : At(v, p).id = At(v, q).id /\ At(v, p).id > MaxPeerIds /\ At(v, p).id \notin ByWindow => p = q
\* Only the message about to be transmitted is pending.
PendingIsSent(v, at, id) ==
    \A p \in Places(v) : Sent(At(v, p)) /\ At(v, p).status = "pending" => at = "transmit" /\ At(v, p).id = id
\* What is stored of the peer was announced, or is about to be.
Announced ==
    /\ announced \subseteq acked
    /\ (acked \cup ToldIds) \ removed \subseteq News \cup ByWindow
    /\ op.at = "duplicate" => op.id \in News \cup ByWindow
    /\ \A m \in Stock(ScopedAhead, LegacyAhead) : m.id \in 1 .. MaxPeerIds => m.id \in News \cup ByWindow \/ (op.at = "stored" /\ m.id = op.id)
Faultless ==
    /\ Whole(ScopedAhead, LegacyAhead) /\ Counted(ViewAhead)
    /\ IndexApart(Stock(scoped, legacy) \cup ToBe)
    /\ OwnOnce(ViewAhead) /\ PendingIsSent(ViewAhead, op.at, op.id)
    /\ Announced

ConversationInv == Kept /\ (faults = 0 => Faultless)

-----------------------------------------------------------------------------
(* What an operation on the conversation will write, and what that leaves. *)

\* What is picked from s, at I: the k-th was the nth[k]-th.
Picks(s, I, N, nth) ==
    /\ N \in Nat /\ N = Cardinality(I) /\ nth \in [1 .. N -> I]
    /\ \A j, k \in 1 .. N : nth[j] = nth[k] => j = k
    /\ \A i \in I : \E k \in 1 .. N : nth[k] = i
    /\ C!Picked(s, I) = [k \in 1 .. N |-> s[nth[k]]]
\* The writes todo, made on v, leave the pages g up to hi and the metadata mt.
Makes(todo, v, hi, g, mt) ==
    /\ todo \in Seq(Writes) /\ Distinct(todo)
    /\ \A k \in 1 .. Len(todo) : \/ todo[k].key = "page" /\ todo[k].n \in 0 .. hi /\ todo[k].value = <<g[todo[k].n]>>
                                 \/ todo[k].key = "metadata" /\ todo[k].n = 0 /\ todo[k].value = mt /\ mt # <<>>
    /\ \A n \in 0 .. hi : (\A k \in 1 .. Len(todo) : ~(todo[k].key = "page" /\ todo[k].n = n)) => g[n] = v.page[n]
    /\ (\A k \in 1 .. Len(todo) : todo[k].key # "metadata") => mt = v.meta
\* Counted and PendingIsSent, of pages that are not in the store yet.
Counts(g, top, meta) ==
    meta # <<>> =>
        /\ meta[1].total = Cardinality(Slots(g, top))
        /\ Uncounted \/ Cardinality({p \in Slots(g, top) : IsUnread(g[p[1]][p[2]])}) <= meta[1].unread
        /\ \A p \in Slots(g, top) : g[p[1]][p[2]].ts >= meta[1].oldest
\* The message b after a change that is not about who sent it or when.
Same(a, b) ==
    /\ a \in Msgs /\ a.id = b.id /\ a.from = b.from /\ a.ts = b.ts /\ a.index = b.index
    /\ a.editor \in {"none", a.from} /\ (Uncounted \/ (a.from = "peer" => a.status \in {"delivered", "read"}))
\* Each message of g was one of v's, at h; what is no more is among the gone.
Comes(v, g, h, gone) ==
    \A n \in 0 .. Top(v) :
        /\ g[n] \in Seq(Msgs)
        /\ \A i \in 1 .. Len(g[n]) : h[n][i] \in 1 .. Len(v.page[n]) /\ Same(g[n][i], v.page[n][h[n][i]])
        /\ \A i, j \in 1 .. Len(g[n]) : h[n][i] = h[n][j] => i = j
        /\ Ids(v.page[n]) \ Ids(g[n]) \subseteq gone
PendingOn(g, top, at, id) ==
    \A n \in 0 .. top : \A i \in 1 .. Len(g[n]) :
        Sent(g[n][i]) /\ g[n][i].status = "pending" => at = "transmit" /\ g[n][i].id = id
\* The messages on the pages that todo writes.
Written(todo) == UNION {Held(todo[k].value) : k \in {j \in 1 .. Len(todo) : todo[j].key = "page"}}
\* The lock's holder will write todo, and then at.
Begins(todo, at, id) ==
    /\ op.writes = <<>> /\ op.at \in {"done", "transmit"}
    /\ op' = [at |-> at, writes |-> todo, id |-> id] /\ id \in Nat
    /\ UNCHANGED <<scoped, legacy, untold, acked, announced, faults>>
    /\ removed \subseteq removed' /\ ops' \in Nat
\* h takes the positions of g to positions of f: all but D, and the unread to unread.
Maps(f, g, h, top) ==
    \A n \in 0 .. top : /\ Len(f[n]) \in Nat
                        /\ \A i \in 1 .. Len(g[n]) : h[n][i] \in 1 .. Len(f[n])
                        /\ \A i, j \in 1 .. Len(g[n]) : h[n][i] = h[n][j] => i = j
Misses(f, g, h, top, D) ==
    /\ D \subseteq Slots(f, top)
    /\ \A n \in 0 .. top : \A i \in 1 .. Len(g[n]) : <<n, h[n][i]>> \notin D
    /\ \A n \in 0 .. top : \A j \in 1 .. Len(f[n]) : <<n, j>> \notin D => \E i \in 1 .. Len(g[n]) : h[n][i] = j
UnreadOn(g, top) == {p \in Slots(g, top) : IsUnread(g[p[1]][p[2]])}
Reads(f, g, h, top) ==
    \A n \in 0 .. top : \A i \in 1 .. Len(g[n]) : IsUnread(g[n][i]) => Uncounted \/ IsUnread(f[n][h[n][i]])
\* The pages 0 to top, each once.
Orders(numbers, top) ==
    /\ Len(numbers) = top + 1
    /\ \A k \in 1 .. (top + 1) : numbers[k] \in 0 .. top
    /\ \A j, k \in 1 .. (top + 1) : numbers[j] = numbers[k] => j = k
    /\ \A n \in 0 .. top : \E k \in 1 .. (top + 1) : numbers[k] = n
\* q is the page with m placed at pos; what was the j-th is the e[j]-th.
Placed(page, m, q, pos, e) ==
    /\ q \in Seq(Msgs) /\ pos \in 1 .. Len(q) /\ q[pos] = m
    /\ \A j \in 1 .. Len(page) : e[j] \in 1 .. Len(q) /\ e[j] # pos /\ q[e[j]] = page[j]
    /\ \A j, k \in 1 .. Len(page) : e[j] = e[k] => j = k
    /\ \A i \in 1 .. Len(q) : i # pos => \E j \in 1 .. Len(page) : e[j] = i
\* m is to be appended to the pages of v: on page hi, which has base, and new is the metadata then.
Appending(m, v, hi, base, g, new, todo) ==
    /\ hi \in C!Pages /\ hi \in {Top(v), Top(v) + 1} /\ base \in Seq(Msgs)
    /\ hi = Top(v) => base = v.page[Top(v)] /\ todo = <<C!save_page(hi, g[hi]), C!save_metadata(new)>>
    /\ hi # Top(v) => base = <<>> /\ todo = <<C!save_page(Top(v), v.page[Top(v)]), C!save_page(hi, g[hi]), C!save_metadata(new)>>
    /\ g = [n \in 0 .. hi |-> IF n = hi THEN C!place(base, m) ELSE v.page[n]]
    /\ new = C!record_append([C!current EXCEPT !.latest = hi], m, v.meta = <<>>)
\* The pages and the metadata that an append leaves.
PagesThen(m, v, hi, base, g) ==
    /\ hi \in Nat /\ hi \in 0 .. hi /\ 0 .. hi \subseteq C!Pages
    /\ g[hi] = C!place(base, m) /\ \A n \in 0 .. hi : n # hi => g[n] = v.page[n] /\ n \in 0 .. Top(v)
    /\ \A n \in 0 .. hi : g[n] \in Seq(Msgs)
MetaThen(m, v, hi, new) ==
    LET c == C!current
    IN  /\ new \in Metas /\ new.latest = hi /\ new.total = c.total + 1 /\ new.index = C!Larger(c.index, m.index)
        /\ new.unread = (IF IsUnread(m) THEN c.unread + 1 ELSE c.unread)
        /\ new.oldest = IF v.meta = <<>> \/ c.total = 0 \/ m.ts < c.oldest THEN m.ts ELSE c.oldest
\* The positions of g, up to hi, are those of f, up to top, moved by E, and <<hi, pos>>.
Grows(f, top, g, hi, pos, E) ==
    /\ \A p \in Slots(f, top) : E[p] \in Slots(g, hi) /\ E[p] # <<hi, pos>> /\ g[E[p][1]][E[p][2]] = f[p[1]][p[2]]
    /\ \A p, r \in Slots(f, top) : E[p] = E[r] => p = r
    /\ \A r \in Slots(g, hi) : r # <<hi, pos>> => \E p \in Slots(f, top) : E[p] = r
    /\ <<hi, pos>> \in Slots(g, hi)
\* What may be appended, and what follows: own messages have ids and indexes of their own.
Appendable(m, v, at, id) ==
    /\ m \in Msgs /\ GoodMsg(m, owned') /\ m.id \notin OldIds
    /\ at \in {"done", "stored", "transmit"} /\ (at = "stored" => id = m.id /\ id \in 1 .. MaxPeerIds)
    /\ m.id \in 1 .. MaxPeerIds => at = "stored" \/ m.id \in ByWindow
    /\ m.id > MaxPeerIds => m.id \notin ShownIds(v) \/ m.id \in ByWindow
    /\ Sent(m) => m.index = C!NextIndex
    /\ Sent(m) /\ m.status = "pending" => at = "transmit" /\ id = m.id
\* Nothing is under this account's key; a record under the peer alone may be.
Bare(s, l) ==
    /\ s.meta = <<>> /\ \A n \in C!Pages : s.pages[n] = <<>>
    /\ \A n \in C!Pages \ {0} : l.pages[n] = <<>>
    /\ \/ l.pages[0] = <<>> /\ l.meta = <<>>
       \/ l.pages[0] = OldPage /\ \E owner \in {"none", "own"} : l.meta = OldMeta(owner)
\* What delete writes for one of the two key shapes.
Dropping(key, pagekey, top) == [k \in 1 .. (top + 1) |-> C!delete_key(pagekey, k - 1)] \o <<C!delete_key(key, 0)>>
\* D has the pages up to top, and the metadata after them.
Drops(D, key, pagekey, top) ==
    /\ D \in Seq(Writes) /\ Len(D) = top + 2
    /\ \A k \in 1 .. (top + 1) : D[k].key = pagekey /\ D[k].n = k - 1 /\ D[k].value = <<>>
    /\ D[top + 2].key = key /\ D[top + 2].n = 0 /\ D[top + 2].value = <<>>
\* todo erases this account's pages up to top and its metadata, and with all those under
\* the peer alone too.
Erases(todo, top, all) ==
    /\ todo \in Seq(Writes) /\ Distinct(todo)
    /\ \A k \in 1 .. Len(todo) : /\ todo[k].value = <<>> /\ todo[k].n \in C!Pages
                                 /\ todo[k].key \in {"metadata", "legacy_metadata"} => todo[k].n = 0
    /\ \A n \in 0 .. top : \E k \in 1 .. Len(todo) : todo[k].key = "page" /\ todo[k].n = n
    /\ \E k \in 1 .. Len(todo) : todo[k].key = "metadata" /\ todo[k].n = 0
    /\ all => /\ \E k \in 1 .. Len(todo) : todo[k].key = "legacy_page" /\ todo[k].n = 0
              /\ \E k \in 1 .. Len(todo) : todo[k].key = "legacy_metadata" /\ todo[k].n = 0
    /\ ~all => \A k \in 1 .. Len(todo) : todo[k].key \in {"page", "metadata"}
Dropped(D, key, pagekey, top) ==
    /\ D \in Seq(Writes) /\ Len(D) \in Nat /\ Distinct(D)
    /\ \A k \in 1 .. Len(D) : D[k].value = <<>> /\ D[k].n \in C!Pages /\ D[k].key \in {key, pagekey} /\ (D[k].key = key => D[k].n = 0)
    /\ \A n \in 0 .. top : \E k \in 1 .. Len(D) : D[k].key = pagekey /\ D[k].n = n
    /\ \E k \in 1 .. Len(D) : D[k].key = key /\ D[k].n = 0

-----------------------------------------------------------------------------
(* The updater. *)

EngineAt == {"idle", "prepare", "download", "consider", "copy", "keep", "link", "put", "spawn", "exit"}
WatchAt == {"none", "await", "stuck", "health", "kill", "mark", "put", "putOnly", "respawn"}
Children == {"none", "starting", "bound", "exited"}
MaybeVersion == Versions \cup {0}
EngineRec ==
    [run : MaybeVersion, offer : MaybeVersion, staged : BOOLEAN, settled : BOOLEAN, auto : BOOLEAN,
     at : EngineAt, trigger : {"Idle", "UserAsked"}, ready : BOOLEAN, auto_install : BOOLEAN,
     failed_before : BOOLEAN, again : BOOLEAN, of : MaybeVersion]
WatchRec == [at : WatchAt, child : Children]

HostTyped ==
    /\ mac \in BOOLEAN /\ works \in [Versions -> BOOLEAN] /\ latest \in Versions
    /\ crashes \in Nat /\ overlap \in BOOLEAN
    /\ target \in Versions /\ backup \in MaybeVersion /\ incoming \in MaybeVersion /\ cache \in MaybeVersion
    /\ failed \subseteq Versions /\ handed \subseteq Versions

Swapping == {"copy", "keep", "link", "put", "spawn", "exit"}

\* The versions whose marker could not be written.
Unmarked == {v \in Versions : [what |-> "marker", of |-> v] \in errors}

\* What one install reads at its start still holds at its end: the engine is busy.
EngineGood(e) ==
    /\ e.run = 0 => e.at = "idle" /\ ~e.staged
    /\ e.staged => e.offer # 0
    /\ e.at \in {"prepare", "download"} => e.of # 0
    /\ e.at = "consider" => e.of = e.offer /\ (e.ready => e.staged)
    /\ e.at = "consider" /\ e.again => e.failed_before \/ e.of \in Unmarked
    /\ e.at \in Swapping => e.staged /\ e.of = e.offer

CacheGood(e) ==
    /\ e.at \in {"keep", "link", "put"} => incoming = e.of
    /\ e.staged /\ e.at \notin {"prepare", "download"} => cache = e.offer

\* The app's images and the watchdog's swap are two ways that never mix.
OneWay ==
    /\ handed # {} => mac
    /\ engine.at \in Swapping \/ Watched => ~mac

MarkedFirst ==
    /\ rolled \subseteq failed \cup Unmarked
    /\ \A v \in Versions : watch[v].at \in {"put", "putOnly"} => v \in failed \cup Unmarked
    /\ retried \subseteq Unmarked

\* One process after the other, while none was cut short, nothing began under the watch
\* of another install and every watchdog had its plan and could put its backup back.
Clean == crashes = 0 /\ ~overlap /\ ~Erred({"restore", "plan"})

OneWatch == \A v, w \in Versions : watch[v].at # "none" /\ watch[w].at # "none" => v = w

\* Where a watchdog stands tells whether an agent runs.
WatchGood(v) ==
    LET w == watch[v] IN
    /\ w.at \notin {"stuck", "putOnly"}
    /\ w.at = "await" => ~Running \/ engine.at = "exit"
    /\ w.at \in {"health", "kill"} /\ w.child # "bound" => ~Running
    /\ w.at \in {"health", "kill"} /\ w.child = "bound" => Running /\ engine.at # "exit"
    /\ w.at \in {"mark", "put", "respawn"} => ~Running
    /\ w.at = "respawn" => works[target]

\* What there is to go back to works.
Recoverable ==
    /\ IF backup = 0 THEN works[target] ELSE works[backup]
    /\ Running /\ engine.at \notin {"spawn", "exit"} => works[target]
    /\ engine.at \in {"put", "spawn", "exit"} => backup # 0

InGoodHands ==
    /\ engine.at = "exit" => watch[engine.of].at = "await"
    /\ Running \/ Watched \/ (Erred({"respawn"}) /\ works[target])

CleanGood == OneWatch /\ (\A v \in Versions : WatchGood(v)) /\ Recoverable /\ InGoodHands

UpdaterTyped == HostTyped /\ engine \in EngineRec /\ watch \in [Versions -> WatchRec]

\* The inductive invariant.
UpdaterInv ==
    /\ UpdaterTyped /\ EngineGood(engine) /\ CacheGood(engine) /\ OneWay /\ MarkedFirst
    /\ Clean => CleanGood

-----------------------------------------------------------------------------
(* The browser's client. *)

Replies == W!Inits \X Nat
ClientRec ==
    [conn : W!Inits, stream : W!Inits \cup {0}, pending : Seq(Replies), connections : SUBSET Cids,
     pending_opens : SUBSET Cids]
OpenRec ==
    [at : {"idle", "multiplex", "waiting"}, conn : W!Inits \cup {0}, cid : Cids \cup {None}, ensure : BOOLEAN]

ClientTyped ==
    /\ call \in [W!Inits -> {"none", "connecting", "done", "failed"}]
    /\ state = None \/ state \in ClientRec
    /\ state # None => call[state.conn] = "done"

CallsTyped ==
    /\ gen \in [W!Inits -> Nat] /\ connection_generation \in Nat
    /\ task \in [W!Inits -> {"none", "running", "ending", "ended"}]
    /\ closed \subseteq W!Inits /\ reported \subseteq W!Inits

\* One call of init, restart and close at a time: whatever is closed has an older
\* generation than the page's, and was closed before it ended.
Calls ==
    /\ \A c \in W!Inits : call[c] = "connecting" =>
          /\ state = None /\ sink = c /\ gen[c] = connection_generation
          /\ \A d \in W!Inits : call[d] = "connecting" => d = c
    /\ state # None => sink = state.conn
    /\ \A c \in W!Inits : gen[c] <= connection_generation
    /\ \A c \in W!Inits : task[c] # "none" => call[c] = "done"
    /\ \A c \in closed : gen[c] < connection_generation /\ task[c] \in {"ending", "ended"} /\ c \notin reported
    /\ \A c \in reported : task[c] = "ended"

HandlesTyped ==
    /\ opener \in [Openers -> OpenRec]
    /\ multiplexed \in Seq(W!Inits \X Cids)

Named == \A o \in Openers : opener[o].at # "idle" => opener[o].cid \in Cids

Opening(o) == opener[o].at = "multiplex"
On(c) == state # None /\ state.conn = c

\* A handle is being made by one call at a time, of an account that has none: the
\* claim stands in the tables of the connection while they last.
Handles ==
    /\ W!OneHandleEach
    /\ \A i \in DOMAIN multiplexed :
          /\ call[multiplexed[i][1]] = "done"
          /\ On(multiplexed[i][1]) => multiplexed[i][2] \in state.connections
    /\ \A o \in Openers : Opening(o) =>
          /\ opener[o].conn \in W!Inits /\ opener[o].cid \in Cids /\ call[opener[o].conn] = "done"
          /\ \A i \in DOMAIN multiplexed : multiplexed[i] # <<opener[o].conn, opener[o].cid>>
          /\ On(opener[o].conn) => opener[o].cid \in state.pending_opens
          /\ \A p \in Openers : Opening(p) /\ opener[p].conn = opener[o].conn
                                  /\ opener[p].cid = opener[o].cid => p = o

RepliesTyped ==
    /\ queue \in [W!Inits -> Seq(Replies)]
    /\ taker \in [Takers -> W!Inits \cup {0}]
    /\ given \in Seq(Replies)
    /\ messages \in Nat

Ordered(s) == \A i, j \in DOMAIN s : i < j /\ s[i][1] = s[j][1] => s[i][2] < s[j][2]
Before(s, t) == \A i \in DOMAIN s, j \in DOMAIN t : s[i][1] = t[j][1] => s[i][2] < t[j][2]
Without(s, c) == \A i \in DOMAIN s : s[i][1] # c
OnlyOf(s, c) == \A i \in DOMAIN s : s[i][1] = c
Heard(s, calls, n) == \A i \in DOMAIN s : s[i][2] <= n /\ calls[s[i][1]] = "done"

InState(c) == state # None /\ state.stream = c

\* Each stream is in one place, the state or a call of next_message.
HeldOnce ==
    /\ state # None /\ state.stream # 0 => call[state.stream] = "done"
    /\ \A t \in Takers : taker[t] # 0 =>
          /\ call[taker[t]] = "done" /\ ~InState(taker[t])
          /\ \A u \in Takers : taker[u] = taker[t] => u = t

Holds(c) == InState(c) \/ \E t \in Takers : taker[t] = c

\* What was given comes before what was rescued, and before what a stream that may
\* still be read holds; what was rescued is of streams nobody reads any more.
Order ==
    /\ Ordered(given) /\ Heard(given, call, messages)
    /\ state # None =>
          Ordered(state.pending) /\ Heard(state.pending, call, messages) /\ Before(given, state.pending)
    /\ \A c \in W!Inits : Ordered(queue[c]) /\ Heard(queue[c], call, messages) /\ OnlyOf(queue[c], c)
    /\ \A c \in W!Inits : Holds(c) =>
          Before(given, queue[c]) /\ (state # None => Without(state.pending, c))

ClientInv ==
    /\ ClientTyped
    /\ CallsTyped /\ (~Overlap => Calls)
    /\ HandlesTyped /\ Named /\ Handles
    /\ RepliesTyped /\ HeldOnce /\ Order
=============================================================================
