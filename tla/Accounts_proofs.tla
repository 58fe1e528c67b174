-------------------------- MODULE Accounts_proofs --------------------------
(* The updater, the browser's client and a conversation's store, for every   *)
(* number of versions, checks, crashes, page calls, connections, replies,    *)
(* pages, messages and failed writes (UpdaterSound, ClientSound,             *)
(* ConversationsSound).  The updater's invariant follows one install through *)
(* the engine, the swap and the watchdog, and says who is there to undo it.  *)
(* The client's has a part for each of its calls, its handles and its        *)
(* replies.  The conversation's is about two stores: the one there is, and   *)
(* the one there will be once the operation under way has made its writes.   *)
EXTENDS AccountsInv, FiniteSetTheorems, TLAPS

-----------------------------------------------------------------------------
(* A conversation's store.                                                 *)

LEMMA LeastNumber ==
    ASSUME NEW T, T \subseteq Nat, T # {}
    PROVE  \E x \in T : \A y \in T : x <= y
<1>1. IsWellFoundedOn({ss \in Nat \X Nat : ss[1] < ss[2]}, Nat)
  BY NatLessThanWellFounded, Zenon DEF OpToRel
<1>2. PICK x \in T : \A y \in T : <<y, x>> \notin {ss \in Nat \X Nat : ss[1] < ss[2]}
  BY <1>1, WFMin, Zenon
<1>3. ASSUME NEW y \in T PROVE x <= y
  <2>1. <<y, x>> \notin {ss \in Nat \X Nat : ss[1] < ss[2]}
    BY <1>2
  <2>2. x \in Nat /\ y \in Nat
    OBVIOUS
  <2>3. ~(y < x)
    BY <2>1, <2>2
  <2> QED
    BY <2>2, <2>3
<1> QED
  BY <1>3

LEMMA GreatestNumber ==
    ASSUME NEW T, NEW n \in Nat, T \subseteq 0 .. n, T # {}
    PROVE  \E x \in T : \A y \in T : y <= x
<1>1. PICK U : U = {n - x : x \in T}
  OBVIOUS
<1>2. U \subseteq Nat /\ U # {}
  <2>1. \A x \in T : x \in Int /\ n - x \in Nat
    OBVIOUS
  <2>2. \A x \in T : n - x \in U
    BY <1>1
  <2> QED
    BY <1>1, <2>1, <2>2
<1>3. PICK u \in U : \A w \in U : u <= w
  BY <1>2, LeastNumber
<1>4. PICK x \in T : u = n - x
  BY <1>1, <1>3
<1>5. ASSUME NEW y \in T PROVE y <= x
  <2>1. n - y \in U
    BY <1>1
  <2>2. n - x <= n - y /\ x \in Nat /\ y \in Nat
    BY <1>3, <1>4, <2>1
  <2> QED
    BY <2>2
<1> QED
  BY <1>5

\* A set that maps into a finite one, nothing to the same place, is no larger;
LEMMA Injects ==
    ASSUME NEW S, NEW T, IsFiniteSet(T), NEW f \in [S -> T], \A x, y \in S : f[x] = f[y] => x = y
    PROVE  IsFiniteSet(S) /\ Cardinality(S) <= Cardinality(T) /\ Cardinality(S) \in Nat /\ Cardinality(T) \in Nat
<1>1. f \in Injection(S, T)
  BY DEF Injection, IsInjective
<1> QED
  BY <1>1, FS_Injection, FS_CardinalityType

\* and as large, when it maps onto it.
LEMMA Bijects ==
    ASSUME NEW S, NEW T, IsFiniteSet(T), NEW f \in [S -> T], \A x, y \in S : f[x] = f[y] => x = y,
           \A t \in T : \E x \in S : f[x] = t
    PROVE  IsFiniteSet(S) /\ Cardinality(S) = Cardinality(T)
<1>1. f \in Injection(S, T) /\ f \in Surjection(S, T)
  BY DEF Injection, IsInjective, Surjection
<1> QED
  BY <1>1, FS_Injection

\* The image of a finite set is finite, and no larger.
LEMMA Images ==
    ASSUME NEW S, IsFiniteSet(S), NEW f
    PROVE  IsFiniteSet({f[x] : x \in S}) /\ Cardinality({f[x] : x \in S}) <= Cardinality(S)
<1>1. PICK g : g = [x \in S |-> f[x]]
  OBVIOUS
<1>2. g \in Surjection(S, {f[x] : x \in S})
  BY <1>1 DEF Surjection
<1> QED
  BY <1>2, FS_Surjection

\* What is picked is read through a numbering of the positions picked.
LEMMA PickedIs ==
    ASSUME NEW s, NEW n \in Nat, NEW I, I \subseteq 1 .. n
    PROVE  \E N, nth : Picks(s, I, N, nth)
<1>2. I \subseteq Int
  OBVIOUS
<1>3. IsFiniteSet(I)
  <2>1. IsFiniteSet(1..n)
    BY FS_Interval
  <2> QED
    BY <2>1, FS_Subset
<1>4. PICK N \in Nat : N = Cardinality(I)
  BY <1>3, FS_CardinalityType
<1>5. PICK place_of : place_of = [i \in I |-> Cardinality({j \in I : j <= i})]
  OBVIOUS
<1>6. ASSUME NEW i \in I PROVE place_of[i] \in 1..N
  <2>1. PICK J : J = {j \in I : j <= i}
    OBVIOUS
  <2>2. J \subseteq I /\ i \in J
    BY <1>2, <2>1
  <2>3. IsFiniteSet(J) /\ Cardinality(J) <= N /\ Cardinality(J) \in Nat
    BY <1>3, <1>4, <2>2, FS_Subset, FS_CardinalityType
  <2>4. Cardinality(J) # 0
    BY <2>2, <2>3, FS_EmptySet
  <2> QED
    BY <1>5, <2>1, <2>3, <2>4
<1>7. ASSUME NEW i \in I, NEW k \in I, i < k PROVE place_of[i] # place_of[k]
  <2>1. PICK J : J = {j \in I : j <= i}
    OBVIOUS
  <2>2. PICK K : K = {j \in I : j <= k}
    OBVIOUS
  <2>3. J \subseteq K /\ k \in K /\ k \notin J /\ K \subseteq I
    <3>1. i \in Int /\ k \in Int /\ \A j \in I : j \in Int /\ (j <= i => j <= k) /\ k <= k /\ ~(k <= i)
      BY <1>2, <1>7
    <3> QED
      BY <2>1, <2>2, <3>1
  <2>4. IsFiniteSet(K)
    BY <1>3, <2>3, FS_Subset
  <2>5. Cardinality(K) # Cardinality(J)
    BY <2>3, <2>4, FS_Subset
  <2> QED
    BY <1>5, <2>1, <2>2, <2>5
<1>8. \A i, k \in I : place_of[i] = place_of[k] => i = k
  BY <1>2, <1>7
<1>9. \A k \in 1..N : \E i \in I : place_of[i] = k
  <2>1. place_of \in [I -> 1..N]
    BY <1>5, <1>6
  <2>2. place_of \in Injection(I, 1..N)
    BY <1>8, <2>1 DEF Injection, IsInjective
  <2>3. IsFiniteSet(1..N) /\ Cardinality(1..N) = N
    BY <1>4, FS_Interval
  <2>4. place_of \in Surjection(I, 1..N)
    BY <1>4, <2>2, <2>3, FS_Injection
  <2> QED
    BY <2>4 DEF Surjection
<1>10. PICK nth : nth = [k \in 1..N |-> CHOOSE i \in I : place_of[i] = k]
  OBVIOUS
<1>11. \A k \in 1..N : nth[k] \in I /\ place_of[nth[k]] = k
  BY <1>9, <1>10
<1>12. C!Picked(s, I) = [k \in 1..N |-> s[nth[k]]]
  <2>1. \A k \in 1..N : nth[k] = CHOOSE i \in I : Cardinality({j \in I : j <= i}) = k
    <3> SUFFICES ASSUME NEW k \in 1..N
                 PROVE  (CHOOSE i \in I : place_of[i] = k) = CHOOSE i \in I : Cardinality({j \in I : j <= i}) = k
      BY <1>10
    <3>1. \A i \in I : (place_of[i] = k) <=> (Cardinality({j \in I : j <= i}) = k)
      BY <1>5
    <3> QED
      BY <3>1
  <2>2. C!Picked(s, I) = [k \in 1..Cardinality(I) |->
                            s[CHOOSE i \in I : Cardinality({j \in I : j <= i}) = k]]
    BY DEF C!Picked, C!Cardinality, Cardinality
  <2> QED
    BY <1>4, <2>1, <2>2
<1>13. nth \in [1..N -> I]
  BY <1>10, <1>11
<1>14. \A i \in I : place_of[i] \in 1..N /\ nth[place_of[i]] = i
  BY <1>6, <1>8, <1>11
<1>15. \A j, k \in 1..N : nth[j] = nth[k] => j = k
  BY <1>11
<1>16. Picks(s, I, N, nth)
  BY <1>4, <1>12, <1>13, <1>14, <1>15 DEF Picks
<1> QED
  BY <1>16

\* A position is a page and an index on it.
LEMMA InSlots ==
    ASSUME NEW g, NEW top
    PROVE  /\ \A p \in Slots(g, top) : \E n \in 0 .. top : \E i \in 1 .. Len(g[n]) : p = <<n, i>>
           /\ \A n \in 0 .. top : \A i \in 1 .. Len(g[n]) : <<n, i>> \in Slots(g, top)
BY DEF Slots

\* The positions are finitely many.
LEMMA SlotsFinite ==
    ASSUME NEW g, NEW top \in Nat, \A n \in 0 .. top : Len(g[n]) \in Nat
    PROVE  IsFiniteSet(Slots(g, top)) /\ Cardinality(Slots(g, top)) \in Nat
<1>1. PICK f : f = [n \in 0 .. top |-> {<<n, i>> : i \in 1 .. Len(g[n])}]
  OBVIOUS
<1>2. IsFiniteSet(0 .. top)
  BY FS_Interval
<1>3. IsFiniteSet({f[n] : n \in 0 .. top})
  BY <1>2, Images
<1>4. ASSUME NEW n \in 0 .. top PROVE IsFiniteSet(f[n])
  <2>1. PICK h : h = [i \in 1 .. Len(g[n]) |-> <<n, i>>]
    OBVIOUS
  <2>2. IsFiniteSet(1 .. Len(g[n]))
    BY FS_Interval
  <2>3. IsFiniteSet({h[i] : i \in 1 .. Len(g[n])})
    BY <2>2, Images
  <2>4. {h[i] : i \in 1 .. Len(g[n])} = f[n]
    BY <1>1, <2>1
  <2> QED
    BY <2>3, <2>4
<1>5. PICK F : F = {f[n] : n \in 0 .. top}
  OBVIOUS
<1>6. \A T \in F : IsFiniteSet(T)
  BY <1>4, <1>5
<1>7. IsFiniteSet(UNION F)
  BY <1>3, <1>5, <1>6, FS_UNION
<1>8. Slots(g, top) = UNION F
  BY <1>1, <1>5 DEF Slots
<1> QED
  BY <1>7, <1>8, FS_CardinalityType

-----------------------------------------------------------------------------
LEMMA OptionIs ==
    ASSUME NEW S, NEW o \in Options(S), o # <<>>
    PROVE  o[1] \in S /\ o = <<o[1]>>
BY DEF Options

\* Options: nothing, or one of S.
LEMMA OptionHas == ASSUME NEW S PROVE <<>> \in Options(S) /\ \A x \in S : <<x>> \in Options(S) /\ <<x>> # <<>> /\ <<x>>[1] = x
BY DEF Options

\* The record an account may have had before: two messages on its first page.
LEMMA OldIs ==
    /\ OldPage \in Options(Seq(Msgs)) /\ OldPage # <<>>
    /\ Len(OldPage[1]) = 2 /\ OldPage[1] \in Seq(Msgs)
    /\ OldPage[1][1].id = C!OldId(1) /\ OldPage[1][1].from = "own" /\ OldPage[1][1].ts = 1
    /\ OldPage[1][1].index = 1 /\ OldPage[1][1].status = "sent" /\ OldPage[1][1].editor = "none"
    /\ OldPage[1][2].id = C!OldId(2) /\ OldPage[1][2].from = "peer" /\ OldPage[1][2].ts = 2
    /\ OldPage[1][2].index = 1 /\ OldPage[1][2].status = "delivered" /\ OldPage[1][2].editor = "none"
    /\ \A own \in Nat : GoodPage(0, OldPage[1], own)
    /\ \A owner \in {"none", "own"} :
          /\ OldMeta(owner) \in Options(Metas) /\ OldMeta(owner) # <<>>
          /\ OldMeta(owner)[1] = [owner |-> owner, total |-> 2, oldest |-> 1, latest |-> 0, unread |-> 1, index |-> 1]
          /\ C!OldRecord(owner) \in Records /\ C!OldRecord(owner).pages[0] = OldPage
          /\ \A n \in C!Pages \ {0} : C!OldRecord(owner).pages[n] = <<>>
<1> DEFINE a == C!received(C!OldId(1), "own", 1, 1, "sent")
           b == C!received(C!OldId(2), "peer", 2, 1, "delivered")
<1>1. 0 \in C!Pages
  BY ConversationsAssumption DEF C!Pages
<1>2. OldPage = <<<<a, b>>>>
  BY <1>1 DEF OldPage, C!OldRecord, C!NoPages
<1>3. C!OldId(1) \in Nat /\ C!OldId(2) \in Nat /\ C!OldId(1) # C!OldId(2) /\ C!OldId(1) > MaxPeerIds /\ C!OldId(2) > MaxPeerIds
  BY ConversationsAssumption DEF C!OldId
<1>4. a \in Msgs /\ b \in Msgs
  BY <1>3 DEF C!received, Msgs, C!Parties, C!Statuses
<1>5. a.id = C!OldId(1) /\ a.from = "own" /\ a.ts = 1 /\ a.index = 1 /\ a.status = "sent" /\ a.editor = "none"
  BY DEF C!received
<1>6. b.id = C!OldId(2) /\ b.from = "peer" /\ b.ts = 2 /\ b.index = 1 /\ b.status = "delivered" /\ b.editor = "none"
  BY DEF C!received
<1> HIDE DEF a, b
<1>7. PICK page : page = <<a, b>>
  OBVIOUS
<1>8. page \in Seq(Msgs) /\ Len(page) = 2 /\ page[1] = a /\ page[2] = b
  BY <1>4, <1>7
<1>9. OldPage = <<page>> /\ OldPage[1] = page /\ OldPage # <<>> /\ OldPage \in Options(Seq(Msgs))
  BY <1>2, <1>7, <1>8 DEF Options
<1>10. ASSUME NEW own \in Nat PROVE GoodPage(0, page, own)
  <2>1. GoodMsg(a, own) /\ GoodMsg(b, own)
    BY <1>3, <1>4, <1>5, <1>6 DEF GoodMsg, OldIds, Sent
  <2> QED
    BY <1>3, <1>5, <1>6, <1>8, <2>1 DEF GoodPage
<1>11. ASSUME NEW owner \in {"none", "own"}
       PROVE  /\ OldMeta(owner) \in Options(Metas) /\ OldMeta(owner) # <<>>
              /\ OldMeta(owner)[1] = [owner |-> owner, total |-> 2, oldest |-> 1, latest |-> 0, unread |-> 1, index |-> 1]
              /\ C!OldRecord(owner) \in Records /\ C!OldRecord(owner).pages[0] = OldPage
              /\ \A n \in C!Pages \ {0} : C!OldRecord(owner).pages[n] = <<>>
  <2>1. PICK meta : meta = [owner |-> owner, total |-> 2, oldest |-> 1, latest |-> 0, unread |-> 1, index |-> 1]
    OBVIOUS
  <2>2. meta \in Metas
    BY <1>1, <2>1 DEF Metas
  <2>3. OldMeta(owner) = <<meta>>
    BY <2>1 DEF OldMeta, C!OldRecord
  <2>4. PICK pages : pages = [C!NoPages EXCEPT ![0] = OldPage]
    OBVIOUS
  <2>5. C!OldRecord(owner) = [pages |-> pages, meta |-> <<meta>>]
    BY <1>2, <2>1, <2>4 DEF C!OldRecord, a, b
  <2>6. pages \in [C!Pages -> Options(Seq(Msgs))] /\ pages[0] = OldPage /\ \A n \in C!Pages \ {0} : pages[n] = <<>>
    BY <1>1, <1>9, <2>4 DEF C!NoPages, Options
  <2>7. <<meta>> \in Options(Metas)
    BY <2>2, OptionHas
  <2> QED
    BY <2>1, <2>3, <2>5, <2>6, <2>7 DEF Records
<1> QED
  BY <1>5, <1>6, <1>8, <1>9, <1>10, <1>11

\* The view is what the code reads of the store.
LEMMA ViewIs ==
    ASSUME StoreTyped, owned \in Nat
    PROVE  /\ C!load_metadata = ViewNow.meta /\ ViewNow.meta \in Options(Metas)
           /\ C!LatestPage = Top(ViewNow) /\ Top(ViewNow) \in C!Pages
           /\ \A n \in C!Pages : /\ C!OnPage(n) = ViewNow.page[n] /\ C!IdsOn(n) = Ids(ViewNow.page[n])
                                 /\ C!load_page(n) = <<>> => ViewNow.page[n] = <<>>
                                 /\ GoodPage(n, ViewNow.page[n], owned)
           /\ C!Reachable = ShownIds(ViewNow)
           /\ ViewNow.page \in [C!Pages -> Seq(Msgs)]
<1>1. 0 \in C!Pages /\ C!Pages \subseteq Nat
  BY ConversationsAssumption DEF C!Pages
<1>2. legacy.meta \in Options(Metas) /\ (legacy.meta # <<>> => legacy.meta[1].owner \in {"none", "own"})
  <2>1. \A owner \in {"none", "own"} : OldMeta(owner)[1].owner \in {"none", "own"}
    BY OldIs
  <2> QED
    BY <2>1, OldIs, OptionHas DEF StoreTyped
<1>3. scoped.meta \in Options(Metas)
  BY DEF StoreTyped, Records
<1>4. C!load_metadata = ShownMeta(scoped, legacy)
  BY <1>2 DEF C!load_metadata, C!metadata_at, ShownMeta
<1>5. ViewNow.meta = ShownMeta(scoped, legacy) /\ \A n \in C!Pages : ViewNow.page[n] = ShownPage(scoped, legacy, n)
  BY DEF ViewNow, View
<1>6. ViewNow.meta \in Options(Metas)
  BY <1>2, <1>3, <1>5 DEF ShownMeta
<1>7. C!LatestPage = Top(ViewNow)
  BY <1>4, <1>5 DEF C!LatestPage, Top
<1>8. Top(ViewNow) \in C!Pages
  <2>1. CASE ViewNow.meta = <<>>
    BY <1>1, <2>1 DEF Top
  <2>2. CASE ViewNow.meta # <<>>
    <3>1. ViewNow.meta[1] \in Metas
      BY <1>6, <2>2, OptionIs
    <3> QED
      BY <2>2, <3>1 DEF Top, Metas
  <2> QED
    BY <2>1, <2>2
<1>9. ASSUME NEW n \in C!Pages
      PROVE  /\ C!OnPage(n) = ViewNow.page[n] /\ C!IdsOn(n) = Ids(ViewNow.page[n])
             /\ C!load_page(n) = <<>> => ViewNow.page[n] = <<>>
             /\ GoodPage(n, ViewNow.page[n], owned)
  <2>1. C!OnPage(n) = ShownPage(scoped, legacy, n) /\ (C!load_page(n) = <<>> => ShownPage(scoped, legacy, n) = <<>>)
    BY DEF C!OnPage, C!load_page, C!page_at, ShownPage
  <2>2. C!IdsOn(n) = Ids(ViewNow.page[n])
    BY <1>5, <2>1 DEF C!IdsOn, Ids
  <2>3. GoodPage(n, <<>>, owned)
    BY DEF GoodPage
  <2>4. scoped.pages[n] # <<>> => GoodPage(n, scoped.pages[n][1], owned)
    BY DEF StoreTyped, GoodOption
  <2>5. legacy.pages[n] # <<>> => GoodPage(n, legacy.pages[n][1], owned)
    BY OldIs DEF StoreTyped
  <2> QED
    BY <1>5, <2>1, <2>2, <2>3, <2>4, <2>5 DEF ShownPage
<1>10. C!Reachable = ShownIds(ViewNow)
  <2>1. \A n \in 0 .. Top(ViewNow) : n \in C!Pages
    BY <1>8, ConversationsAssumption DEF C!Pages
  <2>2. {C!IdsOn(n) : n \in 0 .. C!LatestPage} = {Ids(ViewNow.page[n]) : n \in 0 .. Top(ViewNow)}
    BY <1>7, <1>9, <2>1
  <2> QED
    BY <2>2 DEF C!Reachable, ShownIds
<1>11. ViewNow.page \in [C!Pages -> Seq(Msgs)]
  <2>1. \A n \in C!Pages : ViewNow.page[n] \in Seq(Msgs)
    BY <1>9 DEF GoodPage
  <2>2. ViewNow.page = [n \in C!Pages |-> ShownPage(scoped, legacy, n)]
    BY DEF ViewNow, View
  <2> QED
    BY <1>5, <2>1, <2>2
<1> QED
  BY <1>4, <1>5, <1>6, <1>7, <1>8, <1>9, <1>10, <1>11

\* A key that is to be written gets what is written to it,
LEMMA AfterHas ==
    ASSUME NEW todo, Distinct(todo), NEW i \in 1 .. Len(todo), NEW key, NEW n, NEW now, todo[i].key = key, todo[i].n = n
    PROVE  After(todo, key, n, now) = todo[i].value
<1>1. PICK c : c = CHOOSE j \in 1 .. Len(todo) : todo[j].key = key /\ todo[j].n = n
  OBVIOUS
<1>2. c \in 1 .. Len(todo) /\ todo[c].key = key /\ todo[c].n = n
  BY <1>1
<1>3. c = i
  BY <1>2 DEF Distinct
<1> QED
  BY <1>1, <1>3 DEF After

\* and any other keeps what it has;
LEMMA AfterNone ==
    ASSUME NEW todo, NEW key, NEW n, NEW now, \A k \in 1 .. Len(todo) : ~(todo[k].key = key /\ todo[k].n = n)
    PROVE  After(todo, key, n, now) = now
BY DEF After

\* with nothing to write all do.
LEMMA NothingAfter ==
    ASSUME NEW s \in Records
    PROVE  ScopedAfter(<<>>, s) = s /\ LegacyAfter(<<>>, s) = s
<1>1. \A key, n, now : After(<<>>, key, n, now) = now
  BY DEF After
<1>2. s = [pages |-> [n \in C!Pages |-> s.pages[n]], meta |-> s.meta]
  BY DEF Records
<1> QED
  BY <1>1, <1>2 DEF ScopedAfter, LegacyAfter

\* One write of several less.
LEMMA TailIs ==
    ASSUME NEW own, NEW todo, GoodWrites(todo, own), todo # <<>>
    PROVE  /\ GoodWrites(Tail(todo), own) /\ Head(todo) = todo[1] /\ GoodWrite(todo[1], own) /\ Len(todo) \in Nat /\ Len(todo) >= 1
           /\ Len(Tail(todo)) = Len(todo) - 1 /\ \A k \in 1 .. (Len(todo) - 1) : Tail(todo)[k] = todo[k + 1] /\ k + 1 \in 1 .. Len(todo)
           /\ \A k \in 2 .. Len(todo) : todo[k] = Tail(todo)[k - 1] /\ k - 1 \in 1 .. Len(Tail(todo))
           /\ \A k \in 1 .. (Len(todo) - 1) : ~(Tail(todo)[k].key = todo[1].key /\ Tail(todo)[k].n = todo[1].n)
<1>1. todo \in Seq(Writes)
  BY DEF GoodWrites
<1>2. Tail(todo) \in Seq(Writes) /\ Head(todo) = todo[1] /\ Len(todo) \in Nat /\ Len(todo) >= 1
  BY <1>1
<1>3. Len(Tail(todo)) = Len(todo) - 1 /\ \A k \in 1 .. (Len(todo) - 1) : Tail(todo)[k] = todo[k + 1] /\ k + 1 \in 1 .. Len(todo)
  BY <1>1, <1>2
<1>4. 1 \in 1 .. Len(todo)
  BY <1>2
<1>5. \A k \in 1 .. (Len(todo) - 1) : k + 1 # 1
  OBVIOUS
<1>6. \A k \in 2 .. Len(todo) : todo[k] = Tail(todo)[k - 1] /\ k - 1 \in 1 .. Len(Tail(todo))
  <2> SUFFICES ASSUME NEW k \in 2 .. Len(todo) PROVE todo[k] = Tail(todo)[k - 1] /\ k - 1 \in 1 .. Len(Tail(todo))
    OBVIOUS
  <2>1. k - 1 \in 1 .. (Len(todo) - 1) /\ (k - 1) + 1 = k
    BY <1>2
  <2> QED
    BY <1>3, <2>1
<1>7. \A k \in 1 .. (Len(todo) - 1) : ~(Tail(todo)[k].key = todo[1].key /\ Tail(todo)[k].n = todo[1].n)
  BY <1>3, <1>4, <1>5 DEF GoodWrites, Distinct
<1>8. Distinct(Tail(todo))
  <2> SUFFICES \A j, k \in 1 .. Len(Tail(todo)) : Tail(todo)[j].key = Tail(todo)[k].key /\ Tail(todo)[j].n = Tail(todo)[k].n => j = k
    BY DEF Distinct
  <2> SUFFICES ASSUME NEW j \in 1 .. Len(Tail(todo)), NEW k \in 1 .. Len(Tail(todo)),
                      Tail(todo)[j].key = Tail(todo)[k].key, Tail(todo)[j].n = Tail(todo)[k].n
               PROVE  j = k
    OBVIOUS
  <2>1. Tail(todo)[j] = todo[j + 1] /\ j + 1 \in 1 .. Len(todo) /\ Tail(todo)[k] = todo[k + 1] /\ k + 1 \in 1 .. Len(todo) /\ j \in Int /\ k \in Int
    BY <1>3
  <2>2. j + 1 = k + 1
    BY <2>1 DEF GoodWrites, Distinct
  <2> QED
    BY <2>1, <2>2
<1>9. \A k \in 1 .. Len(Tail(todo)) : GoodWrite(Tail(todo)[k], own)
  BY <1>3 DEF GoodWrites
<1> QED
  BY <1>2, <1>3, <1>4, <1>6, <1>7, <1>8, <1>9 DEF GoodWrites

\* One write made, the rest of them lead where all did.
LEMMA AfterTail ==
    ASSUME NEW own, NEW todo, GoodWrites(todo, own), todo # <<>>, NEW key, NEW n, NEW now, NEW new,
           new = IF todo[1].key = key /\ todo[1].n = n THEN todo[1].value ELSE now
    PROVE  After(Tail(todo), key, n, new) = After(todo, key, n, now)
<1>1. PICK T : T = Tail(todo)
  OBVIOUS
<1>2. Distinct(todo)
  BY DEF GoodWrites
<1>3. Distinct(T)
  BY <1>1, TailIs DEF GoodWrites
<1>4. 1 \in 1 .. Len(todo)
  BY TailIs
<1>5. CASE todo[1].key = key /\ todo[1].n = n
  <2>1. After(todo, key, n, now) = todo[1].value
    BY <1>2, <1>4, <1>5, AfterHas
  <2>2. \A k \in 1 .. Len(T) : ~(T[k].key = key /\ T[k].n = n)
    BY <1>1, <1>5, TailIs
  <2>3. After(T, key, n, todo[1].value) = todo[1].value
    BY <1>3, <2>2, AfterNone
  <2> QED
    BY <1>1, <1>5, <2>1, <2>3
<1>6. CASE ~(todo[1].key = key /\ todo[1].n = n)
  <2>1. CASE \E k \in 1 .. Len(T) : T[k].key = key /\ T[k].n = n
    <3>1. PICK k \in 1 .. Len(T) : T[k].key = key /\ T[k].n = n
      BY <2>1
    <3>2. After(T, key, n, now) = T[k].value
      BY <1>3, <3>1, AfterHas
    <3>3. T[k] = todo[k + 1] /\ k + 1 \in 1 .. Len(todo)
      BY <1>1, TailIs
    <3>4. After(todo, key, n, now) = todo[k + 1].value
      BY <1>2, <3>1, <3>3, AfterHas
    <3> QED
      BY <1>1, <1>6, <3>2, <3>3, <3>4
  <2>2. CASE \A k \in 1 .. Len(T) : ~(T[k].key = key /\ T[k].n = n)
    <3>1. After(T, key, n, now) = now
      BY <1>3, <2>2, AfterNone
    <3>2. ASSUME NEW k \in 1 .. Len(todo) PROVE ~(todo[k].key = key /\ todo[k].n = n)
      <4>1. CASE k = 1
        BY <1>6, <4>1
      <4>2. CASE k \in 2 .. Len(todo)
        <5>1. todo[k] = T[k - 1] /\ k - 1 \in 1 .. Len(T)
          BY <1>1, <4>2, TailIs
        <5> QED
          BY <2>2, <5>1
      <4> QED
        BY <4>1, <4>2, TailIs
    <3>3. After(todo, key, n, now) = now
      BY <1>2, <3>2, AfterNone
    <3> QED
      BY <1>1, <1>6, <3>1, <3>3
  <2> QED
    BY <2>1, <2>2
<1> QED
  BY <1>5, <1>6

-----------------------------------------------------------------------------
(* A write. *)
LEMMA SetIs ==
    ASSUME StoreTyped, NEW w, GoodWrite(w, owned), C!set(w)
    PROVE  /\ scoped' \in Records /\ legacy' \in Records
           /\ \A n \in C!Pages : /\ scoped'.pages[n] = IF w.key = "page" /\ w.n = n THEN w.value ELSE scoped.pages[n]
                                 /\ legacy'.pages[n] = IF w.key = "legacy_page" /\ w.n = n THEN w.value ELSE legacy.pages[n]
           /\ scoped'.meta = IF w.key = "metadata" /\ w.n = 0 THEN w.value ELSE scoped.meta
           /\ legacy'.meta = IF w.key = "legacy_metadata" /\ w.n = 0 THEN w.value ELSE legacy.meta
<1>0. scoped \in Records /\ legacy \in Records /\ w \in Writes
  BY DEF StoreTyped, GoodWrite
<1>e. <<>> \in Options(Seq(Msgs)) /\ <<>> \in Options(Metas)
  BY OptionHas
<1>1. CASE w.key = "page"
  <2>1. scoped' = [scoped EXCEPT !.pages[w.n] = w.value] /\ legacy' = legacy
    BY <1>1 DEF C!set
  <2>2. w.value \in Options(Seq(Msgs)) /\ w.n \in C!Pages
    BY <1>1 DEF GoodWrite, GoodOption, Writes
  <2> QED
    BY <1>0, <1>1, <2>1, <2>2 DEF Records
<1>2. CASE w.key = "metadata"
  <2>1. scoped' = [scoped EXCEPT !.meta = w.value] /\ legacy' = legacy
    BY <1>2 DEF C!set
  <2>2. w.value \in Options(Metas) /\ w.n = 0
    BY <1>2 DEF GoodWrite
  <2> QED
    BY <1>0, <1>2, <2>1, <2>2 DEF Records
<1>3. CASE w.key = "legacy_page"
  <2>1. legacy' = [legacy EXCEPT !.pages[w.n] = w.value] /\ scoped' = scoped
    BY <1>3 DEF C!set
  <2>2. w.value = <<>> /\ w.n \in C!Pages
    BY <1>3 DEF GoodWrite, Writes
  <2> QED
    BY <1>0, <1>e, <1>3, <2>1, <2>2 DEF Records
<1>4. CASE w.key = "legacy_metadata"
  <2>1. legacy' = [legacy EXCEPT !.meta = w.value] /\ scoped' = scoped
    BY <1>4 DEF C!set
  <2>2. w.value = <<>> /\ w.n = 0
    BY <1>4 DEF GoodWrite
  <2> QED
    BY <1>0, <1>e, <1>4, <2>1, <2>2 DEF Records
<1> QED
  BY <1>0, <1>1, <1>2, <1>3, <1>4 DEF Writes, WriteKeys

\* A write is one of those that are ahead.
LEMMA WriteIs ==
    ASSUME StoreTyped, OpTyped, RestTyped, C!Write
    PROVE  /\ StoreTyped' /\ OpTyped' /\ RestTyped'
           /\ ScopedAhead' = ScopedAhead /\ LegacyAhead' = LegacyAhead /\ ViewAhead' = ViewAhead
           /\ op.writes # <<>> /\ GoodWrites(op.writes, owned) /\ op'.writes = Tail(op.writes) /\ op'.at = op.at /\ op'.id = op.id
           /\ C!set(op.writes[1]) /\ GoodWrite(op.writes[1], owned)
           /\ UNCHANGED <<prefs, untold, sent, acked, announced, removed, ops, owned, faults>>
<1>1. op.writes # <<>> /\ C!set(Head(op.writes)) /\ op' = [op EXCEPT !.writes = Tail(@)]
      /\ UNCHANGED <<prefs, untold, sent, acked, announced, removed, ops, owned, faults>>
  BY DEF C!Write, C!told, C!counters
<1>2. PICK todo : todo = op.writes
  OBVIOUS
<1>3. GoodWrites(todo, owned) /\ todo # <<>>
  BY <1>1, <1>2 DEF OpTyped
<1>4. C!set(todo[1]) /\ GoodWrite(todo[1], owned) /\ GoodWrites(Tail(todo), owned)
  BY <1>1, <1>2, <1>3, TailIs
<1>5. op' = [at |-> op.at, writes |-> Tail(todo), id |-> op.id]
  BY <1>1, <1>2 DEF OpTyped
<1>6. op'.writes = Tail(todo) /\ op'.at = op.at /\ op'.id = op.id
  BY <1>5
<1>7. OpTyped'
  BY <1>1, <1>4, <1>5, <1>6 DEF OpTyped
<1>8. RestTyped'
  BY <1>1 DEF RestTyped
<1>9. PICK w : w = todo[1]
  OBVIOUS
<1>10. /\ scoped' \in Records /\ legacy' \in Records
       /\ \A n \in C!Pages : /\ scoped'.pages[n] = IF w.key = "page" /\ w.n = n THEN w.value ELSE scoped.pages[n]
                             /\ legacy'.pages[n] = IF w.key = "legacy_page" /\ w.n = n THEN w.value ELSE legacy.pages[n]
       /\ scoped'.meta = IF w.key = "metadata" /\ w.n = 0 THEN w.value ELSE scoped.meta
       /\ legacy'.meta = IF w.key = "legacy_metadata" /\ w.n = 0 THEN w.value ELSE legacy.meta
  BY <1>4, <1>9, SetIs
<1>11. StoreTyped'
  <2>1. \A n \in C!Pages : GoodOption(n, scoped'.pages[n], owned')
    BY <1>1, <1>4, <1>9, <1>10 DEF GoodWrite, StoreTyped
  <2>2. legacy'.pages[0] \in {<<>>, OldPage} /\ \A n \in C!Pages \ {0} : legacy'.pages[n] = <<>>
    <3>1. 0 \in C!Pages
      BY ConversationsAssumption DEF C!Pages
    <3> QED
      BY <1>4, <1>9, <1>10, <3>1 DEF GoodWrite, StoreTyped
  <2>3. legacy'.meta \in {<<>>, OldMeta("own"), OldMeta("none")}
    BY <1>4, <1>9, <1>10 DEF GoodWrite, StoreTyped
  <2> QED
    BY <1>10, <2>1, <2>2, <2>3 DEF StoreTyped, OldPage, OldMeta, C!OldRecord, C!received, C!OldId, C!NoPages, C!Pages
<1>13. ScopedAfter(Tail(todo), scoped') = ScopedAfter(todo, scoped)
  <2>1. ASSUME NEW n \in C!Pages PROVE After(Tail(todo), "page", n, scoped'.pages[n]) = After(todo, "page", n, scoped.pages[n])
    <3>1. scoped'.pages[n] = IF todo[1].key = "page" /\ todo[1].n = n THEN todo[1].value ELSE scoped.pages[n]
      BY <1>9, <1>10
    <3> QED
      BY <1>3, <3>1, AfterTail
  <2>2. After(Tail(todo), "metadata", 0, scoped'.meta) = After(todo, "metadata", 0, scoped.meta)
    <3>1. scoped'.meta = IF todo[1].key = "metadata" /\ todo[1].n = 0 THEN todo[1].value ELSE scoped.meta
      BY <1>9, <1>10
    <3> QED
      BY <1>3, <3>1, AfterTail
  <2> QED
    BY <2>1, <2>2 DEF ScopedAfter
<1>14. LegacyAfter(Tail(todo), legacy') = LegacyAfter(todo, legacy)
  <2>1. ASSUME NEW n \in C!Pages PROVE After(Tail(todo), "legacy_page", n, legacy'.pages[n]) = After(todo, "legacy_page", n, legacy.pages[n])
    <3>1. legacy'.pages[n] = IF todo[1].key = "legacy_page" /\ todo[1].n = n THEN todo[1].value ELSE legacy.pages[n]
      BY <1>9, <1>10
    <3> QED
      BY <1>3, <3>1, AfterTail
  <2>2. After(Tail(todo), "legacy_metadata", 0, legacy'.meta) = After(todo, "legacy_metadata", 0, legacy.meta)
    <3>1. legacy'.meta = IF todo[1].key = "legacy_metadata" /\ todo[1].n = 0 THEN todo[1].value ELSE legacy.meta
      BY <1>9, <1>10
    <3> QED
      BY <1>3, <3>1, AfterTail
  <2> QED
    BY <2>1, <2>2 DEF LegacyAfter
<1>15. ScopedAhead' = ScopedAhead /\ LegacyAhead' = LegacyAhead
  BY <1>2, <1>6, <1>13, <1>14 DEF ScopedAhead, LegacyAhead
<1>16. ViewAhead' = ViewAhead
  BY <1>15 DEF ViewAhead
<1> QED
  BY <1>1, <1>2, <1>3, <1>4, <1>6, <1>7, <1>8, <1>11, <1>15, <1>16

\* With nothing left to write, what is ahead is there.
LEMMA NothingAhead ==
    ASSUME StoreTyped, op.writes = <<>>
    PROVE  ScopedAhead = scoped /\ LegacyAhead = legacy /\ ViewAhead = ViewNow
BY NothingAfter DEF StoreTyped, ScopedAhead, LegacyAhead, ViewAhead, ViewNow

\* A page saved is the page shown.
LEMMA PageShown ==
    ASSUME StoreTyped, NEW w, GoodWrite(w, owned), C!set(w), w.key = "page", w.value # <<>>
    PROVE  /\ ViewNow' = [page |-> [ViewNow.page EXCEPT ![w.n] = w.value[1]], meta |-> ViewNow.meta]
           /\ Top(ViewNow') = Top(ViewNow) /\ w.n \in C!Pages
           /\ \A n \in C!Pages : ViewNow'.page[n] = IF n = w.n THEN w.value[1] ELSE ViewNow.page[n]
<1>1. w.n \in C!Pages
  BY DEF GoodWrite, Writes
<1>2. /\ \A n \in C!Pages : /\ scoped'.pages[n] = IF w.n = n THEN w.value ELSE scoped.pages[n]
                            /\ legacy'.pages[n] = legacy.pages[n]
      /\ scoped'.meta = scoped.meta /\ legacy'.meta = legacy.meta
  BY SetIs
<1>3. \A n \in C!Pages : ShownPage(scoped', legacy', n) = IF n = w.n THEN w.value[1] ELSE ShownPage(scoped, legacy, n)
  BY <1>2 DEF ShownPage
<1>4. ShownMeta(scoped', legacy') = ShownMeta(scoped, legacy)
  BY <1>2 DEF ShownMeta
<1>5. ViewNow = [page |-> [n \in C!Pages |-> ShownPage(scoped, legacy, n)], meta |-> ShownMeta(scoped, legacy)]
  BY DEF ViewNow, View
<1>6. ViewNow' = [page |-> [n \in C!Pages |-> ShownPage(scoped', legacy', n)], meta |-> ShownMeta(scoped', legacy')]
  BY DEF ViewNow, View
<1>7. [n \in C!Pages |-> ShownPage(scoped', legacy', n)] = [ViewNow.page EXCEPT ![w.n] = w.value[1]]
  BY <1>1, <1>3, <1>5
<1> QED
  BY <1>1, <1>3, <1>4, <1>5, <1>6, <1>7 DEF Top

\* Metadata saved is the metadata shown.
LEMMA MetaShown ==
    ASSUME StoreTyped, NEW w, GoodWrite(w, owned), C!set(w), w.key = "metadata", w.value # <<>>
    PROVE  ViewNow'.page = ViewNow.page /\ ViewNow'.meta = w.value /\ Top(ViewNow') = w.value[1].latest
<1>1. /\ \A n \in C!Pages : scoped'.pages[n] = scoped.pages[n] /\ legacy'.pages[n] = legacy.pages[n]
      /\ scoped'.meta = w.value
  BY SetIs DEF GoodWrite
<1>2. \A n \in C!Pages : ShownPage(scoped', legacy', n) = ShownPage(scoped, legacy, n)
  BY <1>1 DEF ShownPage
<1>3. ShownMeta(scoped', legacy') = w.value
  BY <1>1 DEF ShownMeta
<1> QED
  BY <1>2, <1>3 DEF ViewNow, View, Top

\* What is gone is gone, but for an old record that it hid.
LEMMA DroppedShown ==
    ASSUME StoreTyped, NEW w, GoodWrite(w, owned), C!set(w), w.value = <<>>
    PROVE  /\ Top(ViewNow') \in {Top(ViewNow), 0}
           /\ \A n \in C!Pages : \/ ViewNow'.page[n] = ViewNow.page[n]
                                 \/ ViewNow'.page[n] = <<>>
                                 \/ n = 0 /\ Ids(ViewNow'.page[n]) \subseteq OldIds
<1>0. 0 \in C!Pages
  BY ConversationsAssumption DEF C!Pages
<1>1. /\ scoped' \in Records /\ legacy' \in Records
      /\ \A n \in C!Pages : /\ scoped'.pages[n] = scoped.pages[n] \/ scoped'.pages[n] = <<>>
                            /\ legacy'.pages[n] = legacy.pages[n] \/ legacy'.pages[n] = <<>>
      /\ scoped'.meta = scoped.meta \/ scoped'.meta = <<>>
      /\ legacy'.meta = legacy.meta \/ legacy'.meta = <<>>
  BY SetIs
<1>2. legacy.meta # <<>> => legacy.meta[1].latest = 0
  <2>1. \A owner \in {"none", "own"} : OldMeta(owner)[1].latest = 0
    BY OldIs
  <2> QED
    BY <2>1 DEF StoreTyped
<1>3. /\ ViewNow.meta = ShownMeta(scoped, legacy) /\ \A n \in C!Pages : ViewNow.page[n] = ShownPage(scoped, legacy, n)
      /\ ViewNow'.meta = ShownMeta(scoped', legacy') /\ \A n \in C!Pages : ViewNow'.page[n] = ShownPage(scoped', legacy', n)
  BY DEF ViewNow, View
<1>4. Top(ViewNow') \in {Top(ViewNow), 0}
  BY <1>1, <1>2, <1>3 DEF Top, ShownMeta
<1>5. ASSUME NEW n \in C!Pages
      PROVE  \/ ViewNow'.page[n] = ViewNow.page[n] \/ ViewNow'.page[n] = <<>>
             \/ n = 0 /\ Ids(ViewNow'.page[n]) \subseteq OldIds
  <2>1. legacy.pages[n] # <<>> => n = 0 /\ legacy.pages[n] = OldPage
    BY DEF StoreTyped
  <2>2. Ids(OldPage[1]) \subseteq OldIds
    <3>1. \A i \in 1 .. 2 : i = 1 \/ i = 2
      OBVIOUS
    <3> QED
      BY <3>1, OldIs DEF Ids, OldIds
  <2> QED
    BY <1>1, <1>3, <2>1, <2>2 DEF ShownPage
<1> QED
  BY <1>4, <1>5

\* Writes that leave the pages alone.
LEMMA AheadPages ==
    ASSUME NEW todo, NEW s, NEW l, \A k \in 1 .. Len(todo) : todo[k].key = "metadata"
    PROVE  View(ScopedAfter(todo, s), LegacyAfter(todo, l)).page = View(s, l).page
<1>1. \A n, now : After(todo, "page", n, now) = now /\ After(todo, "legacy_page", n, now) = now
  BY AfterNone
<1>2. \A n \in C!Pages : ScopedAfter(todo, s).pages[n] = s.pages[n] /\ LegacyAfter(todo, l).pages[n] = l.pages[n]
  BY <1>1 DEF ScopedAfter, LegacyAfter
<1> QED
  BY <1>2 DEF View, ShownPage

\* The metadata to be written says which page will be the newest.
LEMMA AheadTop ==
    ASSUME NEW todo, NEW s, NEW l, Distinct(todo), NEW k \in 1 .. Len(todo), todo[k].key = "metadata", todo[k].n = 0, todo[k].value # <<>>
    PROVE  /\ View(ScopedAfter(todo, s), LegacyAfter(todo, l)).meta = todo[k].value
           /\ Top(View(ScopedAfter(todo, s), LegacyAfter(todo, l))) = todo[k].value[1].latest
<1>1. ScopedAfter(todo, s).meta = todo[k].value
  <2>1. After(todo, "metadata", 0, s.meta) = todo[k].value
    BY AfterHas
  <2> QED
    BY <2>1 DEF ScopedAfter
<1> QED
  BY <1>1 DEF View, ShownMeta, Top

\* A page that keeps all but what was removed.
LEMMA TrimKeeps ==
    ASSUME Kept, Trims, C!Write
    PROVE  Trims' /\ NewestApart(ViewNow)' /\ HandledIsShown'
<1>0. StoreTyped /\ OpTyped /\ RestTyped /\ NewestApart(ViewNow) /\ HandledIsShown
  BY DEF Kept
<1>1. PICK todo : todo = op.writes
  OBVIOUS
<1>2. /\ todo # <<>> /\ GoodWrites(todo, owned) /\ op'.writes = Tail(todo) /\ C!set(todo[1]) /\ GoodWrite(todo[1], owned)
      /\ acked' = acked /\ untold' = untold /\ removed' = removed
  BY <1>0, <1>1, WriteIs
<1>3. ToldIds' = ToldIds
  BY <1>2 DEF ToldIds
<1>4. PICK w : w = todo[1]
  OBVIOUS
<1>5. PICK v : v = ViewNow
  OBVIOUS
<1>6. PICK u : u = ViewNow'
  OBVIOUS
<1>7. \A k \in 1 .. Len(todo) :
          /\ todo[k].value # <<>>
          /\ \/ /\ todo[k].key = "page" /\ todo[k].n <= Top(v)
                /\ Ids(todo[k].value[1]) \subseteq Ids(v.page[todo[k].n])
                /\ Ids(v.page[todo[k].n]) \ Ids(todo[k].value[1]) \subseteq removed
             \/ todo[k].key = "metadata" /\ todo[k].value[1].latest = Top(v)
  BY <1>1, <1>5 DEF Trims
<1>8. 1 \in 1 .. Len(todo)
  BY <1>2, TailIs
<1>9. Top(v) \in C!Pages /\ Top(v) \in Nat
  BY <1>0, <1>5, ViewIs, ConversationsAssumption DEF RestTyped, C!Pages
<1>10. /\ Top(u) = Top(v)
       /\ \A n \in C!Pages : n \in 0 .. Top(v) => /\ Ids(u.page[n]) \subseteq Ids(v.page[n])
                                                 /\ Ids(v.page[n]) \ Ids(u.page[n]) \subseteq removed
       /\ \A n \in C!Pages : ~(w.key = "page" /\ w.n = n) => u.page[n] = v.page[n]
  <2>1. CASE w.key = "page"
    <3>1. Top(u) = Top(v) /\ \A n \in C!Pages : u.page[n] = IF n = w.n THEN w.value[1] ELSE v.page[n]
      BY <1>0, <1>2, <1>4, <1>5, <1>6, <1>7, <1>8, <2>1, PageShown
    <3>2. Ids(w.value[1]) \subseteq Ids(v.page[w.n]) /\ Ids(v.page[w.n]) \ Ids(w.value[1]) \subseteq removed
      BY <1>4, <1>7, <1>8, <2>1
    <3> QED
      BY <2>1, <3>1, <3>2
  <2>2. CASE w.key = "metadata"
    <3>1. u.page = v.page /\ Top(u) = w.value[1].latest
      BY <1>0, <1>2, <1>4, <1>5, <1>6, <1>7, <1>8, <2>2, MetaShown
    <3>2. w.value[1].latest = Top(v)
      BY <1>4, <1>7, <1>8, <2>2
    <3> QED
      BY <3>1, <3>2
  <2> QED
    BY <1>4, <1>7, <1>8, <2>1, <2>2
<1>11. Trims'
  <2>1. ASSUME NEW k \in 1 .. Len(Tail(todo))
        PROVE  LET x == Tail(todo)[k] IN
               /\ x.value # <<>>
               /\ \/ /\ x.key = "page" /\ x.n <= Top(u)
                     /\ Ids(x.value[1]) \subseteq Ids(u.page[x.n])
                     /\ Ids(u.page[x.n]) \ Ids(x.value[1]) \subseteq removed
                  \/ x.key = "metadata" /\ x.value[1].latest = Top(u)
    <3>1. PICK x : x = Tail(todo)[k]
      OBVIOUS
    <3>2. k + 1 \in 1 .. Len(todo) /\ x = todo[k + 1] /\ ~(x.key = w.key /\ x.n = w.n)
      BY <1>2, <1>4, <3>1, TailIs
    <3>3. x.n \in C!Pages
      BY <1>2, <3>2 DEF GoodWrites, GoodWrite, Writes
    <3>4. x.key = "page" => u.page[x.n] = v.page[x.n]
      BY <1>10, <3>2, <3>3
    <3> QED
      BY <1>7, <1>10, <3>1, <3>2, <3>4
  <2> QED
    BY <1>2, <1>6, <2>1 DEF Trims
<1>12. 0 .. Top(v) \subseteq C!Pages
  BY <1>9, ConversationsAssumption DEF C!Pages
<1>13. NewestApart(u)
  <2> SUFFICES ASSUME Top(u) > 0 PROVE Ids(u.page[Top(u)]) \cap Ids(u.page[Top(u) - 1]) = {}
    BY DEF NewestApart
  <2>1. Top(v) > 0 /\ Top(v) \in 0 .. Top(v) /\ Top(v) - 1 \in 0 .. Top(v)
    BY <1>9, <1>10
  <2>2. Ids(v.page[Top(v)]) \cap Ids(v.page[Top(v) - 1]) = {}
    BY <1>0, <1>5, <2>1 DEF NewestApart
  <2> QED
    BY <1>10, <1>12, <2>1, <2>2
<1>14. (acked \cup ToldIds) \ removed \subseteq ShownIds(u)
  <2> SUFFICES ASSUME NEW x \in (acked \cup ToldIds) \ removed PROVE x \in ShownIds(u)
    OBVIOUS
  <2>1. PICK n \in 0 .. Top(v) : x \in Ids(v.page[n])
    BY <1>0, <1>5 DEF HandledIsShown, ShownIds
  <2>2. x \in Ids(u.page[n])
    BY <1>10, <1>12, <2>1
  <2> QED
    BY <1>10, <2>2 DEF ShownIds
<1> QED
  BY <1>2, <1>3, <1>6, <1>11, <1>13, <1>14 DEF HandledIsShown

\* A write of an operation that clears.
LEMMA ClearKeeps ==
    ASSUME Kept, Clears, C!Write
    PROVE  Clears' /\ NewestApart(ViewNow)' /\ HandledIsShown'
<1>0. StoreTyped /\ OpTyped /\ RestTyped /\ NewestApart(ViewNow)
  BY DEF Kept
<1>1. PICK todo : todo = op.writes
  OBVIOUS
<1>2. /\ todo # <<>> /\ GoodWrites(todo, owned) /\ op'.writes = Tail(todo) /\ C!set(todo[1]) /\ GoodWrite(todo[1], owned)
      /\ acked' = acked /\ untold' = untold /\ removed' = removed
  BY <1>0, <1>1, WriteIs
<1>3. ToldIds' = ToldIds
  BY <1>2 DEF ToldIds
<1>4. \A k \in 1 .. Len(todo) : todo[k].value = <<>>
  BY <1>1 DEF Clears
<1>5. 1 \in 1 .. Len(todo)
  BY <1>2, TailIs
<1>6. Clears'
  <2>1. \A k \in 1 .. Len(Tail(todo)) : Tail(todo)[k].value = <<>>
    BY <1>2, <1>4, TailIs
  <2> QED
    BY <1>2, <1>3, <2>1 DEF Clears
<1>7. HandledIsShown'
  BY <1>2, <1>3 DEF Clears, HandledIsShown
<1>8. PICK v : v = ViewNow
  OBVIOUS
<1>9. PICK u : u = ViewNow'
  OBVIOUS
<1>10. Top(v) \in C!Pages /\ C!Pages \subseteq Nat /\ \A n \in C!Pages : GoodPage(n, v.page[n], owned)
  BY <1>0, <1>8, ViewIs, ConversationsAssumption DEF RestTyped, C!Pages
<1>11. /\ Top(u) \in {Top(v), 0}
       /\ \A n \in C!Pages : u.page[n] = v.page[n] \/ u.page[n] = <<>> \/ (n = 0 /\ Ids(u.page[n]) \subseteq OldIds)
  BY <1>0, <1>2, <1>4, <1>5, <1>8, <1>9, DroppedShown
<1>12. NewestApart(u)
  <2> SUFFICES ASSUME Top(u) > 0 PROVE Ids(u.page[Top(u)]) \cap Ids(u.page[Top(u) - 1]) = {}
    BY DEF NewestApart
  <2>1. Top(u) = Top(v) /\ Top(v) > 0 /\ Top(v) - 1 \in C!Pages /\ Top(v) # 0
    BY <1>10, <1>11, ConversationsAssumption DEF C!Pages
  <2>2. Ids(v.page[Top(v)]) \cap Ids(v.page[Top(v) - 1]) = {}
    BY <1>0, <1>8, <2>1 DEF NewestApart
  <2>3. Ids(<<>>) = {}
    BY DEF Ids
  <2>4. Ids(v.page[Top(v)]) \cap OldIds = {}
    <3>1. GoodPage(Top(v), v.page[Top(v)], owned)
      BY <1>10
    <3>2. \A i \in 1 .. Len(v.page[Top(v)]) : v.page[Top(v)][i].id \notin OldIds
      BY <2>1, <3>1 DEF GoodPage
    <3> QED
      BY <3>2 DEF Ids
  <2> QED
    BY <1>10, <1>11, <2>1, <2>2, <2>3, <2>4
<1> QED
  BY <1>6, <1>7, <1>9, <1>12

\* A write of an operation that adds a message: the page, when it comes, is reached at once or with the metadata.
LEMMA AppendKeeps ==
    ASSUME Kept, Appends, C!Write
    PROVE  (Trims \/ Appends)' /\ NewestApart(ViewNow)' /\ HandledIsShown'
<1>0. StoreTyped /\ OpTyped /\ RestTyped /\ NewestApart(ViewNow) /\ HandledIsShown /\ NewestApart(ViewAhead)
  BY DEF Kept
<1>1. PICK todo : todo = op.writes
  OBVIOUS
<1>2. /\ todo # <<>> /\ GoodWrites(todo, owned) /\ op'.writes = Tail(todo) /\ C!set(todo[1]) /\ GoodWrite(todo[1], owned)
      /\ acked' = acked /\ untold' = untold /\ removed' = removed /\ StoreTyped' /\ OpTyped' /\ ViewAhead' = ViewAhead
  BY <1>0, <1>1, WriteIs
<1>3. ToldIds' = ToldIds
  BY <1>2 DEF ToldIds
<1>5. PICK v : v = ViewNow
  OBVIOUS
<1>6. PICK u : u = ViewNow'
  OBVIOUS
<1>7. PICK n : n = Len(todo)
  OBVIOUS
<1>8. PICK top : top = Top(v)
  OBVIOUS
<1>9. /\ n \in 1 .. 3 /\ \A k \in 1 .. n : todo[k].value # <<>>
      /\ todo[n].key = "metadata" /\ todo[n].value[1].latest \in {top, top + 1}
      /\ n >= 2 => /\ todo[n - 1].key = "page" /\ todo[n - 1].n = todo[n].value[1].latest
                   /\ todo[n - 1].n = top => Ids(v.page[top]) \subseteq Ids(todo[n - 1].value[1])
      /\ n = 3 => /\ todo[1].key = "page" /\ todo[1].n = top /\ todo[2].n = top + 1
                  /\ Ids(todo[1].value[1]) = Ids(v.page[top])
  BY <1>1, <1>5, <1>7, <1>8 DEF Appends
<1>10. top \in C!Pages /\ top \in Nat /\ 0 .. top \subseteq C!Pages
  BY <1>0, <1>5, <1>8, ViewIs, ConversationsAssumption DEF RestTyped, C!Pages
<1>11. Len(Tail(todo)) = n - 1 /\ \A k \in 1 .. (n - 1) : Tail(todo)[k] = todo[k + 1]
  BY <1>2, <1>7, TailIs
\* What was shown stays shown.
<1>12. ASSUME Top(u) \in Nat, Top(u) >= top, \A m \in 0 .. top : Ids(v.page[m]) \subseteq Ids(u.page[m])
       PROVE  HandledIsShown'
  <2> SUFFICES ASSUME NEW x \in (acked \cup ToldIds) \ removed PROVE x \in ShownIds(u)
    BY <1>2, <1>3, <1>6 DEF HandledIsShown
  <2>1. PICK m \in 0 .. top : x \in Ids(v.page[m])
    BY <1>0, <1>5, <1>8 DEF HandledIsShown, ShownIds
  <2>2. m \in 0 .. Top(u) /\ x \in Ids(u.page[m])
    BY <1>10, <1>12, <2>1
  <2> QED
    BY <2>2 DEF ShownIds
<1>13. CASE n = 1
  <2>1. todo[1].key = "metadata" /\ todo[1].value # <<>> /\ todo[1].value[1].latest \in {top, top + 1}
    BY <1>9, <1>13
  <2>2. u.page = v.page /\ Top(u) = todo[1].value[1].latest
    BY <1>0, <1>2, <1>5, <1>6, <2>1, MetaShown
  <2>3. Len(op'.writes) = 0
    BY <1>2, <1>11, <1>13
  <2>4. Trims'
    BY <2>3 DEF Trims
  <2>5. op'.writes = <<>>
    BY <1>2, <1>11, <1>13, TailIs DEF GoodWrites
  <2>6. u = ViewAhead'
    BY <1>2, <1>6, <2>5, NothingAfter DEF StoreTyped, ViewAhead, ViewNow, ScopedAhead, LegacyAhead
  <2>7. NewestApart(u)
    BY <1>0, <1>2, <2>6
  <2>8. HandledIsShown'
    BY <1>10, <1>12, <2>1, <2>2
  <2> QED
    BY <1>6, <2>4, <2>7, <2>8
<1>14. CASE n = 2
  <2>0. todo[1].key = "page" /\ todo[1].value # <<>> /\ todo[2].key = "metadata" /\ todo[2].value # <<>>
        /\ todo[2].value[1].latest \in {top, top + 1} /\ todo[1].n = todo[2].value[1].latest
        /\ (todo[1].n = top => Ids(v.page[top]) \subseteq Ids(todo[1].value[1]))
    BY <1>9, <1>14
  <2>1. Top(u) = top /\ \A m \in C!Pages : u.page[m] = IF m = todo[1].n THEN todo[1].value[1] ELSE v.page[m]
    BY <1>0, <1>2, <1>5, <1>6, <1>8, <2>0, PageShown
  <2>2. Len(Tail(todo)) = 1 /\ Tail(todo)[1] = todo[2]
    BY <1>11, <1>14
  <2>3. Appends'
    <3>1. PICK X : X = Tail(todo)
      OBVIOUS
    <3>0. PICK l : l = Len(X)
      OBVIOUS
    <3>2. l = 1 /\ X[1] = todo[2] /\ l \in 1 .. 3 /\ ~(l >= 2) /\ ~(l = 3)
      <4>1. l = 1 /\ X[1] = todo[2]
        BY <2>2, <3>0, <3>1, Zenon
      <4> QED
        BY <4>1
    <3>3. X[l].key = "metadata" /\ X[l].value[1].latest \in {Top(u), Top(u) + 1}
          /\ \A k \in 1 .. l : X[k].value # <<>>
      BY <2>0, <2>1, <3>2
    <3> QED
      BY <1>2, <1>6, <3>0, <3>1, <3>2, <3>3 DEF Appends
  <2>4. \A m \in 0 .. top : Ids(v.page[m]) \subseteq Ids(u.page[m])
    BY <1>10, <2>0, <2>1
  <2>5. HandledIsShown'
    BY <1>10, <1>12, <2>1, <2>4
  <2>6. CASE todo[1].n = top + 1
    <3>1. \A m \in 0 .. top : u.page[m] = v.page[m]
      BY <1>10, <2>1, <2>6
    <3>2. NewestApart(v)
      BY <1>0, <1>5
    <3>3. top \in 0 .. top /\ (top > 0 => top - 1 \in 0 .. top)
      BY <1>10
    <3>4. NewestApart(u)
      BY <1>8, <2>1, <3>1, <3>2, <3>3 DEF NewestApart
    <3> QED
      BY <1>6, <2>3, <2>5, <3>4
  <2>7. CASE todo[1].n = top
    <3>1. Len(op'.writes) = 1 /\ op'.writes[1] = todo[2]
      BY <1>2, <2>2
    <3>2. \A k \in 1 .. Len(op'.writes) : op'.writes[k].key = "metadata"
      BY <2>0, <3>1
    <3>3. ViewAhead'.page = ViewNow'.page
      BY <3>2, AheadPages DEF ViewAhead, ViewNow, ScopedAhead, LegacyAhead
    <3>4. Top(ViewAhead') = todo[2].value[1].latest
      <4>1. Distinct(op'.writes) /\ todo[2].n = 0 /\ 1 \in 1 .. Len(op'.writes)
        <5>1. Distinct(op'.writes)
          BY <1>2 DEF OpTyped, GoodWrites
        <5>2. 1 \in 1 .. Len(op'.writes)
          BY <3>1
        <5>3. \A k \in 1 .. Len(op'.writes) : GoodWrite(op'.writes[k], owned')
          BY <1>2 DEF OpTyped, GoodWrites
        <5>4. GoodWrite(todo[2], owned')
          BY <3>1, <5>2, <5>3
        <5>5. todo[2].n = 0
          BY <2>0, <5>4 DEF GoodWrite
        <5> QED
          BY <5>1, <5>2, <5>5
      <4> QED
        BY <2>0, <3>1, <4>1, AheadTop DEF ViewAhead, ViewNow, ScopedAhead, LegacyAhead
    <3>5. NewestApart(ViewAhead')
      BY <1>0, <1>2
    <3>6. NewestApart(u)
      BY <1>6, <2>0, <2>1, <2>7, <3>3, <3>4, <3>5 DEF NewestApart
    <3> QED
      BY <1>6, <2>3, <2>5, <3>6
  <2> QED
    BY <2>0, <2>6, <2>7
<1>15. CASE n = 3
  <2>0. /\ todo[1].key = "page" /\ todo[1].n = top /\ todo[1].value # <<>> /\ Ids(todo[1].value[1]) = Ids(v.page[top])
        /\ todo[2].key = "page" /\ todo[2].n = top + 1 /\ todo[2].value # <<>> /\ todo[2].n = todo[3].value[1].latest
        /\ todo[3].key = "metadata" /\ todo[3].value # <<>> /\ todo[3].value[1].latest \in {top, top + 1}
    BY <1>9, <1>15
  <2>1. Top(u) = top /\ \A m \in C!Pages : u.page[m] = IF m = todo[1].n THEN todo[1].value[1] ELSE v.page[m]
    BY <1>0, <1>2, <1>5, <1>6, <1>8, <2>0, PageShown
  <2>2. Len(Tail(todo)) = 2 /\ Tail(todo)[1] = todo[2] /\ Tail(todo)[2] = todo[3]
    BY <1>11, <1>15
  <2>3. Appends'
    <3>1. PICK X : X = Tail(todo)
      OBVIOUS
    <3>0. PICK l : l = Len(X)
      OBVIOUS
    <3>2. l = 2 /\ X[1] = todo[2] /\ X[2] = todo[3] /\ l \in 1 .. 3 /\ ~(l = 3) /\ l - 1 = 1
          /\ \A k \in 1 .. l : k = 1 \/ k = 2
      <4>1. l = 2 /\ X[1] = todo[2] /\ X[2] = todo[3]
        BY <2>2, <3>0, <3>1, Zenon
      <4> QED
        BY <4>1
    <3>3. X[l].key = "metadata" /\ X[l].value[1].latest \in {Top(u), Top(u) + 1}
          /\ \A k \in 1 .. l : X[k].value # <<>>
      BY <2>0, <2>1, <3>2
    <3>4. X[l - 1].key = "page" /\ X[l - 1].n = X[l].value[1].latest /\ X[l - 1].n # Top(u)
      BY <1>10, <2>0, <2>1, <3>2
    <3> QED
      BY <1>2, <1>6, <3>0, <3>1, <3>2, <3>3, <3>4 DEF Appends
  <2>4. \A m \in 0 .. top : Ids(v.page[m]) = Ids(u.page[m])
    BY <1>10, <2>0, <2>1
  <2>5. HandledIsShown'
    BY <1>10, <1>12, <2>1, <2>4
  <2>6. top \in 0 .. top /\ (top > 0 => top - 1 \in 0 .. top)
    BY <1>10
  <2>7. NewestApart(u)
    BY <1>0, <1>5, <1>8, <2>1, <2>4, <2>6 DEF NewestApart
  <2> QED
    BY <1>6, <2>3, <2>5, <2>7
<1> QED
  BY <1>9, <1>13, <1>14, <1>15

\* A write, of any operation.
LEMMA WriteKeeps == ASSUME Kept, C!Write PROVE Kept'
<1>1. StoreTyped /\ OpTyped /\ RestTyped /\ NewestApart(ViewAhead) /\ StoredIsAhead /\ (Trims \/ Clears \/ Appends)
  BY DEF Kept
<1>2. StoreTyped' /\ OpTyped' /\ RestTyped' /\ ViewAhead' = ViewAhead /\ op'.at = op.at /\ op'.id = op.id
  BY <1>1, WriteIs
<1>3. NewestApart(ViewAhead)'
  BY <1>1, <1>2
<1>4. StoredIsAhead'
  BY <1>1, <1>2 DEF StoredIsAhead, ShownIds, Top, Ids
<1>5. (Trims \/ Clears \/ Appends)' /\ NewestApart(ViewNow)' /\ HandledIsShown'
  BY <1>1, TrimKeeps, ClearKeeps, AppendKeeps
<1> QED
  BY <1>2, <1>3, <1>4, <1>5 DEF Kept

\* And what will be shown is the same before a write and after it.
LEMMA WriteFaultless == ASSUME Kept, Faultless, C!Write PROVE Faultless'
<1>1. StoreTyped /\ OpTyped /\ RestTyped
  BY DEF Kept
<1>2. PICK todo : todo = op.writes
  OBVIOUS
<1>3. /\ StoreTyped' /\ OpTyped' /\ RestTyped'
      /\ ScopedAhead' = ScopedAhead /\ LegacyAhead' = LegacyAhead /\ ViewAhead' = ViewAhead
      /\ todo # <<>> /\ GoodWrites(todo, owned) /\ op'.writes = Tail(todo) /\ op'.at = op.at /\ op'.id = op.id
      /\ C!set(todo[1]) /\ GoodWrite(todo[1], owned)
      /\ UNCHANGED <<prefs, untold, sent, acked, announced, removed, ops, owned, faults>>
  BY <1>1, <1>2, WriteIs
<1>4. Whole(ScopedAhead, LegacyAhead)' /\ Counted(ViewAhead)' /\ OwnOnce(ViewAhead)' /\ PendingIsSent(ViewAhead, op.at, op.id)'
  BY <1>3 DEF Faultless
<1>5. News' = News /\ ToldIds' = ToldIds
  BY <1>3 DEF News, ToldIds
<1>6. Announced'
  BY <1>3, <1>5 DEF Faultless, Announced
<1>7. PICK w : w = todo[1]
  OBVIOUS
<1>8. 1 \in 1 .. Len(todo)
  BY <1>3, TailIs
<1>9. ToBe' \subseteq ToBe
  <2> SUFFICES ASSUME NEW m \in ToBe' PROVE m \in ToBe
    OBVIOUS
  <2>1. PICK k \in 1 .. Len(Tail(todo)) : Tail(todo)[k].key = "page" /\ m \in Held(Tail(todo)[k].value)
    BY <1>3 DEF ToBe
  <2>2. k + 1 \in 1 .. Len(todo) /\ Tail(todo)[k] = todo[k + 1]
    BY <1>3, TailIs
  <2> QED
    BY <1>2, <2>1, <2>2 DEF ToBe
<1>10. Stock(scoped', legacy') \subseteq Stock(scoped, legacy) \cup ToBe
  <2> SUFFICES ASSUME NEW m \in Stock(scoped', legacy') PROVE m \in Stock(scoped, legacy) \cup ToBe
    OBVIOUS
  <2>1. PICK n \in C!Pages : m \in Held(scoped'.pages[n]) \/ m \in Held(legacy'.pages[n])
    BY DEF Stock
  <2>2. /\ scoped'.pages[n] = IF w.key = "page" /\ w.n = n THEN w.value ELSE scoped.pages[n]
        /\ legacy'.pages[n] = IF w.key = "legacy_page" /\ w.n = n THEN w.value ELSE legacy.pages[n]
    BY <1>1, <1>3, <1>7, SetIs
  <2>3. w.key = "legacy_page" => w.value = <<>>
    BY <1>3, <1>7 DEF GoodWrite
  <2>4. Held(<<>>) = {}
    BY DEF Held
  <2>5. m \in Held(scoped.pages[n]) \/ m \in Held(legacy.pages[n]) \/ (w.key = "page" /\ m \in Held(w.value))
    BY <2>1, <2>2, <2>3, <2>4
  <2>6. w.key = "page" => Held(w.value) \subseteq ToBe
    BY <1>2, <1>7, <1>8 DEF ToBe
  <2> QED
    BY <2>5, <2>6 DEF Stock
<1>11. IndexApart(Stock(scoped, legacy) \cup ToBe)'
  <2>1. IndexApart(Stock(scoped, legacy) \cup ToBe)
    BY DEF Faultless
  <2>2. IndexApart(Stock(scoped', legacy') \cup ToBe')
    BY <1>9, <1>10, <2>1 DEF IndexApart, Sent
  <2> QED
    BY <2>2
<1> QED
  BY <1>4, <1>6, <1>11 DEF Faultless

\* With the store and the operation as they are.
LEMMA SameStore ==
    ASSUME StoreTyped, OpTyped, NewestApart(ViewNow), NewestApart(ViewAhead), StoredIsAhead, UNCHANGED <<scoped, legacy, op, owned>>
    PROVE  /\ StoreTyped' /\ OpTyped' /\ NewestApart(ViewNow)' /\ NewestApart(ViewAhead)' /\ StoredIsAhead'
           /\ ScopedAhead' = ScopedAhead /\ LegacyAhead' = LegacyAhead /\ ViewAhead' = ViewAhead /\ ViewNow' = ViewNow /\ ToBe' = ToBe
<1>1. ScopedAhead' = ScopedAhead /\ LegacyAhead' = LegacyAhead /\ ViewNow' = ViewNow /\ ToBe' = ToBe
  BY DEF ScopedAhead, LegacyAhead, ViewNow, ToBe
<1>2. ViewAhead' = ViewAhead
  BY <1>1 DEF ViewAhead
<1>3. StoreTyped' /\ OpTyped'
  BY DEF StoreTyped, OpTyped
<1>4. NewestApart(ViewNow)' /\ NewestApart(ViewAhead)'
  BY <1>1, <1>2
<1>5. StoredIsAhead'
  BY <1>2 DEF StoredIsAhead
<1> QED
  BY <1>1, <1>2, <1>3, <1>4, <1>5

\* The ILM is told, and the windows: what was stored was announced or is now.
LEMMA HandledKeeps == ASSUME ConversationInv, NEW u \in untold, C!Handled(u) PROVE ConversationInv'
<1>0. Kept /\ (faults = 0 => Faultless)
  BY DEF ConversationInv
<1>1. /\ untold' = untold \ {u} /\ acked' = acked \cup {u.id}
      /\ announced' = IF u.new THEN announced \cup {u.id} ELSE announced
      /\ UNCHANGED <<scoped, legacy, prefs, op, sent, removed, ops, owned, faults>>
  BY DEF C!Handled, C!store, C!counters
<1>2. StoreTyped /\ OpTyped /\ RestTyped /\ (Trims \/ Clears \/ Appends) /\ NewestApart(ViewNow) /\ NewestApart(ViewAhead)
      /\ HandledIsShown /\ StoredIsAhead
  BY <1>0 DEF Kept
<1>3. /\ StoreTyped' /\ OpTyped' /\ NewestApart(ViewNow)' /\ NewestApart(ViewAhead)' /\ StoredIsAhead'
      /\ ScopedAhead' = ScopedAhead /\ LegacyAhead' = LegacyAhead /\ ViewAhead' = ViewAhead /\ ViewNow' = ViewNow /\ ToBe' = ToBe
  BY <1>1, <1>2, SameStore
<1>4. RestTyped'
  BY <1>1, <1>2 DEF RestTyped
<1>5. acked' \cup ToldIds' \subseteq acked \cup ToldIds
  BY <1>1 DEF ToldIds
<1>6. HandledIsShown'
  BY <1>1, <1>2, <1>3, <1>5 DEF HandledIsShown
<1>7. (Trims \/ Clears \/ Appends)'
  <2>1. Trims => Trims'
    BY <1>1, <1>3 DEF Trims
  <2>2. Clears => Clears'
    BY <1>1, <1>5 DEF Clears
  <2>3. Appends => Appends'
    BY <1>1, <1>3 DEF Appends
  <2> QED
    BY <1>2, <2>1, <2>2, <2>3
<1>8. Kept'
  BY <1>2, <1>3, <1>4, <1>6, <1>7 DEF Kept
<1>9. ASSUME faults' = 0 PROVE Faultless'
  <2>0. Faultless
    BY <1>0, <1>1, <1>9
  <2>1. Whole(ScopedAhead, LegacyAhead)' /\ Counted(ViewAhead)' /\ OwnOnce(ViewAhead)' /\ PendingIsSent(ViewAhead, op.at, op.id)'
    BY <1>1, <1>3, <2>0 DEF Faultless
  <2>2. IndexApart(Stock(scoped, legacy) \cup ToBe)'
    BY <1>1, <1>3, <2>0 DEF Faultless
  <2>3. News \subseteq News'
    BY <1>1 DEF News
  <2>4. Announced
    BY <2>0 DEF Faultless
  <2>5. announced' \subseteq acked'
    BY <1>1, <2>4 DEF Announced
  <2>6. Announced'
    BY <1>1, <1>3, <1>5, <2>3, <2>4, <2>5 DEF Announced
  <2> QED
    BY <2>1, <2>2, <2>6 DEF Faultless
<1> QED
  BY <1>8, <1>9 DEF ConversationInv

\* An operation that ended leaves what is there.
LEMMA IdleIs ==
    ASSUME StoreTyped, UNCHANGED <<scoped, legacy, owned>>, op' = C!Idle
    PROVE  /\ StoreTyped' /\ OpTyped' /\ Trims' /\ StoredIsAhead' /\ ViewNow' = ViewNow /\ ViewAhead' = ViewNow
           /\ ScopedAhead' = scoped /\ LegacyAhead' = legacy /\ ToBe' = {} /\ op'.at = "done" /\ op'.writes = <<>>
<1>1. op'.at = "done" /\ op'.writes = <<>> /\ op'.id = 0 /\ op' = [at |-> op'.at, writes |-> op'.writes, id |-> op'.id]
  BY DEF C!Idle
<1>2. ScopedAhead' = scoped /\ LegacyAhead' = legacy
  BY <1>1, NothingAfter DEF ScopedAhead, LegacyAhead, StoreTyped
<1>3. ViewNow' = ViewNow /\ ViewAhead' = ViewNow
  BY <1>2 DEF ViewAhead, ViewNow
<1>4. StoreTyped'
  BY DEF StoreTyped
<1>5. GoodWrites(<<>>, owned')
  BY DEF GoodWrites, Distinct
<1>6. OpTyped'
  BY <1>1, <1>5 DEF OpTyped
<1>7. Trims' /\ ToBe' = {} /\ StoredIsAhead'
  BY <1>1 DEF Trims, ToBe, StoredIsAhead
<1> QED
  BY <1>1, <1>2, <1>3, <1>4, <1>6, <1>7

\* A write fails, or the agent ends: the rest of the writes are never made.
LEMMA EndKeeps ==
    ASSUME ConversationInv, C!WriteFails \/ C!Crash
    PROVE  ConversationInv'
<1>0. Kept
  BY DEF ConversationInv
<1>1. /\ op' = C!Idle /\ faults' = faults + 1 /\ untold' \subseteq untold
      /\ UNCHANGED <<scoped, legacy, prefs, sent, acked, announced, removed, ops, owned>>
  BY DEF C!WriteFails, C!Crash, C!store, C!told
<1>2. StoreTyped /\ RestTyped /\ NewestApart(ViewNow) /\ HandledIsShown
  BY <1>0 DEF Kept
<1>3. /\ StoreTyped' /\ OpTyped' /\ Trims' /\ StoredIsAhead' /\ ViewNow' = ViewNow /\ ViewAhead' = ViewNow
  BY <1>1, <1>2, IdleIs
<1>4. RestTyped' /\ faults' # 0
  BY <1>1, <1>2 DEF RestTyped
<1>5. NewestApart(ViewNow)' /\ NewestApart(ViewAhead)'
  BY <1>2, <1>3
<1>6. HandledIsShown'
  BY <1>1, <1>2, <1>3 DEF HandledIsShown, ToldIds
<1> QED
  BY <1>3, <1>4, <1>5, <1>6 DEF ConversationInv, Kept

\* The lock is released: what was stored has yet to be told.
LEMMA ReleasedKeeps == ASSUME ConversationInv, C!Released PROVE ConversationInv'
<1>0. Kept /\ (faults = 0 => Faultless)
  BY DEF ConversationInv
<1>1. /\ op.at \in {"stored", "duplicate"} /\ op.writes = <<>> /\ op' = C!Idle
      /\ untold' = untold \cup {[id |-> op.id, new |-> op.at = "stored"]}
      /\ removed' = IF op.at = "stored" THEN removed \ {op.id} ELSE removed
      /\ UNCHANGED <<scoped, legacy, prefs, sent, acked, announced, ops, owned, faults>>
  BY DEF C!Released, C!store, C!counters
<1>2. StoreTyped /\ OpTyped /\ RestTyped /\ NewestApart(ViewNow) /\ HandledIsShown /\ StoredIsAhead
  BY <1>0 DEF Kept
<1>3. /\ StoreTyped' /\ OpTyped' /\ Trims' /\ StoredIsAhead' /\ ViewNow' = ViewNow /\ ViewAhead' = ViewNow
      /\ ScopedAhead' = scoped /\ LegacyAhead' = legacy /\ ToBe' = {} /\ op'.at = "done"
  BY <1>1, <1>2, IdleIs
<1>4. ScopedAhead = scoped /\ LegacyAhead = legacy /\ ViewAhead = ViewNow
  BY <1>1, <1>2, NothingAhead
<1>5. op.id \in 1 .. MaxPeerIds /\ op.id \in ShownIds(ViewNow)
  BY <1>1, <1>2, <1>4 DEF OpTyped, StoredIsAhead
<1>6. PICK x : x = [id |-> op.id, new |-> op.at = "stored"]
  OBVIOUS
<1>7. x.id = op.id /\ x.new = (op.at = "stored") /\ x \in [id : 1 .. MaxPeerIds, new : BOOLEAN] /\ untold' = untold \cup {x}
  BY <1>1, <1>5, <1>6
<1>8. RestTyped'
  BY <1>1, <1>2, <1>7 DEF RestTyped
<1>9. ToldIds' = ToldIds \cup {op.id}
  BY <1>7 DEF ToldIds
<1>10. HandledIsShown'
  <2>1. ((acked \cup ToldIds) \ removed) \subseteq ShownIds(ViewNow)
    BY <1>2 DEF HandledIsShown
  <2>2. (acked' \cup ToldIds') \ removed' \subseteq ((acked \cup ToldIds) \ removed) \cup {op.id}
    BY <1>1, <1>9
  <2> QED
    BY <1>3, <1>5, <2>1, <2>2 DEF HandledIsShown
<1>11. Kept'
  BY <1>2, <1>3, <1>8, <1>10 DEF Kept
<1>12. ASSUME faults' = 0 PROVE Faultless'
  <2>0. Faultless
    BY <1>0, <1>1, <1>12
  <2>1. Whole(ScopedAhead, LegacyAhead)' /\ Counted(ViewAhead)' /\ OwnOnce(ViewAhead)'
    BY <1>3, <1>4, <2>0 DEF Faultless
  <2>2. PendingIsSent(ViewAhead, op.at, op.id)'
    <3>1. op.at # "transmit" /\ PendingIsSent(ViewAhead, op.at, op.id)
      BY <1>1, <2>0 DEF Faultless
    <3>2. PendingIsSent(ViewNow, op'.at, op'.id)
      BY <1>4, <3>1 DEF PendingIsSent, Sent
    <3> QED
      BY <1>3, <3>2
  <2>3. IndexApart(Stock(scoped, legacy) \cup ToBe)'
    <3>1. IndexApart(Stock(scoped, legacy) \cup ToBe)
      BY <2>0 DEF Faultless
    <3>2. IndexApart(Stock(scoped, legacy) \cup {})
      BY <3>1 DEF IndexApart, Sent
    <3> QED
      BY <1>1, <1>3, <3>2
  <2>4. Announced
    BY <2>0 DEF Faultless
  <2>5. News \subseteq News' /\ (op.at = "stored" => op.id \in News')
    <3>1. x \in untold' /\ (op.at = "stored" => x.new)
      BY <1>7
    <3>2. News' = announced \cup {y.id : y \in {z \in untold' : z.new}}
      BY <1>1 DEF News
    <3>3. op.at = "stored" => op.id \in News'
      BY <1>7, <3>1, <3>2
    <3> QED
      BY <1>7, <3>2, <3>3 DEF News
  <2>6. op.id \in News' \cup ByWindow
    BY <1>1, <2>4, <2>5 DEF Announced
  <2>7. ((acked' \cup ToldIds') \ removed') \subseteq ((acked \cup ToldIds) \ removed) \cup {op.id}
    BY <1>1, <1>9
  <2>8. Announced'
    BY <1>1, <1>3, <1>4, <1>9, <2>4, <2>5, <2>6, <2>7 DEF Announced
  <2> QED
    BY <2>1, <2>2, <2>3, <2>8 DEF Faultless
<1> QED
  BY <1>11, <1>12 DEF ConversationInv

-----------------------------------------------------------------------------
(* What an operation is about to write: the pages g, up to hi, and mt. *)

\* Pages that are the same have the same positions and counts.
LEMMA SlotsSame ==
    ASSUME NEW f, NEW g, NEW top, \A n \in 0 .. top : f[n] = g[n]
    PROVE  /\ Slots(f, top) = Slots(g, top)
           /\ \A p \in Slots(f, top) : f[p[1]][p[2]] = g[p[1]][p[2]]
           /\ \A meta : Counts(f, top, meta) <=> Counts(g, top, meta)
<1>1. Slots(f, top) = Slots(g, top)
  BY DEF Slots
<1>2. \A p \in Slots(f, top) : f[p[1]][p[2]] = g[p[1]][p[2]]
  BY InSlots
<1>3. {p \in Slots(f, top) : IsUnread(f[p[1]][p[2]])} = {p \in Slots(g, top) : IsUnread(g[p[1]][p[2]])}
  BY <1>1, <1>2
<1>4. \A meta : Counts(f, top, meta) <=> Counts(g, top, meta)
  BY <1>1, <1>2, <1>3 DEF Counts
<1> QED
  BY <1>1, <1>2, <1>4

\* Pages saved, and metadata after them, come to be shown as they were saved.
LEMMA Made ==
    ASSUME NEW s, NEW l, NEW hi \in C!Pages, NEW v, v = View(s, l), NEW todo, NEW g, NEW mt, Makes(todo, v, hi, g, mt),
           NEW u, u = View(ScopedAfter(todo, s), LegacyAfter(todo, l))
    PROVE  /\ u.meta = mt
           /\ \A n \in C!Pages : u.page[n] = IF n \in 0 .. hi THEN g[n] ELSE v.page[n]
           /\ \A n \in C!Pages : LegacyAfter(todo, l).pages[n] = l.pages[n]
           /\ LegacyAfter(todo, l).meta = l.meta
           /\ \A n \in C!Pages : \/ ScopedAfter(todo, s).pages[n] = s.pages[n]
                                 \/ n \in 0 .. hi /\ ScopedAfter(todo, s).pages[n] = <<g[n]>>
<1>1. \A n, now : After(todo, "legacy_page", n, now) = now
  BY AfterNone DEF Makes
<1>2. \A now : After(todo, "legacy_metadata", 0, now) = now
  BY AfterNone DEF Makes
<1>3. \A n \in C!Pages : LegacyAfter(todo, l).pages[n] = l.pages[n]
  BY <1>1 DEF LegacyAfter
<1>4. LegacyAfter(todo, l).meta = l.meta
  BY <1>2 DEF LegacyAfter
<1>5. ASSUME NEW n \in C!Pages
      PROVE  /\ u.page[n] = IF n \in 0 .. hi THEN g[n] ELSE v.page[n]
             /\ ScopedAfter(todo, s).pages[n] = s.pages[n] \/ (n \in 0 .. hi /\ ScopedAfter(todo, s).pages[n] = <<g[n]>>)
  <2>1. u.page[n] = ShownPage(ScopedAfter(todo, s), LegacyAfter(todo, l), n) /\ v.page[n] = ShownPage(s, l, n)
    BY DEF View
  <2>2. ScopedAfter(todo, s).pages[n] = After(todo, "page", n, s.pages[n])
    BY DEF ScopedAfter
  <2>3. CASE \E k \in 1 .. Len(todo) : todo[k].key = "page" /\ todo[k].n = n
    <3>1. PICK k \in 1 .. Len(todo) : todo[k].key = "page" /\ todo[k].n = n
      BY <2>3
    <3>2. Distinct(todo) /\ n \in 0 .. hi /\ todo[k].value = <<g[n]>>
      BY <3>1 DEF Makes
    <3>d. Distinct(todo)
      BY DEF Makes
    <3>0. After(todo, "page", n, s.pages[n]) = todo[k].value
      BY <3>1, <3>d, AfterHas
    <3>3. ScopedAfter(todo, s).pages[n] = <<g[n]>>
      BY <2>2, <3>0, <3>2
    <3>4. <<g[n]>> # <<>> /\ <<g[n]>>[1] = g[n]
      OBVIOUS
    <3> QED
      BY <2>1, <3>2, <3>3, <3>4 DEF ShownPage
  <2>4. CASE \A k \in 1 .. Len(todo) : ~(todo[k].key = "page" /\ todo[k].n = n)
    <3>1. ScopedAfter(todo, s).pages[n] = s.pages[n]
      BY <2>2, <2>4, AfterNone
    <3>2. n \in 0 .. hi => g[n] = v.page[n]
      BY <2>4 DEF Makes
    <3> QED
      BY <1>3, <2>1, <3>1, <3>2 DEF ShownPage
  <2> QED
    BY <2>3, <2>4
<1>6. u.meta = mt
  <2>1. u.meta = ShownMeta(ScopedAfter(todo, s), LegacyAfter(todo, l)) /\ v.meta = ShownMeta(s, l)
    BY DEF View
  <2>2. ScopedAfter(todo, s).meta = After(todo, "metadata", 0, s.meta)
    BY DEF ScopedAfter
  <2>3. CASE \E k \in 1 .. Len(todo) : todo[k].key = "metadata"
    <3>1. PICK k \in 1 .. Len(todo) : todo[k].key = "metadata"
      BY <2>3
    <3>2. Distinct(todo) /\ todo[k].n = 0 /\ todo[k].value = mt /\ mt # <<>>
      BY <3>1 DEF Makes
    <3>3. ScopedAfter(todo, s).meta = mt
      BY <2>2, <3>1, <3>2, AfterHas
    <3> QED
      BY <2>1, <3>2, <3>3 DEF ShownMeta
  <2>4. CASE \A k \in 1 .. Len(todo) : todo[k].key # "metadata"
    <3>1. ScopedAfter(todo, s).meta = s.meta
      BY <2>2, <2>4, AfterNone
    <3> QED
      BY <1>4, <2>1, <2>4, <3>1 DEF ShownMeta, Makes
  <2> QED
    BY <2>3, <2>4
<1> QED
  BY <1>3, <1>4, <1>5, <1>6

\* And they are good writes, if the pages are good.
LEMMA MadeWrites ==
    ASSUME NEW v, NEW hi \in C!Pages, NEW todo, NEW g, NEW mt \in Options(Metas), Makes(todo, v, hi, g, mt), NEW own,
           \A n \in 0 .. hi : GoodPage(n, g[n], own)
    PROVE  GoodWrites(todo, own)
<1> SUFFICES ASSUME NEW k \in 1 .. Len(todo) PROVE GoodWrite(todo[k], own)
  BY DEF GoodWrites, Makes
<1>1. todo[k] \in Writes
  BY DEF Makes
<1>2. CASE todo[k].key = "page" /\ todo[k].n \in 0 .. hi /\ todo[k].value = <<g[todo[k].n]>>
  <2>1. GoodPage(todo[k].n, g[todo[k].n], own)
    BY <1>2
  <2>2. g[todo[k].n] \in Seq(Msgs)
    BY <2>1 DEF GoodPage
  <2>3. todo[k].value \in Options(Seq(Msgs)) /\ todo[k].value[1] = g[todo[k].n]
    BY <1>2, <2>2, OptionHas
  <2> QED
    BY <1>1, <1>2, <2>1, <2>3 DEF GoodWrite, GoodOption
<1>3. CASE todo[k].key = "metadata" /\ todo[k].n = 0 /\ todo[k].value = mt
  BY <1>1, <1>3 DEF GoodWrite
<1> QED
  BY <1>2, <1>3 DEF Makes

\* A page whose messages come from a page with other statuses, editors or reactions is as good.
LEMMA ComesGood ==
    ASSUME NEW v, NEW g, NEW h, NEW gone, NEW own, Comes(v, g, h, gone), NEW n \in 0 .. Top(v), GoodPage(n, v.page[n], own)
    PROVE  GoodPage(n, g[n], own) /\ Ids(g[n]) \subseteq Ids(v.page[n])
<1>1. /\ g[n] \in Seq(Msgs)
      /\ \A i \in 1 .. Len(g[n]) : h[n][i] \in 1 .. Len(v.page[n]) /\ Same(g[n][i], v.page[n][h[n][i]])
      /\ \A i, j \in 1 .. Len(g[n]) : h[n][i] = h[n][j] => i = j
  BY DEF Comes
<1>2. ASSUME NEW i \in 1 .. Len(g[n]) PROVE GoodMsg(g[n][i], own) /\ (n # 0 => g[n][i].id \notin OldIds)
  <2>1. PICK b : b = v.page[n][h[n][i]]
    OBVIOUS
  <2>2. GoodMsg(b, own) /\ (n # 0 => b.id \notin OldIds) /\ Same(g[n][i], b)
    BY <1>1, <2>1 DEF GoodPage
  <2> QED
    BY <2>2 DEF GoodMsg, Same, Sent
<1>3. ASSUME NEW i \in 1 .. Len(g[n]), NEW j \in 1 .. Len(g[n]), g[n][i].id = g[n][j].id PROVE i = j
  <2>1. v.page[n][h[n][i]].id = v.page[n][h[n][j]].id
    BY <1>1, <1>3 DEF Same
  <2>2. h[n][i] = h[n][j]
    BY <1>1, <2>1 DEF GoodPage
  <2> QED
    BY <1>1, <2>2
<1>4. Ids(g[n]) \subseteq Ids(v.page[n])
  <2>1. \A i \in 1 .. Len(g[n]) : h[n][i] \in 1 .. Len(v.page[n]) /\ g[n][i].id = v.page[n][h[n][i]].id
    BY <1>1 DEF Same
  <2>2. \A k \in 1 .. Len(v.page[n]) : v.page[n][k].id \in Ids(v.page[n])
    BY DEF Ids
  <2>3. \A x \in Ids(g[n]) : \E i \in 1 .. Len(g[n]) : x = g[n][i].id
    BY DEF Ids
  <2>4. ASSUME NEW x \in Ids(g[n]) PROVE x \in Ids(v.page[n])
    <3>1. PICK i \in 1 .. Len(g[n]) : x = g[n][i].id
      BY <2>3
    <3>2. x = v.page[n][h[n][i]].id /\ h[n][i] \in 1 .. Len(v.page[n])
      BY <2>1, <3>1
    <3> QED
      BY <2>2, <3>2
  <2> QED
    BY <2>4
<1> QED
  BY <1>1, <1>2, <1>3, <1>4 DEF GoodPage

\* What is shown is in the stock.
LEMMA ShownIsStock ==
    ASSUME NEW s, NEW l, NEW n \in C!Pages, NEW i \in 1 .. Len(View(s, l).page[n])
    PROVE  View(s, l).page[n][i] \in Stock(s, l)
<1>1. View(s, l).page[n] = ShownPage(s, l, n)
  BY DEF View
<1>2. 1 .. Len(<<>>) = {}
  OBVIOUS
<1> QED
  BY <1>1, <1>2 DEF Stock, Held, ShownPage

\* Nothing in stock is new but what is written.
LEMMA StockAfter ==
    ASSUME NEW s, NEW l, NEW hi \in C!Pages, NEW v, v = View(s, l), NEW todo, NEW g, NEW mt, Makes(todo, v, hi, g, mt),
           NEW m \in Stock(ScopedAfter(todo, s), LegacyAfter(todo, l))
    PROVE  m \in Stock(s, l) \/ \E n \in 0 .. hi : \E i \in 1 .. Len(g[n]) : m = g[n][i]
<1>1. PICK n \in C!Pages : m \in Held(ScopedAfter(todo, s).pages[n]) \/ m \in Held(LegacyAfter(todo, l).pages[n])
  BY DEF Stock
<1>2. LegacyAfter(todo, l).pages[n] = l.pages[n]
      /\ (ScopedAfter(todo, s).pages[n] = s.pages[n] \/ (n \in 0 .. hi /\ ScopedAfter(todo, s).pages[n] = <<g[n]>>))
  BY Made
<1>3. \A x \in Held(<<g[n]>>) : \E i \in 1 .. Len(g[n]) : x = g[n][i]
  BY DEF Held
<1>4. Held(s.pages[n]) \subseteq Stock(s, l) /\ Held(l.pages[n]) \subseteq Stock(s, l)
  BY DEF Stock
<1> QED
  BY <1>1, <1>2, <1>3, <1>4

\* A message to be written is on one of the pages made.
LEMMA ToBeIs ==
    ASSUME NEW hi, NEW v, NEW g, NEW mt, NEW todo, Makes(todo, v, hi, g, mt), NEW m \in Written(todo)
    PROVE  \E n \in 0 .. hi : \E i \in 1 .. Len(g[n]) : m = g[n][i]
<1>1. PICK k \in 1 .. Len(todo) : todo[k].key = "page" /\ m \in Held(todo[k].value)
  BY DEF Written
<1>2. PICK n : n = todo[k].n
  OBVIOUS
<1>3. n \in 0 .. hi /\ todo[k].value = <<g[n]>>
  BY <1>1, <1>2 DEF Makes
<1> QED
  BY <1>1, <1>3 DEF Held

\* A view of the pages g, up to top.
LEMMA ShowsPages ==
    ASSUME NEW u, NEW g, NEW top \in Nat, Top(u) = top, \A n \in 0 .. top : u.page[n] = g[n]
    PROVE  /\ Places(u) = Slots(g, top)
           /\ \A p \in Places(u) : \E n \in 0 .. top : \E i \in 1 .. Len(g[n]) : p = <<n, i>> /\ At(u, p) = g[n][i]
           /\ Counted(u) <=> Counts(g, top, u.meta)
           /\ ShownIds(u) = UNION {Ids(g[n]) : n \in 0 .. top}
<1>0. PICK f : f = u.page
  OBVIOUS
<1>1. /\ Slots(u.page, top) = Slots(g, top)
      /\ \A meta : Counts(u.page, top, meta) <=> Counts(g, top, meta)
  <2>1. \A n \in 0 .. top : f[n] = g[n]
    BY <1>0
  <2>2. Slots(f, top) = Slots(g, top) /\ \A meta : Counts(f, top, meta) <=> Counts(g, top, meta)
    BY <2>1, SlotsSame
  <2> QED
    BY <1>0, <2>2
<1>2. \A p \in Places(u) : \E n \in 0 .. top : \E i \in 1 .. Len(g[n]) : p = <<n, i>> /\ At(u, p) = g[n][i]
  <2> SUFFICES ASSUME NEW p \in Places(u) PROVE \E n \in 0 .. top : \E i \in 1 .. Len(g[n]) : p = <<n, i>> /\ At(u, p) = g[n][i]
    OBVIOUS
  <2>0. PICK n \in 0 .. top : \E i \in 1 .. Len(g[n]) : p = <<n, i>>
    BY <1>1, InSlots DEF Places
  <2>1. PICK i \in 1 .. Len(g[n]) : p = <<n, i>>
    BY <2>0
  <2>2. At(u, p) = g[n][i]
    BY <2>1 DEF At
  <2> QED
    BY <2>1, <2>2
<1>3. Counted(u) <=> Counts(u.page, top, u.meta)
  BY DEF Counted, Counts, Places, UnreadPlaces, At
<1>4. ShownIds(u) = UNION {Ids(g[n]) : n \in 0 .. top}
  BY DEF ShownIds
<1> QED
  BY <1>1, <1>2, <1>3, <1>4 DEF Places

-----------------------------------------------------------------------------
(* An operation that begins with nothing left to write. *)

\* An operation begins: nothing is stored yet, and what will be is known.
LEMMA BeginIs ==
    ASSUME StoreTyped, NEW todo, NEW at, NEW id, Begins(todo, at, id)
    PROVE  /\ op'.writes = todo /\ op'.at = at /\ op'.id = id /\ op' = [at |-> op'.at, writes |-> op'.writes, id |-> op'.id]
           /\ ViewNow' = ViewNow /\ ScopedAhead' = ScopedAfter(todo, scoped) /\ LegacyAhead' = LegacyAfter(todo, legacy)
           /\ ViewAhead' = View(ScopedAfter(todo, scoped), LegacyAfter(todo, legacy))
           /\ ScopedAhead = scoped /\ LegacyAhead = legacy /\ ViewAhead = ViewNow /\ ToBe = {}
           /\ ToBe' = Written(todo)
           /\ News' = News /\ ToldIds' = ToldIds
<1>1. op'.writes = todo /\ op'.at = at /\ op'.id = id /\ op' = [at |-> op'.at, writes |-> op'.writes, id |-> op'.id]
  BY DEF Begins
<1>2. scoped' = scoped /\ legacy' = legacy /\ untold' = untold /\ announced' = announced /\ op.writes = <<>>
  BY DEF Begins
<1>3. ViewNow' = ViewNow
  BY <1>2 DEF ViewNow
<1>4. ScopedAhead' = ScopedAfter(todo, scoped) /\ LegacyAhead' = LegacyAfter(todo, legacy)
  BY <1>1, <1>2 DEF ScopedAhead, LegacyAhead
<1>5. ViewAhead' = View(ScopedAfter(todo, scoped), LegacyAfter(todo, legacy))
  BY <1>4 DEF ViewAhead
<1>6. ToBe' = Written(todo)
  BY <1>1 DEF ToBe, Written
<1>7. ToBe = {}
  BY <1>2 DEF ToBe
<1>8. News' = News /\ ToldIds' = ToldIds
  BY <1>2 DEF News, ToldIds
<1> QED
  BY <1>1, <1>2, <1>3, <1>4, <1>5, <1>6, <1>7, <1>8, NothingAhead

\* The store and the rest, with as many own messages or more.
LEMMA GoodGrows ==
    ASSUME NEW own \in Nat, NEW more \in Nat, own <= more
    PROVE  /\ \A m : GoodMsg(m, own) => GoodMsg(m, more)
           /\ \A n, page : GoodPage(n, page, own) => GoodPage(n, page, more)
           /\ \A n, o : GoodOption(n, o, own) => GoodOption(n, o, more)
<1>1. ASSUME NEW m, GoodMsg(m, own) PROVE GoodMsg(m, more)
  <2>1. 1 .. (MaxPeerIds + own) \subseteq 1 .. (MaxPeerIds + more)
    BY ConversationsAssumption
  <2> QED
    BY <1>1, <2>1 DEF GoodMsg, Sent
<1>2. \A n, page : GoodPage(n, page, own) => GoodPage(n, page, more)
  BY <1>1 DEF GoodPage
<1>3. \A n, o : GoodOption(n, o, own) => GoodOption(n, o, more)
  BY <1>2 DEF GoodOption
<1> QED
  BY <1>1, <1>2, <1>3

\* Its writes have the types they need.
LEMMA BeginTyped ==
    ASSUME Kept, NEW todo, NEW at, NEW id, Begins(todo, at, id), owned' \in 0 .. MaxOwnIds, owned <= owned',
           at \in {"done", "stored", "duplicate", "transmit"}, at \in {"stored", "duplicate"} => id \in 1 .. MaxPeerIds,
           GoodWrites(todo, owned')
    PROVE  StoreTyped' /\ RestTyped' /\ OpTyped' /\ NewestApart(ViewNow)' /\ HandledIsShown'
<1>0. StoreTyped /\ RestTyped /\ NewestApart(ViewNow) /\ HandledIsShown
  BY DEF Kept
<1>1. /\ scoped' = scoped /\ legacy' = legacy /\ untold' = untold /\ acked' = acked /\ announced' = announced /\ faults' = faults
      /\ removed \subseteq removed' /\ ops' \in Nat /\ id \in Nat
  BY DEF Begins
<1>2. /\ op'.writes = todo /\ op'.at = at /\ op'.id = id /\ op' = [at |-> op'.at, writes |-> op'.writes, id |-> op'.id]
      /\ ViewNow' = ViewNow /\ ToldIds' = ToldIds
  BY <1>0, BeginIs
<1>3. OpTyped'
  BY <1>1, <1>2 DEF OpTyped
<1>4. RestTyped'
  BY <1>0, <1>1 DEF RestTyped
<1>5. owned \in Nat /\ owned' \in Nat
  BY <1>0 DEF RestTyped
<1>6. StoreTyped'
  <2>1. \A n \in C!Pages : GoodOption(n, scoped.pages[n], owned')
    BY <1>0, <1>5, GoodGrows DEF StoreTyped
  <2> QED
    BY <1>0, <1>1, <2>1 DEF StoreTyped
<1>7. NewestApart(ViewNow)'
  BY <1>0, <1>2
<1>8. HandledIsShown'
  BY <1>0, <1>1, <1>2 DEF HandledIsShown
<1> QED
  BY <1>3, <1>4, <1>6, <1>7, <1>8

\* An operation that changes or drops messages of pages keeps what holds whatever failed,
LEMMA TrimKept ==
    ASSUME Kept, NEW todo, NEW at \in {"done", "transmit"}, NEW id, Begins(todo, at, id), owned' = owned,
           NEW g, NEW h, NEW mt \in Options(Metas), Makes(todo, ViewNow, Top(ViewNow), g, mt), Comes(ViewNow, g, h, removed'),
           mt # <<>> => mt[1].latest = Top(ViewNow), mt = <<>> => ViewNow.meta = <<>>
    PROVE  /\ Kept' /\ Top(ViewAhead') = Top(ViewNow) /\ ViewAhead'.meta = mt
           /\ \A n \in C!Pages : ViewAhead'.page[n] = IF n \in 0 .. Top(ViewNow) THEN g[n] ELSE ViewNow.page[n]
<1>0. StoreTyped /\ RestTyped /\ NewestApart(ViewNow) /\ HandledIsShown
  BY DEF Kept
<1>1. PICK v : v = ViewNow
  OBVIOUS
<1>2. PICK u : u = ViewAhead'
  OBVIOUS
<1>3. PICK top : top = Top(v)
  OBVIOUS
<1>4. /\ top \in C!Pages /\ top \in Nat /\ 0 .. top \subseteq C!Pages /\ owned \in Nat /\ owned \in 0 .. MaxOwnIds
      /\ \A n \in C!Pages : GoodPage(n, v.page[n], owned)
  BY <1>0, <1>1, <1>3, ViewIs, ConversationsAssumption DEF RestTyped, C!Pages
<1>5. Makes(todo, v, top, g, mt) /\ Comes(v, g, h, removed')
  BY <1>1, <1>3
<1>6. \A n \in 0 .. top : GoodPage(n, g[n], owned) /\ Ids(g[n]) \subseteq Ids(v.page[n])
  BY <1>3, <1>4, <1>5, ComesGood
<1>7. GoodWrites(todo, owned)
  BY <1>4, <1>5, <1>6, MadeWrites
<1>8. owned' \in 0 .. MaxOwnIds /\ owned <= owned' /\ GoodWrites(todo, owned')
  BY <1>4, <1>7
<1>9. StoreTyped' /\ RestTyped' /\ OpTyped' /\ NewestApart(ViewNow)' /\ HandledIsShown'
  BY <1>8, BeginTyped
<1>10. /\ op'.writes = todo /\ op'.at = at /\ op'.id = id /\ ViewNow' = ViewNow
       /\ u = View(ScopedAfter(todo, scoped), LegacyAfter(todo, legacy))
  BY <1>0, <1>2, BeginIs
<1>11. u.meta = mt /\ \A n \in C!Pages : u.page[n] = IF n \in 0 .. top THEN g[n] ELSE v.page[n]
  BY <1>1, <1>4, <1>5, <1>10, Made DEF ViewNow
<1>12. Top(u) = top
  BY <1>1, <1>3, <1>11 DEF Top
<1>13. NewestApart(u)
  <2> SUFFICES ASSUME top > 0 PROVE Ids(u.page[top]) \cap Ids(u.page[top - 1]) = {}
    BY <1>12 DEF NewestApart
  <2>1. top \in 0 .. top /\ top - 1 \in 0 .. top
    BY <1>4
  <2>2. Ids(v.page[top]) \cap Ids(v.page[top - 1]) = {}
    BY <1>0, <1>1, <1>3 DEF NewestApart
  <2> QED
    BY <1>4, <1>6, <1>11, <2>1, <2>2
<1>14. Trims'
  <2>1. ASSUME NEW k \in 1 .. Len(todo)
        PROVE  /\ todo[k].value # <<>>
               /\ \/ /\ todo[k].key = "page" /\ todo[k].n <= top
                     /\ Ids(todo[k].value[1]) \subseteq Ids(v.page[todo[k].n])
                     /\ Ids(v.page[todo[k].n]) \ Ids(todo[k].value[1]) \subseteq removed'
                  \/ todo[k].key = "metadata" /\ todo[k].value[1].latest = top
    <3>1. CASE todo[k].key = "page" /\ todo[k].n \in 0 .. top /\ todo[k].value = <<g[todo[k].n]>>
      <4>1. PICK n \in 0 .. top : n = todo[k].n
        BY <3>1
      <4>2. todo[k].value # <<>> /\ todo[k].value[1] = g[n] /\ n <= top
        BY <1>4, <3>1, <4>1
      <4>3. Ids(v.page[n]) \ Ids(g[n]) \subseteq removed'
        BY <1>3, <1>5 DEF Comes
      <4> QED
        BY <1>6, <3>1, <4>1, <4>2, <4>3
    <3>2. CASE todo[k].key = "metadata" /\ todo[k].value = mt /\ mt # <<>>
      BY <1>1, <1>3, <3>2
    <3> QED
      BY <1>5, <3>1, <3>2 DEF Makes
  <2> QED
    BY <1>1, <1>3, <1>10, <2>1 DEF Trims
<1>15. StoredIsAhead'
  BY <1>10 DEF StoredIsAhead
<1>16. Kept'
  BY <1>2, <1>9, <1>13, <1>14, <1>15 DEF Kept
<1> QED
  BY <1>1, <1>2, <1>3, <1>11, <1>12, <1>16

\* and what holds while nothing did, if the metadata it writes counts what it leaves.
LEMMA TrimFaultless ==
    ASSUME Kept, Faultless, NEW todo, NEW at \in {"done", "transmit"}, NEW id, Begins(todo, at, id), owned' = owned,
           NEW g, NEW h, NEW mt \in Options(Metas), Makes(todo, ViewNow, Top(ViewNow), g, mt), Comes(ViewNow, g, h, removed'),
           mt # <<>> => mt[1].latest = Top(ViewNow), mt = <<>> => ViewNow.meta = <<>>, todo # <<>> => mt # <<>>,
           mt[1].index = ViewNow.meta[1].index,
           Counts(g, Top(ViewNow), mt), PendingOn(g, Top(ViewNow), at, id)
    PROVE  Faultless'
<1>0. StoreTyped /\ RestTyped
  BY DEF Kept
<1>1. PICK v : v = ViewNow
  OBVIOUS
<1>2. PICK u : u = ViewAhead'
  OBVIOUS
<1>3. PICK top : top = Top(v)
  OBVIOUS
<1>4. /\ top \in C!Pages /\ top \in Nat /\ 0 .. top \subseteq C!Pages /\ owned \in Nat
      /\ \A n \in C!Pages : GoodPage(n, v.page[n], owned)
  BY <1>0, <1>1, <1>3, ViewIs, ConversationsAssumption DEF RestTyped, C!Pages
<1>5. Makes(todo, v, top, g, mt) /\ Comes(v, g, h, removed') /\ v = View(scoped, legacy)
  BY <1>1, <1>3 DEF ViewNow
<1>6. Top(u) = top /\ u.meta = mt /\ \A n \in C!Pages : u.page[n] = IF n \in 0 .. top THEN g[n] ELSE v.page[n]
  BY <1>1, <1>2, <1>3, TrimKept
<1>7. \A n \in 0 .. top : u.page[n] = g[n]
  BY <1>4, <1>6
<1>8. /\ \A p \in Places(u) : \E n \in 0 .. top : \E i \in 1 .. Len(g[n]) : p = <<n, i>> /\ At(u, p) = g[n][i]
      /\ Counted(u) <=> Counts(g, top, u.meta)
  <2>1. top \in Nat
    BY <1>4
  <2>2. Top(u) = top
    BY <1>6
  <2>3. \A n \in 0 .. top : u.page[n] = g[n]
    BY <1>7
  <2>4. Counted(u) <=> Counts(g, top, u.meta)
    BY <2>1, <2>2, <2>3, ShowsPages
  <2>5. ASSUME NEW p \in Places(u)
        PROVE  \E n \in 0 .. top : \E i \in 1 .. Len(g[n]) : p = <<n, i>> /\ At(u, p) = g[n][i]
    <3>1. p \in Slots(g, top)
      BY <2>1, <2>2, <2>3, <2>5, ShowsPages
    <3>2. PICK n \in 0 .. top : \E i \in 1 .. Len(g[n]) : p = <<n, i>>
      BY <3>1, InSlots
    <3>3. PICK i \in 1 .. Len(g[n]) : p = <<n, i>>
      BY <3>2
    <3>4. At(u, p) = g[n][i]
      BY <2>3, <3>3 DEF At
    <3> QED
      BY <3>3, <3>4
  <2> QED
    BY <2>4, <2>5
<1>9. Counted(u)
  BY <1>1, <1>3, <1>6, <1>8
<1>10. /\ op'.writes = todo /\ op'.at = at /\ op'.id = id /\ ScopedAhead' = ScopedAfter(todo, scoped) /\ LegacyAhead' = LegacyAfter(todo, legacy)
       /\ ScopedAhead = scoped /\ LegacyAhead = legacy /\ ViewAhead = v /\ ToBe = {}
       /\ ToBe' = Written(todo)
       /\ News' = News /\ ToldIds' = ToldIds /\ u = View(ScopedAfter(todo, scoped), LegacyAfter(todo, legacy))
  BY <1>0, <1>1, <1>2, BeginIs
<1>11. scoped' = scoped /\ legacy' = legacy /\ acked' = acked /\ announced' = announced /\ removed \subseteq removed'
       /\ op.at \in {"done", "transmit"}
  BY DEF Begins
\* Whatever is written was there.
<1>12. ASSUME NEW n \in 0 .. top, NEW i \in 1 .. Len(g[n])
       PROVE  \E b \in Stock(scoped, legacy) : g[n][i].id = b.id /\ g[n][i].from = b.from /\ g[n][i].index = b.index
  <2>1. h[n][i] \in 1 .. Len(v.page[n]) /\ Same(g[n][i], v.page[n][h[n][i]])
    BY <1>3, <1>5 DEF Comes
  <2>2. v.page[n][h[n][i]] \in Stock(scoped, legacy)
    BY <1>4, <1>5, <2>1, ShownIsStock
  <2> QED
    BY <2>1, <2>2 DEF Same
<1>13. ASSUME NEW m \in Stock(scoped, legacy) \cup Stock(ScopedAfter(todo, scoped), LegacyAfter(todo, legacy)) \cup ToBe'
       PROVE  \E b \in Stock(scoped, legacy) : m.id = b.id /\ m.from = b.from /\ m.index = b.index
  <2>1. m \in Stock(scoped, legacy) \/ \E n \in 0 .. top : \E i \in 1 .. Len(g[n]) : m = g[n][i]
    <3>1. CASE m \in Stock(ScopedAfter(todo, scoped), LegacyAfter(todo, legacy))
      BY <1>4, <1>5, <3>1, StockAfter
    <3>2. CASE m \in Written(todo)
      BY <1>5, <3>2, ToBeIs
    <3> QED
      BY <1>10, <1>13, <3>1, <3>2
  <2> QED
    BY <1>12, <2>1
<1>14. Whole(scoped, legacy) /\ IndexApart(Stock(scoped, legacy)) /\ OwnOnce(v) /\ Announced
  <2>1. Whole(scoped, legacy) /\ OwnOnce(v) /\ Announced /\ IndexApart(Stock(scoped, legacy) \cup ToBe)
    BY <1>10 DEF Faultless
  <2> QED
    BY <2>1 DEF IndexApart, Sent
<1>15. IndexApart(Stock(scoped, legacy) \cup ToBe)'
  <2>1. IndexApart(Stock(scoped, legacy) \cup ToBe')
    BY <1>13, <1>14 DEF IndexApart, Sent
  <2> QED
    BY <1>11, <2>1
<1>16. Announced'
  <2>1. \A m \in Stock(ScopedAfter(todo, scoped), LegacyAfter(todo, legacy)) : m.id \in 1 .. MaxPeerIds => m.id \in News \cup ByWindow
    <3>1. \A b \in Stock(scoped, legacy) : b.id \in 1 .. MaxPeerIds => b.id \in News \cup ByWindow
      BY <1>10, <1>11, <1>14 DEF Announced
    <3> QED
      BY <1>13, <3>1
  <2> QED
    BY <1>10, <1>11, <1>14, <2>1 DEF Announced
<1>17. OwnOnce(u)
  <2> SUFFICES ASSUME NEW p \in Places(u), NEW q \in Places(u), At(u, p).id = At(u, q).id, At(u, p).id > MaxPeerIds, At(u, p).id \notin ByWindow
               PROVE  p = q
    BY DEF OwnOnce
  <2>1. PICK n \in 0 .. top : \E i \in 1 .. Len(g[n]) : p = <<n, i>> /\ At(u, p) = g[n][i]
    BY <1>8
  <2>2. PICK i \in 1 .. Len(g[n]) : p = <<n, i>> /\ At(u, p) = g[n][i]
    BY <2>1
  <2>3. PICK m \in 0 .. top : \E j \in 1 .. Len(g[m]) : q = <<m, j>> /\ At(u, q) = g[m][j]
    BY <1>8
  <2>4. PICK j \in 1 .. Len(g[m]) : q = <<m, j>> /\ At(u, q) = g[m][j]
    BY <2>3
  <2>5. h[n][i] \in 1 .. Len(v.page[n]) /\ g[n][i].id = v.page[n][h[n][i]].id
    BY <1>3, <1>5 DEF Comes, Same
  <2>6. h[m][j] \in 1 .. Len(v.page[m]) /\ g[m][j].id = v.page[m][h[m][j]].id
    BY <1>3, <1>5 DEF Comes, Same
  <2>7. <<n, h[n][i]>> \in Places(v) /\ <<m, h[m][j]>> \in Places(v)
    BY <1>3, <2>5, <2>6, InSlots DEF Places
  <2>8. At(v, <<n, h[n][i]>>) = v.page[n][h[n][i]] /\ At(v, <<m, h[m][j]>>) = v.page[m][h[m][j]]
    BY DEF At
  <2>9. <<n, h[n][i]>> = <<m, h[m][j]>>
    BY <1>14, <2>2, <2>4, <2>5, <2>6, <2>7, <2>8 DEF OwnOnce
  <2>10. n = m /\ h[n][i] = h[n][j]
    BY <2>9
  <2>11. i = j
    BY <1>3, <1>5, <2>4, <2>10 DEF Comes
  <2> QED
    BY <2>2, <2>4, <2>10, <2>11
<1>18. PendingIsSent(u, at, id)
  <2>1. PendingOn(g, top, at, id)
    BY <1>1, <1>3
  <2> QED
    BY <1>8, <2>1 DEF PendingIsSent, PendingOn, Sent
<1>19. Whole(ScopedAfter(todo, scoped), LegacyAfter(todo, legacy))
  <2>1. PICK s : s = ScopedAfter(todo, scoped)
    OBVIOUS
  <2>2. PICK l : l = LegacyAfter(todo, legacy)
    OBVIOUS
  <2>3. /\ \A n \in C!Pages : l.pages[n] = legacy.pages[n] /\ (s.pages[n] = scoped.pages[n] \/ n \in 0 .. top)
        /\ l.meta = legacy.meta
    BY <1>4, <1>5, <2>1, <2>2, Made
  <2>4. View(s, l) = u /\ ShownMeta(s, l) = mt /\ ShownMeta(scoped, legacy) = v.meta
    BY <1>5, <1>6, <1>10, <2>1, <2>2 DEF View
  <2>5. \A n \in C!Pages : n > top => scoped.pages[n] = <<>> /\ n \notin 0 .. top
    BY <1>3, <1>4, <1>5, <1>14 DEF Whole, C!Pages
  <2>6. \A n \in C!Pages : n > Top(View(s, l)) => s.pages[n] = <<>>
    BY <1>6, <2>3, <2>4, <2>5
  <2>7. ShownMeta(s, l) = <<>> => s.pages[0] = <<>>
    <3> SUFFICES ASSUME mt = <<>> PROVE s.pages[0] = <<>>
      BY <2>4
    <3>1. todo = <<>> /\ v.meta = <<>>
      BY <1>1
    <3>2. s = scoped
      BY <1>0, <2>1, <3>1, NothingAfter DEF StoreTyped
    <3> QED
      BY <1>14, <2>4, <3>1, <3>2 DEF Whole
  <2>8. (l.pages[0] = <<>>) <=> (l.meta = <<>>)
    <3>1. 0 \in C!Pages
      BY ConversationsAssumption DEF C!Pages
    <3> QED
      BY <1>14, <2>3, <3>1 DEF Whole
  <2>9. \A m \in Stock(s, l) : m.index <= ShownMeta(s, l)[1].index
    <3>1. \A b \in Stock(scoped, legacy) : b.index <= v.meta[1].index
      BY <1>14, <2>4 DEF Whole
    <3>2. mt[1].index = v.meta[1].index
      BY <1>1
    <3> QED
      BY <1>13, <2>1, <2>2, <2>4, <3>1, <3>2
  <2>10. Whole(s, l)
    BY <2>6, <2>7, <2>8, <2>9 DEF Whole
  <2> QED
    BY <2>1, <2>2, <2>10
<1>20. Whole(ScopedAhead, LegacyAhead)' /\ Counted(ViewAhead)' /\ OwnOnce(ViewAhead)' /\ PendingIsSent(ViewAhead, op.at, op.id)'
  BY <1>2, <1>9, <1>10, <1>17, <1>18, <1>19
<1> QED
  BY <1>15, <1>16, <1>20 DEF Faultless

\* Handled and not stored, with the operation under way as it is.
LEMMA HiddenKeeps ==
    ASSUME ConversationInv, NEW m, m.id \in 1 .. MaxPeerIds, C!hidden(m) PROVE ConversationInv'
<1>0. Kept /\ (faults = 0 => Faultless)
  BY DEF ConversationInv
<1>1. /\ UNCHANGED <<scoped, legacy, prefs, op, untold, announced, owned, faults>> /\ ops' = ops + 1
      /\ acked' = acked \cup {m.id}
      /\ removed' = IF m.id \in acked \cup ToldIds THEN removed ELSE removed \cup {m.id}
  BY DEF C!hidden, C!store, C!counters, C!Told, ToldIds
<1>2. StoreTyped /\ OpTyped /\ RestTyped /\ (Trims \/ Clears \/ Appends) /\ NewestApart(ViewNow) /\ NewestApart(ViewAhead)
      /\ HandledIsShown /\ StoredIsAhead
  BY <1>0 DEF Kept
<1>3. /\ StoreTyped' /\ OpTyped' /\ NewestApart(ViewNow)' /\ NewestApart(ViewAhead)' /\ StoredIsAhead'
      /\ ScopedAhead' = ScopedAhead /\ LegacyAhead' = LegacyAhead /\ ViewAhead' = ViewAhead /\ ViewNow' = ViewNow /\ ToBe' = ToBe
  BY <1>1, <1>2, SameStore
<1>4. RestTyped'
  <2>1. acked' \subseteq 1 .. MaxPeerIds
    BY <1>1, <1>2 DEF RestTyped
  <2>2. ops' \in Nat
    BY <1>1, <1>2 DEF RestTyped
  <2> QED
    BY <1>1, <1>2, <2>1, <2>2 DEF RestTyped
<1>5. /\ ToldIds' = ToldIds /\ News' = News /\ removed \subseteq removed'
      /\ (acked' \cup ToldIds') \ removed' \subseteq (acked \cup ToldIds) \ removed
  BY <1>1 DEF ToldIds, News
<1>6. HandledIsShown'
  BY <1>2, <1>3, <1>5 DEF HandledIsShown
<1>7. (Trims \/ Clears \/ Appends)'
  <2>1. Trims => Trims'
    BY <1>1, <1>3, <1>5 DEF Trims
  <2>2. Clears => Clears'
    BY <1>1, <1>5 DEF Clears
  <2>3. Appends => Appends'
    BY <1>1, <1>3 DEF Appends
  <2> QED
    BY <1>2, <2>1, <2>2, <2>3
<1>8. Kept'
  BY <1>2, <1>3, <1>4, <1>6, <1>7 DEF Kept
<1>9. ASSUME faults' = 0 PROVE Faultless'
  <2>0. Faultless
    BY <1>0, <1>1, <1>9
  <2>1. Whole(ScopedAhead, LegacyAhead)' /\ Counted(ViewAhead)' /\ OwnOnce(ViewAhead)' /\ PendingIsSent(ViewAhead, op.at, op.id)'
    BY <1>1, <1>3, <2>0 DEF Faultless
  <2>2. IndexApart(Stock(scoped, legacy) \cup ToBe)'
    BY <1>1, <1>3, <2>0 DEF Faultless
  <2>3. Announced
    BY <2>0 DEF Faultless
  <2>4. Announced'
    BY <1>1, <1>3, <1>5, <2>3 DEF Announced
  <2> QED
    BY <2>1, <2>2, <2>4 DEF Faultless
<1> QED
  BY <1>8, <1>9 DEF ConversationInv

\* Both.
LEMMA TrimStep ==
    ASSUME ConversationInv, NEW todo, NEW at \in {"done", "transmit"}, NEW id, Begins(todo, at, id), owned' = owned,
           NEW g, NEW h, NEW mt \in Options(Metas), Makes(todo, ViewNow, Top(ViewNow), g, mt), Comes(ViewNow, g, h, removed'),
           mt # <<>> => mt[1].latest = Top(ViewNow), mt = <<>> => ViewNow.meta = <<>>, todo # <<>> => mt # <<>>,
           mt[1].index = ViewNow.meta[1].index,
           faults = 0 => Counts(g, Top(ViewNow), mt) /\ PendingOn(g, Top(ViewNow), at, id)
    PROVE  ConversationInv'
<1>1. Kept'
  BY TrimKept DEF ConversationInv
<1>2. faults' = faults
  BY DEF Begins
<1>3. ASSUME faults = 0 PROVE Faultless'
  BY <1>3, TrimFaultless DEF ConversationInv
<1> QED
  BY <1>1, <1>2, <1>3 DEF ConversationInv

\* An operation that finds nothing to do.
LEMMA NoWrites ==
    ASSUME ConversationInv, NEW at \in {"done", "transmit"}, NEW id, Begins(<<>>, at, id), owned' = owned,
           faults = 0 => PendingIsSent(ViewNow, at, id)
    PROVE  ConversationInv'
<1>0. StoreTyped /\ RestTyped
  BY DEF ConversationInv, Kept
<1>1. PICK v : v = ViewNow
  OBVIOUS
<1>2. PICK top : top = Top(v)
  OBVIOUS
<1>3. PICK g : g = v.page
  OBVIOUS
<1>4. PICK h : h = [n \in 0 .. top |-> [i \in 1 .. Len(g[n]) |-> i]]
  OBVIOUS
<1>5. /\ top \in Nat /\ 0 .. top \subseteq C!Pages /\ v.meta \in Options(Metas)
      /\ \A n \in C!Pages : GoodPage(n, v.page[n], owned)
  BY <1>0, <1>1, <1>2, ViewIs, ConversationsAssumption DEF RestTyped, C!Pages
<1>6. Makes(<<>>, v, top, g, v.meta)
  BY <1>3 DEF Makes, Distinct
<1>7. Comes(v, g, h, removed')
  <2> SUFFICES ASSUME NEW n \in 0 .. top
               PROVE  /\ g[n] \in Seq(Msgs)
                      /\ \A i \in 1 .. Len(g[n]) : h[n][i] \in 1 .. Len(v.page[n]) /\ Same(g[n][i], v.page[n][h[n][i]])
                      /\ \A i, j \in 1 .. Len(g[n]) : h[n][i] = h[n][j] => i = j
                      /\ Ids(v.page[n]) \ Ids(g[n]) \subseteq removed'
    BY <1>2 DEF Comes
  <2>1. GoodPage(n, g[n], owned) /\ v.page[n] = g[n]
    BY <1>3, <1>5
  <2>2. \A i \in 1 .. Len(g[n]) : h[n][i] = i
    BY <1>4
  <2>3. \A i \in 1 .. Len(g[n]) : Same(g[n][i], g[n][i])
    BY <2>1 DEF Same, GoodPage, GoodMsg, Sent
  <2> QED
    BY <2>1, <2>2, <2>3 DEF GoodPage
<1>8. v.meta # <<>> => v.meta[1].latest = Top(v)
  BY DEF Top
<1>9. ASSUME faults = 0 PROVE Counts(g, top, v.meta) /\ PendingOn(g, top, at, id)
  <2>1. Counted(v) /\ PendingIsSent(v, at, id)
    BY <1>0, <1>1, <1>9, NothingAhead DEF ConversationInv, Faultless, Begins
  <2>2. Counts(g, top, v.meta)
    BY <1>2, <1>3, <2>1 DEF Counted, Counts, Places, UnreadPlaces, At
  <2>3. ASSUME NEW n \in 0 .. top, NEW i \in 1 .. Len(g[n]), Sent(g[n][i]), g[n][i].status = "pending"
        PROVE  at = "transmit" /\ g[n][i].id = id
    <3>1. <<n, i>> \in Places(v) /\ At(v, <<n, i>>) = g[n][i]
      BY <1>2, <1>3, InSlots DEF Places, At
    <3> QED
      BY <2>1, <2>3, <3>1 DEF PendingIsSent, Sent
  <2> QED
    BY <2>2, <2>3 DEF PendingOn, Sent
<1> QED
  BY <1>1, <1>2, <1>5, <1>6, <1>7, <1>8, <1>9, TrimStep

-----------------------------------------------------------------------------
(* Where a message is found, and how many there are. *)
LEMMA FindIs ==
    ASSUME StoreTyped, owned \in Nat, NEW id
    PROVE  /\ C!find(id) # <<>> => /\ ViewNow.meta # <<>>
                                   /\ C!find(id)[1].page \in 0 .. Top(ViewNow)
                                   /\ C!find(id)[1].index \in 1 .. Len(ViewNow.page[C!find(id)[1].page])
                                   /\ C!Stored(id) = ViewNow.page[C!find(id)[1].page][C!find(id)[1].index]
                                   /\ C!Stored(id).id = id
                                   /\ C!OnPage(C!find(id)[1].page) = ViewNow.page[C!find(id)[1].page]
           /\ C!find(id) = <<>> => ViewNow.meta = <<>> \/ id \notin ShownIds(ViewNow)
<1>1. PICK v : v = ViewNow
  OBVIOUS
<1>2. PICK top : top = Top(v)
  OBVIOUS
<1>3. /\ top \in Nat /\ 0 .. top \subseteq C!Pages /\ C!LatestPage = top /\ C!load_metadata = v.meta
      /\ \A n \in C!Pages : C!OnPage(n) = v.page[n] /\ C!IdsOn(n) = Ids(v.page[n]) /\ v.page[n] \in Seq(Msgs)
  BY <1>1, <1>2, ViewIs, ConversationsAssumption DEF C!Pages, GoodPage
<1>4. PICK at : at = {n \in 0 .. C!LatestPage : id \in C!IdsOn(n)}
  OBVIOUS
<1>5. PICK n : n = CHOOSE x \in at : \A y \in at : y <= x
  OBVIOUS
<1>6. PICK i : i = CHOOSE x \in 1 .. Len(C!OnPage(n)) : C!OnPage(n)[x].id = id /\ \A y \in 1 .. (x - 1) : C!OnPage(n)[y].id # id
  OBVIOUS
<1>7. C!find(id) = IF C!load_metadata = <<>> \/ at = {} THEN <<>> ELSE <<[page |-> n, index |-> i]>>
  BY <1>4, <1>5, <1>6 DEF C!find
<1>8. at = {m \in 0 .. top : id \in Ids(v.page[m])}
  BY <1>3, <1>4
<1>9. ASSUME C!find(id) = <<>> PROVE v.meta = <<>> \/ id \notin ShownIds(v)
  <2>1. v.meta = <<>> \/ at = {}
    BY <1>3, <1>7, <1>9
  <2> QED
    BY <1>2, <1>8, <2>1 DEF ShownIds
<1>10. ASSUME C!find(id) # <<>>
       PROVE  /\ v.meta # <<>> /\ C!find(id)[1].page = n /\ C!find(id)[1].index = i
              /\ n \in 0 .. top /\ i \in 1 .. Len(v.page[n]) /\ v.page[n][i].id = id /\ C!OnPage(n) = v.page[n]
  <2>1. v.meta # <<>> /\ at # {} /\ C!find(id) = <<[page |-> n, index |-> i]>>
    BY <1>3, <1>7, <1>10
  <2>2. at \subseteq 0 .. top
    BY <1>8
  <2>3. \E x \in at : \A y \in at : y <= x
    BY <1>3, <2>1, <2>2, GreatestNumber
  <2>4. n \in at
    BY <1>5, <2>3
  <2>5. n \in 0 .. top /\ id \in Ids(v.page[n]) /\ C!OnPage(n) = v.page[n] /\ v.page[n] \in Seq(Msgs)
    BY <1>3, <1>8, <2>4
  <2>6. PICK T : T = {x \in 1 .. Len(v.page[n]) : v.page[n][x].id = id}
    OBVIOUS
  <2>7. T # {} /\ T \subseteq Nat
    BY <2>5, <2>6 DEF Ids
  <2>8. PICK x \in T : \A y \in T : x <= y
    BY <2>7, LeastNumber
  <2>9. x \in 1 .. Len(v.page[n]) /\ v.page[n][x].id = id
    BY <2>6, <2>8
  <2>10. \A y \in 1 .. (x - 1) : v.page[n][y].id # id
    <3> SUFFICES ASSUME NEW y \in 1 .. (x - 1), v.page[n][y].id = id PROVE FALSE
      OBVIOUS
    <3>1. y \in 1 .. Len(v.page[n]) /\ ~(x <= y)
      BY <2>5, <2>9
    <3> QED
      BY <2>6, <2>8, <3>1
  <2>11. i \in 1 .. Len(v.page[n]) /\ v.page[n][i].id = id
    BY <1>6, <2>5, <2>9, <2>10
  <2> QED
    BY <2>1, <2>5, <2>11
<1> QED
  BY <1>1, <1>2, <1>9, <1>10 DEF C!Stored

\* The positions of g are those of f but for D.
LEMMA SlotsKept ==
    ASSUME NEW f, NEW g, NEW h, NEW top \in Nat, NEW D, Maps(f, g, h, top), Misses(f, g, h, top, D)
    PROVE  /\ IsFiniteSet(Slots(g, top)) /\ Cardinality(D) \in Nat /\ Cardinality(Slots(g, top)) \in Nat
           /\ Cardinality(Slots(g, top)) = Cardinality(Slots(f, top)) - Cardinality(D)
           /\ Cardinality(Slots(f, top)) \in Nat
<1>1. PICK F : F = Slots(f, top)
  OBVIOUS
<1>2. PICK G : G = Slots(g, top)
  OBVIOUS
<1>3. IsFiniteSet(F) /\ Cardinality(F) \in Nat
  BY <1>1, SlotsFinite DEF Maps
<1>4. PICK K : K = F \ D
  OBVIOUS
<1>0. D \subseteq F
  BY <1>1 DEF Misses
<1>5. IsFiniteSet(D) /\ IsFiniteSet(K) /\ Cardinality(K) = Cardinality(F) - Cardinality(F \cap D) /\ F \cap D = D /\ Cardinality(D) \in Nat
  BY <1>0, <1>1, <1>3, <1>4, FS_Difference, FS_Subset, FS_CardinalityType
<1>6. PICK e : e = [p \in G |-> <<p[1], h[p[1]][p[2]]>>]
  OBVIOUS
<1>7. ASSUME NEW p \in G
      PROVE  \E n \in 0 .. top : \E i \in 1 .. Len(g[n]) : p = <<n, i>> /\ e[p] = <<n, h[n][i]>> /\ e[p] \in K
  <2>1. PICK n \in 0 .. top : \E i \in 1 .. Len(g[n]) : p = <<n, i>>
    BY <1>2, InSlots
  <2>2. PICK i \in 1 .. Len(g[n]) : p = <<n, i>>
    BY <2>1
  <2>3. e[p] = <<n, h[n][i]>>
    BY <1>6, <2>2
  <2>4. <<n, h[n][i]>> \in F
    <3>1. h[n][i] \in 1 .. Len(f[n])
      BY DEF Maps
    <3> QED
      BY <1>1, <3>1, InSlots
  <2>5. <<n, h[n][i]>> \notin D
    BY DEF Misses
  <2> QED
    BY <1>4, <2>2, <2>3, <2>4, <2>5
<1>8. e \in [G -> K]
  BY <1>6, <1>7
<1>9. ASSUME NEW p \in G, NEW q \in G, e[p] = e[q] PROVE p = q
  <2>1. PICK n \in 0 .. top : \E i \in 1 .. Len(g[n]) : p = <<n, i>> /\ e[p] = <<n, h[n][i]>>
    BY <1>7
  <2>2. PICK i \in 1 .. Len(g[n]) : p = <<n, i>> /\ e[p] = <<n, h[n][i]>>
    BY <2>1
  <2>3. PICK m \in 0 .. top : \E j \in 1 .. Len(g[m]) : q = <<m, j>> /\ e[q] = <<m, h[m][j]>>
    BY <1>7
  <2>4. PICK j \in 1 .. Len(g[m]) : q = <<m, j>> /\ e[q] = <<m, h[m][j]>>
    BY <2>3
  <2>x. <<n, h[n][i]>> = <<m, h[m][j]>>
    BY <1>9, <2>2, <2>4
  <2>5. n = m /\ h[n][i] = h[n][j]
    BY <2>x
  <2>6. i = j
    BY <2>4, <2>5 DEF Maps
  <2> QED
    BY <2>2, <2>4, <2>5, <2>6
<1>10. ASSUME NEW t \in K PROVE \E p \in G : e[p] = t
  <2>1. t \in F /\ t \notin D
    BY <1>4
  <2>2. PICK n \in 0 .. top : \E j \in 1 .. Len(f[n]) : t = <<n, j>>
    BY <1>1, <2>1, InSlots
  <2>3. PICK j \in 1 .. Len(f[n]) : t = <<n, j>>
    BY <2>2
  <2>4. PICK i \in 1 .. Len(g[n]) : h[n][i] = j
    BY <2>1, <2>3 DEF Misses
  <2>5. <<n, i>> \in G
    BY <1>2, InSlots
  <2>6. e[<<n, i>>] = <<n, j>>
    BY <1>6, <2>4, <2>5
  <2> QED
    BY <2>3, <2>5, <2>6
<1>11. IsFiniteSet(G) /\ Cardinality(G) = Cardinality(K)
  BY <1>5, <1>8, <1>9, <1>10, Bijects
<1>12. Cardinality(G) \in Nat
  BY <1>11, FS_CardinalityType
<1> QED
  BY <1>1, <1>2, <1>3, <1>5, <1>11, <1>12

\* No more are unread than were.
LEMMA UnreadFewer ==
    ASSUME NEW f, NEW g, NEW h, NEW top \in Nat, Maps(f, g, h, top), Reads(f, g, h, top), ~Uncounted
    PROVE  /\ Cardinality(UnreadOn(g, top)) <= Cardinality(UnreadOn(f, top))
           /\ Cardinality(UnreadOn(g, top)) \in Nat
           /\ Cardinality(UnreadOn(f, top)) \in Nat
<1>1. PICK F : F = UnreadOn(f, top)
  OBVIOUS
<1>2. PICK G : G = UnreadOn(g, top)
  OBVIOUS
<1>3. IsFiniteSet(F)
  BY <1>1, SlotsFinite, FS_Subset DEF Maps, UnreadOn
<1>4. PICK e : e = [p \in G |-> <<p[1], h[p[1]][p[2]]>>]
  OBVIOUS
<1>5. ASSUME NEW p \in G
      PROVE  \E n \in 0 .. top : \E i \in 1 .. Len(g[n]) : p = <<n, i>> /\ e[p] = <<n, h[n][i]>> /\ e[p] \in F
  <2>0. p \in Slots(g, top) /\ IsUnread(g[p[1]][p[2]])
    BY <1>2 DEF UnreadOn
  <2>1. PICK n \in 0 .. top : \E i \in 1 .. Len(g[n]) : p = <<n, i>>
    BY <2>0, InSlots
  <2>2. PICK i \in 1 .. Len(g[n]) : p = <<n, i>>
    BY <2>1
  <2>3. e[p] = <<n, h[n][i]>>
    BY <1>4, <2>2
  <2>4. <<n, h[n][i]>> \in Slots(f, top)
    <3>1. h[n][i] \in 1 .. Len(f[n])
      BY DEF Maps
    <3> QED
      BY <3>1, InSlots
  <2>5. IsUnread(f[n][h[n][i]])
    BY <2>0, <2>2 DEF Reads
  <2>6. PICK q : q = <<n, h[n][i]>>
    OBVIOUS
  <2>7. q \in F
    BY <1>1, <2>4, <2>5, <2>6 DEF UnreadOn
  <2> QED
    BY <2>2, <2>3, <2>6, <2>7
<1>6. e \in [G -> F]
  BY <1>4, <1>5
<1>7. ASSUME NEW p \in G, NEW q \in G, e[p] = e[q] PROVE p = q
  <2>1. PICK n \in 0 .. top : \E i \in 1 .. Len(g[n]) : p = <<n, i>> /\ e[p] = <<n, h[n][i]>>
    BY <1>5
  <2>2. PICK i \in 1 .. Len(g[n]) : p = <<n, i>> /\ e[p] = <<n, h[n][i]>>
    BY <2>1
  <2>3. PICK m \in 0 .. top : \E j \in 1 .. Len(g[m]) : q = <<m, j>> /\ e[q] = <<m, h[m][j]>>
    BY <1>5
  <2>4. PICK j \in 1 .. Len(g[m]) : q = <<m, j>> /\ e[q] = <<m, h[m][j]>>
    BY <2>3
  <2>5. n = m /\ h[n][i] = h[n][j]
    BY <1>7, <2>2, <2>4
  <2>6. i = j
    BY <2>4, <2>5 DEF Maps
  <2> QED
    BY <2>2, <2>4, <2>5, <2>6
<1>8. Cardinality(G) <= Cardinality(F) /\ Cardinality(G) \in Nat /\ Cardinality(F) \in Nat
  BY <1>3, <1>6, <1>7, Injects
<1> QED
  BY <1>1, <1>2, <1>8

\* The metadata of what is left counts it.
LEMMA TrimCounts ==
    ASSUME NEW v, NEW g, NEW h, NEW top \in Nat, top = Top(v), NEW f, f = v.page,
           Maps(f, g, h, top), Reads(f, g, h, top), NEW D, Misses(f, g, h, top, D),
           Counted(v), v.meta # <<>>, v.meta[1] \in Metas, NEW mt,
           \A p \in Slots(g, top) : g[p[1]][p[2]].ts >= mt[1].oldest,
           mt[1].total = v.meta[1].total - Cardinality(D), mt[1].unread = v.meta[1].unread
    PROVE  Counts(g, top, mt) /\ Cardinality(D) \in Nat /\ v.meta[1].total >= Cardinality(D)
<1>4. Places(v) = Slots(f, top)
  BY DEF Places
<1>5. /\ v.meta[1].total = Cardinality(Slots(f, top))
      /\ Uncounted \/ Cardinality({p \in Slots(f, top) : IsUnread(f[p[1]][p[2]])}) <= v.meta[1].unread
  BY <1>4 DEF Counted, UnreadPlaces, At
<1>6. /\ Cardinality(D) \in Nat /\ Cardinality(Slots(g, top)) \in Nat
      /\ Cardinality(Slots(g, top)) = Cardinality(Slots(f, top)) - Cardinality(D) /\ Cardinality(Slots(f, top)) \in Nat
  BY SlotsKept
<1>7. PICK a : a = Cardinality(UnreadOn(g, top))
  OBVIOUS
<1>8. PICK b : b = Cardinality(UnreadOn(f, top))
  OBVIOUS
<1>9. ASSUME ~Uncounted PROVE a <= b /\ a \in Nat /\ b \in Nat
  BY <1>7, <1>8, <1>9, UnreadFewer
<1>10. ASSUME ~Uncounted PROVE a <= mt[1].unread
  <2>1. b <= v.meta[1].unread /\ v.meta[1].unread \in Nat
    BY <1>5, <1>8, <1>10 DEF Metas, UnreadOn
  <2> QED
    BY <1>9, <1>10, <2>1
<1>12. mt[1].total = Cardinality(Slots(g, top)) /\ v.meta[1].total >= Cardinality(D)
  BY <1>5, <1>6
<1> QED
  BY <1>6, <1>7, <1>10, <1>12 DEF Counts, UnreadOn

\* One message is changed, where it is.
LEMMA UpdateStep ==
    ASSUME ConversationInv, NEW x, C!find(x) # <<>>, NEW changed, Same(changed, C!Stored(x)), IsUnread(changed) => Uncounted \/ IsUnread(C!Stored(x)),
           NEW at \in {"done", "transmit"}, NEW id, Begins(C!update(x, changed), at, id), owned' = owned,
           faults = 0 => (Sent(changed) /\ changed.status = "pending" => at = "transmit" /\ changed.id = id),
           faults = 0 => \A p \in Places(ViewNow) : Sent(At(ViewNow, p)) /\ At(ViewNow, p).status = "pending" =>
                             p = <<C!find(x)[1].page, C!find(x)[1].index>> \/ (at = "transmit" /\ At(ViewNow, p).id = id)
    PROVE  ConversationInv'
<1>0. StoreTyped /\ RestTyped /\ owned \in Nat
  BY DEF ConversationInv, Kept, RestTyped
<1>1. PICK v : v = ViewNow
  OBVIOUS
<1>2. PICK top : top = Top(v)
  OBVIOUS
<1>3. /\ top \in Nat /\ 0 .. top \subseteq C!Pages /\ v.meta \in Options(Metas) /\ top \in C!Pages
      /\ \A n \in C!Pages : GoodPage(n, v.page[n], owned)
  BY <1>0, <1>1, <1>2, ViewIs, ConversationsAssumption DEF RestTyped, C!Pages
<1>4. PICK n0 : n0 = C!find(x)[1].page
  OBVIOUS
<1>5. PICK i0 : i0 = C!find(x)[1].index
  OBVIOUS
<1>6. PICK b : b = C!Stored(x)
  OBVIOUS
<1>7. /\ v.meta # <<>> /\ n0 \in 0 .. top /\ i0 \in 1 .. Len(v.page[n0]) /\ b = v.page[n0][i0] /\ b.id = x /\ C!OnPage(n0) = v.page[n0]
  BY <1>0, <1>1, <1>2, <1>4, <1>5, <1>6, FindIs
<1>8. PICK page : page = [v.page[n0] EXCEPT ![i0] = changed]
  OBVIOUS
<1>9. PICK todo : todo = C!update(x, changed)
  OBVIOUS
<1>10. todo = IF changed = b THEN <<>> ELSE <<C!save_page(n0, page)>>
  BY <1>4, <1>5, <1>7, <1>8, <1>9 DEF C!update
<1>11. PICK g : g = [n \in 0 .. top |-> IF n = n0 THEN page ELSE v.page[n]]
  OBVIOUS
<1>12. PICK h : h = [n \in 0 .. top |-> [i \in 1 .. Len(v.page[n]) |-> i]]
  OBVIOUS
<1>13. \A n \in C!Pages : v.page[n] \in Seq(Msgs)
  BY <1>3 DEF GoodPage
<1>14. changed \in Msgs /\ page \in Seq(Msgs) /\ Len(page) = Len(v.page[n0]) /\ page[i0] = changed
       /\ \A i \in 1 .. Len(v.page[n0]) : i # i0 => page[i] = v.page[n0][i]
  BY <1>3, <1>7, <1>8, <1>13 DEF Same
<1>15. ASSUME NEW n \in 0 .. top
       PROVE  /\ g[n] \in Seq(Msgs) /\ Len(g[n]) = Len(v.page[n]) /\ Len(g[n]) \in Nat
              /\ \A i \in 1 .. Len(g[n]) : h[n][i] = i /\ (~(n = n0 /\ i = i0) => g[n][i] = v.page[n][i])
  BY <1>3, <1>11, <1>12, <1>13, <1>14
<1>16. g[n0][i0] = changed
  BY <1>7, <1>11, <1>14
<1>17. ASSUME NEW n \in 0 .. top, NEW i \in 1 .. Len(g[n])
       PROVE  Same(g[n][i], v.page[n][i]) /\ (IsUnread(g[n][i]) => Uncounted \/ IsUnread(v.page[n][i]))
  <2>1. CASE n = n0 /\ i = i0
    BY <1>6, <1>7, <1>16, <2>1
  <2>2. CASE ~(n = n0 /\ i = i0)
    <3>1. g[n][i] = v.page[n][i] /\ i \in 1 .. Len(v.page[n])
      BY <1>15, <2>2
    <3>2. GoodMsg(v.page[n][i], owned)
      BY <1>3, <3>1 DEF GoodPage
    <3> QED
      BY <3>1, <3>2 DEF Same, GoodMsg, Sent
  <2> QED
    BY <2>1, <2>2
<1>18. Comes(v, g, h, removed')
  <2> SUFFICES ASSUME NEW n \in 0 .. top
               PROVE  /\ g[n] \in Seq(Msgs)
                      /\ \A i \in 1 .. Len(g[n]) : h[n][i] \in 1 .. Len(v.page[n]) /\ Same(g[n][i], v.page[n][h[n][i]])
                      /\ \A i, j \in 1 .. Len(g[n]) : h[n][i] = h[n][j] => i = j
                      /\ Ids(v.page[n]) \ Ids(g[n]) \subseteq removed'
    BY <1>2 DEF Comes
  <2>1. \A i \in 1 .. Len(g[n]) : g[n][i].id = v.page[n][i].id
    BY <1>17 DEF Same
  <2>2. Ids(v.page[n]) = Ids(g[n])
    <3>1. Len(g[n]) = Len(v.page[n])
      BY <1>15
    <3> QED
      BY <2>1, <3>1 DEF Ids
  <2> QED
    BY <1>15, <1>17, <2>2
<1>19. Makes(todo, v, top, g, v.meta)
  <2>1. CASE changed = b
    <3>1. todo = <<>>
      BY <1>10, <2>1
    <3>2. ASSUME NEW n \in 0 .. top PROVE g[n] = v.page[n]
      <4>1. \A i \in 1 .. Len(g[n]) : g[n][i] = v.page[n][i]
        BY <1>7, <1>15, <1>16, <2>1
      <4>2. g[n] \in Seq(Msgs) /\ v.page[n] \in Seq(Msgs) /\ Len(g[n]) = Len(v.page[n])
        BY <1>3, <1>13, <1>15
      <4> QED
        BY <4>1, <4>2
    <3> QED
      BY <3>1, <3>2 DEF Makes, Distinct
  <2>2. CASE changed # b
    <3>1. PICK w : w = C!save_page(n0, page)
      OBVIOUS
    <3>2. todo = <<w>> /\ w.key = "page" /\ w.n = n0 /\ w.value = <<page>> /\ w = [key |-> "page", n |-> n0, value |-> <<page>>]
      BY <1>10, <2>2, <3>1 DEF C!save_page
    <3>3. <<page>> \in Options(Seq(Msgs)) \cup Options(Metas) /\ n0 \in C!Pages
      BY <1>3, <1>7, <1>14, OptionHas
    <3>4. w \in Writes
      BY <3>2, <3>3 DEF Writes, WriteKeys
    <3>5. todo \in Seq(Writes) /\ Len(todo) = 1 /\ todo[1] = w
      BY <3>2, <3>4
    <3>6. page = g[n0]
      BY <1>7, <1>11
    <3>7. \A n \in 0 .. top : n # n0 => g[n] = v.page[n]
      BY <1>11
    <3> QED
      BY <1>7, <3>2, <3>5, <3>6, <3>7 DEF Makes, Distinct
  <2> QED
    BY <2>1, <2>2
<1>20. ASSUME faults = 0 PROVE Counts(g, top, v.meta) /\ PendingOn(g, top, at, id)
  <2>1. Counted(v)
    BY <1>0, <1>1, <1>20, NothingAhead DEF ConversationInv, Faultless, Begins
  <2>2. v.meta[1] \in Metas
    BY <1>3, <1>7, OptionIs
  <2>3. Counts(g, top, v.meta)
    <3>1. Cardinality({}) = 0 /\ v.meta[1].total = v.meta[1].total - 0
      BY <2>2, FS_EmptySet DEF Metas
    <3>2. ASSUME NEW p \in Slots(g, top) PROVE g[p[1]][p[2]].ts >= v.meta[1].oldest
      <4>0. PICK n \in 0 .. top : \E i \in 1 .. Len(g[n]) : p = <<n, i>>
        BY InSlots
      <4>1. PICK i \in 1 .. Len(g[n]) : p = <<n, i>>
        BY <4>0
      <4>2. <<n, i>> \in Places(v) /\ At(v, <<n, i>>) = v.page[n][i]
        BY <1>2, <1>15, InSlots DEF Places, At
      <4>3. v.page[n][i].ts >= v.meta[1].oldest
        BY <1>7, <2>1, <4>2 DEF Counted
      <4>4. g[n][i].ts = v.page[n][i].ts
        BY <1>17 DEF Same
      <4> QED
        BY <4>1, <4>3, <4>4
    <3>3. PICK f : f = v.page
      OBVIOUS
    <3>4. Maps(f, g, h, top)
      BY <1>15, <3>3 DEF Maps
    <3>5. Reads(f, g, h, top)
      BY <1>15, <1>17, <3>3 DEF Reads
    <3>6. Misses(f, g, h, top, {})
      BY <1>15, <3>3 DEF Misses
    <3>7. v.meta[1].total = v.meta[1].total - Cardinality({})
      BY <3>1
    <3> QED
      BY <1>2, <1>3, <1>7, <2>1, <2>2, <3>2, <3>3, <3>4, <3>5, <3>6, <3>7, TrimCounts
  <2>4. ASSUME NEW n \in 0 .. top, NEW i \in 1 .. Len(g[n]), Sent(g[n][i]), g[n][i].status = "pending"
        PROVE  at = "transmit" /\ g[n][i].id = id
    <3>1. CASE n = n0 /\ i = i0
      BY <1>16, <1>20, <2>4, <3>1
    <3>2. CASE ~(n = n0 /\ i = i0)
      <4>1. <<n, i>> \in Places(v) /\ At(v, <<n, i>>) = v.page[n][i] /\ g[n][i] = v.page[n][i]
        BY <1>2, <1>15, <3>2, InSlots DEF Places, At
      <4>2. <<n, i>> # <<n0, i0>>
        BY <3>2
      <4> QED
        BY <1>1, <1>4, <1>5, <1>20, <2>4, <4>1, <4>2
    <3> QED
      BY <3>1, <3>2
  <2> QED
    BY <2>3, <2>4 DEF PendingOn, Sent
<1>21. v.meta[1].latest = Top(v)
  BY <1>7 DEF Top
<1> QED
  BY <1>1, <1>2, <1>3, <1>7, <1>9, <1>18, <1>19, <1>20, <1>21, TrimStep

-----------------------------------------------------------------------------
(* The operations that change a message. *)
LEMMA LockBegins ==
    ASSUME RestTyped, op = C!Idle, NEW at, NEW todo, NEW id \in Nat, C!lock(at, todo, id),
           UNCHANGED <<C!store, C!told, faults>>, removed \subseteq removed'
    PROVE  Begins(todo, at, id)
<1>1. op.writes = <<>> /\ op.at \in {"done", "transmit"}
  BY DEF C!Idle
<1>2. ops' \in Nat /\ op' = [at |-> at, writes |-> todo, id |-> id]
  BY DEF C!lock, RestTyped
<1> QED
  BY <1>1, <1>2 DEF Begins, C!store, C!told

\* Between operations no message is pending, while nothing failed.
LEMMA IdleIsSent ==
    ASSUME ConversationInv, op = C!Idle, faults = 0
    PROVE  \A p \in Places(ViewNow) : ~(Sent(At(ViewNow, p)) /\ At(ViewNow, p).status = "pending")
<1>1. op.at = "done" /\ op.writes = <<>> /\ "done" # "transmit"
  BY DEF C!Idle
<1>2. PendingIsSent(ViewNow, op.at, op.id)
  BY <1>1, NothingAhead DEF ConversationInv, Faultless, Kept
<1> QED
  BY <1>1, <1>2 DEF PendingIsSent, Sent

\* What is stored under an id is a message as it should be.
LEMMA StoredIs ==
    ASSUME StoreTyped, RestTyped, NEW x, C!find(x) # <<>>
    PROVE  GoodMsg(C!Stored(x), owned) /\ C!Stored(x).id = x /\ x \in Nat
           /\ <<C!find(x)[1].page, C!find(x)[1].index>> \in Places(ViewNow)
           /\ At(ViewNow, <<C!find(x)[1].page, C!find(x)[1].index>>) = C!Stored(x)
<1>0. owned \in Nat
  BY DEF RestTyped
<1>1. PICK n : n = C!find(x)[1].page
  OBVIOUS
<1>2. PICK i : i = C!find(x)[1].index
  OBVIOUS
<1>3. n \in 0 .. Top(ViewNow) /\ i \in 1 .. Len(ViewNow.page[n]) /\ C!Stored(x) = ViewNow.page[n][i] /\ C!Stored(x).id = x
  BY <1>0, <1>1, <1>2, FindIs
<1>4. n \in C!Pages
  BY <1>0, <1>3, ViewIs, ConversationsAssumption DEF C!Pages
<1>5. GoodMsg(C!Stored(x), owned)
  BY <1>0, <1>3, <1>4, ViewIs DEF GoodPage
<1>6. <<n, i>> \in Places(ViewNow) /\ At(ViewNow, <<n, i>>) = C!Stored(x)
  BY <1>3, InSlots DEF Places, At
<1> QED
  BY <1>1, <1>2, <1>3, <1>5, <1>6 DEF GoodMsg, Msgs, Sent

\* One message changed in place, by an operation that has the lock to itself.
LEMMA IdleUpdate ==
    ASSUME ConversationInv, op = C!Idle, NEW x, C!find(x) # <<>>, NEW changed, Same(changed, C!Stored(x)),
           IsUnread(changed) => Uncounted \/ IsUnread(C!Stored(x)),
           NEW at \in {"done", "transmit"}, NEW id, Begins(C!update(x, changed), at, id), owned' = owned,
           changed.status = C!Stored(x).status \/ changed.status # "pending" \/ (at = "transmit" /\ id = x) \/ x \in ByWindow
    PROVE  ConversationInv'
<1>0. StoreTyped /\ RestTyped
  BY DEF ConversationInv, Kept
<1>1. /\ C!Stored(x).id = x /\ <<C!find(x)[1].page, C!find(x)[1].index>> \in Places(ViewNow)
      /\ At(ViewNow, <<C!find(x)[1].page, C!find(x)[1].index>>) = C!Stored(x)
  BY <1>0, StoredIs
<1>2. ASSUME faults = 0, Sent(changed), changed.status = "pending" PROVE at = "transmit" /\ changed.id = id
  <2>1. ~(Sent(C!Stored(x)) /\ C!Stored(x).status = "pending")
    BY <1>1, <1>2, IdleIsSent
  <2> QED
    BY <1>1, <1>2, <2>1 DEF Same, Sent
<1>3. faults = 0 => \A p \in Places(ViewNow) : ~(Sent(At(ViewNow, p)) /\ At(ViewNow, p).status = "pending")
  BY IdleIsSent
<1> QED
  BY <1>2, <1>3, UpdateStep

\* A status set only advances the message's.
LEMMA StatusIs ==
    ASSUME NEW own, NEW b, GoodMsg(b, own), NEW status \in C!Statuses, NEW c,
           c = [b EXCEPT !.status = IF C!status_advances(@, status) THEN status ELSE @]
    PROVE  Same(c, b) /\ (IsUnread(c) => Uncounted \/ IsUnread(b)) /\ c.status \in {b.status, status}
<1>1. b \in Msgs /\ b.status \in C!Statuses /\ (Uncounted \/ (b.from = "peer" => b.status \in {"delivered", "read"})) /\ b.editor \in {"none", b.from}
  BY DEF GoodMsg, Msgs, Sent
<1>2. PICK s : s = IF C!status_advances(b.status, status) THEN status ELSE b.status
  OBVIOUS
<1>3. c \in Msgs /\ c.status = s /\ c.id = b.id /\ c.from = b.from /\ c.ts = b.ts /\ c.index = b.index /\ c.editor = b.editor
  BY <1>1, <1>2 DEF Msgs
<1>4. b.status \in {"delivered", "read"} => s \in {"delivered", "read"} /\ (s = "delivered" => b.status = "delivered")
  BY <1>2 DEF C!Statuses, C!status_advances, C!rank
<1>6. s \in {b.status, status}
  BY <1>2
<1> QED
  BY <1>1, <1>3, <1>4, <1>6 DEF Same, IsUnread

\* A status set,
LEMMA IdleStatus ==
    ASSUME ConversationInv, op = C!Idle, NEW x, NEW status \in C!Statuses, NEW at \in {"done", "transmit"}, NEW id,
           Begins(C!set_status(x, status), at, id), owned' = owned,
           status # "pending" \/ (at = "transmit" /\ id = x) \/ x \in ByWindow \/ C!set_status(x, status) = <<>>
    PROVE  ConversationInv'
<1>0. StoreTyped /\ RestTyped
  BY DEF ConversationInv, Kept
<1>1. CASE C!find(x) = <<>>
  <2>1. Begins(<<>>, at, id)
    BY <1>1 DEF C!set_status
  <2>2. faults = 0 => PendingIsSent(ViewNow, at, id)
    BY IdleIsSent DEF PendingIsSent, Sent
  <2> QED
    BY <2>1, <2>2, NoWrites
<1>2. CASE C!find(x) # <<>>
  <2>1. PICK c : c = [C!Stored(x) EXCEPT !.status = IF C!status_advances(@, status) THEN status ELSE @]
    OBVIOUS
  <2>2. Begins(C!update(x, c), at, id)
    BY <1>2, <2>1 DEF C!set_status
  <2>3. GoodMsg(C!Stored(x), owned)
    BY <1>0, <1>2, StoredIs
  <2>4. Same(c, C!Stored(x)) /\ (IsUnread(c) => Uncounted \/ IsUnread(C!Stored(x))) /\ c.status \in {C!Stored(x).status, status}
    BY <2>1, <2>3, StatusIs
  <2>5. C!set_status(x, status) = <<>> => c.status = C!Stored(x).status
    <3>1. C!set_status(x, status) = C!update(x, c)
      BY <1>2, <2>1 DEF C!set_status
    <3>2. C!update(x, c) = <<>> => c = C!Stored(x)
      <4>1. PICK w : w = C!save_page(C!find(x)[1].page, [C!OnPage(C!find(x)[1].page) EXCEPT ![C!find(x)[1].index] = c])
        OBVIOUS
      <4>2. C!update(x, c) = IF c = C!Stored(x) THEN <<>> ELSE <<w>>
        BY <1>2, <4>1 DEF C!update, C!Stored
      <4>3. <<w>> # <<>>
        OBVIOUS
      <4> QED
        BY <4>2, <4>3
    <3> QED
      BY <3>1, <3>2
  <2> QED
    BY <1>2, <2>2, <2>4, <2>5, IdleUpdate
<1> QED
  BY <1>1, <1>2

\* a reaction,
LEMMA IdleReact ==
    ASSUME ConversationInv, op = C!Idle, NEW x, NEW when \in Nat, Begins(C!react(x, when), "done", 0), owned' = owned
    PROVE  ConversationInv'
<1>0. StoreTyped /\ RestTyped
  BY DEF ConversationInv, Kept
<1>1. CASE C!find(x) = <<>>
  <2>1. Begins(<<>>, "done", 0)
    BY <1>1 DEF C!react
  <2>2. faults = 0 => PendingIsSent(ViewNow, "done", 0)
    BY IdleIsSent DEF PendingIsSent, Sent
  <2> QED
    BY <2>1, <2>2, NoWrites
<1>2. CASE C!find(x) # <<>>
  <2>1. PICK b : b = C!Stored(x)
    OBVIOUS
  <2>2. PICK c : c = [b EXCEPT !.reacted = C!fold(@, when)]
    OBVIOUS
  <2>3. Begins(C!update(x, c), "done", 0)
    BY <1>2, <2>1, <2>2 DEF C!react
  <2>4. GoodMsg(b, owned)
    BY <1>0, <1>2, <2>1, StoredIs
  <2>5. b \in Msgs /\ C!fold(b.reacted, when) \in Nat
    BY <2>4 DEF GoodMsg, Msgs, C!fold, Sent
  <2>6. c \in Msgs /\ c.status = b.status /\ c.id = b.id /\ c.from = b.from /\ c.ts = b.ts /\ c.index = b.index /\ c.editor = b.editor
    BY <2>2, <2>5 DEF Msgs
  <2>7. Same(c, b) /\ (IsUnread(c) => Uncounted \/ IsUnread(b))
    BY <2>4, <2>6 DEF Same, IsUnread, GoodMsg, Sent
  <2> QED
    BY <1>2, <2>1, <2>3, <2>6, <2>7, IdleUpdate
<1> QED
  BY <1>1, <1>2

\* and an edit by the sender, are such changes.
LEMMA IdleEdit ==
    ASSUME ConversationInv, op = C!Idle, NEW x, NEW reviser \in C!Parties, C!find(x) # <<>>, C!Stored(x).from = reviser,
           Begins(C!update(x, [C!Stored(x) EXCEPT !.editor = reviser]), "done", 0), owned' = owned
    PROVE  ConversationInv'
<1>0. StoreTyped /\ RestTyped
  BY DEF ConversationInv, Kept
<1>1. PICK b : b = C!Stored(x)
  OBVIOUS
<1>2. PICK c : c = [b EXCEPT !.editor = reviser]
  OBVIOUS
<1>4. GoodMsg(b, owned)
  BY <1>0, <1>1, StoredIs
<1>5. b \in Msgs
  BY <1>4 DEF GoodMsg, Sent
<1>6. c \in Msgs /\ c.status = b.status /\ c.id = b.id /\ c.from = b.from /\ c.ts = b.ts /\ c.index = b.index /\ c.editor = reviser
  BY <1>2, <1>5 DEF Msgs
<1>7. Same(c, b) /\ (IsUnread(c) => Uncounted \/ IsUnread(b))
  BY <1>1, <1>4, <1>6 DEF Same, IsUnread, GoodMsg, Sent
<1> QED
  BY <1>1, <1>2, <1>6, <1>7, IdleUpdate

\* The send's end, with the lock still held.
LEMMA TransmitKeeps ==
    ASSUME ConversationInv, NEW status \in {"sent", "failed"}, C!transmit(status)
    PROVE  ConversationInv'
<1>0. StoreTyped /\ RestTyped /\ OpTyped /\ ops \in Nat
  BY DEF ConversationInv, Kept, RestTyped
<1>1. /\ op.at = "transmit" /\ op.writes = <<>> /\ op' = [at |-> "done", writes |-> C!set_status(op.id, status), id |-> 0]
      /\ UNCHANGED <<scoped, legacy, prefs, untold, sent, acked, announced, removed, ops, owned, faults>>
  BY DEF C!transmit, C!store, C!told, C!counters
<1>2. Begins(C!set_status(op.id, status), "done", 0)
  BY <1>0, <1>1 DEF Begins
<1>3. PICK x : x = op.id
  OBVIOUS
<1>4. ASSUME faults = 0
      PROVE  /\ \A p \in Places(ViewNow) : Sent(At(ViewNow, p)) /\ At(ViewNow, p).status = "pending" => At(ViewNow, p).id = x
             /\ Whole(scoped, legacy) /\ OwnOnce(ViewNow)
  <2>1. PendingIsSent(ViewNow, op.at, op.id) /\ Whole(scoped, legacy) /\ OwnOnce(ViewNow)
    BY <1>0, <1>1, <1>4, NothingAhead DEF ConversationInv, Faultless
  <2> QED
    BY <1>3, <2>1 DEF PendingIsSent, Sent
<1>5. CASE C!find(x) = <<>>
  <2>1. Begins(<<>>, "done", 0)
    BY <1>2, <1>3, <1>5 DEF C!set_status
  <2>2. ASSUME faults = 0, NEW p \in Places(ViewNow), Sent(At(ViewNow, p)), At(ViewNow, p).status = "pending"
        PROVE  FALSE
    <3>0. owned \in Nat
      BY <1>0 DEF RestTyped
    <3>1. PICK n \in 0 .. Top(ViewNow) : \E i \in 1 .. Len(ViewNow.page[n]) : p = <<n, i>>
      BY <2>2, InSlots DEF Places
    <3>2. PICK i \in 1 .. Len(ViewNow.page[n]) : p = <<n, i>>
      BY <3>1
    <3>3. ViewNow.page[n][i].id = x
      BY <1>4, <2>2, <3>2 DEF At
    <3>4. x \in ShownIds(ViewNow)
      BY <3>3 DEF ShownIds, Ids
    <3>5. ViewNow.meta = <<>>
      BY <1>0, <1>5, <3>0, <3>4, FindIs
    <3>6. n = 0
      BY <3>5 DEF Top
    <3>7. scoped.pages[0] = <<>> /\ scoped.meta = <<>> /\ legacy.meta = <<>> /\ legacy.pages[0] = <<>>
      BY <1>4, <2>2, <3>5 DEF Whole, ViewNow, View, ShownMeta
    <3>8. ViewNow.page[0] = <<>>
      <4>1. 0 \in C!Pages
        BY ConversationsAssumption DEF C!Pages
      <4> QED
        BY <3>7, <4>1 DEF ViewNow, View, ShownPage
    <3> QED
      BY <3>2, <3>6, <3>8
  <2>3. faults = 0 => PendingIsSent(ViewNow, "done", 0)
    BY <2>2 DEF PendingIsSent, Sent
  <2> QED
    BY <1>1, <2>1, <2>3, NoWrites
<1>6. CASE C!find(x) # <<>>
  <2>1. PICK b : b = C!Stored(x)
    OBVIOUS
  <2>s. PICK st \in C!Statuses : st = status
    BY DEF C!Statuses
  <2>2. PICK c : c = [b EXCEPT !.status = IF C!status_advances(@, st) THEN st ELSE @]
    OBVIOUS
  <2>3. Begins(C!update(x, c), "done", 0)
    BY <1>2, <1>3, <1>6, <2>1, <2>2, <2>s DEF C!set_status
  <2>4. GoodMsg(b, owned)
    BY <1>0, <1>6, <2>1, StoredIs
  <2>5. Same(c, b) /\ (IsUnread(c) => Uncounted \/ IsUnread(b))
    BY <2>2, <2>4, StatusIs
  <2>6. c.status # "pending"
    <3>1. c.status = IF C!status_advances(b.status, st) THEN st ELSE b.status
      BY <2>2, <2>4 DEF GoodMsg, Msgs, Sent
    <3> QED
      BY <2>s, <3>1 DEF C!status_advances, C!rank
  <2>7. ASSUME faults = 0, NEW p \in Places(ViewNow), Sent(At(ViewNow, p)), At(ViewNow, p).status = "pending"
        PROVE  p = <<C!find(x)[1].page, C!find(x)[1].index>>
    <3>1. PICK q : q = <<C!find(x)[1].page, C!find(x)[1].index>>
      OBVIOUS
    <3>2. q \in Places(ViewNow) /\ At(ViewNow, q).id = x
      BY <1>0, <1>6, <3>1, StoredIs
    <3>3. At(ViewNow, p).id = x /\ OwnOnce(ViewNow)
      BY <1>4, <2>7
    <3>4. x > MaxPeerIds
      <4>0. owned \in Nat
        BY <1>0 DEF RestTyped
      <4>1. PICK n \in 0 .. Top(ViewNow) : \E i \in 1 .. Len(ViewNow.page[n]) : p = <<n, i>>
        BY <2>7, InSlots DEF Places
      <4>2. PICK i \in 1 .. Len(ViewNow.page[n]) : p = <<n, i>>
        BY <4>1
      <4>3. n \in C!Pages
        BY <1>0, <4>0, ViewIs, ConversationsAssumption DEF C!Pages
      <4>4. GoodMsg(ViewNow.page[n][i], owned)
        BY <1>0, <4>0, <4>3, ViewIs DEF GoodPage
      <4>5. At(ViewNow, p) = ViewNow.page[n][i]
        BY <4>2 DEF At
      <4> QED
        BY <2>7, <3>3, <4>4, <4>5 DEF GoodMsg, Sent
    <3>5. p = q
      BY <2>7, <3>2, <3>3, <3>4 DEF OwnOnce, Sent
    <3> QED
      BY <3>1, <3>5
  <2> QED
    BY <1>1, <1>6, <2>1, <2>3, <2>5, <2>6, <2>7, UpdateStep
<1> QED
  BY <1>5, <1>6

\* A page without one of its messages.
LEMMA WithoutIs ==
    ASSUME NEW p \in Seq(Msgs), NEW k \in 1 .. Len(p)
    PROVE  /\ C!Without(p, k) \in Seq(Msgs) /\ Len(C!Without(p, k)) = Len(p) - 1
           /\ \A i \in 1 .. (Len(p) - 1) : C!Without(p, k)[i] = p[IF i < k THEN i ELSE i + 1]
<1>1. PICK a : a = SubSeq(p, 1, k - 1)
  OBVIOUS
<1>2. PICK b : b = SubSeq(p, k + 1, Len(p))
  OBVIOUS
<1>3. a \in Seq(Msgs) /\ Len(a) = k - 1 /\ \A i \in 1 .. (k - 1) : a[i] = p[i]
  BY <1>1
<1>4. b \in Seq(Msgs) /\ Len(b) = Len(p) - k /\ \A i \in 1 .. (Len(p) - k) : b[i] = p[k + i]
  BY <1>2
<1>5. C!Without(p, k) = a \o b
  BY <1>1, <1>2 DEF C!Without
<1>6. a \o b \in Seq(Msgs) /\ Len(a \o b) = Len(p) - 1
  <2>1. Len(p) \in Nat /\ k \in Int
    OBVIOUS
  <2>2. a \in Seq(Msgs) /\ b \in Seq(Msgs)
    BY <1>3, <1>4
  <2>3. a \o b \in Seq(Msgs) /\ Len(a \o b) = Len(a) + Len(b)
    BY <2>2
  <2> QED
    BY <1>3, <1>4, <2>1, <2>3
<1>7. ASSUME NEW i \in 1 .. (Len(p) - 1) PROVE (a \o b)[i] = p[IF i < k THEN i ELSE i + 1]
  <2>1. CASE i < k
    BY <1>3, <1>4, <2>1
  <2>2. CASE ~(i < k)
    <3>1. i - (k - 1) \in 1 .. (Len(p) - k) /\ k + (i - (k - 1)) = i + 1 /\ ~(i <= k - 1) /\ i \in Int /\ k \in Int /\ Len(p) \in Nat
      BY <2>2
    <3>2. (a \o b)[i] = b[i - (k - 1)]
      BY <1>3, <1>4, <3>1
    <3> QED
      BY <1>4, <2>2, <3>1, <3>2
  <2> QED
    BY <2>1, <2>2
<1> QED
  BY <1>5, <1>6, <1>7

\* One message goes, and the metadata counts one less.
LEMMA RemoveStep ==
    ASSUME ConversationInv, op = C!Idle, NEW x, C!find(x) # <<>>, Begins(C!remove(x), "done", 0), owned' = owned, x \in removed'
    PROVE  ConversationInv'
<1>0. StoreTyped /\ RestTyped /\ owned \in Nat
  BY DEF ConversationInv, Kept, RestTyped
<1>1. PICK v : v = ViewNow
  OBVIOUS
<1>2. PICK top : top = Top(v)
  OBVIOUS
<1>3. /\ top \in Nat /\ 0 .. top \subseteq C!Pages /\ v.meta \in Options(Metas) /\ top \in C!Pages /\ C!load_metadata = v.meta
      /\ \A n \in C!Pages : GoodPage(n, v.page[n], owned)
  BY <1>0, <1>1, <1>2, ViewIs, ConversationsAssumption DEF RestTyped, C!Pages
<1>4. PICK n0 : n0 = C!find(x)[1].page
  OBVIOUS
<1>5. PICK i0 : i0 = C!find(x)[1].index
  OBVIOUS
<1>7. /\ v.meta # <<>> /\ n0 \in 0 .. top /\ i0 \in 1 .. Len(v.page[n0]) /\ v.page[n0][i0].id = x /\ C!OnPage(n0) = v.page[n0]
  BY <1>0, <1>1, <1>2, <1>4, <1>5, FindIs
<1>8. PICK page : page = C!Without(v.page[n0], i0)
  OBVIOUS
<1>9. v.meta[1] \in Metas
  BY <1>3, <1>7, OptionIs
<1>10. PICK meta : meta = [v.meta[1] EXCEPT !.total = IF @ > 0 THEN @ - 1 ELSE 0]
  OBVIOUS
<1>11. /\ meta \in Metas /\ meta.total = (IF v.meta[1].total > 0 THEN v.meta[1].total - 1 ELSE 0) /\ meta.unread = v.meta[1].unread
       /\ meta.oldest = v.meta[1].oldest /\ meta.latest = v.meta[1].latest /\ meta.index = v.meta[1].index
  BY <1>9, <1>10 DEF Metas
<1>12. PICK todo : todo = C!remove(x)
  OBVIOUS
<1>13. todo = <<C!save_page(n0, page), C!save_metadata(meta)>>
  BY <1>3, <1>4, <1>5, <1>7, <1>8, <1>10, <1>12 DEF C!remove
<1>14. \A n \in C!Pages : v.page[n] \in Seq(Msgs)
  BY <1>3 DEF GoodPage
<1>15. /\ page \in Seq(Msgs) /\ Len(page) = Len(v.page[n0]) - 1
       /\ \A i \in 1 .. (Len(v.page[n0]) - 1) : page[i] = v.page[n0][IF i < i0 THEN i ELSE i + 1]
  BY <1>3, <1>7, <1>8, <1>14, WithoutIs
<1>16. PICK g : g = [n \in 0 .. top |-> IF n = n0 THEN page ELSE v.page[n]]
  OBVIOUS
<1>17. PICK h : h = [n \in 0 .. top |-> [i \in 1 .. Len(v.page[n]) |-> IF n = n0 /\ ~(i < i0) THEN i + 1 ELSE i]]
  OBVIOUS
<1>18. ASSUME NEW n \in 0 .. top, n # n0
       PROVE  g[n] = v.page[n] /\ Len(g[n]) \in Nat /\ \A i \in 1 .. Len(g[n]) : h[n][i] = i
  BY <1>3, <1>14, <1>16, <1>17, <1>18
<1>19. /\ g[n0] = page /\ Len(v.page[n0]) \in Nat /\ Len(g[n0]) \in Nat
       /\ \A i \in 1 .. Len(g[n0]) : /\ h[n0][i] = IF i < i0 THEN i ELSE i + 1
                                     /\ h[n0][i] \in 1 .. Len(v.page[n0]) /\ h[n0][i] # i0 /\ g[n0][i] = v.page[n0][h[n0][i]]
  <2>1. g[n0] = page /\ Len(v.page[n0]) \in Nat /\ Len(g[n0]) \in Nat /\ Len(page) = Len(v.page[n0]) - 1
    BY <1>3, <1>7, <1>14, <1>15, <1>16
  <2>2. ASSUME NEW i \in 1 .. Len(g[n0])
        PROVE  /\ h[n0][i] = IF i < i0 THEN i ELSE i + 1
               /\ h[n0][i] \in 1 .. Len(v.page[n0]) /\ h[n0][i] # i0 /\ g[n0][i] = v.page[n0][h[n0][i]]
    <3>1. i \in 1 .. (Len(v.page[n0]) - 1) /\ i \in 1 .. Len(v.page[n0])
      BY <2>1
    <3>2. h[n0][i] = IF i < i0 THEN i ELSE i + 1
      BY <1>7, <1>17, <3>1
    <3>3. h[n0][i] \in 1 .. Len(v.page[n0]) /\ h[n0][i] # i0
      BY <1>7, <2>1, <3>1, <3>2
    <3> QED
      BY <1>15, <2>1, <3>1, <3>2, <3>3
  <2> QED
    BY <2>1, <2>2
<1>20. ASSUME NEW n \in 0 .. top, NEW i \in 1 .. Len(g[n])
       PROVE  h[n][i] \in 1 .. Len(v.page[n]) /\ g[n][i] = v.page[n][h[n][i]] /\ ~(n = n0 /\ h[n][i] = i0)
  BY <1>18, <1>19
<1>21. ASSUME NEW n \in 0 .. top, NEW i \in 1 .. Len(g[n]), NEW j \in 1 .. Len(g[n]), h[n][i] = h[n][j] PROVE i = j
  <2>1. CASE n # n0
    BY <1>18, <1>21, <2>1
  <2>2. CASE n = n0
    <3>1. i \in Int /\ j \in Int /\ h[n0][i] = (IF i < i0 THEN i ELSE i + 1) /\ h[n0][j] = (IF j < i0 THEN j ELSE j + 1) /\ i0 \in Int
      BY <1>7, <1>19, <2>2
    <3> QED
      BY <1>21, <2>2, <3>1
  <2> QED
    BY <2>1, <2>2
<1>22. ASSUME NEW n \in 0 .. top, NEW j \in 1 .. Len(v.page[n]), ~(n = n0 /\ j = i0) PROVE \E i \in 1 .. Len(g[n]) : h[n][i] = j
  <2>1. CASE n # n0
    BY <1>18, <2>1
  <2>2. CASE n = n0
    <3>0. j # i0 /\ j \in 1 .. Len(v.page[n0]) /\ Len(g[n0]) = Len(v.page[n0]) - 1 /\ Len(v.page[n0]) \in Nat /\ i0 \in 1 .. Len(v.page[n0])
      BY <1>7, <1>15, <1>19, <1>22, <2>2
    <3>1. PICK i : i = IF j < i0 THEN j ELSE j - 1
      OBVIOUS
    <3>2. i \in 1 .. Len(g[n0]) /\ (IF i < i0 THEN i ELSE i + 1) = j
      BY <3>0, <3>1
    <3> QED
      BY <1>19, <2>2, <3>2
  <2> QED
    BY <2>1, <2>2
<1>23. ASSUME NEW n \in 0 .. top PROVE g[n] \in Seq(Msgs)
  BY <1>3, <1>14, <1>15, <1>18, <1>19
<1>24. Comes(v, g, h, removed')
  <2> SUFFICES ASSUME NEW n \in 0 .. top
               PROVE  /\ g[n] \in Seq(Msgs)
                      /\ \A i \in 1 .. Len(g[n]) : h[n][i] \in 1 .. Len(v.page[n]) /\ Same(g[n][i], v.page[n][h[n][i]])
                      /\ \A i, j \in 1 .. Len(g[n]) : h[n][i] = h[n][j] => i = j
                      /\ Ids(v.page[n]) \ Ids(g[n]) \subseteq removed'
    BY <1>2 DEF Comes
  <2>1. ASSUME NEW i \in 1 .. Len(g[n]) PROVE Same(g[n][i], v.page[n][h[n][i]])
    <3>1. GoodMsg(v.page[n][h[n][i]], owned)
      BY <1>3, <1>20 DEF GoodPage
    <3> QED
      BY <1>20, <3>1 DEF Same, GoodMsg, Sent
  <2>2. ASSUME NEW y \in Ids(v.page[n]), y \notin Ids(g[n]) PROVE y \in removed'
    <3>1. PICK j \in 1 .. Len(v.page[n]) : y = v.page[n][j].id
      BY DEF Ids
    <3>2. CASE n = n0 /\ j = i0
      BY <1>7, <3>1, <3>2
    <3>3. CASE ~(n = n0 /\ j = i0)
      <4>1. PICK i \in 1 .. Len(g[n]) : h[n][i] = j
        BY <1>22, <3>3
      <4>2. g[n][i].id = y
        BY <1>20, <3>1, <4>1
      <4> QED
        BY <2>2, <4>2 DEF Ids
    <3> QED
      BY <3>2, <3>3
  <2> QED
    BY <1>20, <1>21, <1>23, <2>1, <2>2
<1>25. Makes(todo, v, top, g, <<meta>>)
  <2>1. PICK a : a = C!save_page(n0, page)
    OBVIOUS
  <2>2. PICK b : b = C!save_metadata(meta)
    OBVIOUS
  <2>3. a.key = "page" /\ a.n = n0 /\ a.value = <<page>> /\ a = [key |-> "page", n |-> n0, value |-> <<page>>]
    BY <2>1 DEF C!save_page
  <2>4. b.key = "metadata" /\ b.n = 0 /\ b.value = <<meta>> /\ b = [key |-> "metadata", n |-> 0, value |-> <<meta>>]
    BY <2>2 DEF C!save_metadata
  <2>5. <<page>> \in Options(Seq(Msgs)) \cup Options(Metas) /\ n0 \in C!Pages
    BY <1>3, <1>7, <1>15, OptionHas
  <2>6. <<meta>> \in Options(Seq(Msgs)) \cup Options(Metas) /\ 0 \in C!Pages /\ <<meta>> # <<>>
    BY <1>11, OptionHas, ConversationsAssumption DEF C!Pages
  <2>7. a \in Writes
    BY <2>3, <2>5 DEF Writes, WriteKeys
  <2>8. b \in Writes
    BY <2>4, <2>6 DEF Writes, WriteKeys
  <2>9. todo \in Seq(Writes) /\ Len(todo) = 2 /\ todo[1] = a /\ todo[2] = b /\ \A k \in 1 .. Len(todo) : k = 1 \/ k = 2
    BY <1>13, <2>1, <2>2, <2>7, <2>8
  <2>10. Distinct(todo)
    BY <2>3, <2>4, <2>9 DEF Distinct
  <2>11. 1 \in 1 .. Len(todo) /\ 2 \in 1 .. Len(todo)
    BY <2>9
  <2>12. \A k \in 1 .. Len(todo) : \/ todo[k].key = "page" /\ todo[k].n \in 0 .. top /\ todo[k].value = <<g[todo[k].n]>>
                                   \/ todo[k].key = "metadata" /\ todo[k].n = 0 /\ todo[k].value = <<meta>> /\ <<meta>> # <<>>
    BY <1>7, <1>19, <2>3, <2>4, <2>6, <2>9
  <2>13. \A n \in 0 .. top : n # n0 => g[n] = v.page[n]
    BY <1>18
  <2>14. \A n \in 0 .. top : (\A k \in 1 .. Len(todo) : ~(todo[k].key = "page" /\ todo[k].n = n)) => g[n] = v.page[n]
    BY <2>3, <2>9, <2>11, <2>13
  <2> QED
    BY <2>4, <2>9, <2>10, <2>11, <2>12, <2>14 DEF Makes
<1>26. ASSUME faults = 0 PROVE Counts(g, top, <<meta>>) /\ PendingOn(g, top, "done", 0)
  <2>1. Counted(v)
    BY <1>0, <1>1, <1>26, NothingAhead DEF ConversationInv, Faultless, Begins
  <2>2. PICK D : D = {<<n0, i0>>}
    OBVIOUS
  <2>3. Cardinality(D) = 1
    BY <2>2, FS_Singleton
  <2>4. PICK f : f = v.page
    OBVIOUS
  <2>5. Maps(f, g, h, top)
    <3>1. \A n \in 0 .. top : Len(f[n]) \in Nat
      BY <1>3, <1>14, <2>4
    <3>2. \A n \in 0 .. top : \A i \in 1 .. Len(g[n]) : h[n][i] \in 1 .. Len(f[n])
      BY <1>20, <2>4
    <3> QED
      BY <1>21, <3>1, <3>2 DEF Maps
  <2>6. Reads(f, g, h, top)
    BY <1>20, <2>4 DEF Reads
  <2>7. Misses(f, g, h, top, D)
    <3>1. D \subseteq Slots(f, top)
      BY <1>7, <2>2, <2>4, InSlots
    <3>2. \A n \in 0 .. top : \A i \in 1 .. Len(g[n]) : <<n, h[n][i]>> \notin D
      BY <1>20, <2>2
    <3>3. ASSUME NEW n \in 0 .. top, NEW j \in 1 .. Len(f[n]), <<n, j>> \notin D PROVE \E i \in 1 .. Len(g[n]) : h[n][i] = j
      <4>1. ~(n = n0 /\ j = i0)
        BY <2>2, <3>3
      <4> QED
        BY <1>22, <2>4, <4>1
    <3> QED
      BY <3>1, <3>2, <3>3 DEF Misses
  <2>8. PICK mt : mt = <<meta>>
    OBVIOUS
  <2>9. mt[1] = meta
    BY <2>8
  <2>10. v.meta[1].total > 0 /\ v.meta[1].total \in Nat
    <3>1. v.meta[1].total = Cardinality(Places(v)) /\ v.meta[1].total \in Nat
      BY <1>7, <1>9, <2>1 DEF Counted, Metas
    <3>2. Places(v) = Slots(f, top) /\ IsFiniteSet(Slots(f, top))
      BY <1>2, <1>3, <2>4, <2>5, SlotsFinite DEF Places, Maps
    <3>3. <<n0, i0>> \in Slots(f, top)
      BY <1>7, <2>4, InSlots
    <3>4. Cardinality(Slots(f, top)) # 0
      BY <3>2, <3>3, FS_EmptySet
    <3> QED
      BY <3>1, <3>2, <3>4
  <2>11. mt[1].total = v.meta[1].total - Cardinality(D)
    BY <1>11, <2>3, <2>9, <2>10
  <2>12. ASSUME NEW p \in Slots(g, top) PROVE g[p[1]][p[2]].ts >= mt[1].oldest
    <3>0. PICK n \in 0 .. top : \E i \in 1 .. Len(g[n]) : p = <<n, i>>
      BY InSlots
    <3>1. PICK i \in 1 .. Len(g[n]) : p = <<n, i>>
      BY <3>0
    <3>2. <<n, h[n][i]>> \in Places(v) /\ At(v, <<n, h[n][i]>>) = v.page[n][h[n][i]]
      BY <1>2, <1>20, InSlots DEF Places, At
    <3>3. v.page[n][h[n][i]].ts >= v.meta[1].oldest
      BY <1>7, <2>1, <3>2 DEF Counted
    <3> QED
      BY <1>11, <1>20, <2>9, <3>1, <3>3
  <2>13. mt[1].unread = v.meta[1].unread
    BY <1>11, <2>9
  <2>14. Counts(g, top, mt)
    BY <1>2, <1>3, <1>7, <1>9, <2>1, <2>4, <2>5, <2>6, <2>7, <2>11, <2>12, <2>13, TrimCounts
  <2>15. ASSUME NEW n \in 0 .. top, NEW i \in 1 .. Len(g[n]) PROVE ~(Sent(g[n][i]) /\ g[n][i].status = "pending")
    <3>2. <<n, h[n][i]>> \in Places(v) /\ At(v, <<n, h[n][i]>>) = v.page[n][h[n][i]]
      BY <1>2, <1>20, InSlots DEF Places, At
    <3> QED
      BY <1>1, <1>20, <1>26, <3>2, IdleIsSent
  <2> QED
    BY <2>8, <2>14, <2>15 DEF PendingOn, Sent
<1>27. PICK mt \in Options(Metas) : mt = <<meta>>
  BY <1>11, OptionHas
<1>28. mt # <<>> /\ mt[1] = meta /\ mt[1].latest = Top(v) /\ mt[1].index = v.meta[1].index
  BY <1>7, <1>11, <1>27 DEF Top
<1> QED
  BY <1>1, <1>2, <1>12, <1>24, <1>25, <1>26, <1>27, <1>28, TrimStep

\* A revision edits or deletes.
LEMMA ReviseStep ==
    ASSUME ConversationInv, op = C!Idle, NEW x, NEW reviser \in C!Parties, NEW kind,
           Begins(C!revise(x, reviser, kind), "done", 0), owned' = owned,
           kind = "delete" /\ C!revise(x, reviser, kind) # <<>> => x \in removed'
    PROVE  ConversationInv'
<1>1. CASE C!find(x) = <<>> \/ C!Stored(x).from # reviser
  <2>1. Begins(<<>>, "done", 0)
    BY <1>1 DEF C!revise
  <2>2. faults = 0 => PendingIsSent(ViewNow, "done", 0)
    BY IdleIsSent DEF PendingIsSent, Sent
  <2> QED
    BY <2>1, <2>2, NoWrites
<1>2. CASE C!find(x) # <<>> /\ C!Stored(x).from = reviser /\ kind = "delete"
  <2>1. C!revise(x, reviser, kind) = C!remove(x)
    BY <1>2 DEF C!revise
  <2>2. C!remove(x) # <<>>
    BY DEF C!remove
  <2>3. Begins(C!remove(x), "done", 0) /\ x \in removed'
    BY <1>2, <2>1, <2>2
  <2> QED
    BY <1>2, <2>3, RemoveStep
<1>3. CASE C!find(x) # <<>> /\ C!Stored(x).from = reviser /\ kind # "delete"
  <2>1. Begins(C!update(x, [C!Stored(x) EXCEPT !.editor = reviser]), "done", 0)
    BY <1>3 DEF C!revise
  <2> QED
    BY <1>3, <2>1, IdleEdit
<1> QED
  BY <1>1, <1>2, <1>3

\* The peer revises what it sent, reacts, or says how far a message came.
LEMMA RevisionKeeps ==
    ASSUME ConversationInv, op = C!Idle, NEW x, NEW kind \in {"edit", "delete", "react", "delivered", "read", "failed"}, C!revision(x, kind)
    PROVE  ConversationInv'
<1>0. RestTyped /\ UNCHANGED <<C!store, C!told, faults>> /\ owned' = owned /\ removed \subseteq removed' /\ 0 \in Nat
  BY DEF ConversationInv, Kept, C!revision, C!counters
<1>1. CASE kind \in {"edit", "delete"}
  <2>1. C!lock("done", C!revise(x, "peer", kind), 0)
    BY <1>1 DEF C!revision
  <2>2. Begins(C!revise(x, "peer", kind), "done", 0)
    BY <1>0, <2>1, LockBegins
  <2>3. kind = "delete" /\ C!revise(x, "peer", kind) # <<>> => x \in removed'
    BY DEF C!revision
  <2>4. "peer" \in C!Parties
    BY DEF C!Parties
  <2> QED
    BY <1>0, <2>2, <2>3, <2>4, ReviseStep
<1>2. CASE kind = "react"
  <2>1. C!lock("done", C!react(x, 1), 0)
    BY <1>2 DEF C!revision
  <2>2. Begins(C!react(x, 1), "done", 0) /\ 1 \in Nat
    BY <1>0, <2>1, LockBegins
  <2> QED
    BY <1>0, <2>2, IdleReact
<1>3. CASE kind \in {"delivered", "read", "failed"}
  <2>1. C!lock("done", C!set_status(x, kind), 0) /\ kind \in C!Statuses /\ kind # "pending"
    BY <1>3 DEF C!revision, C!Statuses
  <2>2. Begins(C!set_status(x, kind), "done", 0)
    BY <1>0, <2>1, LockBegins
  <2> QED
    BY <1>0, <2>1, <2>2, IdleStatus
<1> QED
  BY <1>1, <1>2, <1>3

\* A failed message is sent again.
LEMMA ResendKeeps == ASSUME ConversationInv, op = C!Idle, NEW x, C!resend(x) PROVE ConversationInv'
<1>0. RestTyped /\ StoreTyped /\ UNCHANGED <<C!store, C!told, faults>> /\ owned' = owned /\ removed \subseteq removed'
  BY DEF ConversationInv, Kept, C!resend, C!counters
<1>1. C!find(x) # <<>> /\ C!lock("transmit", C!set_status(x, "pending"), x)
  BY DEF C!resend
<1>2. x \in Nat
  BY <1>0, <1>1, StoredIs
<1>3. Begins(C!set_status(x, "pending"), "transmit", x)
  BY <1>0, <1>1, <1>2, LockBegins
<1>4. "pending" \in C!Statuses
  BY DEF C!Statuses
<1> QED
  BY <1>0, <1>3, <1>4, IdleStatus

\* The account revises what it sent.
LEMMA ReviseOwnKeeps ==
    ASSUME ConversationInv, op = C!Idle, NEW x, NEW kind \in {"edit", "delete"}, C!revise_own(x, kind)
    PROVE  ConversationInv'
<1>0. RestTyped /\ UNCHANGED <<C!store, C!told, faults>> /\ owned' = owned /\ removed \subseteq removed' /\ (kind = "delete" => x \in removed') /\ 0 \in Nat
  BY DEF ConversationInv, Kept, C!revise_own, C!counters
<1>1. C!lock("done", C!revise(x, "own", kind), 0)
  BY DEF C!revise_own
<1>2. Begins(C!revise(x, "own", kind), "done", 0)
  BY <1>0, <1>1, LockBegins
<1>3. "own" \in C!Parties
  BY DEF C!Parties
<1> QED
  BY <1>0, <1>2, <1>3, ReviseStep

\* The account reacts.
LEMMA ReactKeeps == ASSUME ConversationInv, op = C!Idle, NEW x, C!React(x) PROVE ConversationInv'
<1>0. RestTyped /\ UNCHANGED <<C!store, C!told, faults>> /\ owned' = owned /\ removed \subseteq removed' /\ 0 \in Nat
  BY DEF ConversationInv, Kept, C!React, C!counters
<1>1. C!lock("done", C!react(x, 2), 0)
  BY DEF C!React
<1>2. Begins(C!react(x, 2), "done", 0) /\ 2 \in Nat
  BY <1>0, <1>1, LockBegins
<1> QED
  BY <1>0, <1>2, IdleReact

\* A window patches a message's status.
LEMMA PatchKeeps ==
    ASSUME ConversationInv, op = C!Idle, NEW x, NEW status \in C!Statuses, C!Patch(x, status)
    PROVE  ConversationInv'
<1>0. RestTyped /\ UNCHANGED <<C!store, C!told, faults>> /\ owned' = owned /\ removed \subseteq removed' /\ 0 \in Nat
  BY DEF ConversationInv, Kept, C!Patch, C!counters
<1>1. C!lock("done", C!set_status(x, status), 0)
  BY DEF C!Patch, C!patch
<1>2. Begins(C!set_status(x, status), "done", 0)
  BY <1>0, <1>1, LockBegins
<1>3. status # "pending" \/ x \in ByWindow \/ C!set_status(x, status) = <<>>
  BY DEF C!Patch, C!patch
<1> QED
  BY <1>0, <1>2, <1>3, IdleStatus

-----------------------------------------------------------------------------
(* The operations that go over all pages. *)

\* Upwards or downwards, each page comes once.
LEMMA BothOrders == ASSUME NEW top \in Nat PROVE Orders(C!Ascending(top), top) /\ Orders(C!Descending(top), top)
<1>1. Orders(C!Ascending(top), top)
  <2>1. PICK a : a = C!Ascending(top)
    OBVIOUS
  <2>2. a = [k \in 1 .. (top + 1) |-> k - 1]
    BY <2>1 DEF C!Ascending
  <2>3. Len(a) = top + 1 /\ \A k \in 1 .. (top + 1) : a[k] = k - 1
    BY <2>2
  <2>5. \A k \in 1 .. (top + 1) : a[k] \in 0 .. top
    BY <2>3
  <2>6. \A j, k \in 1 .. (top + 1) : a[j] = a[k] => j = k
    BY <2>3
  <2>4. ASSUME NEW n \in 0 .. top PROVE \E k \in 1 .. (top + 1) : a[k] = n
    <3>1. n + 1 \in 1 .. (top + 1) /\ (n + 1) - 1 = n
      OBVIOUS
    <3> QED
      BY <2>3, <3>1
  <2> QED
    BY <2>1, <2>3, <2>4, <2>5, <2>6 DEF Orders
<1>2. Orders(C!Descending(top), top)
  <2>1. PICK a : a = C!Descending(top)
    OBVIOUS
  <2>2. a = [k \in 1 .. (top + 1) |-> top + 1 - k]
    BY <2>1 DEF C!Descending
  <2>3. Len(a) = top + 1 /\ \A k \in 1 .. (top + 1) : a[k] = top + 1 - k
    BY <2>2
  <2>5. \A k \in 1 .. (top + 1) : a[k] \in 0 .. top
    BY <2>3
  <2>6. \A j, k \in 1 .. (top + 1) : a[j] = a[k] => j = k
    BY <2>3
  <2>4. ASSUME NEW n \in 0 .. top PROVE \E k \in 1 .. (top + 1) : a[k] = n
    <3>1. top + 1 - n \in 1 .. (top + 1) /\ top + 1 - (top + 1 - n) = n
      OBVIOUS
    <3> QED
      BY <2>3, <3>1
  <2> QED
    BY <2>1, <2>3, <2>4, <2>5, <2>6 DEF Orders
<1> QED
  BY <1>1, <1>2

\* Only pages that changed are written, each once.
LEMMA ChangedIs ==
    ASSUME NEW top \in C!Pages, NEW numbers, Orders(numbers, top), NEW f, \A n \in 0 .. top : f[n] \in Seq(Msgs)
    PROVE  /\ C!Changed(numbers, f) \in Seq(Writes) /\ Distinct(C!Changed(numbers, f))
           /\ \A k \in 1 .. Len(C!Changed(numbers, f)) :
                 LET w == C!Changed(numbers, f)[k] IN w.key = "page" /\ w.n \in 0 .. top /\ w.value = <<f[w.n]>>
           /\ \A n \in 0 .. top : C!load_page(n) # <<>> /\ f[n] # C!OnPage(n) =>
                 \E k \in 1 .. Len(C!Changed(numbers, f)) : C!Changed(numbers, f)[k].n = n
<1>0. top \in Nat /\ 0 .. top \subseteq C!Pages /\ top + 1 \in Nat /\ Len(numbers) = top + 1
  BY ConversationsAssumption DEF C!Pages, Orders
<1>1. PICK I : I = {k \in 1 .. Len(numbers) : C!load_page(numbers[k]) # <<>> /\ f[numbers[k]] # C!OnPage(numbers[k])}
  OBVIOUS
<1>2. PICK touched : touched = C!Picked(numbers, I)
  OBVIOUS
<1>3. PICK todo : todo = C!Changed(numbers, f)
  OBVIOUS
<1>4. todo = [k \in 1 .. Len(touched) |-> C!save_page(touched[k], f[touched[k]])]
  BY <1>1, <1>2, <1>3 DEF C!Changed
<1>5. I \subseteq 1 .. (top + 1)
  BY <1>0, <1>1
<1>6. PICK N, nth : Picks(numbers, I, N, nth)
  BY <1>0, <1>5, PickedIs
<1>7. N \in Nat
  BY <1>6 DEF Picks
<1>8. /\ nth \in [1 .. N -> I]
      /\ \A j, k \in 1 .. N : nth[j] = nth[k] => j = k
      /\ \A i \in I : \E k \in 1 .. N : nth[k] = i
      /\ touched = [k \in 1 .. N |-> numbers[nth[k]]]
  BY <1>2, <1>6 DEF Picks
<1>9. Len(touched) = N
  BY <1>7, <1>8
<1>10. ASSUME NEW k \in 1 .. N
       PROVE  /\ touched[k] = numbers[nth[k]] /\ nth[k] \in 1 .. (top + 1) /\ touched[k] \in 0 .. top
              /\ todo[k] = C!save_page(touched[k], f[touched[k]])
              /\ todo[k].key = "page" /\ todo[k].n = touched[k] /\ todo[k].value = <<f[touched[k]]>> /\ todo[k] \in Writes
  <2>1. touched[k] = numbers[nth[k]] /\ nth[k] \in 1 .. (top + 1)
    BY <1>5, <1>8
  <2>2. touched[k] \in 0 .. top
    BY <2>1 DEF Orders
  <2>3. todo[k] = C!save_page(touched[k], f[touched[k]])
    BY <1>4, <1>9
  <2>4. todo[k] = [key |-> "page", n |-> touched[k], value |-> <<f[touched[k]]>>]
    BY <2>3 DEF C!save_page
  <2>5. <<f[touched[k]]>> \in Options(Seq(Msgs)) \cup Options(Metas) /\ touched[k] \in C!Pages
    BY <1>0, <2>2, OptionHas
  <2>6. todo[k] \in Writes
    BY <2>4, <2>5 DEF Writes, WriteKeys
  <2> QED
    BY <2>1, <2>2, <2>3, <2>4, <2>6
<1>11. todo \in Seq(Writes) /\ Len(todo) = N
  BY <1>4, <1>7, <1>9, <1>10
<1>12. Distinct(todo)
  <2> SUFFICES ASSUME NEW j \in 1 .. N, NEW k \in 1 .. N, todo[j].n = todo[k].n PROVE j = k
    BY <1>11 DEF Distinct
  <2>1. numbers[nth[j]] = numbers[nth[k]] /\ nth[j] \in 1 .. (top + 1) /\ nth[k] \in 1 .. (top + 1)
    BY <1>10
  <2>2. nth[j] = nth[k]
    BY <2>1 DEF Orders
  <2> QED
    BY <1>8, <2>2
<1>13. \A k \in 1 .. Len(todo) : todo[k].key = "page" /\ todo[k].n \in 0 .. top /\ todo[k].value = <<f[todo[k].n]>>
  BY <1>10, <1>11
<1>14. ASSUME NEW n \in 0 .. top, C!load_page(n) # <<>>, f[n] # C!OnPage(n) PROVE \E k \in 1 .. Len(todo) : todo[k].n = n
  <2>1. PICK i \in 1 .. (top + 1) : numbers[i] = n
    BY DEF Orders
  <2>2. i \in I
    BY <1>0, <1>1, <1>14, <2>1
  <2>3. PICK k \in 1 .. N : nth[k] = i
    BY <1>8, <2>2
  <2> QED
    BY <1>10, <1>11, <2>1, <2>3
<1> QED
  BY <1>3, <1>11, <1>12, <1>13, <1>14

\* The pages that changed, and then the metadata.
LEMMA ChangedMakes ==
    ASSUME StoreTyped, owned \in Nat, NEW v, v = ViewNow, NEW top, top = Top(v), NEW numbers, Orders(numbers, top),
           NEW f, \A n \in 0 .. top : f[n] \in Seq(Msgs), \A n \in 0 .. top : v.page[n] = <<>> => f[n] = <<>>,
           NEW meta \in Metas, NEW todo, todo = C!Changed(numbers, f) \o <<C!save_metadata(meta)>>
    PROVE  Makes(todo, v, top, f, <<meta>>) /\ todo # <<>>
<1>0. /\ top \in C!Pages /\ 0 .. top \subseteq C!Pages
      /\ \A n \in C!Pages : C!OnPage(n) = v.page[n] /\ (C!load_page(n) = <<>> => v.page[n] = <<>>)
  BY ViewIs, ConversationsAssumption DEF C!Pages
<1>1. PICK X : X = C!Changed(numbers, f)
  OBVIOUS
<1>2. /\ X \in Seq(Writes) /\ Distinct(X)
      /\ \A k \in 1 .. Len(X) : X[k].key = "page" /\ X[k].n \in 0 .. top /\ X[k].value = <<f[X[k].n]>>
      /\ \A n \in 0 .. top : C!load_page(n) # <<>> /\ f[n] # C!OnPage(n) => \E k \in 1 .. Len(X) : X[k].n = n
  BY <1>0, <1>1, ChangedIs
<1>3. PICK b : b = C!save_metadata(meta)
  OBVIOUS
<1>4. b.key = "metadata" /\ b.n = 0 /\ b.value = <<meta>> /\ b = [key |-> "metadata", n |-> 0, value |-> <<meta>>]
  BY <1>3 DEF C!save_metadata
<1>5. <<meta>> \in Options(Seq(Msgs)) \cup Options(Metas) /\ 0 \in C!Pages /\ <<meta>> # <<>>
  BY OptionHas, ConversationsAssumption DEF C!Pages
<1>6. b \in Writes
  BY <1>4, <1>5 DEF Writes, WriteKeys
<1>7. PICK N \in Nat : N = Len(X)
  BY <1>2
<1>8. /\ todo \in Seq(Writes) /\ Len(todo) = N + 1 /\ todo[N + 1] = b /\ \A k \in 1 .. N : todo[k] = X[k]
  BY <1>1, <1>2, <1>3, <1>6, <1>7
<1>9. \A k \in 1 .. Len(todo) : k \in 1 .. N \/ k = N + 1
  BY <1>7, <1>8
<1>10. Distinct(todo)
  <2> SUFFICES ASSUME NEW j \in 1 .. Len(todo), NEW k \in 1 .. Len(todo), todo[j].key = todo[k].key, todo[j].n = todo[k].n PROVE j = k
    BY DEF Distinct
  <2>1. CASE j \in 1 .. N /\ k \in 1 .. N
    <3>1. X[j].key = X[k].key /\ X[j].n = X[k].n
      BY <1>8, <2>1
    <3> QED
      BY <1>2, <1>7, <2>1, <3>1 DEF Distinct
  <2>2. CASE j = N + 1 /\ k \in 1 .. N
    <3>1. todo[k].key = "page" /\ todo[j].key = "metadata"
      BY <1>2, <1>4, <1>7, <1>8, <2>2
    <3> QED
      BY <3>1
  <2>3. CASE k = N + 1 /\ j \in 1 .. N
    <3>1. todo[j].key = "page" /\ todo[k].key = "metadata"
      BY <1>2, <1>4, <1>7, <1>8, <2>3
    <3> QED
      BY <3>1
  <2> QED
    BY <1>9, <2>1, <2>2, <2>3
<1>11. \A k \in 1 .. Len(todo) : \/ todo[k].key = "page" /\ todo[k].n \in 0 .. top /\ todo[k].value = <<f[todo[k].n]>>
                                 \/ todo[k].key = "metadata" /\ todo[k].n = 0 /\ todo[k].value = <<meta>> /\ <<meta>> # <<>>
  BY <1>2, <1>4, <1>5, <1>7, <1>8, <1>9
<1>12. ASSUME NEW n \in 0 .. top, \A k \in 1 .. Len(todo) : ~(todo[k].key = "page" /\ todo[k].n = n) PROVE f[n] = v.page[n]
  <2>1. \A k \in 1 .. N : todo[k].key = "page" /\ k \in 1 .. Len(todo)
    BY <1>2, <1>7, <1>8
  <2>2. \A k \in 1 .. Len(X) : X[k].n # n
    BY <1>7, <1>8, <1>12, <2>1
  <2>3. C!load_page(n) = <<>> \/ f[n] = C!OnPage(n)
    BY <1>2, <2>2
  <2> QED
    BY <1>0, <2>3
<1>13. N + 1 \in 1 .. Len(todo) /\ todo[N + 1].key = "metadata"
  BY <1>4, <1>7, <1>8
<1>14. Makes(todo, v, top, f, <<meta>>)
  BY <1>8, <1>10, <1>11, <1>12, <1>13 DEF Makes
<1>15. todo # <<>>
  BY <1>7, <1>8
<1> QED
  BY <1>14, <1>15

\* All that is unread is read: the metadata counts at least as many as there are.
LEMMA MarkReadKeeps == ASSUME ConversationInv, op = C!Idle, C!MarkRead PROVE ConversationInv'
<1>0. RestTyped /\ StoreTyped /\ owned \in Nat /\ UNCHANGED <<C!store, C!told, faults>> /\ owned' = owned /\ removed \subseteq removed'
      /\ C!load_metadata # <<>> /\ C!lock("done", C!mark_read, 0) /\ 0 \in Nat
  BY DEF ConversationInv, Kept, C!MarkRead, C!counters, RestTyped
<1>1. Begins(C!mark_read, "done", 0)
  BY <1>0, LockBegins
<1>2. PICK v : v = ViewNow
  OBVIOUS
<1>3. PICK top : top = Top(v)
  OBVIOUS
<1>4. PICK f : f = v.page
  OBVIOUS
<1>5. /\ top \in Nat /\ 0 .. top \subseteq C!Pages /\ v.meta \in Options(Metas) /\ top \in C!Pages /\ C!load_metadata = v.meta
      /\ \A n \in C!Pages : GoodPage(n, f[n], owned) /\ C!OnPage(n) = f[n]
  BY <1>0, <1>2, <1>3, <1>4, ViewIs, ConversationsAssumption DEF C!Pages
<1>6. PICK meta : meta = C!load_metadata[1]
  OBVIOUS
<1>7. meta \in Metas /\ meta.latest = top /\ v.meta # <<>> /\ v.meta = <<meta>> /\ v.meta[1] = meta
  BY <1>0, <1>3, <1>5, <1>6, OptionIs DEF Top
<1> DEFINE unread(n, i) == C!OnPage(n)[i].from = "peer" /\ C!OnPage(n)[i].status = "delivered"
           places == UNION {{<<n, i>> : i \in 1 .. Len(C!OnPage(n))} : n \in 0 .. meta.latest}
           newer(p) == {q \in places : unread(q[1], q[2]) /\ (q[1] > p[1] \/ (q[1] = p[1] /\ q[2] > p[2]))}
           read == [n \in 0 .. meta.latest |->
                       [i \in 1 .. Len(C!OnPage(n)) |->
                           IF unread(n, i) /\ Cardinality(newer(<<n, i>>)) < meta.unread
                           THEN [C!OnPage(n)[i] EXCEPT !.status = "read"] ELSE C!OnPage(n)[i]]]
<1>8. PICK done : done = [meta EXCEPT !.unread = 0]
  OBVIOUS
<1>9. C!mark_read = C!Changed(C!Descending(meta.latest), read) \o <<C!save_metadata(done)>>
  BY <1>6, <1>8 DEF C!mark_read, C!Cardinality, Cardinality
<1>10. PICK g : g = read
  OBVIOUS
<1>11. /\ done \in Metas /\ done.unread = 0 /\ done.total = meta.total /\ done.oldest = meta.oldest /\ done.latest = top /\ done.index = meta.index
  BY <1>7, <1>8 DEF Metas
<1>12. PICK todo : todo = C!mark_read
  OBVIOUS
<1>13. todo = C!Changed(C!Descending(top), g) \o <<C!save_metadata(done)>>
  BY <1>7, <1>9, <1>10, <1>12
<1>14. \A n \in 0 .. top : f[n] \in Seq(Msgs) /\ Len(f[n]) \in Nat
  BY <1>5 DEF GoodPage
<1>15. places = Slots(f, top)
  <2>1. \A n \in 0 .. top : C!OnPage(n) = f[n]
    BY <1>5
  <2> QED
    BY <1>7, <2>1 DEF Slots
<1>16. PICK fewer : fewer = [n \in 0 .. top |-> [i \in 1 .. Len(f[n]) |-> Cardinality(newer(<<n, i>>))]]
  OBVIOUS
<1>17. ASSUME NEW n \in 0 .. top
       PROVE  /\ g[n] = [i \in 1 .. Len(f[n]) |-> g[n][i]]
              /\ \A i \in 1 .. Len(f[n]) : /\ IsUnread(f[n][i]) /\ fewer[n][i] < meta.unread => g[n][i] = [f[n][i] EXCEPT !.status = "read"]
                                           /\ ~(IsUnread(f[n][i]) /\ fewer[n][i] < meta.unread) => g[n][i] = f[n][i]
  <2>1. C!OnPage(n) = f[n]
    BY <1>5
  <2>2. g[n] = [i \in 1 .. Len(C!OnPage(n)) |->
                           IF unread(n, i) /\ Cardinality(newer(<<n, i>>)) < meta.unread
                           THEN [C!OnPage(n)[i] EXCEPT !.status = "read"] ELSE C!OnPage(n)[i]]
    BY <1>7, <1>10
  <2>3. \A i \in 1 .. Len(f[n]) : fewer[n][i] = Cardinality(newer(<<n, i>>))
    BY <1>16
  <2>4. \A i \in 1 .. Len(f[n]) : unread(n, i) <=> IsUnread(f[n][i])
    BY <2>1 DEF IsUnread
  <2> HIDE DEF unread, newer
  <2>5. g[n] = [i \in 1 .. Len(f[n]) |-> g[n][i]]
    BY <2>1, <2>2
  <2>6. ASSUME NEW i \in 1 .. Len(f[n])
        PROVE  /\ IsUnread(f[n][i]) /\ fewer[n][i] < meta.unread => g[n][i] = [f[n][i] EXCEPT !.status = "read"]
               /\ ~(IsUnread(f[n][i]) /\ fewer[n][i] < meta.unread) => g[n][i] = f[n][i]
    <3>1. CASE unread(n, i) /\ Cardinality(newer(<<n, i>>)) < meta.unread
      BY <2>1, <2>2, <2>3, <2>4, <3>1
    <3>2. CASE ~(unread(n, i) /\ Cardinality(newer(<<n, i>>)) < meta.unread)
      BY <2>1, <2>2, <2>3, <2>4, <3>2
    <3> QED
      BY <3>1, <3>2
  <2> QED
    BY <2>5, <2>6
\* Fewer are newer than an unread message than are unread.
<1>18. ASSUME NEW n \in 0 .. top, NEW i \in 1 .. Len(f[n]), IsUnread(f[n][i])
       PROVE  fewer[n][i] < Cardinality(UnreadOn(f, top)) /\ fewer[n][i] \in Nat /\ Cardinality(UnreadOn(f, top)) \in Nat
  <2>1. PICK U : U = UnreadOn(f, top)
    OBVIOUS
  <2>2. PICK A : A = newer(<<n, i>>)
    OBVIOUS
  <2>3. fewer[n][i] = Cardinality(A)
    BY <1>16, <2>2
  <2>4. IsFiniteSet(U)
    <3>1. IsFiniteSet(Slots(f, top))
      BY <1>5, <1>14, SlotsFinite
    <3> QED
      BY <2>1, <3>1, FS_Subset DEF UnreadOn
  <2>5. <<n, i>> \in U
    <3>1. PICK p : p = <<n, i>>
      OBVIOUS
    <3>2. p \in Slots(f, top) /\ p[1] = n /\ p[2] = i
      BY <3>1, InSlots
    <3> QED
      BY <1>18, <2>1, <3>1, <3>2 DEF UnreadOn
  <2>6. A \subseteq U /\ <<n, i>> \notin A
    <3>1. ASSUME NEW q \in A PROVE q \in U /\ q # <<n, i>>
      <4>1. q \in Slots(f, top) /\ unread(q[1], q[2]) /\ (q[1] > n \/ (q[1] = n /\ q[2] > i))
        BY <1>15, <2>2
      <4>2. PICK m \in 0 .. top : \E j \in 1 .. Len(f[m]) : q = <<m, j>>
        BY <4>1, InSlots
      <4>3. PICK j \in 1 .. Len(f[m]) : q = <<m, j>>
        BY <4>2
      <4>4. C!OnPage(m) = f[m] /\ q[1] = m /\ q[2] = j
        BY <1>5, <4>3
      <4>5. IsUnread(f[q[1]][q[2]])
        BY <4>1, <4>4 DEF IsUnread
      <4>6. q # <<n, i>>
        <5>1. n \in Int /\ i \in Int /\ m \in Int /\ j \in Int /\ (m > n \/ (m = n /\ j > i))
          BY <4>1, <4>4
        <5> QED
          BY <4>3, <5>1
      <4> QED
        BY <2>1, <4>1, <4>5, <4>6 DEF UnreadOn
    <3> QED
      BY <3>1
  <2>7. Cardinality(A) <= Cardinality(U) /\ Cardinality(A) # Cardinality(U) /\ IsFiniteSet(A)
    BY <2>4, <2>5, <2>6, FS_Subset
  <2>8. Cardinality(A) \in Nat /\ Cardinality(U) \in Nat
    BY <2>4, <2>7, FS_CardinalityType
  <2> QED
    BY <2>1, <2>3, <2>7, <2>8
<1> HIDE DEF unread, places, newer, read
<1>19. ASSUME NEW n \in 0 .. top PROVE Len(g[n]) = Len(f[n]) /\ DOMAIN g[n] = 1 .. Len(f[n])
  <2>1. PICK s : s = g[n]
    OBVIOUS
  <2>2. PICK l \in Nat : l = Len(f[n])
    BY <1>14
  <2>3. DOMAIN s = 1 .. l
    BY <1>17, <2>1, <2>2
  <2>4. s = [i \in 1 .. l |-> s[i]]
    BY <1>17, <2>1, <2>2
  <2>5. Len(s) = l
    BY <2>2, <2>4
  <2> QED
    BY <2>1, <2>2, <2>3, <2>5
<1>20. ASSUME NEW n \in 0 .. top, NEW i \in 1 .. Len(f[n])
       PROVE  /\ Same(g[n][i], f[n][i]) /\ (IsUnread(g[n][i]) => IsUnread(f[n][i]))
              /\ IsUnread(f[n][i]) /\ fewer[n][i] < meta.unread => ~IsUnread(g[n][i])
              /\ g[n][i].status = "pending" => g[n][i] = f[n][i]
  <2>1. GoodMsg(f[n][i], owned)
    BY <1>5 DEF GoodPage
  <2>2. PICK b : b = f[n][i]
    OBVIOUS
  <2>3. b \in Msgs /\ (Uncounted \/ (b.from = "peer" => b.status \in {"delivered", "read"})) /\ b.editor \in {"none", b.from}
    BY <2>1, <2>2 DEF GoodMsg, Sent
  <2>4. CASE IsUnread(b) /\ fewer[n][i] < meta.unread
    <3>1. PICK c : c = [b EXCEPT !.status = "read"]
      OBVIOUS
    <3>2. g[n][i] = c
      BY <1>17, <2>2, <2>4, <3>1
    <3>3. c \in Msgs /\ c.status = "read" /\ c.id = b.id /\ c.from = b.from /\ c.ts = b.ts /\ c.index = b.index /\ c.editor = b.editor
      BY <2>3, <3>1 DEF Msgs, C!Statuses
    <3>4. Same(c, b) /\ ~IsUnread(c) /\ c.status # "pending"
      BY <2>3, <3>3 DEF Same, IsUnread
    <3> QED
      BY <2>2, <3>2, <3>4
  <2>5. CASE ~(IsUnread(b) /\ fewer[n][i] < meta.unread)
    <3>1. g[n][i] = b
      BY <1>17, <2>2, <2>5
    <3>2. Same(b, b)
      BY <2>3 DEF Same
    <3> QED
      BY <2>2, <2>5, <3>1, <3>2
  <2> QED
    BY <2>4, <2>5
<1>21. ASSUME NEW n \in 0 .. top PROVE g[n] \in Seq(Msgs) /\ (f[n] = <<>> => g[n] = <<>>)
  <2>1. PICK l \in Nat : l = Len(f[n])
    BY <1>14
  <2>2. PICK s : s = g[n]
    OBVIOUS
  <2>3. DOMAIN s = 1 .. l /\ s = [i \in DOMAIN s |-> s[i]] /\ \A i \in 1 .. l : s[i] \in Msgs
    BY <1>17, <1>19, <1>20, <2>1, <2>2 DEF Same
  <2>4. s \in Seq(Msgs) /\ Len(s) = l
    BY <2>1, <2>3
  <2>5. l = 0 => s = <<>>
    BY <2>4
  <2> QED
    BY <2>1, <2>2, <2>4, <2>5
<1>22. Makes(todo, v, top, g, <<done>>) /\ todo # <<>>
  <2>1. Orders(C!Descending(top), top)
    BY <1>5, BothOrders
  <2>2. \A n \in 0 .. top : v.page[n] = <<>> => g[n] = <<>>
    BY <1>4, <1>21
  <2>3. \A n \in 0 .. top : g[n] \in Seq(Msgs)
    BY <1>21
  <2> QED
    BY <1>0, <1>2, <1>3, <1>11, <1>13, <2>1, <2>2, <2>3, ChangedMakes
<1>23. PICK h : h = [n \in 0 .. top |-> [i \in 1 .. Len(f[n]) |-> i]]
  OBVIOUS
<1>24. Comes(v, g, h, removed')
  <2> SUFFICES ASSUME NEW n \in 0 .. top
               PROVE  /\ g[n] \in Seq(Msgs)
                      /\ \A i \in 1 .. Len(g[n]) : h[n][i] \in 1 .. Len(v.page[n]) /\ Same(g[n][i], v.page[n][h[n][i]])
                      /\ \A i, j \in 1 .. Len(g[n]) : h[n][i] = h[n][j] => i = j
                      /\ Ids(v.page[n]) \ Ids(g[n]) \subseteq removed'
    BY <1>3 DEF Comes
  <2>1. \A i \in 1 .. Len(f[n]) : h[n][i] = i /\ g[n][i].id = f[n][i].id
    BY <1>20, <1>23 DEF Same
  <2>2. Ids(f[n]) = Ids(g[n])
    BY <1>19, <2>1 DEF Ids
  <2> QED
    BY <1>4, <1>19, <1>20, <1>21, <2>1, <2>2
<1>25. ASSUME faults = 0 PROVE Counts(g, top, <<done>>) /\ PendingOn(g, top, "done", 0)
  <2>1. Counted(v)
    BY <1>0, <1>1, <1>2, <1>25, NothingAhead DEF ConversationInv, Faultless, Begins
  <2>2. Slots(g, top) = Slots(f, top)
    BY <1>19 DEF Slots
  <2>3. Places(v) = Slots(f, top) /\ \A p : At(v, p) = f[p[1]][p[2]]
    BY <1>3, <1>4 DEF Places, At
  <2>4. meta.total = Cardinality(Slots(f, top)) /\ (Uncounted \/ Cardinality(UnreadOn(f, top)) <= meta.unread)
        /\ \A p \in Slots(f, top) : f[p[1]][p[2]].ts >= meta.oldest
    <3>1. UnreadPlaces(v) = UnreadOn(f, top)
      BY <2>3 DEF UnreadPlaces, UnreadOn
    <3> QED
      BY <1>7, <2>1, <2>3, <3>1 DEF Counted
  <2>5. ASSUME NEW p \in Slots(g, top) PROVE (Uncounted \/ ~IsUnread(g[p[1]][p[2]])) /\ g[p[1]][p[2]].ts >= meta.oldest
    <3>1. PICK n \in 0 .. top : \E i \in 1 .. Len(f[n]) : p = <<n, i>>
      BY <2>2, InSlots
    <3>2. PICK i \in 1 .. Len(f[n]) : p = <<n, i>>
      BY <3>1
    <3>3. p[1] = n /\ p[2] = i
      BY <3>2
    <3>4. g[n][i].ts >= meta.oldest
      BY <1>20, <2>2, <2>4, <3>3 DEF Same
    <3>5. Uncounted \/ ~IsUnread(g[n][i])
      <4>1. CASE ~IsUnread(f[n][i])
        BY <1>20, <4>1
      <4>2. CASE IsUnread(f[n][i])
        <5>1. fewer[n][i] < Cardinality(UnreadOn(f, top)) /\ fewer[n][i] \in Nat /\ Cardinality(UnreadOn(f, top)) \in Nat /\ meta.unread \in Nat
          BY <1>7, <1>18, <4>2 DEF Metas
        <5>2. Uncounted \/ fewer[n][i] < meta.unread
          BY <2>4, <5>1
        <5> QED
          BY <1>20, <4>2, <5>2
      <4> QED
        BY <4>1, <4>2
    <3> QED
      BY <3>3, <3>4, <3>5
  <2>6. Uncounted \/ {p \in Slots(g, top) : IsUnread(g[p[1]][p[2]])} = {}
    BY <2>5
  <2>7. PICK mt : mt = <<done>>
    OBVIOUS
  <2>8. mt[1] = done
    BY <2>7
  <2>9. mt[1].total = Cardinality(Slots(g, top)) /\ Cardinality({}) = 0 /\ Cardinality({}) <= mt[1].unread
    BY <1>11, <2>2, <2>4, <2>8, FS_EmptySet
  <2>10. Counts(g, top, mt)
    BY <1>11, <2>5, <2>6, <2>8, <2>9 DEF Counts
  <2>11. ASSUME NEW n \in 0 .. top, NEW i \in 1 .. Len(g[n]) PROVE ~(Sent(g[n][i]) /\ g[n][i].status = "pending")
    <3>1. i \in 1 .. Len(f[n]) /\ <<n, i>> \in Places(v) /\ At(v, <<n, i>>) = f[n][i]
      BY <1>19, <2>3, InSlots
    <3>2. g[n][i].status = "pending" => g[n][i] = f[n][i]
      BY <1>20, <3>1
    <3> QED
      BY <1>2, <1>25, <3>1, <3>2, IdleIsSent
  <2> QED
    BY <2>7, <2>10, <2>11 DEF PendingOn, Sent
<1>26. PICK mt \in Options(Metas) : mt = <<done>>
  BY <1>11, OptionHas
<1>27. mt # <<>> /\ mt[1] = done /\ mt[1].latest = Top(v) /\ mt[1].index = v.meta[1].index
  BY <1>3, <1>7, <1>11, <1>26
<1> QED
  BY <1>0, <1>1, <1>2, <1>3, <1>12, <1>22, <1>24, <1>25, <1>26, <1>27, TrimStep

\* What expired goes, and the metadata counts what is left.
LEMMA PruneStep ==
    ASSUME ConversationInv, op = C!Idle, C!load_metadata # <<>>, NEW todo, todo = C!prune_older_than(C!Cutoff), todo # <<>>,
           Begins(todo, "done", 0), owned' = owned,
           \A n \in 0 .. C!LatestPage : \A i \in 1 .. Len(C!OnPage(n)) : C!OnPage(n)[i].ts < C!Cutoff => C!OnPage(n)[i].id \in removed'
    PROVE  ConversationInv'
<1>0. RestTyped /\ StoreTyped /\ owned \in Nat
  BY DEF ConversationInv, Kept, RestTyped
<1>2. PICK v : v = ViewNow
  OBVIOUS
<1>3. PICK top : top = Top(v)
  OBVIOUS
<1>4. PICK f : f = v.page
  OBVIOUS
<1>5. /\ top \in Nat /\ 0 .. top \subseteq C!Pages /\ v.meta \in Options(Metas) /\ top \in C!Pages /\ C!load_metadata = v.meta /\ C!LatestPage = top
      /\ \A n \in C!Pages : GoodPage(n, f[n], owned) /\ C!OnPage(n) = f[n]
  BY <1>0, <1>2, <1>3, <1>4, ViewIs, ConversationsAssumption DEF C!Pages
<1> DEFINE meta == C!load_metadata[1]
<1>6. meta = C!load_metadata[1]
  OBVIOUS
<1>7. meta \in Metas /\ meta.latest = top /\ v.meta # <<>> /\ v.meta[1] = meta
  BY <1>3, <1>5, <1>6, OptionIs DEF Top
<1> DEFINE Left(n) == {i \in 1 .. Len(C!OnPage(n)) : C!OnPage(n)[i].ts >= C!Cutoff}
           left == [n \in 0 .. meta.latest |-> C!Picked(C!OnPage(n), Left(n))]
           away == UNION {{<<n, i>> : i \in (1 .. Len(C!OnPage(n))) \ Left(n)} : n \in 0 .. meta.latest}
           times == UNION {{left[n][i].ts : i \in 1 .. Len(left[n])} : n \in 0 .. meta.latest}
<1>8. PICK D : D = away
  OBVIOUS
<1>9. PICK g : g = left
  OBVIOUS
<1>10. PICK T : T = times
  OBVIOUS
<1>11. PICK new : new = [meta EXCEPT !.total = IF @ > Cardinality(D) THEN @ - Cardinality(D) ELSE 0, !.oldest = C!MinTime(T)]
  OBVIOUS
<1>12. todo = C!Changed(C!Ascending(meta.latest), g) \o <<C!save_metadata(new)>>
  <2>1. PICK V : V = C!Changed(C!Ascending(meta.latest), left)
                       \o <<C!save_metadata([meta EXCEPT !.total = IF @ > Cardinality(away) THEN @ - Cardinality(away) ELSE 0,
                                                         !.oldest = C!MinTime(times)])>>
    OBVIOUS
  <2>2. todo \in {<<>>, V}
    <3>1. \/ C!prune_older_than(C!Cutoff) = <<>>
          \/ C!prune_older_than(C!Cutoff) = C!Changed(C!Ascending(meta.latest), left)
                       \o <<C!save_metadata([meta EXCEPT !.total = IF @ > Cardinality(away) THEN @ - Cardinality(away) ELSE 0,
                                                         !.oldest = C!MinTime(times)])>>
      BY Zenon DEF C!prune_older_than, C!Cardinality, Cardinality
    <3> QED
      BY <2>1, <3>1
  <2> HIDE DEF Left, left, away, times
  <2>3. todo = V
    BY <2>2
  <2> QED
    BY <1>8, <1>9, <1>10, <1>11, <2>1, <2>3
<1>13. \A n \in 0 .. top : f[n] \in Seq(Msgs) /\ Len(f[n]) \in Nat
  BY <1>5 DEF GoodPage
<1>14. PICK K : K = [n \in 0 .. top |-> {i \in 1 .. Len(f[n]) : f[n][i].ts >= C!Cutoff}]
  OBVIOUS
<1>15. ASSUME NEW n \in 0 .. top PROVE K[n] \subseteq 1 .. Len(f[n]) /\ g[n] = C!Picked(f[n], K[n])
  <2>1. C!OnPage(n) = f[n]
    BY <1>5
  <2>2. Left(n) = K[n]
    BY <1>14, <2>1
  <2>3. g[n] = C!Picked(C!OnPage(n), Left(n))
    BY <1>7, <1>9
  <2> QED
    BY <1>14, <2>1, <2>2, <2>3
<1>16. \A p : p \in D <=> \E n \in 0 .. top : \E i \in 1 .. Len(f[n]) : i \notin K[n] /\ p = <<n, i>>
  <2>1. \A n \in 0 .. top : C!OnPage(n) = f[n] /\ Left(n) = K[n]
    BY <1>5, <1>14
  <2>2. D = UNION {{<<n, i>> : i \in (1 .. Len(f[n])) \ K[n]} : n \in 0 .. top}
    BY <1>7, <1>8, <2>1
  <2> QED
    BY <2>2
<1>17. T = UNION {{g[n][i].ts : i \in 1 .. Len(g[n])} : n \in 0 .. top}
  BY <1>7, <1>9, <1>10
<1> HIDE DEF Left, left, away, times, meta
<1>18. PICK h : h = [n \in 0 .. top |-> CHOOSE nth : \E N : Picks(f[n], K[n], N, nth)]
  OBVIOUS
<1>19. ASSUME NEW n \in 0 .. top
       PROVE  /\ Len(g[n]) \in Nat /\ g[n] \in Seq(Msgs)
              /\ \A i \in 1 .. Len(g[n]) : h[n][i] \in K[n] /\ g[n][i] = f[n][h[n][i]] /\ h[n][i] \in 1 .. Len(f[n])
              /\ \A i, j \in 1 .. Len(g[n]) : h[n][i] = h[n][j] => i = j
              /\ \A j \in K[n] : \E i \in 1 .. Len(g[n]) : h[n][i] = j
  <2>1. Len(f[n]) \in Nat /\ f[n] \in Seq(Msgs)
    BY <1>13
  <2>2. \E N, nth : Picks(f[n], K[n], N, nth)
    BY <1>15, <2>1, PickedIs
  <2>3. PICK N : Picks(f[n], K[n], N, h[n])
    BY <1>18, <2>2
  <2>4. PICK e : e = h[n]
    OBVIOUS
  <2>5. PICK s : s = g[n]
    OBVIOUS
  <2>6. N \in Nat /\ e \in [1 .. N -> K[n]] /\ (\A j, k \in 1 .. N : e[j] = e[k] => j = k)
        /\ (\A i \in K[n] : \E k \in 1 .. N : e[k] = i) /\ s = [k \in 1 .. N |-> f[n][e[k]]]
    BY <1>15, <2>3, <2>4, <2>5 DEF Picks
  <2>7. \A k \in 1 .. N : e[k] \in K[n] /\ e[k] \in 1 .. Len(f[n])
    BY <1>15, <2>6
  <2>8. Len(s) = N
    BY <2>6
  <2>9. \A k \in 1 .. N : f[n][e[k]] \in Msgs
    BY <2>1, <2>7
  <2>10. s \in Seq(Msgs)
    BY <2>6, <2>9
  <2>11. \A i \in 1 .. N : e[i] \in K[n] /\ s[i] = f[n][e[i]] /\ e[i] \in 1 .. Len(f[n])
    BY <2>6, <2>7
  <2> QED
    BY <2>4, <2>5, <2>6, <2>8, <2>10, <2>11, Zenon
<1>20. Maps(f, g, h, top)
  BY <1>13, <1>19 DEF Maps
<1>21. Reads(f, g, h, top)
  BY <1>19 DEF Reads
<1>22. Misses(f, g, h, top, D)
  <2>1. D \subseteq Slots(f, top)
    BY <1>16, InSlots
  <2>2. ASSUME NEW n \in 0 .. top, NEW i \in 1 .. Len(g[n]), <<n, h[n][i]>> \in D PROVE FALSE
    <3>1. PICK m \in 0 .. top : \E j \in 1 .. Len(f[m]) : j \notin K[m] /\ <<n, h[n][i]>> = <<m, j>>
      BY <1>16, <2>2
    <3>2. h[n][i] \notin K[n]
      BY <3>1
    <3> QED
      BY <1>19, <3>2
  <2>3. ASSUME NEW n \in 0 .. top, NEW j \in 1 .. Len(f[n]), <<n, j>> \notin D PROVE \E i \in 1 .. Len(g[n]) : h[n][i] = j
    <3>1. j \in K[n]
      BY <1>16, <2>3
    <3> QED
      BY <1>19, <3>1
  <2> QED
    BY <2>1, <2>2, <2>3 DEF Misses
<1>23. PICK d \in Nat : d = Cardinality(D)
  BY <1>5, <1>20, <1>22, SlotsKept
<1>24. T \subseteq Nat
  <2>1. ASSUME NEW n \in 0 .. top, NEW i \in 1 .. Len(g[n]) PROVE g[n][i].ts \in Nat
    <3>1. PICK m : m = g[n][i]
      OBVIOUS
    <3>2. g[n] \in Seq(Msgs)
      BY <1>19
    <3>3. m \in Msgs
      BY <3>1, <3>2
    <3>4. m.ts \in Nat
      BY <3>3 DEF Msgs
    <3> QED
      BY <3>1, <3>4
  <2> QED
    BY <1>17, <2>1
<1>25. C!MinTime(T) \in Nat /\ \A t \in T : C!MinTime(T) <= t
  <2>1. CASE T = {}
    BY <2>1 DEF C!MinTime
  <2>2. CASE T # {}
    <3>1. \E t \in T : \A u \in T : t <= u
      BY <1>24, <2>2, LeastNumber
    <3>2. C!MinTime(T) = CHOOSE t \in T : \A u \in T : t <= u
      BY <2>2 DEF C!MinTime
    <3>3. C!MinTime(T) \in T /\ \A u \in T : C!MinTime(T) <= u
      BY <3>1, <3>2
    <3> QED
      BY <1>24, <3>3
  <2> QED
    BY <2>1, <2>2
<1>26. /\ new \in Metas /\ new.total = (IF meta.total > d THEN meta.total - d ELSE 0) /\ new.oldest = C!MinTime(T)
       /\ new.unread = meta.unread /\ new.latest = top /\ new.index = meta.index /\ meta.total \in Nat
  <2>1. meta.total \in Nat
    BY <1>7 DEF Metas
  <2>2. PICK total \in Nat : total = IF meta.total > d THEN meta.total - d ELSE 0
    BY <1>23, <2>1
  <2>3. new = [meta EXCEPT !.total = total, !.oldest = C!MinTime(T)]
    BY <1>11, <1>23, <2>2
  <2> QED
    BY <1>7, <1>25, <2>1, <2>2, <2>3 DEF Metas
<1>27. Makes(todo, v, top, g, <<new>>)
  <2>1. Orders(C!Ascending(top), top)
    BY <1>5, BothOrders
  <2>2. ASSUME NEW n \in 0 .. top, v.page[n] = <<>> PROVE g[n] = <<>>
    <3>1. Len(f[n]) = 0
      BY <1>4, <2>2
    <3>2. 1 .. Len(f[n]) = {}
      BY <3>1
    <3>3. \A i \in 1 .. Len(g[n]) : FALSE
      BY <1>19, <3>2
    <3>4. Len(g[n]) = 0 /\ g[n] \in Seq(Msgs)
      BY <1>19, <3>3
    <3> QED
      BY <3>4
  <2>3. \A n \in 0 .. top : g[n] \in Seq(Msgs)
    BY <1>19
  <2>4. todo = C!Changed(C!Ascending(top), g) \o <<C!save_metadata(new)>>
    BY <1>7, <1>12
  <2> QED
    BY <1>0, <1>2, <1>3, <1>26, <2>1, <2>2, <2>3, <2>4, ChangedMakes
<1>28. Comes(v, g, h, removed')
  <2> SUFFICES ASSUME NEW n \in 0 .. top
               PROVE  /\ g[n] \in Seq(Msgs)
                      /\ \A i \in 1 .. Len(g[n]) : h[n][i] \in 1 .. Len(v.page[n]) /\ Same(g[n][i], v.page[n][h[n][i]])
                      /\ \A i, j \in 1 .. Len(g[n]) : h[n][i] = h[n][j] => i = j
                      /\ Ids(v.page[n]) \ Ids(g[n]) \subseteq removed'
    BY <1>3 DEF Comes
  <2>1. ASSUME NEW i \in 1 .. Len(g[n]) PROVE Same(g[n][i], f[n][h[n][i]])
    <3>1. GoodMsg(f[n][h[n][i]], owned)
      BY <1>5, <1>19 DEF GoodPage
    <3> QED
      BY <1>19, <3>1 DEF Same, GoodMsg, Sent
  <2>2. ASSUME NEW y \in Ids(f[n]), y \notin Ids(g[n]) PROVE y \in removed'
    <3>1. PICK j \in 1 .. Len(f[n]) : y = f[n][j].id
      BY DEF Ids
    <3>2. j \notin K[n]
      <4> SUFFICES ASSUME j \in K[n] PROVE FALSE
        OBVIOUS
      <4>1. PICK i \in 1 .. Len(g[n]) : h[n][i] = j
        BY <1>19
      <4>2. g[n][i].id = y
        BY <1>19, <3>1, <4>1
      <4> QED
        BY <2>2, <4>2 DEF Ids
    <3>7. PICK m : m = f[n][j]
      OBVIOUS
    <3>6. m \in Msgs
      BY <1>13, <3>7
    <3>8. m.ts \in Nat
      BY <3>6 DEF Msgs
    <3>9. ~(f[n][j].ts >= C!Cutoff)
      BY <1>14, <3>2
    <3>3. ~(f[n][j].ts >= C!Cutoff) /\ f[n][j].ts \in Nat /\ C!Cutoff \in Nat
      BY <3>7, <3>8, <3>9 DEF C!Cutoff
    <3>4. f[n][j].ts < C!Cutoff
      BY <3>3
    <3>5. C!OnPage(n) = f[n] /\ n \in 0 .. C!LatestPage
      BY <1>5
    <3> QED
      BY <3>1, <3>4, <3>5
  <2> QED
    BY <1>4, <1>19, <2>1, <2>2
<1>29. ASSUME faults = 0 PROVE Counts(g, top, <<new>>) /\ PendingOn(g, top, "done", 0)
  <2>1. Counted(v)
    BY <1>0, <1>2, <1>29, NothingAhead DEF ConversationInv, Faultless, Begins
  <2>2. PICK mt : mt = <<new>>
    OBVIOUS
  <2>3. mt[1] = new
    BY <2>2
  <2>4. mt[1].total = v.meta[1].total - Cardinality(D)
    <3>1. Cardinality(Slots(g, top)) \in Nat /\ Cardinality(Slots(g, top)) = Cardinality(Slots(f, top)) - Cardinality(D)
      BY <1>5, <1>20, <1>22, SlotsKept
    <3>2. meta.total = Cardinality(Slots(f, top))
      BY <1>3, <1>4, <1>7, <2>1 DEF Counted, Places
    <3> QED
      BY <1>7, <1>23, <1>26, <2>3, <3>1, <3>2
  <2>5. ASSUME NEW p \in Slots(g, top) PROVE g[p[1]][p[2]].ts >= mt[1].oldest
    <3>0. PICK n \in 0 .. top : \E i \in 1 .. Len(g[n]) : p = <<n, i>>
      BY InSlots
    <3>1. PICK i \in 1 .. Len(g[n]) : p = <<n, i>>
      BY <3>0
    <3>2. g[n][i].ts \in T
      BY <1>17
    <3>3. C!MinTime(T) <= g[n][i].ts /\ C!MinTime(T) \in Nat /\ g[n][i].ts \in Nat
      BY <1>24, <1>25, <3>2
    <3> QED
      BY <1>26, <2>3, <3>1, <3>3
  <2>6. mt[1].unread = v.meta[1].unread
    BY <1>7, <1>26, <2>3
  <2>7. Counts(g, top, mt)
    BY <1>3, <1>4, <1>5, <1>7, <1>20, <1>21, <1>22, <2>1, <2>4, <2>5, <2>6, TrimCounts
  <2>8. ASSUME NEW n \in 0 .. top, NEW i \in 1 .. Len(g[n]) PROVE ~(Sent(g[n][i]) /\ g[n][i].status = "pending")
    <3>1. <<n, h[n][i]>> \in Places(v) /\ At(v, <<n, h[n][i]>>) = f[n][h[n][i]]
      BY <1>3, <1>4, <1>19, InSlots DEF Places, At
    <3> QED
      BY <1>2, <1>19, <1>29, <3>1, IdleIsSent
  <2> QED
    BY <2>2, <2>7, <2>8 DEF PendingOn, Sent
<1>30. PICK mt \in Options(Metas) : mt = <<new>>
  BY <1>26, OptionHas
<1>31. mt # <<>> /\ mt[1] = new /\ mt[1].latest = Top(v) /\ mt[1].index = v.meta[1].index
  BY <1>3, <1>7, <1>26, <1>30
<1> QED
  BY <1>2, <1>3, <1>27, <1>28, <1>29, <1>30, <1>31, TrimStep

\* The sweep writes what is left when the oldest message has expired.
LEMMA SweptKeeps == ASSUME ConversationInv, op = C!Idle, C!Sweep PROVE ConversationInv'
<1>1. PICK todo : todo = IF C!load_metadata # <<>> THEN C!prune_older_than(C!Cutoff) ELSE <<>>
  OBVIOUS
<1>2. /\ C!lock("done", todo, 0)
      /\ removed' = IF todo = <<>> THEN removed
                    ELSE removed \cup UNION {{C!OnPage(n)[i].id : i \in {j \in 1 .. Len(C!OnPage(n)) : C!OnPage(n)[j].ts < C!Cutoff}}
                                             : n \in 0 .. C!LatestPage}
      /\ UNCHANGED <<C!store, C!told, C!counters>>
  BY <1>1 DEF C!Sweep
<1>3. RestTyped /\ removed \subseteq removed' /\ UNCHANGED <<C!store, C!told, faults>> /\ owned' = owned /\ 0 \in Nat
  BY <1>2 DEF ConversationInv, Kept, C!counters
<1>4. Begins(todo, "done", 0)
  BY <1>2, <1>3, LockBegins
<1>5. CASE todo = <<>>
  <2>1. Begins(<<>>, "done", 0)
    BY <1>4, <1>5
  <2>2. faults = 0 => PendingIsSent(ViewNow, "done", 0)
    BY IdleIsSent DEF PendingIsSent, Sent
  <2> QED
    BY <1>3, <2>1, <2>2, NoWrites
<1>6. CASE todo # <<>>
  <2>1. todo = C!prune_older_than(C!Cutoff) /\ C!load_metadata # <<>>
    BY <1>1, <1>6
  <2>2. \A n \in 0 .. C!LatestPage : \A i \in 1 .. Len(C!OnPage(n)) : C!OnPage(n)[i].ts < C!Cutoff => C!OnPage(n)[i].id \in removed'
    BY <1>2, <1>6
  <2> QED
    BY <1>3, <1>4, <1>6, <2>1, <2>2, PruneStep
<1> QED
  BY <1>5, <1>6

-----------------------------------------------------------------------------
(* One message more. *)

\* A message placed on a page by its time: what was there before it and after it stays.
LEMMA PlaceIs ==
    ASSUME NEW page \in Seq(Msgs), NEW m \in Msgs
    PROVE  \E pos, e : Placed(page, m, C!place(page, m), pos, e)
<1>0. Len(page) \in Nat
  OBVIOUS
<1>1. PICK B : B = {i \in 1 .. Len(page) : page[i].ts <= m.ts}
  OBVIOUS
<1>2. PICK mine : mine = (1 .. Len(page)) \ B
  OBVIOUS
<1>3. B \subseteq 1 .. Len(page) /\ mine \subseteq 1 .. Len(page)
  BY <1>1, <1>2
<1>4. PICK N, a : Picks(page, B, N, a)
  BY <1>0, <1>3, PickedIs
<1>5. PICK M, b : Picks(page, mine, M, b)
  BY <1>0, <1>3, PickedIs
<1>6. PICK s : s = C!Picked(page, B)
  OBVIOUS
<1>7. PICK t : t = C!Picked(page, mine)
  OBVIOUS
<1>8. C!place(page, m) = s \o <<m>> \o t
  BY <1>1, <1>2, <1>6, <1>7 DEF C!place
<1>9. N \in Nat /\ a \in [1 .. N -> B] /\ s = [k \in 1 .. N |-> page[a[k]]]
      /\ (\A j, k \in 1 .. N : a[j] = a[k] => j = k) /\ (\A i \in B : \E k \in 1 .. N : a[k] = i)
  BY <1>4, <1>6 DEF Picks
<1>10. M \in Nat /\ b \in [1 .. M -> mine] /\ t = [k \in 1 .. M |-> page[b[k]]]
      /\ (\A j, k \in 1 .. M : b[j] = b[k] => j = k) /\ (\A i \in mine : \E k \in 1 .. M : b[k] = i)
  BY <1>5, <1>7 DEF Picks
<1>11. s \in Seq(Msgs) /\ Len(s) = N
  <2>0. \A k \in 1 .. N : a[k] \in 1 .. Len(page)
    BY <1>3, <1>9
  <2>1. \A k \in 1 .. N : page[a[k]] \in Msgs
    BY <2>0
  <2> QED
    BY <1>9, <2>1
<1>12. t \in Seq(Msgs) /\ Len(t) = M
  <2>0. \A k \in 1 .. M : b[k] \in 1 .. Len(page)
    BY <1>3, <1>10
  <2>1. \A k \in 1 .. M : page[b[k]] \in Msgs
    BY <2>0
  <2> QED
    BY <1>10, <2>1
<1>13. PICK q : q = s \o <<m>> \o t
  OBVIOUS
<1>14. q \in Seq(Msgs) /\ Len(q) = N + 1 + M /\ q[N + 1] = m
  BY <1>9, <1>10, <1>11, <1>12, <1>13
<1>15. \A k \in 1 .. N : q[k] = s[k] /\ k \in 1 .. Len(q) /\ k # N + 1
  BY <1>9, <1>10, <1>11, <1>12, <1>13, <1>14
<1>16. \A k \in 1 .. M : q[N + 1 + k] = t[k] /\ N + 1 + k \in 1 .. Len(q) /\ N + 1 + k # N + 1 /\ N + 1 + k \notin 1 .. N
  BY <1>9, <1>10, <1>11, <1>12, <1>13, <1>14
<1>17. PICK x : x = [j \in B |-> CHOOSE k \in 1 .. N : a[k] = j]
  OBVIOUS
<1>18. \A j \in B : x[j] \in 1 .. N /\ a[x[j]] = j
  BY <1>9, <1>17
<1>19. PICK y : y = [j \in mine |-> CHOOSE k \in 1 .. M : b[k] = j]
  OBVIOUS
<1>20. \A j \in mine : y[j] \in 1 .. M /\ b[y[j]] = j
  BY <1>10, <1>19
<1>21. PICK e : e = [j \in 1 .. Len(page) |-> IF j \in B THEN x[j] ELSE N + 1 + y[j]]
  OBVIOUS
<1>22. \A j \in B : e[j] = x[j]
  BY <1>3, <1>21
<1>23. \A j \in mine : e[j] = N + 1 + y[j]
  BY <1>2, <1>21
<1>24. \A j \in 1 .. Len(page) : j \in B \/ j \in mine
  BY <1>2
<1>25. ASSUME NEW j \in 1 .. Len(page) PROVE e[j] \in 1 .. Len(q) /\ e[j] # N + 1 /\ q[e[j]] = page[j]
  <2>1. CASE j \in B
    BY <1>9, <1>15, <1>18, <1>22, <2>1
  <2>2. CASE j \in mine
    BY <1>10, <1>16, <1>20, <1>23, <2>2
  <2> QED
    BY <1>24, <2>1, <2>2
<1>26. ASSUME NEW j \in 1 .. Len(page), NEW k \in 1 .. Len(page), e[j] = e[k] PROVE j = k
  <2>1. \A i \in B : e[i] \in 1 .. N
    BY <1>18, <1>22
  <2>2. \A i \in mine : e[i] \notin 1 .. N /\ y[i] \in Int
    BY <1>16, <1>20, <1>23
  <2>3. CASE j \in B /\ k \in B
    BY <1>18, <1>22, <1>26, <2>3
  <2>4. CASE j \in mine /\ k \in mine
    <3>1. N + 1 + y[j] = N + 1 + y[k]
      BY <1>23, <1>26, <2>4
    <3>2. y[j] = y[k]
      BY <1>9, <2>2, <2>4, <3>1
    <3> QED
      BY <1>20, <2>4, <3>2
  <2> QED
    BY <1>24, <1>26, <2>1, <2>2, <2>3, <2>4
<1>27. ASSUME NEW i \in 1 .. Len(q), i # N + 1 PROVE \E j \in 1 .. Len(page) : e[j] = i
  <2>1. CASE i \in 1 .. N
    <3>1. a[i] \in B /\ a[i] \in 1 .. Len(page)
      BY <1>3, <1>9, <2>1
    <3>2. x[a[i]] = i
      BY <1>9, <1>18, <2>1, <3>1
    <3> QED
      BY <1>22, <3>1, <3>2
  <2>2. CASE i \notin 1 .. N
    <3>1. PICK k \in 1 .. M : i = N + 1 + k
      <4>1. i - (N + 1) \in 1 .. M /\ i = N + 1 + (i - (N + 1))
        BY <1>9, <1>10, <1>14, <1>27, <2>2
      <4> QED
        BY <4>1
    <3>2. b[k] \in mine /\ b[k] \in 1 .. Len(page)
      BY <1>3, <1>10
    <3>3. y[b[k]] = k
      BY <1>10, <1>20, <3>2
    <3> QED
      BY <1>23, <3>1, <3>2, <3>3
  <2> QED
    BY <2>1, <2>2
<1>28. N + 1 \in 1 .. Len(q)
  BY <1>9, <1>10, <1>14
<1>29. Placed(page, m, q, N + 1, e)
  BY <1>14, <1>25, <1>26, <1>27, <1>28 DEF Placed
<1> QED
  BY <1>8, <1>13, <1>29

\* The page it is placed on is as good as before.
LEMMA PlaceGood ==
    ASSUME NEW n, NEW own, NEW page, GoodPage(n, page, own), NEW m, GoodMsg(m, own), m.id \notin OldIds, m.id \notin Ids(page),
           NEW q, NEW pos, NEW e, Placed(page, m, q, pos, e)
    PROVE  GoodPage(n, q, own) /\ Ids(q) = Ids(page) \cup {m.id}
<1>1. /\ q \in Seq(Msgs) /\ pos \in 1 .. Len(q) /\ q[pos] = m
      /\ \A j \in 1 .. Len(page) : e[j] \in 1 .. Len(q) /\ e[j] # pos /\ q[e[j]] = page[j]
      /\ \A i \in 1 .. Len(q) : i # pos => \E j \in 1 .. Len(page) : e[j] = i
  BY DEF Placed
<1>2. \A i \in 1 .. Len(q) : i # pos => \E j \in 1 .. Len(page) : e[j] = i /\ q[i] = page[j]
  BY <1>1
<1>3. \A j \in 1 .. Len(page) : page[j].id # m.id /\ page[j].id \in Ids(page)
  BY DEF Ids
<1>4. ASSUME NEW i \in 1 .. Len(q) PROVE GoodMsg(q[i], own) /\ (n # 0 => q[i].id \notin OldIds)
  BY <1>1, <1>2 DEF GoodPage
<1>5. ASSUME NEW i \in 1 .. Len(q), NEW k \in 1 .. Len(q), q[i].id = q[k].id PROVE i = k
  <2>1. CASE i = pos \/ k = pos
    BY <1>1, <1>2, <1>3, <1>5, <2>1
  <2>2. CASE i # pos /\ k # pos
    <3>1. PICK j \in 1 .. Len(page) : e[j] = i /\ q[i] = page[j]
      BY <1>2, <2>2
    <3>2. PICK l \in 1 .. Len(page) : e[l] = k /\ q[k] = page[l]
      BY <1>2, <2>2
    <3>3. j = l
      BY <1>5, <3>1, <3>2 DEF GoodPage
    <3> QED
      BY <3>1, <3>2, <3>3
  <2> QED
    BY <2>1, <2>2
<1>6. Ids(q) = Ids(page) \cup {m.id}
  <2>1. ASSUME NEW x \in Ids(q) PROVE x \in Ids(page) \cup {m.id}
    <3>1. PICK i \in 1 .. Len(q) : x = q[i].id
      BY DEF Ids
    <3> QED
      BY <1>1, <1>2, <1>3, <3>1
  <2>2. ASSUME NEW x \in Ids(page) PROVE x \in Ids(q)
    <3>1. PICK j \in 1 .. Len(page) : x = page[j].id
      BY DEF Ids
    <3> QED
      BY <1>1, <3>1 DEF Ids
  <2>3. m.id \in Ids(q)
    BY <1>1 DEF Ids
  <2> QED
    BY <2>1, <2>2, <2>3
<1> QED
  BY <1>1, <1>4, <1>5, <1>6 DEF GoodPage


\* The metadata an append starts from.
LEMMA CurrentIs ==
    ASSUME StoreTyped, owned \in Nat, NEW v, v = ViewNow, NEW c, c = C!current
    PROVE  /\ c \in Metas /\ c.latest = Top(v) /\ C!NextIndex = c.index + 1
           /\ v.meta = <<>> => c = C!fresh
           /\ v.meta # <<>> => /\ c.total = v.meta[1].total /\ c.oldest = v.meta[1].oldest /\ c.unread = v.meta[1].unread
                               /\ c.index = v.meta[1].index
           /\ \A id : C!already_stored(c, id) <=> \/ id \in Ids(v.page[Top(v)])
                                                  \/ Top(v) > 0 /\ id \in Ids(v.page[Top(v) - 1])
           /\ C!rolls(c) <=> Len(v.page[Top(v)]) >= MESSAGES_PER_PAGE
<1>1. PICK top : top = Top(v)
  OBVIOUS
<1>2. /\ C!load_metadata = v.meta /\ v.meta \in Options(Metas) /\ top \in C!Pages
      /\ \A n \in C!Pages : C!OnPage(n) = v.page[n] /\ C!IdsOn(n) = Ids(v.page[n])
  BY <1>1, ViewIs
<1>3. top \in Nat /\ (top > 0 => top - 1 \in C!Pages) /\ 0 \in C!Pages
  BY <1>2, ConversationsAssumption DEF C!Pages
<1>4. CASE v.meta = <<>>
  <2>1. c = C!fresh
    BY <1>2, <1>4 DEF C!current
  <2>2. c \in Metas /\ c.latest = 0 /\ c.index = 0
    BY <1>3, <2>1 DEF C!fresh, Metas
  <2>3. top = 0 /\ C!NextIndex = 1
    BY <1>1, <1>2, <1>4 DEF Top, C!NextIndex
  <2>4. \A id : C!already_stored(c, id) <=> id \in Ids(v.page[top]) \/ (top > 0 /\ id \in Ids(v.page[top - 1]))
    BY <1>2, <1>3, <2>2, <2>3 DEF C!already_stored
  <2>5. C!rolls(c) <=> Len(v.page[top]) >= MESSAGES_PER_PAGE
    BY <1>2, <1>3, <2>2, <2>3 DEF C!rolls
  <2> QED
    BY <1>1, <1>4, <2>1, <2>2, <2>3, <2>4, <2>5
<1>5. CASE v.meta # <<>>
  <2>1. PICK d : d = v.meta[1]
    OBVIOUS
  <2>2. d \in Metas /\ d.latest = top
    BY <1>1, <1>2, <1>5, <2>1, OptionIs DEF Top
  <2>3. c = [d EXCEPT !.owner = IF @ = "none" THEN "own" ELSE @]
    BY <1>2, <1>5, <2>1 DEF C!current
  <2>4. c \in Metas /\ c.latest = d.latest /\ c.total = d.total /\ c.oldest = d.oldest /\ c.unread = d.unread /\ c.index = d.index
    BY <2>2, <2>3 DEF Metas
  <2>5. C!NextIndex = d.index + 1
    BY <1>2, <1>5, <2>1 DEF C!NextIndex
  <2>6. \A id : C!already_stored(c, id) <=> id \in Ids(v.page[top]) \/ (top > 0 /\ id \in Ids(v.page[top - 1]))
    BY <1>2, <1>3, <2>2, <2>4 DEF C!already_stored
  <2>7. C!rolls(c) <=> Len(v.page[top]) >= MESSAGES_PER_PAGE
    BY <1>2, <1>3, <2>2, <2>4 DEF C!rolls
  <2> QED
    BY <1>1, <1>5, <2>1, <2>2, <2>4, <2>5, <2>6, <2>7
<1> QED
  BY <1>4, <1>5

\* While nothing failed, what will be appended to is counted, even where there is no metadata.
LEMMA CurrentCounts ==
    ASSUME StoreTyped, owned \in Nat, Whole(scoped, legacy), NEW v, v = ViewNow, Counted(v), NEW c, c = C!current
    PROVE  /\ Counts(v.page, Top(v), <<c>>) /\ \A b \in Stock(scoped, legacy) : b.index <= c.index
           /\ v.meta = <<>> => Slots(v.page, Top(v)) = {}
<1>1. /\ c \in Metas /\ c.latest = Top(v) /\ (v.meta = <<>> => c = C!fresh)
      /\ v.meta # <<>> => /\ c.total = v.meta[1].total /\ c.oldest = v.meta[1].oldest /\ c.unread = v.meta[1].unread
                          /\ c.index = v.meta[1].index
  BY CurrentIs
<1>2. v.meta = ShownMeta(scoped, legacy) /\ v = View(scoped, legacy)
  BY DEF ViewNow, View
<1>3. CASE v.meta # <<>>
  <2>1. Counts(v.page, Top(v), v.meta)
    BY DEF Counted, Counts, Places, UnreadPlaces, At
  <2>2. Counts(v.page, Top(v), <<c>>)
    BY <1>1, <1>3, <2>1 DEF Counts
  <2>3. \A b \in Stock(scoped, legacy) : b.index <= c.index
    BY <1>1, <1>2, <1>3 DEF Whole
  <2> QED
    BY <1>3, <2>2, <2>3
<1>4. CASE v.meta = <<>>
  <2>1. Top(v) = 0 /\ 0 \in C!Pages
    BY <1>4, ConversationsAssumption DEF Top, C!Pages
  <2>2. scoped.pages[0] = <<>> /\ legacy.meta = <<>>
    BY <1>2, <1>4 DEF Whole, ShownMeta
  <2>3. legacy.pages[0] = <<>>
    BY <2>2 DEF Whole
  <2>4. \A n \in C!Pages : scoped.pages[n] = <<>> /\ legacy.pages[n] = <<>>
    <3>1. \A n \in C!Pages : n # 0 => n > 0
      BY DEF C!Pages
    <3>2. \A n \in C!Pages : n > 0 => scoped.pages[n] = <<>>
      BY <1>2, <2>1 DEF Whole
    <3>3. \A n \in C!Pages : n # 0 => legacy.pages[n] = <<>>
      BY DEF StoreTyped
    <3> QED
      BY <2>2, <2>3, <3>1, <3>2, <3>3
  <2>5. Stock(scoped, legacy) = {}
    BY <2>4 DEF Stock, Held
  <2>6. v.page[0] = <<>>
    BY <1>2, <2>1, <2>4 DEF View, ShownPage
  <2>7. Slots(v.page, Top(v)) = {}
    <3> SUFFICES ASSUME NEW p \in Slots(v.page, 0) PROVE FALSE
      BY <2>1
    <3>1. PICK n \in 0 .. 0 : \E i \in 1 .. Len(v.page[n]) : p = <<n, i>>
      BY InSlots
    <3>2. n = 0
      OBVIOUS
    <3>3. 1 .. Len(v.page[n]) = {}
      BY <2>6, <3>2
    <3> QED
      BY <3>1, <3>3
  <2>8. c.total = 0 /\ c.unread = 0
    BY <1>1, <1>4 DEF C!fresh
  <2>9. PICK S : S = Slots(v.page, Top(v))
    OBVIOUS
  <2>10. Cardinality(S) = 0 /\ {p \in S : IsUnread(v.page[p[1]][p[2]])} = {}
    BY <2>7, <2>9, FS_EmptySet
  <2>11. Cardinality({p \in S : IsUnread(v.page[p[1]][p[2]])}) = 0
    BY <2>10, FS_EmptySet
  <2>12. PICK cc : cc = <<c>>
    OBVIOUS
  <2>13. cc[1].total = 0 /\ cc[1].unread = 0
    BY <2>8, <2>12
  <2>14. \A p \in S : FALSE
    BY <2>7, <2>9
  <2>15. Counts(v.page, Top(v), cc)
    BY <2>9, <2>10, <2>11, <2>13, <2>14 DEF Counts
  <2> QED
    BY <2>5, <2>7, <2>12, <2>15
<1> QED
  BY <1>3, <1>4


\* Sequences of one and of two.
LEMMA OneAndTwo == ASSUME NEW a, NEW b, NEW c PROVE <<a>> \o <<b, c>> = <<a, b, c>>
<1>1. PICK S : S = {a, b, c}
  OBVIOUS
<1>2. PICK x : x = <<a>> \o <<b, c>>
  OBVIOUS
<1>3. <<a>> \in Seq(S) /\ <<b, c>> \in Seq(S) /\ Len(<<a>>) = 1 /\ Len(<<b, c>>) = 2
  BY <1>1
<1>4. x \in Seq(S) /\ Len(x) = 3
  BY <1>2, <1>3
<1>5. x[1] = a /\ x[2] = b /\ x[3] = c
  BY <1>2, <1>3
<1>6. x = <<a, b, c>>
  BY <1>4, <1>5
<1> QED
  BY <1>2, <1>6

\* What an append writes, where the page has room and where it is full.
LEMMA AppendedIs ==
    ASSUME StoreTyped, owned \in Nat, C!CanAppend, NEW m, NEW v, v = ViewNow
    PROVE  \E hi, base, g, new : Appending(m, v, hi, base, g, new, C!appended(m))
<1>1. PICK c : c = C!current
  OBVIOUS
<1>2. PICK top : top = Top(v)
  OBVIOUS
<1>3. c \in Metas /\ c.latest = top
  BY <1>1, <1>2, CurrentIs
<1>4. /\ C!load_metadata = v.meta /\ top \in C!Pages /\ top \in Nat
      /\ C!OnPage(top) = v.page[top] /\ GoodPage(top, v.page[top], owned)
  BY <1>2, ViewIs, ConversationsAssumption DEF C!Pages
<1>5. v.page[top] \in Seq(Msgs)
  BY <1>4 DEF GoodPage
<1>6. CASE C!rolls(c)
  <2>1. PICK hi : hi = top + 1
    OBVIOUS
  <2>2. hi \in C!Pages /\ hi # top
    BY <1>1, <1>3, <1>4, <1>6, <2>1, ConversationsAssumption DEF C!CanAppend, C!Pages
  <2>3. PICK g : g = [n \in 0 .. hi |-> IF n = hi THEN C!place(<<>>, m) ELSE v.page[n]]
    OBVIOUS
  <2>4. PICK new : new = C!record_append([c EXCEPT !.latest = hi], m, v.meta = <<>>)
    OBVIOUS
  <2>5. hi \in 0 .. hi
    BY <1>4, <2>1
  <2>6. g[hi] = C!place(<<>>, m)
    BY <2>3, <2>5
  <2>7. [c EXCEPT !.latest = IF C!rolls(c) THEN @ + 1 ELSE @] = [c EXCEPT !.latest = hi] /\ [c EXCEPT !.latest = hi].latest = hi
    BY <1>3, <1>6, <2>1 DEF Metas
  <2>8. C!appended(m) = <<C!save_page(top, v.page[top])>> \o <<C!save_page(hi, g[hi]), C!save_metadata(new)>>
    BY <1>1, <1>3, <1>4, <1>6, <2>4, <2>6, <2>7 DEF C!appended, C!empty_page
  <2>9. C!appended(m) = <<C!save_page(top, v.page[top]), C!save_page(hi, g[hi]), C!save_metadata(new)>>
    BY <2>8, OneAndTwo, Zenon
  <2>10. <<>> \in Seq(Msgs)
    OBVIOUS
  <2>11. Appending(m, v, hi, <<>>, g, new, C!appended(m))
    BY <1>1, <1>2, <2>1, <2>2, <2>3, <2>4, <2>9, <2>10 DEF Appending
  <2> QED
    BY <2>11
<1>7. CASE ~C!rolls(c)
  <2>1. PICK base : base = v.page[top]
    OBVIOUS
  <2>3. PICK g : g = [n \in 0 .. top |-> IF n = top THEN C!place(base, m) ELSE v.page[n]]
    OBVIOUS
  <2>4. PICK new : new = C!record_append([c EXCEPT !.latest = top], m, v.meta = <<>>)
    OBVIOUS
  <2>5. top \in 0 .. top
    BY <1>4
  <2>6. g[top] = C!place(base, m)
    BY <2>3, <2>5
  <2>7. [c EXCEPT !.latest = IF C!rolls(c) THEN @ + 1 ELSE @] = [c EXCEPT !.latest = top] /\ [c EXCEPT !.latest = top].latest = top
    BY <1>3, <1>7 DEF Metas
  <2>8. C!appended(m) = <<>> \o <<C!save_page(top, g[top]), C!save_metadata(new)>>
    BY <1>1, <1>3, <1>4, <1>7, <2>1, <2>4, <2>6, <2>7 DEF C!appended
  <2>9. C!appended(m) = <<C!save_page(top, g[top]), C!save_metadata(new)>>
    BY <2>8
  <2>11. Appending(m, v, top, base, g, new, C!appended(m))
    BY <1>1, <1>2, <1>4, <1>5, <2>1, <2>3, <2>4, <2>9 DEF Appending
  <2> QED
    BY <2>11
<1> QED
  BY <1>6, <1>7

\* An append that found no duplicate makes the view it found with one message more.
LEMMA AppendIs ==
    ASSUME StoreTyped, owned \in Nat, NEW v, v = ViewNow, NEW m \in Msgs,
           NEW hi, NEW base, NEW g, NEW new, NEW todo, Appending(m, v, hi, base, g, new, todo)
    PROVE  PagesThen(m, v, hi, base, g) /\ MetaThen(m, v, hi, new) /\ Makes(todo, v, hi, g, <<new>>)
<1>0. PICK c : c = C!current
  OBVIOUS
<1>1. c \in Metas
  BY <1>0, CurrentIs
<1>2. PICK top : top = Top(v)
  OBVIOUS
<1>3. top \in C!Pages /\ top \in Nat /\ \A n \in C!Pages : v.page[n] \in Seq(Msgs)
  BY <1>2, ViewIs, ConversationsAssumption DEF C!Pages
<1>4. /\ hi \in C!Pages /\ hi \in {top, top + 1} /\ base \in Seq(Msgs)
      /\ hi = top => base = v.page[top] /\ todo = <<C!save_page(hi, g[hi]), C!save_metadata(new)>>
      /\ hi # top => base = <<>> /\ todo = <<C!save_page(top, v.page[top]), C!save_page(hi, g[hi]), C!save_metadata(new)>>
      /\ g = [n \in 0 .. hi |-> IF n = hi THEN C!place(base, m) ELSE v.page[n]]
      /\ new = C!record_append([c EXCEPT !.latest = hi], m, v.meta = <<>>)
  BY <1>0, <1>2 DEF Appending
<1>5. hi \in Nat /\ hi \in 0 .. hi /\ 0 .. hi \subseteq C!Pages
  BY <1>4, ConversationsAssumption DEF C!Pages
<1>6. g[hi] = C!place(base, m)
  BY <1>4, <1>5
<1>7. \A n \in 0 .. hi : n # hi => g[n] = v.page[n] /\ n \in 0 .. top
  BY <1>3, <1>4, <1>5
<1>8. g[hi] \in Seq(Msgs)
  <2>1. \E pos, e : Placed(base, m, C!place(base, m), pos, e)
    BY <1>4, PlaceIs
  <2> QED
    BY <1>6, <2>1 DEF Placed
<1>9. \A n \in 0 .. hi : g[n] \in Seq(Msgs)
  BY <1>3, <1>5, <1>7, <1>8
<1>10. /\ new \in Metas /\ new.latest = hi /\ new.total = c.total + 1 /\ new.index = C!Larger(c.index, m.index)
       /\ new.unread = (IF IsUnread(m) THEN c.unread + 1 ELSE c.unread)
       /\ new.oldest = IF v.meta = <<>> \/ c.total = 0 \/ m.ts < c.oldest THEN m.ts ELSE c.oldest
  <2>1. c.total \in Nat /\ c.oldest \in Nat /\ c.index \in Nat /\ c.unread \in Nat /\ c.owner \in {"none", "own"}
        /\ m.ts \in Nat /\ m.index \in Nat
    BY <1>1 DEF Metas, Msgs
  <2>2. PICK d : d = [c EXCEPT !.latest = hi]
    OBVIOUS
  <2>3. d \in Metas /\ d.latest = hi /\ d.total = c.total /\ d.oldest = c.oldest /\ d.unread = c.unread /\ d.index = c.index
    BY <1>1, <1>4, <2>2 DEF Metas
  <2>4. PICK oldest : oldest = IF v.meta = <<>> \/ c.total = 0 \/ m.ts < c.oldest THEN m.ts ELSE c.oldest
    OBVIOUS
  <2>5. PICK unread : unread = IF IsUnread(m) THEN c.unread + 1 ELSE c.unread
    OBVIOUS
  <2>6. new = [d EXCEPT !.total = c.total + 1, !.oldest = oldest, !.index = C!Larger(c.index, m.index), !.unread = unread]
    BY <1>4, <2>2, <2>3, <2>4, <2>5 DEF C!record_append, IsUnread, Metas
  <2>7. oldest \in Nat /\ unread \in Nat /\ c.total + 1 \in Nat /\ C!Larger(c.index, m.index) \in Nat
    BY <2>1, <2>4, <2>5 DEF C!Larger
  <2>8. /\ new \in Metas /\ new.latest = hi /\ new.total = c.total + 1 /\ new.index = C!Larger(c.index, m.index)
        /\ new.unread = unread /\ new.oldest = oldest
    BY <2>3, <2>6, <2>7 DEF Metas
  <2> QED
    BY <2>4, <2>5, <2>8
<1>11. PICK mt : mt = <<new>>
  OBVIOUS
<1>12. mt \in Options(Metas) /\ mt # <<>>
  BY <1>10, <1>11, OptionHas
<1>13. PICK a : a = C!save_page(hi, g[hi])
  OBVIOUS
<1>14. PICK b : b = C!save_metadata(new)
  OBVIOUS
<1>15. PICK d : d = C!save_page(top, v.page[top])
  OBVIOUS
<1>16. a.key = "page" /\ a.n = hi /\ a.value = <<g[hi]>> /\ a \in Writes
  <2>1. <<g[hi]>> \in Options(Seq(Msgs))
    BY <1>8, OptionHas
  <2> QED
    BY <1>4, <1>13, <2>1 DEF C!save_page, Writes, WriteKeys
<1>17. b.key = "metadata" /\ b.n = 0 /\ b.value = mt /\ b \in Writes
  <2>1. 0 \in C!Pages
    BY ConversationsAssumption DEF C!Pages
  <2> QED
    BY <1>11, <1>12, <1>14, <2>1 DEF C!save_metadata, Writes, WriteKeys
<1>18. d.key = "page" /\ d.n = top /\ d.value = <<v.page[top]>> /\ d \in Writes
  <2>1. <<v.page[top]>> \in Options(Seq(Msgs))
    BY <1>3, OptionHas
  <2> QED
    BY <1>3, <1>15, <2>1 DEF C!save_page, Writes, WriteKeys
<1>21. PagesThen(m, v, hi, base, g)
  BY <1>2, <1>5, <1>6, <1>7, <1>9 DEF PagesThen
<1>22. MetaThen(m, v, hi, new)
  BY <1>0, <1>10 DEF MetaThen
<1>19. CASE hi = top
  <2>1. todo = <<a, b>>
    BY <1>4, <1>13, <1>14, <1>19
  <2>2. todo \in Seq(Writes) /\ Len(todo) = 2 /\ todo[1] = a /\ todo[2] = b /\ \A k \in 1 .. Len(todo) : k = 1 \/ k = 2
    BY <1>16, <1>17, <2>1
  <2>3. Distinct(todo)
    BY <1>16, <1>17, <2>2 DEF Distinct
  <2>4. \A k \in 1 .. Len(todo) : \/ todo[k].key = "page" /\ todo[k].n \in 0 .. hi /\ todo[k].value = <<g[todo[k].n]>>
                                  \/ todo[k].key = "metadata" /\ todo[k].n = 0 /\ todo[k].value = mt /\ mt # <<>>
    BY <1>5, <1>12, <1>16, <1>17, <2>2
  <2>5. 1 \in 1 .. Len(todo) /\ 2 \in 1 .. Len(todo)
    BY <2>2
  <2>6. \A n \in 0 .. hi : (\A k \in 1 .. Len(todo) : ~(todo[k].key = "page" /\ todo[k].n = n)) => g[n] = v.page[n]
    BY <1>7, <1>16, <2>2, <2>5
  <2>7. ~\A k \in 1 .. Len(todo) : todo[k].key # "metadata"
    BY <1>17, <2>2, <2>5
  <2>8. Makes(todo, v, hi, g, mt)
    BY <2>2, <2>3, <2>4, <2>6, <2>7 DEF Makes
  <2> QED
    BY <1>11, <1>21, <1>22, <2>8
<1>20. CASE hi # top
  <2>0. hi = top + 1 /\ hi # top /\ top \in 0 .. hi
    BY <1>3, <1>4, <1>20
  <2>1. todo = <<d, a, b>>
    BY <1>4, <1>13, <1>14, <1>15, <1>20
  <2>2. todo \in Seq(Writes) /\ Len(todo) = 3 /\ todo[1] = d /\ todo[2] = a /\ todo[3] = b /\ \A k \in 1 .. Len(todo) : k = 1 \/ k = 2 \/ k = 3
    BY <1>16, <1>17, <1>18, <2>1
  <2>3. Distinct(todo)
    BY <1>16, <1>17, <1>18, <2>0, <2>2 DEF Distinct
  <2>9. <<v.page[top]>> = <<g[top]>>
    BY <1>7, <2>0
  <2>4. \A k \in 1 .. Len(todo) : \/ todo[k].key = "page" /\ todo[k].n \in 0 .. hi /\ todo[k].value = <<g[todo[k].n]>>
                                  \/ todo[k].key = "metadata" /\ todo[k].n = 0 /\ todo[k].value = mt /\ mt # <<>>
    BY <1>5, <1>12, <1>16, <1>17, <1>18, <2>0, <2>2, <2>9
  <2>5. 1 \in 1 .. Len(todo) /\ 2 \in 1 .. Len(todo) /\ 3 \in 1 .. Len(todo)
    BY <2>2
  <2>6. \A n \in 0 .. hi : (\A k \in 1 .. Len(todo) : ~(todo[k].key = "page" /\ todo[k].n = n)) => g[n] = v.page[n]
    BY <1>7, <1>16, <2>2, <2>5
  <2>7. ~\A k \in 1 .. Len(todo) : todo[k].key # "metadata"
    BY <1>17, <2>2, <2>5
  <2>8. Makes(todo, v, hi, g, mt)
    BY <2>2, <2>3, <2>4, <2>6, <2>7 DEF Makes
  <2> QED
    BY <1>11, <1>21, <1>22, <2>8
<1> QED
  BY <1>19, <1>20


\* One message more on the newest page: its positions are those there were and one.
LEMMA GrowsBy ==
    ASSUME NEW f, NEW top \in Nat, NEW hi, hi \in {top, top + 1}, NEW base, hi = top => base = f[top], hi # top => base = <<>>,
           NEW m, NEW g, \A n \in 0 .. hi : n # hi => g[n] = f[n] /\ n \in 0 .. top,
           NEW pos, NEW e, Placed(base, m, g[hi], pos, e)
    PROVE  \E E : Grows(f, top, g, hi, pos, E)
<1>0. hi \in Nat /\ hi \in 0 .. hi /\ \A n \in 0 .. top : n \in 0 .. hi
  OBVIOUS
<1>1. PICK x : x = <<hi, pos>>
  OBVIOUS
<1>2. /\ pos \in 1 .. Len(g[hi])
      /\ \A j \in 1 .. Len(base) : e[j] \in 1 .. Len(g[hi]) /\ e[j] # pos /\ g[hi][e[j]] = base[j]
      /\ \A j, k \in 1 .. Len(base) : e[j] = e[k] => j = k
      /\ \A i \in 1 .. Len(g[hi]) : i # pos => \E j \in 1 .. Len(base) : e[j] = i
  BY DEF Placed
<1>3. PICK E : E = [p \in Slots(f, top) |-> IF p[1] = hi THEN <<hi, e[p[2]]>> ELSE p]
  OBVIOUS
<1>4. hi \in 0 .. top => base = f[hi]
  BY <1>0
<1>5. ASSUME NEW n \in 0 .. top, NEW i \in 1 .. Len(f[n])
      PROVE  /\ n = hi => i \in 1 .. Len(base) /\ base[i] = f[n][i] /\ E[<<n, i>>] = <<hi, e[i]>>
             /\ n # hi => E[<<n, i>>] = <<n, i>> /\ g[n] = f[n]
  <2>1. <<n, i>> \in Slots(f, top)
    BY InSlots
  <2>2. E[<<n, i>>] = IF n = hi THEN <<hi, e[i]>> ELSE <<n, i>>
    BY <1>3, <2>1
  <2> QED
    BY <1>0, <1>4, <2>2
<1>6. ASSUME NEW p \in Slots(f, top)
      PROVE  E[p] \in Slots(g, hi) /\ E[p] # x /\ g[E[p][1]][E[p][2]] = f[p[1]][p[2]]
  <2>1. PICK n \in 0 .. top : \E i \in 1 .. Len(f[n]) : p = <<n, i>>
    BY InSlots
  <2>2. PICK i \in 1 .. Len(f[n]) : p = <<n, i>>
    BY <2>1
  <2>3. CASE n = hi
    <3>1. E[p] = <<hi, e[i]>> /\ e[i] \in 1 .. Len(g[hi]) /\ e[i] # pos /\ g[hi][e[i]] = f[n][i]
      BY <1>2, <1>5, <2>2, <2>3
    <3>2. <<hi, e[i]>> \in Slots(g, hi) /\ <<hi, e[i]>> # x
      BY <1>0, <1>1, <3>1, InSlots
    <3> QED
      BY <2>2, <3>1, <3>2
  <2>4. CASE n # hi
    <3>1. E[p] = <<n, i>> /\ g[n] = f[n] /\ n \in 0 .. hi
      BY <1>0, <1>5, <2>2, <2>4
    <3>2. <<n, i>> \in Slots(g, hi) /\ <<n, i>> # x
      BY <1>1, <2>4, <3>1, InSlots
    <3> QED
      BY <2>2, <3>1, <3>2
  <2> QED
    BY <2>3, <2>4
<1>7. ASSUME NEW p \in Slots(f, top), NEW r \in Slots(f, top), E[p] = E[r] PROVE p = r
  <2>1. PICK n \in 0 .. top : \E i \in 1 .. Len(f[n]) : p = <<n, i>>
    BY InSlots
  <2>2. PICK i \in 1 .. Len(f[n]) : p = <<n, i>>
    BY <2>1
  <2>3. PICK o \in 0 .. top : \E j \in 1 .. Len(f[o]) : r = <<o, j>>
    BY InSlots
  <2>4. PICK j \in 1 .. Len(f[o]) : r = <<o, j>>
    BY <2>3
  <2>5. /\ n = hi => i \in 1 .. Len(base) /\ E[p] = <<hi, e[i]>>
        /\ n # hi => E[p] = <<n, i>>
    BY <1>5, <2>2
  <2>6. /\ o = hi => j \in 1 .. Len(base) /\ E[r] = <<hi, e[j]>>
        /\ o # hi => E[r] = <<o, j>>
    BY <1>5, <2>4
  <2>7. CASE n = hi
    <3>1. o = hi
      BY <1>7, <2>5, <2>6, <2>7
    <3>2. e[i] = e[j]
      BY <1>7, <2>5, <2>6, <2>7, <3>1
    <3> QED
      BY <1>2, <2>2, <2>4, <2>5, <2>6, <2>7, <3>1, <3>2
  <2>8. CASE n # hi
    <3>1. o # hi
      BY <1>7, <2>5, <2>6, <2>8
    <3> QED
      BY <1>7, <2>2, <2>4, <2>5, <2>6, <2>8, <3>1
  <2> QED
    BY <2>7, <2>8
<1>8. ASSUME NEW r \in Slots(g, hi), r # x PROVE \E p \in Slots(f, top) : E[p] = r
  <2>1. PICK n \in 0 .. hi : \E i \in 1 .. Len(g[n]) : r = <<n, i>>
    BY InSlots
  <2>2. PICK i \in 1 .. Len(g[n]) : r = <<n, i>>
    BY <2>1
  <2>3. CASE n = hi
    <3>1. i # pos
      BY <1>1, <1>8, <2>2, <2>3
    <3>2. PICK j \in 1 .. Len(base) : e[j] = i
      BY <1>2, <2>2, <2>3, <3>1
    <3>3. hi = top
      <4>1. base # <<>>
        <5>1. 1 .. Len(<<>>) = {}
          OBVIOUS
        <5> QED
          BY <3>2, <5>1
      <4> QED
        BY <4>1
    <3>4. n \in 0 .. top /\ j \in 1 .. Len(f[n])
      BY <2>3, <3>2, <3>3
    <3>5. <<n, j>> \in Slots(f, top) /\ E[<<n, j>>] = <<hi, e[j]>>
      BY <1>5, <2>3, <3>4, InSlots
    <3> QED
      BY <2>2, <2>3, <3>2, <3>5
  <2>4. CASE n # hi
    <3>1. n \in 0 .. top /\ i \in 1 .. Len(f[n])
      BY <2>2, <2>4
    <3>2. <<n, i>> \in Slots(f, top) /\ E[<<n, i>>] = <<n, i>>
      BY <1>5, <2>4, <3>1, InSlots
    <3> QED
      BY <2>2, <3>2
  <2> QED
    BY <2>3, <2>4
<1>9. x \in Slots(g, hi)
  BY <1>0, <1>1, <1>2, InSlots
<1>10. Grows(f, top, g, hi, pos, E)
  BY <1>1, <1>6, <1>7, <1>8, <1>9 DEF Grows
<1> QED
  BY <1>10

\* One more position, one more counted,
LEMMA OneLess ==
    ASSUME NEW S, NEW T, NEW E, NEW x, IsFiniteSet(T), x \in T, \A p \in S : E[p] \in T /\ E[p] # x,
           \A p, r \in S : E[p] = E[r] => p = r, \A r \in T : r # x => \E p \in S : E[p] = r
    PROVE  Cardinality(S) \in Nat /\ Cardinality(T) \in Nat /\ Cardinality(T) = Cardinality(S) + 1
<1>1. PICK R : R = T \ {x}
  OBVIOUS
<1>2. IsFiniteSet(R) /\ Cardinality(R) = Cardinality(T) - 1
  BY <1>1, FS_RemoveElement
<1>3. PICK f : f = [p \in S |-> E[p]]
  OBVIOUS
<1>4. f \in [S -> R] /\ (\A p, r \in S : f[p] = f[r] => p = r) /\ (\A r \in R : \E p \in S : f[p] = r)
  BY <1>1, <1>3
<1>5. Cardinality(S) = Cardinality(R)
  BY <1>2, <1>4, Bijects
<1>6. Cardinality(R) \in Nat /\ Cardinality(T) \in Nat
  BY <1>2, FS_CardinalityType
<1> QED
  BY <1>2, <1>5, <1>6

\* or the same.
LEMMA NoneLess ==
    ASSUME NEW S, NEW T, NEW E, IsFiniteSet(T), \A p \in S : E[p] \in T,
           \A p, r \in S : E[p] = E[r] => p = r, \A r \in T : \E p \in S : E[p] = r
    PROVE  Cardinality(S) \in Nat /\ Cardinality(T) = Cardinality(S)
<1>3. PICK f : f = [p \in S |-> E[p]]
  OBVIOUS
<1>4. f \in [S -> T] /\ (\A p, r \in S : f[p] = f[r] => p = r) /\ (\A r \in T : \E p \in S : f[p] = r)
  BY <1>3
<1>5. Cardinality(S) = Cardinality(T)
  BY <1>4, Bijects
<1>6. Cardinality(T) \in Nat
  BY FS_CardinalityType
<1> QED
  BY <1>5, <1>6

\* So the metadata of an append counts what is there.
LEMMA GrowsCounts ==
    ASSUME NEW f, NEW top \in Nat, NEW g, NEW hi \in Nat, \A n \in 0 .. hi : Len(g[n]) \in Nat,
           NEW pos, NEW E, Grows(f, top, g, hi, pos, E), NEW m, g[hi][pos] = m
    PROVE  /\ Cardinality(Slots(f, top)) \in Nat
           /\ Cardinality(Slots(g, hi)) = Cardinality(Slots(f, top)) + 1
           /\ Cardinality(UnreadOn(f, top)) \in Nat
           /\ IsUnread(m) => Cardinality(UnreadOn(g, hi)) = Cardinality(UnreadOn(f, top)) + 1
           /\ ~IsUnread(m) => Cardinality(UnreadOn(g, hi)) = Cardinality(UnreadOn(f, top))
<1>1. PICK S : S = Slots(f, top)
  OBVIOUS
<1>2. PICK T : T = Slots(g, hi)
  OBVIOUS
<1>3. PICK x : x = <<hi, pos>>
  OBVIOUS
<1>4. /\ \A p \in S : E[p] \in T /\ E[p] # x /\ g[E[p][1]][E[p][2]] = f[p[1]][p[2]]
      /\ \A p, r \in S : E[p] = E[r] => p = r
      /\ \A r \in T : r # x => \E p \in S : E[p] = r
      /\ x \in T
  BY <1>1, <1>2, <1>3 DEF Grows
<1>5. IsFiniteSet(T)
  BY <1>2, SlotsFinite
<1>6. Cardinality(S) \in Nat /\ Cardinality(T) = Cardinality(S) + 1
  <2>1. \A p \in S : E[p] \in T /\ E[p] # x
    BY <1>4
  <2>2. \A p, r \in S : E[p] = E[r] => p = r
    BY <1>4
  <2>3. \A r \in T : r # x => \E p \in S : E[p] = r
    BY <1>4
  <2>4. x \in T
    BY <1>4
  <2> QED
    BY <1>5, <2>1, <2>2, <2>3, <2>4, OneLess
<1>7. PICK A : A = UnreadOn(f, top)
  OBVIOUS
<1>8. PICK B : B = UnreadOn(g, hi)
  OBVIOUS
<1>9. \A p : p \in A <=> p \in S /\ IsUnread(f[p[1]][p[2]])
  BY <1>1, <1>7 DEF UnreadOn
<1>10. \A p : p \in B <=> p \in T /\ IsUnread(g[p[1]][p[2]])
  BY <1>2, <1>8 DEF UnreadOn
<1>11. IsFiniteSet(B)
  <2>1. B \subseteq T
    BY <1>10
  <2> QED
    BY <1>5, <2>1, FS_Subset
<1>12. \A p \in A : E[p] \in B /\ E[p] # x
  BY <1>4, <1>9, <1>10
<1>13. \A p, r \in A : E[p] = E[r] => p = r
  BY <1>4, <1>9
<1>14. ASSUME NEW r \in B, r # x PROVE \E p \in A : E[p] = r
  <2>1. PICK p \in S : E[p] = r
    BY <1>4, <1>10, <1>14
  <2>2. p \in A
    BY <1>4, <1>9, <1>10, <2>1
  <2> QED
    BY <2>1, <2>2
<1>15. g[x[1]][x[2]] = m
  BY <1>3
<1>16. x \in B <=> IsUnread(m)
  BY <1>4, <1>10, <1>15
<1>17. CASE IsUnread(m)
  <2>1. Cardinality(A) \in Nat /\ Cardinality(B) = Cardinality(A) + 1
    BY <1>11, <1>12, <1>13, <1>14, <1>16, <1>17, OneLess
  <2> QED
    BY <1>1, <1>2, <1>6, <1>7, <1>8, <1>17, <2>1
<1>18. CASE ~IsUnread(m)
  <2>1. Cardinality(A) \in Nat /\ Cardinality(B) = Cardinality(A)
    <3>1. \A r \in B : \E p \in A : E[p] = r
      BY <1>14, <1>16, <1>18
    <3>2. \A p \in A : E[p] \in B
      BY <1>12
    <3> QED
      BY <1>11, <1>13, <3>1, <3>2, NoneLess
  <2> QED
    BY <1>1, <1>2, <1>6, <1>7, <1>8, <1>18, <2>1
<1> QED
  BY <1>17, <1>18


\* An append keeps what holds whatever failed,
LEMMA AppendKept ==
    ASSUME Kept, NEW m, NEW v, v = ViewNow, ~C!already_stored(C!current, m.id),
           NEW at, NEW id, Appendable(m, v, at, id), owned' \in 0 .. MaxOwnIds, owned <= owned',
           NEW hi, NEW base, NEW g, NEW new, NEW todo, Appending(m, v, hi, base, g, new, todo), Begins(todo, at, id),
           NEW u, u = ViewAhead'
    PROVE  /\ Kept' /\ Top(u) = hi /\ u.meta = <<new>> /\ \A n \in 0 .. hi : u.page[n] = g[n]
<1>0. StoreTyped /\ RestTyped /\ NewestApart(v) /\ owned \in Nat
  BY DEF Kept, RestTyped
<1>1. PICK top : top = Top(v)
  OBVIOUS
<1>2. /\ top \in C!Pages /\ top \in Nat /\ top \in 0 .. top /\ 0 .. top \subseteq C!Pages
      /\ \A n \in C!Pages : GoodPage(n, v.page[n], owned)
  <2>1. top \in C!Pages /\ \A n \in C!Pages : GoodPage(n, v.page[n], owned)
    BY <1>0, <1>1, ViewIs
  <2> QED
    BY <2>1, ConversationsAssumption DEF C!Pages
<1>3. m \in Msgs /\ GoodMsg(m, owned') /\ m.id \notin OldIds /\ at \in {"done", "stored", "transmit"}
      /\ (at = "stored" => id = m.id /\ id \in 1 .. MaxPeerIds)
  BY DEF Appendable
<1>4. /\ hi \in Nat /\ hi \in 0 .. hi /\ 0 .. hi \subseteq C!Pages
      /\ g[hi] = C!place(base, m) /\ \A n \in 0 .. hi : n # hi => g[n] = v.page[n] /\ n \in 0 .. top
      /\ new \in Metas /\ new.latest = hi
      /\ Makes(todo, v, hi, g, <<new>>)
  <2>1. PagesThen(m, v, hi, base, g) /\ MetaThen(m, v, hi, new) /\ Makes(todo, v, hi, g, <<new>>)
    BY <1>0, <1>3, AppendIs
  <2>2. new \in Metas /\ new.latest = hi
    BY <2>1 DEF MetaThen
  <2> QED
    BY <1>1, <2>1, <2>2 DEF PagesThen
<1>5. /\ hi \in C!Pages /\ hi \in {top, top + 1} /\ base \in Seq(Msgs)
      /\ hi = top => base = v.page[top] /\ todo = <<C!save_page(hi, g[hi]), C!save_metadata(new)>>
      /\ hi # top => base = <<>> /\ todo = <<C!save_page(top, v.page[top]), C!save_page(hi, g[hi]), C!save_metadata(new)>>
  BY <1>1 DEF Appending
<1>6. m.id \notin Ids(v.page[top]) /\ (top > 0 => m.id \notin Ids(v.page[top - 1]))
  BY <1>0, <1>1, CurrentIs
<1>7. owned' \in Nat
  OBVIOUS
<1>8. \A n \in C!Pages : GoodPage(n, v.page[n], owned')
  BY <1>0, <1>2, <1>7, GoodGrows
<1>9. GoodPage(hi, base, owned') /\ m.id \notin Ids(base) /\ (hi = top => Ids(base) = Ids(v.page[top])) /\ (hi # top => Ids(base) = {})
  <2>1. GoodPage(hi, <<>>, owned') /\ Ids(<<>>) = {}
    BY DEF GoodPage, Ids
  <2> QED
    BY <1>2, <1>5, <1>6, <1>8, <2>1
<1>10. GoodPage(hi, g[hi], owned') /\ Ids(g[hi]) = Ids(base) \cup {m.id}
  <2>1. PICK q : q = g[hi]
    OBVIOUS
  <2>2. \E pos, e : Placed(base, m, q, pos, e)
    BY <1>3, <1>4, <1>5, <2>1, PlaceIs
  <2> QED
    BY <1>3, <1>9, <2>1, <2>2, PlaceGood
<1>11. \A n \in 0 .. hi : GoodPage(n, g[n], owned')
  BY <1>4, <1>8, <1>10
<1>12. PICK mt : mt = <<new>>
  OBVIOUS
<1>13. mt \in Options(Metas) /\ mt # <<>> /\ mt[1] = new
  BY <1>4, <1>12, OptionHas
<1>14. GoodWrites(todo, owned')
  BY <1>4, <1>5, <1>11, <1>12, <1>13, MadeWrites
<1>15. StoreTyped' /\ RestTyped' /\ OpTyped' /\ NewestApart(ViewNow)' /\ HandledIsShown'
  BY <1>3, <1>14, BeginTyped
<1>16. /\ op'.writes = todo /\ op'.at = at /\ op'.id = id /\ ViewNow' = v
       /\ u = View(ScopedAfter(todo, scoped), LegacyAfter(todo, legacy))
  BY <1>0, BeginIs
<1>17. u.meta = mt /\ \A n \in C!Pages : u.page[n] = IF n \in 0 .. hi THEN g[n] ELSE v.page[n]
  BY <1>4, <1>5, <1>12, <1>16, Made DEF ViewNow
<1>18. Top(u) = hi
  BY <1>4, <1>13, <1>17 DEF Top
<1>19. \A n \in 0 .. hi : u.page[n] = g[n]
  BY <1>4, <1>17
<1>20. NewestApart(u)
  <2> SUFFICES ASSUME hi > 0 PROVE Ids(g[hi]) \cap Ids(g[hi - 1]) = {}
    <3>1. hi > 0 => hi - 1 \in 0 .. hi
      BY <1>4
    <3> QED
      BY <1>4, <1>18, <1>19, <3>1 DEF NewestApart
  <2>1. hi - 1 \in 0 .. hi /\ hi - 1 # hi
    BY <1>4
  <2>2. g[hi - 1] = v.page[hi - 1]
    BY <1>4, <2>1
  <2>3. CASE hi = top
    <3>1. Ids(v.page[top]) \cap Ids(v.page[top - 1]) = {}
      BY <1>0, <1>1, <2>3 DEF NewestApart
    <3> QED
      BY <1>6, <1>9, <1>10, <2>2, <2>3, <3>1
  <2>4. CASE hi # top
    <3>1. hi - 1 = top
      BY <1>2, <1>5, <2>4
    <3> QED
      BY <1>6, <1>9, <1>10, <2>2, <2>4, <3>1
  <2> QED
    BY <2>3, <2>4
<1>21. StoredIsAhead'
  <2>1. ASSUME at \in {"stored", "duplicate"} PROVE id \in ShownIds(u)
    <3>1. id = m.id
      BY <1>3, <2>1
    <3>2. m.id \in Ids(u.page[hi])
      BY <1>4, <1>10, <1>19
    <3> QED
      BY <1>4, <1>18, <3>1, <3>2 DEF ShownIds
  <2> QED
    BY <1>16, <2>1 DEF StoredIsAhead
<1>22. Appends'
  <2>1. PICK a : a = C!save_page(hi, g[hi])
    OBVIOUS
  <2>2. PICK b : b = C!save_metadata(new)
    OBVIOUS
  <2>3. PICK d : d = C!save_page(top, v.page[top])
    OBVIOUS
  <2>4. a.key = "page" /\ a.n = hi /\ a.value # <<>> /\ a.value[1] = g[hi]
    BY <2>1 DEF C!save_page
  <2>5. b.key = "metadata" /\ b.value # <<>> /\ b.value[1] = new
    BY <2>2 DEF C!save_metadata
  <2>6. d.key = "page" /\ d.n = top /\ d.value # <<>> /\ d.value[1] = v.page[top]
    BY <2>3 DEF C!save_page
  <2>7. hi = top => Ids(v.page[top]) \subseteq Ids(g[hi])
    BY <1>9, <1>10
  <2>8. top # top + 1
    BY <1>2
  <2>9. CASE hi = top
    <3>1. todo = <<a, b>>
      BY <1>5, <2>1, <2>2, <2>9
    <3>2. Len(todo) = 2 /\ todo[1] = a /\ todo[2] = b /\ Len(todo) - 1 = 1 /\ 1 .. Len(todo) = {1, 2}
      BY <3>1
    <3>3. \A k \in 1 .. Len(todo) : todo[k].value # <<>>
      BY <2>4, <2>5, <3>2
    <3>4. /\ Len(todo) \in 1 .. 3
          /\ todo[Len(todo)].key = "metadata" /\ todo[Len(todo)].value[1].latest \in {top, top + 1}
          /\ todo[Len(todo) - 1].key = "page" /\ todo[Len(todo) - 1].n = todo[Len(todo)].value[1].latest
          /\ (todo[Len(todo) - 1].n = top => Ids(v.page[top]) \subseteq Ids(todo[Len(todo) - 1].value[1]))
          /\ Len(todo) # 3
      BY <1>4, <2>4, <2>5, <2>7, <2>9, <3>2
    <3> QED
      BY <1>1, <1>16, <3>3, <3>4 DEF Appends
  <2>10. CASE hi # top
    <3>0. hi = top + 1
      BY <1>5, <2>10
    <3>1. todo = <<d, a, b>>
      BY <1>5, <2>1, <2>2, <2>3, <2>10
    <3>2. Len(todo) = 3 /\ todo[1] = d /\ todo[2] = a /\ todo[3] = b /\ Len(todo) - 1 = 2 /\ 1 .. Len(todo) = {1, 2, 3}
      BY <3>1
    <3>3. \A k \in 1 .. Len(todo) : todo[k].value # <<>>
      BY <2>4, <2>5, <2>6, <3>2
    <3>4. /\ Len(todo) \in 1 .. 3
          /\ todo[Len(todo)].key = "metadata" /\ todo[Len(todo)].value[1].latest \in {top, top + 1}
          /\ todo[Len(todo) - 1].key = "page" /\ todo[Len(todo) - 1].n = todo[Len(todo)].value[1].latest
          /\ todo[Len(todo) - 1].n # top
      BY <1>4, <2>4, <2>5, <2>8, <3>0, <3>2
    <3>5. todo[1].key = "page" /\ todo[1].n = top /\ todo[2].n = top + 1 /\ Ids(todo[1].value[1]) = Ids(v.page[top])
      BY <2>4, <2>6, <3>0, <3>2
    <3> QED
      BY <1>1, <1>16, <3>3, <3>4, <3>5 DEF Appends
  <2> QED
    BY <2>9, <2>10
<1>23. Kept'
  BY <1>15, <1>20, <1>21, <1>22 DEF Kept
<1> QED
  BY <1>12, <1>17, <1>18, <1>19, <1>23


\* and what holds while nothing did.
LEMMA AppendFaultless ==
    ASSUME ConversationInv, faults = 0, op = C!Idle, NEW m, NEW v, v = ViewNow, ~C!already_stored(C!current, m.id),
           NEW at, NEW id, Appendable(m, v, at, id), owned' \in 0 .. MaxOwnIds, owned <= owned',
           NEW hi, NEW base, NEW g, NEW new, NEW todo, Appending(m, v, hi, base, g, new, todo), Begins(todo, at, id)
    PROVE  Faultless'
<1>0. StoreTyped /\ RestTyped /\ owned \in Nat /\ Kept /\ Faultless /\ op.writes = <<>> /\ op.at = "done"
  BY DEF ConversationInv, Kept, RestTyped, C!Idle
<1>1. PICK top : top = Top(v)
  OBVIOUS
<1>2. PICK u : u = ViewAhead'
  OBVIOUS
<1>3. PICK c : c = C!current
  OBVIOUS
<1>4. PICK f : f = v.page
  OBVIOUS
<1>5. /\ top \in C!Pages /\ top \in Nat /\ 0 .. top \subseteq C!Pages
      /\ \A n \in C!Pages : f[n] \in Seq(Msgs) /\ GoodPage(n, f[n], owned)
  BY <1>0, <1>1, <1>4, ViewIs, ConversationsAssumption DEF C!Pages
<1>6. Top(u) = hi /\ u.meta = <<new>> /\ \A n \in 0 .. hi : u.page[n] = g[n]
  BY <1>0, <1>2, AppendKept
<1>7. m \in Msgs
  BY DEF Appendable
<1>8. PagesThen(m, v, hi, base, g) /\ MetaThen(m, v, hi, new) /\ Makes(todo, v, hi, g, <<new>>)
  BY <1>0, <1>7, AppendIs
<1>9. /\ hi \in Nat /\ hi \in 0 .. hi /\ 0 .. hi \subseteq C!Pages
      /\ g[hi] = C!place(base, m) /\ \A n \in 0 .. hi : n # hi => g[n] = f[n] /\ n \in 0 .. top
      /\ \A n \in 0 .. hi : g[n] \in Seq(Msgs)
  BY <1>1, <1>4, <1>8 DEF PagesThen
<1>10. /\ hi \in C!Pages /\ hi \in {top, top + 1} /\ base \in Seq(Msgs)
       /\ (hi = top => base = f[top]) /\ (hi # top => base = <<>>)
  BY <1>1, <1>4 DEF Appending
<1>11. PICK pos, e : Placed(base, m, g[hi], pos, e)
  BY <1>7, <1>9, <1>10, PlaceIs
<1>12. PICK E : Grows(f, top, g, hi, pos, E)
  <2>1. top \in Nat
    BY <1>5
  <2>2. hi \in {top, top + 1}
    BY <1>10
  <2>3. (hi = top => base = f[top]) /\ (hi # top => base = <<>>)
    BY <1>10
  <2>4. \A n \in 0 .. hi : n # hi => g[n] = f[n] /\ n \in 0 .. top
    BY <1>9
  <2> QED
    BY <1>11, <2>1, <2>2, <2>3, <2>4, GrowsBy
<1>13. PICK x : x = <<hi, pos>>
  OBVIOUS
<1>14. g[hi][pos] = m /\ g[x[1]][x[2]] = m
  BY <1>11, <1>13 DEF Placed
<1>15. /\ \A p \in Slots(f, top) : E[p] \in Slots(g, hi) /\ E[p] # x /\ g[E[p][1]][E[p][2]] = f[p[1]][p[2]]
       /\ \A r \in Slots(g, hi) : r # x => \E p \in Slots(f, top) : E[p] = r
       /\ x \in Slots(g, hi)
  BY <1>12, <1>13 DEF Grows
<1>16. \A r \in Slots(g, hi) : r # x => \E p \in Slots(f, top) : E[p] = r /\ g[r[1]][r[2]] = f[p[1]][p[2]]
  BY <1>15
<1>17. \A p \in Slots(f, top) : p \in Places(v) /\ At(v, p) = f[p[1]][p[2]]
  BY <1>1, <1>4 DEF Places, At
<1>18. Places(u) = Slots(g, hi) /\ (Counted(u) <=> Counts(g, hi, u.meta))
  <2>1. hi \in Nat
    BY <1>9
  <2>2. Top(u) = hi
    BY <1>6
  <2>3. \A n \in 0 .. hi : u.page[n] = g[n]
    BY <1>6
  <2> QED
    BY <2>1, <2>2, <2>3, ShowsPages
<1>19. \A r \in Slots(g, hi) : At(u, r) = g[r[1]][r[2]]
  <2> SUFFICES ASSUME NEW r \in Slots(g, hi) PROVE At(u, r) = g[r[1]][r[2]]
    OBVIOUS
  <2>1. r[1] \in 0 .. hi
    <3>1. PICK n \in 0 .. hi : \E i \in 1 .. Len(g[n]) : r = <<n, i>>
      BY InSlots
    <3> QED
      BY <3>1
  <2> QED
    BY <1>6, <2>1 DEF At
<1>20. /\ op'.writes = todo /\ op'.at = at /\ op'.id = id /\ ScopedAhead' = ScopedAfter(todo, scoped) /\ LegacyAhead' = LegacyAfter(todo, legacy)
       /\ ScopedAhead = scoped /\ LegacyAhead = legacy /\ ViewAhead = v /\ ToBe = {}
       /\ ToBe' = Written(todo)
       /\ News' = News /\ ToldIds' = ToldIds /\ u = View(ScopedAfter(todo, scoped), LegacyAfter(todo, legacy))
  BY <1>0, <1>2, BeginIs
<1>21. scoped' = scoped /\ legacy' = legacy /\ acked' = acked /\ announced' = announced
  BY DEF Begins
<1>22. Whole(scoped, legacy) /\ IndexApart(Stock(scoped, legacy)) /\ OwnOnce(v) /\ Announced /\ Counted(v)
  <2>1. Whole(scoped, legacy) /\ OwnOnce(v) /\ Announced /\ IndexApart(Stock(scoped, legacy) \cup ToBe) /\ Counted(v)
    BY <1>0, <1>20 DEF Faultless
  <2> QED
    BY <2>1 DEF IndexApart, Sent
<1>23. Counts(f, top, <<c>>) /\ (\A b \in Stock(scoped, legacy) : b.index <= c.index) /\ (v.meta = <<>> => Slots(f, top) = {})
  BY <1>0, <1>1, <1>3, <1>4, <1>22, CurrentCounts
<1>24. c \in Metas /\ C!NextIndex = c.index + 1 /\ c.index \in Nat /\ c.total \in Nat /\ c.oldest \in Nat /\ c.unread \in Nat
  <2>1. c \in Metas /\ C!NextIndex = c.index + 1
    BY <1>0, <1>3, CurrentIs
  <2> QED
    BY <2>1 DEF Metas
<1>25. /\ new \in Metas /\ new.latest = hi /\ new.total = c.total + 1 /\ new.index = C!Larger(c.index, m.index)
       /\ new.unread = (IF IsUnread(m) THEN c.unread + 1 ELSE c.unread)
       /\ new.oldest = IF v.meta = <<>> \/ c.total = 0 \/ m.ts < c.oldest THEN m.ts ELSE c.oldest
  BY <1>3, <1>8 DEF MetaThen
<1>26. m.ts \in Nat /\ m.index \in Nat
  BY <1>7 DEF Msgs
\* What is counted.
<1>27. Counts(g, hi, <<new>>)
  <2>1. PICK cc : cc = <<c>>
    OBVIOUS
  <2>2. cc # <<>> /\ cc[1] = c
    BY <2>1
  <2>3. /\ c.total = Cardinality(Slots(f, top)) /\ (Uncounted \/ Cardinality(UnreadOn(f, top)) <= c.unread)
        /\ \A p \in Slots(f, top) : f[p[1]][p[2]].ts >= c.oldest
    BY <1>23, <2>1, <2>2 DEF Counts, UnreadOn
  <2>4. \A n \in 0 .. hi : Len(g[n]) \in Nat
    BY <1>9
  <2>5. /\ Cardinality(Slots(f, top)) \in Nat
        /\ Cardinality(Slots(g, hi)) = Cardinality(Slots(f, top)) + 1
        /\ Cardinality(UnreadOn(f, top)) \in Nat
        /\ IsUnread(m) => Cardinality(UnreadOn(g, hi)) = Cardinality(UnreadOn(f, top)) + 1
        /\ ~IsUnread(m) => Cardinality(UnreadOn(g, hi)) = Cardinality(UnreadOn(f, top))
    BY <1>5, <1>9, <1>12, <1>14, <2>4, GrowsCounts
  <2>6. new.total = Cardinality(Slots(g, hi))
    BY <1>25, <2>3, <2>5
  <2>7. Uncounted \/ Cardinality(UnreadOn(g, hi)) <= new.unread
    BY <1>24, <1>25, <2>3, <2>5
  <2>8. ASSUME NEW r \in Slots(g, hi) PROVE g[r[1]][r[2]].ts >= new.oldest
    <3>1. CASE r = x
      <4>1. m.ts >= new.oldest
        BY <1>24, <1>25, <1>26
      <4> QED
        BY <1>14, <3>1, <4>1
    <3>2. CASE r # x
      <4>1. PICK p \in Slots(f, top) : g[r[1]][r[2]] = f[p[1]][p[2]]
        BY <1>16, <3>2
      <4>2. PICK t : t = f[p[1]][p[2]].ts
        OBVIOUS
      <4>3. t >= c.oldest
        BY <2>3, <4>2
      <4>4. v.meta # <<>>
        BY <1>23
      <4>5. c.total # 0
        <5>1. IsFiniteSet(Slots(f, top))
          <6>1. \A n \in 0 .. top : Len(f[n]) \in Nat
            BY <1>5
          <6> QED
            BY <1>5, <6>1, SlotsFinite
        <5>2. Slots(f, top) # {}
          OBVIOUS
        <5> QED
          BY <2>3, <5>1, <5>2, FS_EmptySet
      <4>6. t \in Nat
        <5>1. PICK n \in 0 .. top : \E i \in 1 .. Len(f[n]) : p = <<n, i>>
          BY InSlots
        <5>2. PICK i \in 1 .. Len(f[n]) : p = <<n, i>>
          BY <5>1
        <5>3. f[n] \in Seq(Msgs)
          BY <1>5
        <5>4. PICK b : b = f[n][i]
          OBVIOUS
        <5>5. b \in Msgs
          BY <5>3, <5>4
        <5>6. b.ts \in Nat
          BY <5>5 DEF Msgs
        <5> QED
          BY <4>2, <5>2, <5>4, <5>6
      <4>7. t >= new.oldest
        BY <1>24, <1>25, <1>26, <4>3, <4>4, <4>5, <4>6
      <4> QED
        BY <4>1, <4>2, <4>7
    <3> QED
      BY <3>1, <3>2
  <2>9. PICK mt : mt = <<new>>
    OBVIOUS
  <2>10. mt[1] = new
    BY <2>9
  <2>11. Counts(g, hi, mt)
    BY <2>6, <2>7, <2>8, <2>10 DEF Counts, UnreadOn
  <2> QED
    BY <2>9, <2>11
<1>28. Counted(u)
  BY <1>6, <1>18, <1>27
\* Nothing in stock is new but m.
<1>29. ASSUME NEW n \in 0 .. hi, NEW i \in 1 .. Len(g[n]) PROVE g[n][i] = m \/ g[n][i] \in Stock(scoped, legacy)
  <2>1. PICK r : r = <<n, i>>
    OBVIOUS
  <2>2. r \in Slots(g, hi) /\ g[r[1]][r[2]] = g[n][i]
    BY <2>1, InSlots
  <2>3. CASE r = x
    BY <1>14, <2>2, <2>3
  <2>4. CASE r # x
    <3>1. PICK p \in Slots(f, top) : g[r[1]][r[2]] = f[p[1]][p[2]]
      BY <1>16, <2>2, <2>4
    <3>2. PICK o \in 0 .. top : \E j \in 1 .. Len(f[o]) : p = <<o, j>>
      BY InSlots
    <3>3. PICK j \in 1 .. Len(f[o]) : p = <<o, j>>
      BY <3>2
    <3>4. f[o][j] \in Stock(scoped, legacy)
      BY <1>4, <1>5, <3>3, ShownIsStock DEF ViewNow
    <3> QED
      BY <2>2, <3>1, <3>3, <3>4
  <2> QED
    BY <2>3, <2>4
<1>30. ASSUME NEW b \in Stock(scoped, legacy) \cup Stock(ScopedAfter(todo, scoped), LegacyAfter(todo, legacy)) \cup ToBe'
       PROVE  b = m \/ b \in Stock(scoped, legacy)
  <2>1. b \in Stock(scoped, legacy) \/ \E n \in 0 .. hi : \E i \in 1 .. Len(g[n]) : b = g[n][i]
    <3>0. v = View(scoped, legacy)
      BY DEF ViewNow
    <3>1. CASE b \in Stock(ScopedAfter(todo, scoped), LegacyAfter(todo, legacy))
      BY <1>8, <1>10, <3>0, <3>1, StockAfter
    <3>2. CASE b \in Written(todo)
      BY <1>8, <3>2, ToBeIs
    <3> QED
      BY <1>20, <1>30, <3>1, <3>2
  <2> QED
    BY <1>29, <2>1
<1>31. IndexApart(Stock(scoped, legacy) \cup ToBe)'
  <2>1. Sent(m) => m.index = c.index + 1
    BY <1>24 DEF Appendable
  <2>2. \A b \in Stock(scoped, legacy) : b.index <= c.index
    BY <1>23
  <2>3. \A b \in Stock(scoped, legacy) : Sent(m) => b.index # m.index
    <3> SUFFICES ASSUME NEW b \in Stock(scoped, legacy), Sent(m), b.index = m.index PROVE FALSE
      OBVIOUS
    <3>1. c.index + 1 <= c.index
      BY <2>1, <2>2
    <3> QED
      BY <1>24, <3>1
  <2>4. IndexApart(Stock(scoped, legacy) \cup ToBe')
    <3> SUFFICES ASSUME NEW a \in Stock(scoped, legacy) \cup ToBe', NEW b \in Stock(scoped, legacy) \cup ToBe',
                        Sent(a), Sent(b), a.index = b.index
                 PROVE  a.id = b.id
      BY DEF IndexApart, Sent
    <3>1. (a = m \/ a \in Stock(scoped, legacy)) /\ (b = m \/ b \in Stock(scoped, legacy))
      BY <1>30
    <3> QED
      BY <1>22, <2>3, <3>1 DEF IndexApart, Sent
  <2> QED
    BY <1>21, <2>4
<1>32. Announced'
  <2>1. ASSUME NEW b \in Stock(ScopedAfter(todo, scoped), LegacyAfter(todo, legacy)), b.id \in 1 .. MaxPeerIds
        PROVE  b.id \in News \cup ByWindow \/ (at = "stored" /\ b.id = id)
    <3>1. \A k \in Stock(scoped, legacy) : k.id \in 1 .. MaxPeerIds => k.id \in News \cup ByWindow
      BY <1>0, <1>20, <1>22 DEF Announced
    <3>2. b = m \/ b \in Stock(scoped, legacy)
      BY <1>30
    <3>3. m.id \in 1 .. MaxPeerIds => (at = "stored" /\ id = m.id) \/ m.id \in ByWindow
      BY DEF Appendable
    <3> QED
      BY <2>1, <3>1, <3>2, <3>3
  <2>2. at # "duplicate"
    BY DEF Appendable
  <2>3. announced \subseteq acked /\ (acked' \cup ToldIds') \ removed' \subseteq News \cup ByWindow
    BY <1>20, <1>21, <1>22 DEF Announced, Begins
  <2> QED
    BY <1>20, <1>21, <2>1, <2>2, <2>3 DEF Announced
<1>33. OwnOnce(u)
  <2>0. ASSUME NEW p \in Slots(f, top), m.id > MaxPeerIds, m.id \notin ByWindow PROVE f[p[1]][p[2]].id # m.id
    <3>1. PICK n \in 0 .. top : \E i \in 1 .. Len(f[n]) : p = <<n, i>>
      BY InSlots
    <3>2. PICK i \in 1 .. Len(f[n]) : p = <<n, i>>
      BY <3>1
    <3>3. f[n][i].id \in Ids(f[n])
      BY DEF Ids
    <3>4. f[n][i].id \in ShownIds(v)
      BY <1>1, <1>4, <3>3 DEF ShownIds
    <3>5. m.id \notin ShownIds(v)
      BY <2>0 DEF Appendable
    <3> QED
      BY <3>2, <3>4, <3>5
  <2> SUFFICES ASSUME NEW p \in Places(u), NEW r \in Places(u), At(u, p).id = At(u, r).id, At(u, p).id > MaxPeerIds, At(u, p).id \notin ByWindow
               PROVE  p = r
    BY DEF OwnOnce
  <2>1. p \in Slots(g, hi) /\ r \in Slots(g, hi) /\ At(u, p) = g[p[1]][p[2]] /\ At(u, r) = g[r[1]][r[2]]
    BY <1>18, <1>19
  <2>2. CASE p = x /\ r # x
    <3>1. PICK o \in Slots(f, top) : E[o] = r /\ g[r[1]][r[2]] = f[o[1]][o[2]]
      BY <1>16, <2>1, <2>2
    <3> QED
      BY <1>14, <2>0, <2>1, <2>2, <3>1
  <2>3. CASE p # x /\ r = x
    <3>1. PICK o \in Slots(f, top) : E[o] = p /\ g[p[1]][p[2]] = f[o[1]][o[2]]
      BY <1>16, <2>1, <2>3
    <3> QED
      BY <1>14, <2>0, <2>1, <2>3, <3>1
  <2>4. CASE p # x /\ r # x
    <3>1. PICK o \in Slots(f, top) : E[o] = p /\ g[p[1]][p[2]] = f[o[1]][o[2]]
      BY <1>16, <2>1, <2>4
    <3>2. PICK k \in Slots(f, top) : E[k] = r /\ g[r[1]][r[2]] = f[k[1]][k[2]]
      BY <1>16, <2>1, <2>4
    <3>3. o \in Places(v) /\ k \in Places(v) /\ At(v, o) = f[o[1]][o[2]] /\ At(v, k) = f[k[1]][k[2]]
      BY <1>17
    <3>4. o = k
      BY <1>22, <2>1, <3>1, <3>2, <3>3 DEF OwnOnce
    <3> QED
      BY <3>1, <3>2, <3>4
  <2> QED
    BY <2>2, <2>3, <2>4
<1>34. PendingIsSent(u, at, id)
  <2> SUFFICES ASSUME NEW r \in Places(u), Sent(At(u, r)), At(u, r).status = "pending"
               PROVE  at = "transmit" /\ At(u, r).id = id
    BY DEF PendingIsSent, Sent
  <2>1. r \in Slots(g, hi) /\ At(u, r) = g[r[1]][r[2]]
    BY <1>18, <1>19
  <2>2. CASE r = x
    BY <1>14, <2>1, <2>2 DEF Appendable
  <2>3. CASE r # x
    <3>1. PICK p \in Slots(f, top) : g[r[1]][r[2]] = f[p[1]][p[2]]
      BY <1>16, <2>1, <2>3
    <3>2. p \in Places(v) /\ At(v, p) = At(u, r)
      BY <1>17, <2>1, <3>1
    <3> QED
      BY <3>2, IdleIsSent
  <2> QED
    BY <2>2, <2>3
<1>35. Whole(ScopedAfter(todo, scoped), LegacyAfter(todo, legacy))
  <2>1. PICK s : s = ScopedAfter(todo, scoped)
    OBVIOUS
  <2>2. PICK l : l = LegacyAfter(todo, legacy)
    OBVIOUS
  <2>3. /\ \A n \in C!Pages : l.pages[n] = legacy.pages[n] /\ (s.pages[n] = scoped.pages[n] \/ n \in 0 .. hi)
        /\ l.meta = legacy.meta
    BY <1>8, <1>10, <2>1, <2>2, Made DEF ViewNow
  <2>4. View(s, l) = u /\ ShownMeta(s, l) = <<new>> /\ v = View(scoped, legacy)
    BY <1>6, <1>20, <2>1, <2>2 DEF View, ViewNow
  <2>5. ASSUME NEW n \in C!Pages, n > hi PROVE s.pages[n] = <<>>
    <3>1. n > top /\ n \notin 0 .. hi
      BY <1>5, <1>10, <2>5 DEF C!Pages
    <3>2. scoped.pages[n] = <<>>
      BY <1>1, <1>22, <2>4, <3>1 DEF Whole
    <3> QED
      BY <2>3, <3>1, <3>2
  <2>6. (l.pages[0] = <<>>) <=> (l.meta = <<>>)
    <3>1. 0 \in C!Pages
      BY ConversationsAssumption DEF C!Pages
    <3> QED
      BY <1>22, <2>3, <3>1 DEF Whole
  <2>7. ASSUME NEW b \in Stock(s, l) PROVE b.index <= new.index
    <3>1. b = m \/ b \in Stock(scoped, legacy)
      BY <1>30, <2>1, <2>2
    <3>2. CASE b = m
      BY <1>24, <1>25, <1>26, <3>2 DEF C!Larger
    <3>3. CASE b \in Stock(scoped, legacy)
      <4>1. b.index <= c.index
        BY <1>23, <3>3
      <4>2. c.index <= new.index /\ new.index \in Nat
        BY <1>24, <1>25, <1>26 DEF C!Larger
      <4>3. b.index \in Nat
        <5>1. PICK n \in C!Pages : b \in Held(scoped.pages[n]) \cup Held(legacy.pages[n])
          BY <3>3 DEF Stock
        <5>2. PICK o \in Options(Seq(Msgs)) : b \in Held(o)
          BY <1>0, <5>1 DEF StoreTyped, Records
        <5>3. o # <<>> /\ o[1] \in Seq(Msgs)
          BY <5>2, OptionIs DEF Held
        <5>4. PICK i \in 1 .. Len(o[1]) : b = o[1][i]
          BY <5>2, <5>3 DEF Held
        <5>5. b \in Msgs
          BY <5>3, <5>4
        <5> QED
          BY <5>5 DEF Msgs
      <4> QED
        BY <1>24, <4>1, <4>2, <4>3
    <3> QED
      BY <3>1, <3>2, <3>3
  <2>8. PICK mt : mt = <<new>>
    OBVIOUS
  <2>9. mt # <<>> /\ mt[1] = new
    BY <2>8
  <2>10. Whole(s, l)
    BY <1>6, <2>4, <2>5, <2>6, <2>7, <2>8, <2>9 DEF Whole
  <2> QED
    BY <2>1, <2>2, <2>10
<1>36. Whole(ScopedAhead, LegacyAhead)' /\ Counted(ViewAhead)' /\ OwnOnce(ViewAhead)' /\ PendingIsSent(ViewAhead, op.at, op.id)'
  BY <1>2, <1>20, <1>28, <1>33, <1>34, <1>35
<1> QED
  BY <1>31, <1>32, <1>36 DEF Faultless


\* Both.
LEMMA AppendStep ==
    ASSUME ConversationInv, op = C!Idle, C!CanAppend, NEW m, ~C!already_stored(C!current, m.id),
           NEW at, NEW id, Appendable(m, ViewNow, at, id), owned' \in 0 .. MaxOwnIds, owned <= owned',
           Begins(C!append(m), at, id)
    PROVE  ConversationInv'
<1>0. StoreTyped /\ owned \in Nat /\ Kept
  BY DEF ConversationInv, Kept, RestTyped
<1>1. PICK v : v = ViewNow
  OBVIOUS
<1>2. PICK todo : todo = C!appended(m)
  OBVIOUS
<1>3. Begins(todo, at, id)
  BY <1>2 DEF C!append
<1>4. PICK hi, base, g, new : Appending(m, v, hi, base, g, new, todo)
  BY <1>0, <1>1, <1>2, AppendedIs
<1>5. Appendable(m, v, at, id)
  BY <1>1
<1>6. PICK u : u = ViewAhead'
  OBVIOUS
<1>7. Kept'
  BY <1>0, <1>1, <1>3, <1>4, <1>5, <1>6, AppendKept
<1>8. faults' = faults
  BY DEF Begins
<1>9. ASSUME faults = 0 PROVE Faultless'
  BY <1>1, <1>3, <1>4, <1>5, <1>9, AppendFaultless
<1> QED
  BY <1>7, <1>8, <1>9 DEF ConversationInv

\* A duplicate found is on a page the conversation reaches.
LEMMA StoredIsShown ==
    ASSUME StoreTyped, owned \in Nat, NEW id, C!already_stored(C!current, id)
    PROVE  id \in ShownIds(ViewNow)
<1>1. PICK v : v = ViewNow
  OBVIOUS
<1>2. PICK top : top = Top(v)
  OBVIOUS
<1>3. id \in Ids(v.page[top]) \/ (top > 0 /\ id \in Ids(v.page[top - 1]))
  BY <1>1, <1>2, CurrentIs
<1>4. top \in Nat
  BY <1>1, <1>2, ViewIs, ConversationsAssumption DEF C!Pages
<1>5. top \in 0 .. top /\ (top > 0 => top - 1 \in 0 .. top)
  BY <1>4
<1> QED
  BY <1>1, <1>2, <1>3, <1>5 DEF ShownIds

\* The account's next id is no message's.
LEMMA OwnIsNew ==
    ASSUME StoreTyped, RestTyped, owned < MaxOwnIds
    PROVE  /\ C!OwnId(owned) \notin ShownIds(ViewNow) /\ C!OwnId(owned) \in Nat /\ C!OwnId(owned) > MaxPeerIds
           /\ C!OwnId(owned) \notin OldIds /\ C!OwnId(owned) \in 1 .. (MaxPeerIds + (owned + 1))
           /\ C!OwnId(owned) \notin 1 .. MaxPeerIds
<1>1. owned \in Nat /\ MaxOwnIds \in Nat /\ MaxPeerIds \in Nat
  BY ConversationsAssumption DEF RestTyped
<1>2. PICK x : x = C!OwnId(owned)
  OBVIOUS
<1>3. x = MaxPeerIds + 1 + owned
  BY <1>2 DEF C!OwnId
<1>4. x \in Nat /\ x > MaxPeerIds /\ x \in 1 .. (MaxPeerIds + (owned + 1)) /\ x \notin 1 .. MaxPeerIds /\ x \notin 1 .. (MaxPeerIds + owned)
  BY <1>1, <1>3
<1>5. x \notin OldIds
  BY <1>1, <1>3 DEF OldIds, C!OldId
<1>6. x \notin ShownIds(ViewNow)
  <2> SUFFICES ASSUME x \in ShownIds(ViewNow) PROVE FALSE
    OBVIOUS
  <2>1. PICK n \in 0 .. Top(ViewNow) : x \in Ids(ViewNow.page[n])
    BY DEF ShownIds
  <2>2. PICK page : page = ViewNow.page[n]
    OBVIOUS
  <2>3. Top(ViewNow) \in C!Pages
    BY <1>1, ViewIs
  <2>4. n \in C!Pages
    BY <2>3, ConversationsAssumption DEF C!Pages
  <2>5. GoodPage(n, page, owned)
    BY <1>1, <2>2, <2>4, ViewIs
  <2>6. PICK i \in 1 .. Len(page) : x = page[i].id
    BY <2>1, <2>2 DEF Ids
  <2>7. GoodMsg(page[i], owned)
    BY <2>5 DEF GoodPage
  <2>8. x \in 1 .. (MaxPeerIds + owned) \/ x \in OldIds
    BY <2>6, <2>7 DEF GoodMsg, Sent
  <2> QED
    BY <1>4, <1>5, <2>8
<1> QED
  BY <1>2, <1>4, <1>5, <1>6

\* The account's own message, or one it puts down.
LEMMA OwnStep ==
    ASSUME ConversationInv, op = C!Idle, C!CanAppend, owned < MaxOwnIds, owned' = owned + 1,
           NEW from \in C!Parties, NEW status \in C!Statuses, from = "peer" => status = "delivered",
           NEW at \in {"done", "transmit"}, NEW id, status = "pending" => at = "transmit" /\ id = C!OwnId(owned),
           NEW m, m = C!received(C!OwnId(owned), from, C!Now, C!NextIndex, status), Begins(C!append(m), at, id)
    PROVE  ConversationInv'
<1>0. StoreTyped /\ RestTyped /\ owned \in Nat
  BY DEF ConversationInv, Kept, RestTyped
<1>1. PICK x : x = C!OwnId(owned)
  OBVIOUS
<1>2. /\ x \notin ShownIds(ViewNow) /\ x \in Nat /\ x > MaxPeerIds
      /\ x \notin OldIds /\ x \in 1 .. (MaxPeerIds + owned') /\ x \notin 1 .. MaxPeerIds
  BY <1>0, <1>1, OwnIsNew
<1>3. C!NextIndex \in Nat
  <2>1. PICK c : c = C!current
    OBVIOUS
  <2>2. PICK v : v = ViewNow
    OBVIOUS
  <2>3. c \in Metas /\ C!NextIndex = c.index + 1
    BY <1>0, <2>1, <2>2, CurrentIs
  <2>4. c.index \in Nat
    BY <2>3 DEF Metas
  <2> QED
    BY <2>3, <2>4
<1>4. m.id = x /\ m.from = from /\ m.ts = 2 /\ m.index = C!NextIndex /\ m.status = status /\ m.editor = "none" /\ m.reacted = 0
  BY <1>1 DEF C!received, C!Now
<1>5. m \in Msgs
  BY <1>1, <1>2, <1>3 DEF C!received, C!Now, Msgs
<1>6. GoodMsg(m, owned')
  <2>1. m.ts \in 1 .. 2
    BY <1>4
  <2> QED
    BY <1>2, <1>4, <1>5, <2>1 DEF GoodMsg, Sent
<1>7. Appendable(m, ViewNow, at, id)
  BY <1>1, <1>2, <1>4, <1>5, <1>6 DEF Appendable
<1>8. ~C!already_stored(C!current, m.id)
  BY <1>0, <1>2, <1>4, StoredIsShown
<1>9. owned' \in 0 .. MaxOwnIds /\ owned <= owned'
  BY <1>0, ConversationsAssumption
<1> QED
  BY <1>7, <1>8, <1>9, AppendStep

\* The account sends.
LEMMA SendKeeps == ASSUME ConversationInv, op = C!Idle, C!send PROVE ConversationInv'
<1>0. StoreTyped /\ RestTyped
  BY DEF ConversationInv, Kept
<1>1. PICK m : m = C!received(C!OwnId(owned), "own", C!Now, C!NextIndex, "pending")
  OBVIOUS
<1>2. /\ owned < MaxOwnIds /\ C!CanAppend /\ owned' = owned + 1
      /\ C!lock("transmit", C!append(m), C!OwnId(owned)) /\ UNCHANGED <<C!store, prefs, C!told, removed, faults>>
  BY <1>1 DEF C!send
<1>3. C!OwnId(owned) \in Nat /\ removed \subseteq removed' /\ UNCHANGED <<C!store, C!told, faults>>
  BY <1>0, <1>2, OwnIsNew
<1>4. Begins(C!append(m), "transmit", C!OwnId(owned))
  BY <1>0, <1>2, <1>3, LockBegins
<1>5. "own" \in C!Parties /\ "pending" \in C!Statuses /\ "own" # "peer"
  BY DEF C!Parties, C!Statuses
<1> QED
  BY <1>1, <1>2, <1>4, <1>5, OwnStep

\* A window records a message.
LEMMA RecordKeeps == ASSUME ConversationInv, op = C!Idle, NEW m \in C!Recorded, C!Record(m) PROVE ConversationInv'
<1>0. StoreTyped /\ RestTyped /\ owned \in Nat /\ owned \in 0 .. MaxOwnIds /\ MaxPeerIds \in Nat /\ MaxOwnIds \in Nat
  BY ConversationsAssumption DEF ConversationInv, Kept, RestTyped
<1>1. PICK id \in 1 .. (MaxPeerIds + MaxOwnIds), from \in C!Parties, ts \in 1 .. 2, index \in Indices, status \in C!Statuses :
          m = C!received(id, from, ts, index, status)
  BY DEF C!Recorded
<1>2. /\ m.id = id /\ m.from = from /\ m.ts = ts /\ m.index = index /\ m.status = status /\ m.editor = "none" /\ m.reacted = 0
  BY <1>1 DEF C!received
<1>3. id \in Nat /\ ts \in Nat /\ index \in Nat
  BY <1>0, ConversationsAssumption
<1>4. m \in Msgs
  BY <1>1, <1>3 DEF C!received, Msgs
<1>5. /\ C!CanAppend /\ id \in ByWindow /\ id <= C!OwnId(owned)
      /\ (from = "peer" /\ status \notin {"delivered", "read"} => Uncounted)
      /\ owned' = (IF id = C!OwnId(owned) THEN owned + 1 ELSE owned)
      /\ C!lock("done", C!append(m), 0) /\ UNCHANGED <<C!store, prefs, C!told, removed, faults>>
  BY <1>2 DEF C!Record
<1>6. Begins(C!append(m), "done", 0)
  <2>1. 0 \in Nat /\ removed \subseteq removed' /\ UNCHANGED <<C!store, C!told, faults>> /\ C!lock("done", C!append(m), 0)
    BY <1>5
  <2> QED
    BY <1>0, <2>1, LockBegins
<1>7. PICK own : own = C!OwnId(owned)
  OBVIOUS
<1>8. own = MaxPeerIds + 1 + owned /\ id <= own /\ owned' = IF id = own THEN owned + 1 ELSE owned
  BY <1>5, <1>7 DEF C!OwnId
<1>9. owned' \in 0 .. MaxOwnIds /\ owned <= owned' /\ id \in 1 .. (MaxPeerIds + owned')
  BY <1>0, <1>8
<1>10. id \notin OldIds
  BY <1>0 DEF OldIds, C!OldId
<1>11. CASE C!already_stored(C!current, m.id)
  <2>1. Begins(<<>>, "done", 0)
    BY <1>6, <1>11 DEF C!append
  <2>2. id \in ShownIds(ViewNow)
    BY <1>0, <1>2, <1>11, StoredIsShown
  <2>3. owned < MaxOwnIds => id # own
    BY <1>0, <1>7, <2>2, OwnIsNew
  <2>4. owned' = owned
    BY <1>0, <1>8, <2>3
  <2>5. faults = 0 => PendingIsSent(ViewNow, "done", 0)
    BY IdleIsSent DEF PendingIsSent
  <2> QED
    BY <2>1, <2>4, <2>5, NoWrites
<1>12. CASE ~C!already_stored(C!current, m.id)
  <2>1. GoodMsg(m, owned')
    BY <1>2, <1>4, <1>5, <1>9 DEF GoodMsg, Sent, C!Parties
  <2>2. Appendable(m, ViewNow, "done", 0)
    BY <1>2, <1>4, <1>5, <1>10, <2>1 DEF Appendable, Sent
  <2> QED
    BY <1>5, <1>6, <1>9, <1>12, <2>2, AppendStep
<1> QED
  BY <1>11, <1>12

\* A message that is there already is handled again, and nothing is written.
LEMMA DuplicateStep ==
    ASSUME ConversationInv, op = C!Idle, NEW id \in 1 .. MaxPeerIds, id \in ShownIds(ViewNow),
           Begins(<<>>, "duplicate", id), owned' = owned
    PROVE  ConversationInv'
<1>0. StoreTyped /\ RestTyped /\ Kept /\ NewestApart(ViewNow) /\ owned \in Nat /\ op.at = "done" /\ op.id = 0
  BY DEF ConversationInv, Kept, RestTyped, C!Idle
<1>1. PICK v : v = ViewNow
  OBVIOUS
<1>2. ScopedAfter(<<>>, scoped) = scoped /\ LegacyAfter(<<>>, legacy) = legacy
  BY <1>0, NothingAfter DEF StoreTyped
<1>3. /\ op'.writes = <<>> /\ op'.at = "duplicate" /\ op'.id = id
      /\ ViewNow' = v /\ ScopedAhead' = scoped /\ LegacyAhead' = legacy
      /\ ViewAhead' = v /\ ScopedAhead = scoped /\ LegacyAhead = legacy /\ ViewAhead = v /\ ToBe = {}
      /\ ToBe' = Written(<<>>) /\ News' = News /\ ToldIds' = ToldIds
  <2>1. ViewAhead' = View(ScopedAfter(<<>>, scoped), LegacyAfter(<<>>, legacy))
    BY <1>0, BeginIs
  <2> QED
    BY <1>0, <1>1, <1>2, <2>1, BeginIs DEF ViewNow
<1>4. GoodWrites(<<>>, owned') /\ owned' \in 0 .. MaxOwnIds /\ owned <= owned'
  <2>1. GoodWrites(<<>>, owned')
    BY DEF GoodWrites, Distinct
  <2> QED
    BY <1>0, <2>1 DEF RestTyped
<1>5. StoreTyped' /\ RestTyped' /\ OpTyped' /\ NewestApart(ViewNow)' /\ HandledIsShown'
  BY <1>0, <1>4, BeginTyped
<1>6. Trims'
  BY <1>3 DEF Trims
<1>7. StoredIsAhead' /\ NewestApart(ViewAhead)'
  BY <1>0, <1>1, <1>3 DEF StoredIsAhead
<1>8. Kept'
  BY <1>5, <1>6, <1>7 DEF Kept
<1>9. scoped' = scoped /\ legacy' = legacy /\ acked' = acked /\ announced' = announced /\ faults' = faults
  BY DEF Begins
<1>10. ASSUME faults = 0 PROVE Faultless'
  <2>0. Faultless
    BY <1>10 DEF ConversationInv
  <2>1. Whole(scoped, legacy) /\ Counted(v) /\ OwnOnce(v) /\ Announced /\ IndexApart(Stock(scoped, legacy) \cup {})
    BY <1>3, <2>0 DEF Faultless
  <2>2. PendingIsSent(v, "duplicate", id)
    BY <1>1, <1>10, IdleIsSent DEF PendingIsSent, Sent
  <2>3. Written(<<>>) = {}
    BY DEF Written
  <2>4. IndexApart(Stock(scoped, legacy) \cup ToBe)'
    BY <1>3, <1>9, <2>1, <2>3
  <2>5. \A b \in Stock(scoped, legacy) : b.id \in 1 .. MaxPeerIds => b.id \in News \cup ByWindow
    BY <1>0, <1>3, <2>1 DEF Announced
  <2>6. id \in News \cup ByWindow
    <3>1. PICK n \in 0 .. Top(v) : id \in Ids(v.page[n])
      BY <1>1 DEF ShownIds
    <3>2. PICK i \in 1 .. Len(v.page[n]) : id = v.page[n][i].id
      BY <3>1 DEF Ids
    <3>3. n \in C!Pages
      <4>1. Top(v) \in C!Pages
        BY <1>0, <1>1, ViewIs
      <4> QED
        BY <4>1, ConversationsAssumption DEF C!Pages
    <3>4. v.page[n][i] \in Stock(scoped, legacy)
      BY <1>1, <3>3, ShownIsStock DEF ViewNow
    <3> QED
      BY <2>5, <3>2, <3>4
  <2>7. Announced'
    <3>1. announced \subseteq acked /\ (acked' \cup ToldIds') \ removed' \subseteq News \cup ByWindow
      BY <1>3, <1>9, <2>1 DEF Announced, Begins
    <3> QED
      BY <1>3, <1>9, <2>5, <2>6, <3>1 DEF Announced
  <2> QED
    BY <1>3, <2>1, <2>2, <2>4, <2>7 DEF Faultless
<1> QED
  BY <1>8, <1>9, <1>10 DEF ConversationInv

\* The peer's message comes in, once or again.
LEMMA IncomingKeeps ==
    ASSUME ConversationInv, op = C!Idle, NEW p \in C!PeerMessages, C!Incoming(C!AsMessage(p))
    PROVE  ConversationInv'
<1>0. StoreTyped /\ RestTyped /\ owned \in Nat /\ owned \in 0 .. MaxOwnIds /\ ops \in Nat
  BY DEF ConversationInv, Kept, RestTyped
<1>1. PICK m : m = C!AsMessage(p)
  OBVIOUS
<1>2. /\ m.id = p.id /\ m.from = "peer" /\ m.ts = p.ts /\ m.index = p.id /\ m.status = "delivered" /\ m.editor = "none"
      /\ m.reacted = 0 /\ m = C!received(p.id, "peer", p.ts, p.id, "delivered")
  BY <1>1 DEF C!AsMessage, C!received
<1>3. p.id \in 1 .. MaxPeerIds /\ p.ts \in 1 .. 2 /\ p.id \in Nat /\ p.ts \in Nat
  BY ConversationsAssumption DEF C!PeerMessages
<1>4. m \in Msgs
  BY <1>2, <1>3 DEF C!received, Msgs, C!Parties, C!Statuses
<1>5. m.id \in 1 .. (MaxPeerIds + owned) /\ m.id \notin OldIds /\ ~(m.id > MaxPeerIds)
  BY <1>0, <1>2, <1>3, ConversationsAssumption DEF OldIds, C!OldId
<1>6. PICK todo : todo = C!append(m)
  OBVIOUS
<1>7. /\ C!CanAppend /\ C!lock(IF todo = <<>> THEN "duplicate" ELSE "stored", todo, m.id)
      /\ UNCHANGED <<C!store, prefs, untold, acked, announced, removed, C!counters>>
  BY <1>1, <1>6 DEF C!Incoming
<1>8. PICK at : at = IF todo = <<>> THEN "duplicate" ELSE "stored"
  OBVIOUS
<1>9. UNCHANGED <<scoped, legacy, untold, acked, announced, removed, faults>> /\ owned' = owned
  BY <1>7 DEF C!store, C!counters
<1>10. Begins(todo, at, m.id)
  <2>1. ops' = ops + 1 /\ op' = [at |-> at, writes |-> todo, id |-> m.id]
    BY <1>7, <1>8 DEF C!lock
  <2>2. ops' \in Nat
    BY <1>0, <2>1
  <2>3. op.writes = <<>> /\ op.at = "done"
    BY DEF C!Idle
  <2> QED
    BY <1>2, <1>3, <1>9, <2>1, <2>2, <2>3 DEF Begins
<1>11. CASE C!already_stored(C!current, m.id)
  <2>1. todo = <<>>
    BY <1>6, <1>11 DEF C!append
  <2>2. at = "duplicate" /\ Begins(<<>>, "duplicate", m.id)
    BY <1>8, <1>10, <2>1
  <2>3. m.id \in ShownIds(ViewNow)
    BY <1>0, <1>11, StoredIsShown
  <2> QED
    BY <1>2, <1>3, <1>9, <2>2, <2>3, DuplicateStep
<1>12. CASE ~C!already_stored(C!current, m.id)
  <2>1. todo # <<>>
    <3>1. PICK v : v = ViewNow
      OBVIOUS
    <3>2. todo = C!appended(m)
      BY <1>6, <1>12 DEF C!append
    <3>3. PICK hi, base, g, new : Appending(m, v, hi, base, g, new, todo)
      BY <1>0, <1>7, <3>1, <3>2, AppendedIs
    <3>4. (\E a, b : todo = <<a, b>>) \/ (\E a, b, d : todo = <<a, b, d>>)
      BY <3>3, Zenon DEF Appending
    <3>5. Len(todo) # 0
      BY <3>4
    <3> QED
      BY <3>5
  <2>2. at = "stored" /\ Begins(C!append(m), "stored", m.id)
    BY <1>6, <1>8, <1>10, <2>1
  <2>3. GoodMsg(m, owned')
    BY <1>2, <1>3, <1>4, <1>5, <1>9 DEF GoodMsg, Sent
  <2>4. Appendable(m, ViewNow, "stored", m.id)
    BY <1>2, <1>3, <1>4, <1>5, <2>3 DEF Appendable, Sent
  <2>5. owned' \in 0 .. MaxOwnIds /\ owned <= owned'
    BY <1>0, <1>9
  <2> QED
    BY <1>7, <1>12, <2>2, <2>4, <2>5, AppendStep
<1> QED
  BY <1>11, <1>12

-----------------------------------------------------------------------------
(* Nothing under this account's key: at first, and once it has cleared. *)

\* A store whose own pages are gone shows at most the record from before,
LEMMA BareStock ==
    ASSUME NEW s, NEW l, Bare(s, l), NEW m \in Stock(s, l)
    PROVE  \E i \in 1 .. 2 : m = OldPage[1][i] /\ l.pages[0] = OldPage
<1>1. PICK n \in C!Pages : m \in Held(s.pages[n]) \cup Held(l.pages[n])
  BY DEF Stock
<1>2. Held(<<>>) = {}
  BY DEF Held
<1>3. n = 0 /\ l.pages[0] = OldPage /\ m \in Held(OldPage)
  BY <1>1, <1>2 DEF Bare
<1>4. PICK i \in 1 .. Len(OldPage[1]) : m = OldPage[1][i]
  BY <1>3, OldIs DEF Held
<1>5. i \in 1 .. 2
  BY <1>4, OldIs
<1> QED
  BY <1>3, <1>4, <1>5

\* and what holds while nothing failed holds of it.
LEMMA BareHolds ==
    ASSUME NEW s, NEW l, Bare(s, l), NEW u, u = View(s, l)
    PROVE  /\ Top(u) = 0 /\ NewestApart(u) /\ Whole(s, l) /\ Counted(u) /\ OwnOnce(u) /\ IndexApart(Stock(s, l))
           /\ \A p \in Places(u) : ~(Sent(At(u, p)) /\ At(u, p).status = "pending")
           /\ \A m \in Stock(s, l) : m.id \notin 1 .. MaxPeerIds
<1>1. 0 \in C!Pages /\ C!Pages \subseteq Nat
  BY ConversationsAssumption DEF C!Pages
<1>2. u.meta = l.meta /\ u.page[0] = IF l.pages[0] = <<>> THEN <<>> ELSE l.pages[0][1]
  BY <1>1 DEF Bare, View, ShownMeta, ShownPage
<1>3. PICK a : a = OldPage[1][1]
  OBVIOUS
<1>4. PICK b : b = OldPage[1][2]
  OBVIOUS
<1>5. /\ a.id = C!OldId(1) /\ a.from = "own" /\ a.ts = 1 /\ a.index = 1 /\ a.status = "sent"
      /\ b.id = C!OldId(2) /\ b.from = "peer" /\ b.ts = 2 /\ b.index = 1 /\ b.status = "delivered"
  BY <1>3, <1>4, OldIs
<1>6. C!OldId(1) \notin 1 .. MaxPeerIds /\ C!OldId(2) \notin 1 .. MaxPeerIds /\ C!OldId(1) # C!OldId(2)
  BY ConversationsAssumption DEF C!OldId
<1>7. \A m \in Stock(s, l) : (m = a \/ m = b) /\ l.pages[0] = OldPage
  <2> SUFFICES ASSUME NEW m \in Stock(s, l) PROVE (m = a \/ m = b) /\ l.pages[0] = OldPage
    OBVIOUS
  <2>1. PICK i \in 1 .. 2 : m = OldPage[1][i] /\ l.pages[0] = OldPage
    BY BareStock
  <2>2. i = 1 \/ i = 2
    OBVIOUS
  <2> QED
    BY <1>3, <1>4, <2>1, <2>2
<1>8. IndexApart(Stock(s, l)) /\ \A m \in Stock(s, l) : m.id \notin 1 .. MaxPeerIds
  <2>1. \A m \in Stock(s, l) : m.id \notin 1 .. MaxPeerIds
    BY <1>5, <1>6, <1>7
  <2>2. \A m \in Stock(s, l) : m.from = "own" => m.id = C!OldId(1)
    BY <1>5, <1>7
  <2> QED
    BY <2>1, <2>2 DEF IndexApart, Sent
<1>9. CASE l.pages[0] = <<>> /\ l.meta = <<>>
  <2>1. Top(u) = 0 /\ u.page[0] = <<>> /\ u.meta = <<>>
    BY <1>2, <1>9 DEF Top
  <2>2. Places(u) = {}
    <3> SUFFICES ASSUME NEW p \in Slots(u.page, 0) PROVE FALSE
      BY <2>1 DEF Places
    <3>1. PICK n \in 0 .. 0 : \E i \in 1 .. Len(u.page[n]) : p = <<n, i>>
      BY InSlots
    <3>2. n = 0
      OBVIOUS
    <3>3. 1 .. Len(u.page[n]) = {}
      BY <2>1, <3>2
    <3> QED
      BY <3>1, <3>3
  <2>3. Stock(s, l) = {}
    BY <1>7, <1>9, OldIs
  <2>4. ShownMeta(s, l) = <<>> /\ \A n \in C!Pages : s.pages[n] = <<>>
    BY <1>9 DEF ShownMeta, Bare
  <2>5. Whole(s, l)
    BY <1>1, <1>9, <2>3, <2>4 DEF Whole
  <2>6. NewestApart(u)
    BY <2>1 DEF NewestApart
  <2>7. Counted(u) /\ OwnOnce(u)
    BY <2>1, <2>2 DEF Counted, OwnOnce
  <2> QED
    BY <1>8, <2>1, <2>2, <2>5, <2>6, <2>7
<1>10. ASSUME l.pages[0] = OldPage, NEW owner \in {"none", "own"}, l.meta = OldMeta(owner)
       PROVE  /\ Top(u) = 0 /\ NewestApart(u) /\ Whole(s, l) /\ Counted(u) /\ OwnOnce(u)
              /\ \A p \in Places(u) : ~(Sent(At(u, p)) /\ At(u, p).status = "pending")
  <2>1. PICK page : page = OldPage[1]
    OBVIOUS
  <2>2. u.page[0] = page /\ Len(page) = 2 /\ page[1] = a /\ page[2] = b
    BY <1>2, <1>3, <1>4, <1>10, <2>1, OldIs
  <2>3. PICK mt : mt = OldMeta(owner)
    OBVIOUS
  <2>4. mt # <<>> /\ mt[1].total = 2 /\ mt[1].oldest = 1 /\ mt[1].latest = 0 /\ mt[1].unread = 1 /\ mt[1].index = 1
    BY <2>3, OldIs
  <2>5. u.meta = mt /\ Top(u) = 0 /\ l.meta = mt
    BY <1>2, <1>10, <2>3, <2>4 DEF Top
  <2>6. \A p : p \in Places(u) <=> p = <<0, 1>> \/ p = <<0, 2>>
    <3>0. Places(u) = Slots(u.page, 0)
      BY <2>5 DEF Places
    <3>1. ASSUME NEW p \in Places(u) PROVE p = <<0, 1>> \/ p = <<0, 2>>
      <4>1. PICK n \in 0 .. 0 : \E i \in 1 .. Len(u.page[n]) : p = <<n, i>>
        BY <3>0, InSlots
      <4>2. n = 0
        OBVIOUS
      <4>3. PICK i \in 1 .. 2 : p = <<0, i>>
        BY <2>2, <4>1, <4>2
      <4>4. i = 1 \/ i = 2
        OBVIOUS
      <4> QED
        BY <4>3, <4>4
    <3>2. 0 \in 0 .. 0 /\ 1 \in 1 .. Len(u.page[0]) /\ 2 \in 1 .. Len(u.page[0])
      BY <2>2
    <3>3. <<0, 1>> \in Places(u) /\ <<0, 2>> \in Places(u)
      BY <3>0, <3>2, InSlots
    <3> QED
      BY <3>1, <3>3
  <2>7. At(u, <<0, 1>>) = a /\ At(u, <<0, 2>>) = b
    BY <2>2 DEF At
  <2>8. Counted(u)
    <3>1. Places(u) = {<<0, 1>>, <<0, 2>>} /\ <<0, 1>> # <<0, 2>>
      BY <2>6
    <3>2. Cardinality(Places(u)) = 2
      <4>1. IsFiniteSet({<<0, 1>>}) /\ Cardinality({<<0, 1>>}) = 1
        BY FS_Singleton
      <4>2. <<0, 2>> \notin {<<0, 1>>} /\ Places(u) = {<<0, 1>>} \cup {<<0, 2>>}
        BY <3>1
      <4>3. Cardinality({<<0, 1>>} \cup {<<0, 2>>}) = Cardinality({<<0, 1>>}) + 1
        BY <4>1, <4>2, FS_AddElement
      <4> QED
        BY <4>1, <4>2, <4>3
    <3>3. UnreadPlaces(u) = {<<0, 2>>}
      <4>1. ~IsUnread(a) /\ IsUnread(b)
        BY <1>5 DEF IsUnread
      <4>2. \A p \in UnreadPlaces(u) : p \in Places(u) /\ IsUnread(At(u, p))
        BY DEF UnreadPlaces
      <4>3. <<0, 2>> \in UnreadPlaces(u)
        BY <2>6, <2>7, <4>1 DEF UnreadPlaces
      <4> QED
        BY <2>6, <2>7, <4>1, <4>2, <4>3
    <3>4. Cardinality(UnreadPlaces(u)) = 1
      BY <3>3, FS_Singleton
    <3>5. \A p \in Places(u) : At(u, p).ts >= 1
      BY <1>5, <2>6, <2>7
    <3> QED
      BY <2>4, <2>5, <3>2, <3>4, <3>5 DEF Counted
  <2>9. OwnOnce(u)
    BY <1>5, <1>6, <2>6, <2>7 DEF OwnOnce
  <2>10. \A p \in Places(u) : ~(Sent(At(u, p)) /\ At(u, p).status = "pending")
    BY <1>5, <2>6, <2>7
  <2>11. ShownMeta(s, l) = mt /\ \A n \in C!Pages : s.pages[n] = <<>>
    BY <2>5 DEF ShownMeta, Bare
  <2>12. \A m \in Stock(s, l) : m.index <= mt[1].index
    BY <1>5, <1>7, <2>4
  <2>13. Whole(s, l)
    BY <1>10, <2>4, <2>5, <2>11, <2>12, OldIs DEF Whole
  <2>14. NewestApart(u)
    BY <2>5 DEF NewestApart
  <2> QED
    BY <2>5, <2>8, <2>9, <2>10, <2>13, <2>14
<1>11. \/ l.pages[0] = <<>> /\ l.meta = <<>>
       \/ l.pages[0] = OldPage /\ \E owner \in {"none", "own"} : l.meta = OldMeta(owner)
  BY DEF Bare
<1> QED
  BY <1>8, <1>9, <1>10, <1>11


\* The pages dropped upwards and the metadata last.
LEMMA DroppingIs ==
    ASSUME NEW key \in WriteKeys, NEW pagekey \in WriteKeys, NEW top \in C!Pages
    PROVE  Drops(Dropping(key, pagekey, top), key, pagekey, top)
<1>0. top \in Nat /\ 0 .. top \subseteq C!Pages /\ 0 \in C!Pages
  BY ConversationsAssumption DEF C!Pages
<1>1. PICK A : A = [k \in 1 .. (top + 1) |-> C!delete_key(pagekey, k - 1)]
  OBVIOUS
<1>2. PICK b : b = C!delete_key(key, 0)
  OBVIOUS
<1>3. <<>> \in Options(Seq(Msgs)) \cup Options(Metas)
  BY OptionHas
<1>4. b \in Writes /\ b.key = key /\ b.n = 0 /\ b.value = <<>>
  BY <1>0, <1>2, <1>3 DEF C!delete_key, Writes
<1>5. ASSUME NEW k \in 1 .. (top + 1)
      PROVE  A[k] \in Writes /\ A[k].key = pagekey /\ A[k].n = k - 1 /\ A[k].value = <<>>
  <2>1. k - 1 \in 0 .. top
    BY <1>0
  <2>2. k - 1 \in C!Pages
    BY <1>0, <2>1
  <2>3. A[k] = C!delete_key(pagekey, k - 1)
    BY <1>1
  <2> QED
    BY <1>3, <2>2, <2>3 DEF C!delete_key, Writes
<1>6. A \in Seq(Writes) /\ Len(A) = top + 1
  <2>1. PICK N \in Nat : N = top + 1
    BY <1>0
  <2>2. A = [k \in 1 .. N |-> A[k]] /\ \A k \in 1 .. N : A[k] \in Writes
    BY <1>1, <1>5, <2>1
  <2>3. A \in Seq(Writes) /\ Len(A) = N
    BY <2>2
  <2> QED
    BY <2>1, <2>3
<1>7. PICK D : D = A \o <<b>>
  OBVIOUS
<1>8. D \in Seq(Writes) /\ Len(D) = top + 2 /\ (\A k \in 1 .. (top + 1) : D[k] = A[k]) /\ D[top + 2] = b
  BY <1>0, <1>4, <1>6, <1>7
<1>9. Drops(D, key, pagekey, top)
  BY <1>4, <1>5, <1>8 DEF Drops
<1> QED
  BY <1>1, <1>2, <1>7, <1>9 DEF Dropping

\* Each key dropped once.
LEMMA DropsHas ==
    ASSUME NEW key, NEW pagekey, key # pagekey, NEW top \in C!Pages, NEW D, Drops(D, key, pagekey, top)
    PROVE  Dropped(D, key, pagekey, top)
<1>0. top \in Nat /\ 0 .. top \subseteq C!Pages /\ 0 \in C!Pages
  BY ConversationsAssumption DEF C!Pages
<1>1. /\ D \in Seq(Writes) /\ Len(D) = top + 2
      /\ \A k \in 1 .. (top + 1) : D[k].key = pagekey /\ D[k].n = k - 1 /\ D[k].value = <<>>
      /\ D[top + 2].key = key /\ D[top + 2].n = 0 /\ D[top + 2].value = <<>>
  BY DEF Drops
<1>2. \A k \in 1 .. Len(D) : k \in 1 .. (top + 1) \/ k = top + 2
  BY <1>0, <1>1
<1>3. \A k \in 1 .. (top + 1) : k \in 1 .. Len(D) /\ k \in Int /\ k - 1 \in C!Pages
  BY <1>0, <1>1
<1>4. top + 2 \in 1 .. Len(D)
  BY <1>0, <1>1
<1>5. \A k \in 1 .. Len(D) : D[k].value = <<>> /\ D[k].n \in C!Pages /\ D[k].key \in {key, pagekey} /\ (D[k].key = key => D[k].n = 0)
  BY <1>0, <1>1, <1>2, <1>3
<1>6. ASSUME NEW n \in 0 .. top PROVE \E k \in 1 .. Len(D) : D[k].key = pagekey /\ D[k].n = n
  <2>1. n + 1 \in 1 .. (top + 1) /\ (n + 1) - 1 = n
    BY <1>0
  <2> QED
    BY <1>1, <1>3, <2>1
<1>7. Distinct(D)
  <2> SUFFICES ASSUME NEW j \in 1 .. Len(D), NEW k \in 1 .. Len(D), D[j].key = D[k].key, D[j].n = D[k].n PROVE j = k
    BY DEF Distinct
  <2>1. CASE j \in 1 .. (top + 1) /\ k \in 1 .. (top + 1)
    <3>1. j - 1 = k - 1 /\ j \in Int /\ k \in Int
      BY <1>1, <1>3, <2>1
    <3> QED
      BY <3>1
  <2> QED
    BY <1>1, <1>2, <2>1
<1> QED
  BY <1>0, <1>1, <1>4, <1>5, <1>6, <1>7 DEF Dropped

\* A conversation deleted is its pages and metadata dropped, and those under the peer alone where they may be.
LEMMA DeleteIs ==
    ASSUME StoreTyped, owned \in Nat, C!load_metadata # <<>>, NEW include, NEW todo, todo = C!delete(include), NEW v, v = ViewNow
    PROVE  \E all \in BOOLEAN : Erases(todo, Top(v), all)
<1>1. PICK top : top = Top(v)
  OBVIOUS
<1>2. top \in C!Pages /\ C!load_metadata[1].latest = top /\ 0 \in C!Pages
  BY <1>1, ViewIs, ConversationsAssumption DEF Top, C!Pages
<1>3. PICK bot : bot = IF legacy.meta = <<>> THEN top ELSE legacy.meta[1].latest
  OBVIOUS
<1>4. bot \in C!Pages
  BY <1>2, <1>3, OldIs DEF StoreTyped
<1>5. PICK all \in BOOLEAN : all <=> IF legacy.meta = <<>> THEN include ELSE C!may(legacy.meta[1], include)
  OBVIOUS
<1>6. PICK mine : mine = Dropping("metadata", "page", top)
  OBVIOUS
<1>7. PICK D : D = Dropping("legacy_metadata", "legacy_page", bot)
  OBVIOUS
<1>8. todo = mine \o (IF all THEN D ELSE <<>>)
  BY <1>2, <1>3, <1>5, <1>6, <1>7 DEF C!delete, Dropping
<1>9. "metadata" \in WriteKeys /\ "page" \in WriteKeys /\ "legacy_metadata" \in WriteKeys /\ "legacy_page" \in WriteKeys
  BY DEF WriteKeys
<1>10. Drops(mine, "metadata", "page", top) /\ Drops(D, "legacy_metadata", "legacy_page", bot)
  BY <1>2, <1>4, <1>6, <1>7, <1>9, DroppingIs
<1>11. "metadata" # "page" /\ "legacy_metadata" # "legacy_page"
  OBVIOUS
<1>12. /\ mine \in Seq(Writes) /\ Len(mine) \in Nat /\ Distinct(mine)
       /\ \A k \in 1 .. Len(mine) : mine[k].value = <<>> /\ mine[k].n \in C!Pages /\ mine[k].key \in {"metadata", "page"} /\ (mine[k].key = "metadata" => mine[k].n = 0)
       /\ \A n \in 0 .. top : \E k \in 1 .. Len(mine) : mine[k].key = "page" /\ mine[k].n = n
       /\ \E k \in 1 .. Len(mine) : mine[k].key = "metadata" /\ mine[k].n = 0
  <2>1. Dropped(mine, "metadata", "page", top)
    BY <1>2, <1>10, <1>11, DropsHas
  <2> QED
    BY <2>1 DEF Dropped
<1>13. /\ D \in Seq(Writes) /\ Len(D) \in Nat /\ Distinct(D)
       /\ \A k \in 1 .. Len(D) : D[k].value = <<>> /\ D[k].n \in C!Pages /\ D[k].key \in {"legacy_metadata", "legacy_page"}
                                 /\ (D[k].key = "legacy_metadata" => D[k].n = 0)
       /\ \A n \in 0 .. bot : \E k \in 1 .. Len(D) : D[k].key = "legacy_page" /\ D[k].n = n
       /\ \E k \in 1 .. Len(D) : D[k].key = "legacy_metadata" /\ D[k].n = 0
  <2>1. Dropped(D, "legacy_metadata", "legacy_page", bot)
    BY <1>4, <1>10, <1>11, DropsHas
  <2> QED
    BY <2>1 DEF Dropped
<1>14. CASE ~all
  <2>1. todo = mine
    BY <1>8, <1>12, <1>14
  <2>2. Erases(todo, top, all)
    BY <1>12, <1>14, <2>1 DEF Erases
  <2> QED
    BY <1>1, <2>2
<1>15. CASE all
  <2>1. todo = mine \o D
    BY <1>8, <1>15
  <2>2. todo \in Seq(Writes) /\ Len(todo) = Len(mine) + Len(D)
    BY <1>12, <1>13, <2>1
  <2>3. \A k \in 1 .. Len(mine) : todo[k] = mine[k] /\ k \in 1 .. Len(todo)
    BY <1>12, <1>13, <2>1, <2>2
  <2>4. \A k \in 1 .. Len(D) : todo[Len(mine) + k] = D[k] /\ Len(mine) + k \in 1 .. Len(todo)
    BY <1>12, <1>13, <2>1, <2>2
  <2>5. ASSUME NEW k \in 1 .. Len(todo) PROVE k \in 1 .. Len(mine) \/ \E i \in 1 .. Len(D) : k = Len(mine) + i
    <3>1. CASE k \notin 1 .. Len(mine)
      <4>1. k - Len(mine) \in 1 .. Len(D) /\ k = Len(mine) + (k - Len(mine))
        BY <1>12, <1>13, <2>2, <3>1
      <4> QED
        BY <4>1
    <3> QED
      BY <3>1
  <2>6. ASSUME NEW k \in 1 .. Len(todo)
        PROVE  todo[k].value = <<>> /\ todo[k].n \in C!Pages /\ (todo[k].key \in {"metadata", "legacy_metadata"} => todo[k].n = 0)
    <3>1. CASE k \in 1 .. Len(mine)
      <4>1. todo[k] = mine[k]
        BY <2>3, <3>1
      <4>2. mine[k].value = <<>> /\ mine[k].n \in C!Pages /\ mine[k].key \in {"metadata", "page"} /\ (mine[k].key = "metadata" => mine[k].n = 0)
        BY <1>12, <3>1
      <4> QED
        BY <4>1, <4>2
    <3>2. CASE k \notin 1 .. Len(mine)
      <4>1. PICK i \in 1 .. Len(D) : k = Len(mine) + i
        BY <2>5, <3>2
      <4>2. todo[k] = D[i]
        BY <2>4, <4>1
      <4>3. D[i].value = <<>> /\ D[i].n \in C!Pages /\ D[i].key \in {"legacy_metadata", "legacy_page"} /\ (D[i].key = "legacy_metadata" => D[i].n = 0)
        BY <1>13
      <4> QED
        BY <4>2, <4>3
    <3> QED
      BY <3>1, <3>2
  <2>7. \A n \in 0 .. top : \E k \in 1 .. Len(todo) : todo[k].key = "page" /\ todo[k].n = n
    BY <1>12, <2>3
  <2>8. \E k \in 1 .. Len(todo) : todo[k].key = "metadata" /\ todo[k].n = 0
    BY <1>12, <2>3
  <2>9. \E k \in 1 .. Len(todo) : todo[k].key = "legacy_page" /\ todo[k].n = 0
    <3>1. 0 \in 0 .. bot
      BY <1>4, ConversationsAssumption DEF C!Pages
    <3>2. PICK k \in 1 .. Len(D) : D[k].key = "legacy_page" /\ D[k].n = 0
      BY <1>13, <3>1
    <3> QED
      BY <2>4, <3>2
  <2>10. \E k \in 1 .. Len(todo) : todo[k].key = "legacy_metadata" /\ todo[k].n = 0
    <3>2. PICK k \in 1 .. Len(D) : D[k].key = "legacy_metadata" /\ D[k].n = 0
      BY <1>13
    <3> QED
      BY <2>4, <3>2
  <2>11. Distinct(todo)
    <3> SUFFICES ASSUME NEW j \in 1 .. Len(todo), NEW k \in 1 .. Len(todo), todo[j].key = todo[k].key, todo[j].n = todo[k].n PROVE j = k
      BY DEF Distinct
    <3>1. CASE j \in 1 .. Len(mine) /\ k \in 1 .. Len(mine)
      BY <1>12, <2>3, <3>1 DEF Distinct
    <3>2. CASE j \in 1 .. Len(mine) /\ k \notin 1 .. Len(mine)
      <4>1. PICK i \in 1 .. Len(D) : k = Len(mine) + i
        BY <2>5, <3>2
      <4>2. todo[j].key \in {"metadata", "page"} /\ todo[k].key \in {"legacy_metadata", "legacy_page"}
        BY <1>12, <1>13, <2>3, <2>4, <3>2, <4>1
      <4> QED
        BY <4>2
    <3>3. CASE j \notin 1 .. Len(mine) /\ k \in 1 .. Len(mine)
      <4>1. PICK i \in 1 .. Len(D) : j = Len(mine) + i
        BY <2>5, <3>3
      <4>2. todo[k].key \in {"metadata", "page"} /\ todo[j].key \in {"legacy_metadata", "legacy_page"}
        BY <1>12, <1>13, <2>3, <2>4, <3>3, <4>1
      <4> QED
        BY <4>2
    <3>4. CASE j \notin 1 .. Len(mine) /\ k \notin 1 .. Len(mine)
      <4>1. PICK i \in 1 .. Len(D) : j = Len(mine) + i
        BY <2>5, <3>4
      <4>2. PICK o \in 1 .. Len(D) : k = Len(mine) + o
        BY <2>5, <3>4
      <4>4. D[i].key = D[o].key /\ D[i].n = D[o].n
        BY <2>4, <4>1, <4>2
      <4>3. i = o
        BY <1>13, <4>4 DEF Distinct
      <4> QED
        BY <4>1, <4>2, <4>3
    <3> QED
      BY <3>1, <3>2, <3>3, <3>4
  <2>12. Erases(todo, top, all)
    BY <1>15, <2>2, <2>6, <2>7, <2>8, <2>9, <2>10, <2>11 DEF Erases
  <2> QED
    BY <1>1, <2>12
<1> QED
  BY <1>14, <1>15


\* What is left then of either record.
LEMMA ErasesAll ==
    ASSUME NEW todo, NEW top, NEW all \in BOOLEAN, Erases(todo, top, all), NEW s, NEW l
    PROVE  /\ ScopedAfter(todo, s).meta = <<>>
           /\ \A n \in C!Pages : ScopedAfter(todo, s).pages[n] \in {s.pages[n], <<>>}
           /\ \A n \in 0 .. top : n \in C!Pages => ScopedAfter(todo, s).pages[n] = <<>>
           /\ \A n \in C!Pages : LegacyAfter(todo, l).pages[n] \in {l.pages[n], <<>>}
           /\ LegacyAfter(todo, l).meta \in {l.meta, <<>>}
           /\ all => LegacyAfter(todo, l).meta = <<>> /\ (0 \in C!Pages => LegacyAfter(todo, l).pages[0] = <<>>)
           /\ ~all => LegacyAfter(todo, l).meta = l.meta /\ \A n \in C!Pages : LegacyAfter(todo, l).pages[n] = l.pages[n]
<1>1. Distinct(todo) /\ \A k \in 1 .. Len(todo) : todo[k].value = <<>>
  BY DEF Erases
<1>2. ASSUME NEW key, NEW n, NEW now
      PROVE  /\ After(todo, key, n, now) \in {now, <<>>}
             /\ (\E k \in 1 .. Len(todo) : todo[k].key = key /\ todo[k].n = n) => After(todo, key, n, now) = <<>>
             /\ (\A k \in 1 .. Len(todo) : todo[k].key # key) => After(todo, key, n, now) = now
  <2>1. CASE \E k \in 1 .. Len(todo) : todo[k].key = key /\ todo[k].n = n
    <3>1. PICK k \in 1 .. Len(todo) : todo[k].key = key /\ todo[k].n = n
      BY <2>1
    <3>2. After(todo, key, n, now) = todo[k].value
      BY <1>1, <3>1, AfterHas
    <3> QED
      BY <1>1, <3>1, <3>2
  <2>2. CASE \A k \in 1 .. Len(todo) : ~(todo[k].key = key /\ todo[k].n = n)
    <3>1. After(todo, key, n, now) = now
      BY <2>2, AfterNone
    <3> QED
      BY <2>2, <3>1
  <2> QED
    BY <2>1, <2>2
<1>3. /\ ScopedAfter(todo, s).meta = After(todo, "metadata", 0, s.meta)
      /\ \A n \in C!Pages : ScopedAfter(todo, s).pages[n] = After(todo, "page", n, s.pages[n])
      /\ LegacyAfter(todo, l).meta = After(todo, "legacy_metadata", 0, l.meta)
      /\ \A n \in C!Pages : LegacyAfter(todo, l).pages[n] = After(todo, "legacy_page", n, l.pages[n])
  BY DEF ScopedAfter, LegacyAfter
<1>4. ScopedAfter(todo, s).meta = <<>>
  <2>1. \E k \in 1 .. Len(todo) : todo[k].key = "metadata" /\ todo[k].n = 0
    BY DEF Erases
  <2> QED
    BY <1>2, <1>3, <2>1
<1>5. \A n \in C!Pages : ScopedAfter(todo, s).pages[n] \in {s.pages[n], <<>>}
  BY <1>2, <1>3
<1>6. \A n \in 0 .. top : n \in C!Pages => ScopedAfter(todo, s).pages[n] = <<>>
  <2>1. \A n \in 0 .. top : \E k \in 1 .. Len(todo) : todo[k].key = "page" /\ todo[k].n = n
    BY DEF Erases
  <2> QED
    BY <1>2, <1>3, <2>1
<1>7. (\A n \in C!Pages : LegacyAfter(todo, l).pages[n] \in {l.pages[n], <<>>}) /\ LegacyAfter(todo, l).meta \in {l.meta, <<>>}
  BY <1>2, <1>3
<1>8. all => LegacyAfter(todo, l).meta = <<>> /\ (0 \in C!Pages => LegacyAfter(todo, l).pages[0] = <<>>)
  <2>1. all => /\ \E k \in 1 .. Len(todo) : todo[k].key = "legacy_page" /\ todo[k].n = 0
               /\ \E k \in 1 .. Len(todo) : todo[k].key = "legacy_metadata" /\ todo[k].n = 0
    BY DEF Erases
  <2> QED
    BY <1>2, <1>3, <2>1
<1>9. ~all => LegacyAfter(todo, l).meta = l.meta /\ \A n \in C!Pages : LegacyAfter(todo, l).pages[n] = l.pages[n]
  <2>1. ~all => \A k \in 1 .. Len(todo) : todo[k].key # "legacy_page" /\ todo[k].key # "legacy_metadata"
    BY DEF Erases
  <2> QED
    BY <1>2, <1>3, <2>1
<1> QED
  BY <1>4, <1>5, <1>6, <1>7, <1>8, <1>9

\* The conversation is cleared.
LEMMA ClearedKeeps == ASSUME ConversationInv, op = C!Idle, NEW include, C!Clear(include) PROVE ConversationInv'
<1>0. StoreTyped /\ RestTyped /\ owned \in Nat /\ Kept /\ HandledIsShown /\ op.writes = <<>> /\ op.at = "done"
  BY DEF ConversationInv, Kept, RestTyped, C!Idle
<1>1. PICK todo : todo = C!delete(include)
  OBVIOUS
<1>2. PICK v : v = ViewNow
  OBVIOUS
<1>3. PICK top : top = Top(v)
  OBVIOUS
<1>4. /\ C!load_metadata # <<>> /\ C!lock("done", todo, 0) /\ removed' = removed \cup C!Reachable
      /\ UNCHANGED <<C!store, prefs, C!told, C!counters>>
  BY <1>1 DEF C!Clear
<1>5. removed \subseteq removed' /\ UNCHANGED <<C!store, C!told, faults>> /\ owned' = owned /\ 0 \in Nat
  BY <1>4 DEF C!counters
<1>6. Begins(todo, "done", 0)
  BY <1>0, <1>4, <1>5, LockBegins
<1>7. PICK all \in BOOLEAN : Erases(todo, top, all)
  BY <1>0, <1>1, <1>2, <1>3, <1>4, DeleteIs
<1>8. /\ op'.writes = todo /\ op'.at = "done" /\ op'.id = 0 /\ ScopedAhead' = ScopedAfter(todo, scoped) /\ LegacyAhead' = LegacyAfter(todo, legacy)
      /\ ScopedAhead = scoped /\ LegacyAhead = legacy /\ ViewAhead = v /\ ToBe = {}
      /\ ToBe' = Written(todo) /\ News' = News /\ ToldIds' = ToldIds
      /\ ViewAhead' = View(ScopedAfter(todo, scoped), LegacyAfter(todo, legacy))
  BY <1>0, <1>2, <1>6, BeginIs
<1>9. GoodWrites(todo, owned')
  <2>1. todo \in Seq(Writes) /\ Distinct(todo)
    BY <1>7 DEF Erases
  <2>2. ASSUME NEW k \in 1 .. Len(todo) PROVE GoodWrite(todo[k], owned')
    <3>1. todo[k].value = <<>> /\ todo[k].n \in C!Pages /\ (todo[k].key \in {"metadata", "legacy_metadata"} => todo[k].n = 0)
      BY <1>7 DEF Erases
    <3>2. <<>> \in Options(Seq(Msgs)) /\ <<>> \in Options(Metas)
      BY OptionHas
    <3>3. todo[k] \in Writes
      BY <2>1
    <3> QED
      BY <3>1, <3>2, <3>3 DEF GoodWrite, GoodOption
  <2> QED
    BY <2>1, <2>2 DEF GoodWrites
<1>10. owned' \in 0 .. MaxOwnIds /\ owned <= owned'
  BY <1>0, <1>5 DEF RestTyped
<1>11. StoreTyped' /\ RestTyped' /\ OpTyped' /\ NewestApart(ViewNow)' /\ HandledIsShown'
  BY <1>0, <1>6, <1>9, <1>10, BeginTyped
<1>12. scoped' = scoped /\ legacy' = legacy /\ acked' = acked /\ announced' = announced /\ faults' = faults
  BY <1>6 DEF Begins
<1>13. Clears'
  <2>1. C!Reachable = ShownIds(v)
    BY <1>0, <1>2, ViewIs
  <2>2. acked \cup ToldIds \subseteq removed'
    BY <1>0, <1>2, <1>4, <2>1 DEF HandledIsShown
  <2>3. \A k \in 1 .. Len(todo) : todo[k].value = <<>>
    BY <1>7 DEF Erases
  <2> QED
    BY <1>8, <1>12, <2>2, <2>3 DEF Clears
<1>14. PICK s : s = ScopedAfter(todo, scoped)
  OBVIOUS
<1>15. PICK l : l = LegacyAfter(todo, legacy)
  OBVIOUS
<1>16. PICK u : u = View(s, l)
  OBVIOUS
<1>17. /\ s.meta = <<>> /\ (\A n \in C!Pages : s.pages[n] \in {scoped.pages[n], <<>>})
       /\ \A n \in 0 .. top : n \in C!Pages => s.pages[n] = <<>>
  BY <1>7, <1>14, ErasesAll
<1>18. /\ \A n \in C!Pages : l.pages[n] \in {legacy.pages[n], <<>>}
       /\ l.meta \in {legacy.meta, <<>>}
  BY <1>7, <1>15, ErasesAll
<1>19. /\ all => l.meta = <<>> /\ (0 \in C!Pages => l.pages[0] = <<>>)
       /\ ~all => l.meta = legacy.meta /\ \A n \in C!Pages : l.pages[n] = legacy.pages[n]
  BY <1>7, <1>15, ErasesAll
<1>20. Top(u) = 0
  <2>1. u.meta = l.meta
    BY <1>16, <1>17 DEF View, ShownMeta
  <2>2. legacy.meta \in {<<>>, OldMeta("own"), OldMeta("none")}
    BY <1>0 DEF StoreTyped
  <2>3. l.meta = <<>> \/ l.meta[1].latest = 0
    BY <1>18, <2>2, OldIs
  <2> QED
    BY <2>1, <2>3 DEF Top
<1>21. NewestApart(ViewAhead)'
  BY <1>8, <1>14, <1>15, <1>16, <1>20 DEF NewestApart
<1>22. StoredIsAhead'
  BY <1>8 DEF StoredIsAhead
<1>23. Kept'
  BY <1>11, <1>13, <1>21, <1>22 DEF Kept
<1>24. ASSUME faults = 0 PROVE Faultless'
  <2>0. Faultless
    BY <1>24 DEF ConversationInv
  <2>1. Whole(scoped, legacy) /\ Announced /\ IndexApart(Stock(scoped, legacy) \cup {})
    BY <1>8, <2>0 DEF Faultless
  <2>2. 0 \in C!Pages /\ C!Pages \subseteq Nat
    BY ConversationsAssumption DEF C!Pages
  <2>3. ASSUME NEW n \in C!Pages PROVE s.pages[n] = <<>>
    <3>1. top \in Nat
      BY <1>0, <1>2, <1>3, <2>2, ViewIs
    <3>2. n > top \/ n \in 0 .. top
      BY <2>2, <3>1
    <3>3. n > top => scoped.pages[n] = <<>>
      BY <1>2, <1>3, <2>1 DEF Whole, ViewNow
    <3> QED
      BY <1>17, <3>2, <3>3
  <2>4. Bare(s, l)
    <3>1. \A n \in C!Pages \ {0} : l.pages[n] = <<>>
      BY <1>0, <1>18 DEF StoreTyped
    <3>2. (legacy.pages[0] = <<>>) <=> (legacy.meta = <<>>)
      BY <2>1 DEF Whole
    <3>3. legacy.pages[0] \in {<<>>, OldPage} /\ legacy.meta \in {<<>>, OldMeta("own"), OldMeta("none")}
      BY <1>0 DEF StoreTyped
    <3>4. \/ l.pages[0] = <<>> /\ l.meta = <<>>
          \/ l.pages[0] = OldPage /\ \E owner \in {"none", "own"} : l.meta = OldMeta(owner)
      BY <1>19, <2>2, <3>2, <3>3
    <3> QED
      BY <1>17, <2>3, <3>1, <3>4 DEF Bare
  <2>5. /\ Whole(s, l) /\ Counted(u) /\ OwnOnce(u)
        /\ \A p \in Places(u) : ~(Sent(At(u, p)) /\ At(u, p).status = "pending")
        /\ \A m \in Stock(s, l) : m.id \notin 1 .. MaxPeerIds
    BY <1>16, <2>4, BareHolds
  <2>6. PendingIsSent(u, "done", 0)
    BY <2>5 DEF PendingIsSent, Sent
  <2>7. Written(todo) = {}
    <3> SUFFICES ASSUME NEW m \in Written(todo) PROVE FALSE
      OBVIOUS
    <3>1. PICK k \in 1 .. Len(todo) : m \in Held(todo[k].value)
      BY DEF Written
    <3>2. todo[k].value = <<>>
      BY <1>7 DEF Erases
    <3> QED
      BY <3>1, <3>2 DEF Held
  <2>8. IndexApart(Stock(scoped, legacy) \cup ToBe)'
    BY <1>8, <1>12, <2>1, <2>7
  <2>9. Announced'
    <3>1. announced \subseteq acked /\ (acked' \cup ToldIds') \ removed' \subseteq News \cup ByWindow
      BY <1>5, <1>8, <1>12, <2>1 DEF Announced
    <3> QED
      BY <1>8, <1>12, <1>14, <1>15, <2>5, <3>1 DEF Announced
  <2>10. Whole(ScopedAhead, LegacyAhead)' /\ Counted(ViewAhead)' /\ OwnOnce(ViewAhead)' /\ PendingIsSent(ViewAhead, op.at, op.id)'
    BY <1>8, <1>14, <1>15, <1>16, <2>5, <2>6
  <2> QED
    BY <2>8, <2>9, <2>10 DEF Faultless
<1> QED
  BY <1>12, <1>23, <1>24 DEF ConversationInv

-----------------------------------------------------------------------------
(* At first, and step by step. *)
LEMMA ConversationStarts == ASSUME LegacyOwners \subseteq {"none", "own"}, C!Init PROVE ConversationInv
<1>1. 0 \in C!Pages /\ MaxOwnIds \in Nat
  BY ConversationsAssumption DEF C!Pages
<1>2. scoped = C!Nothing /\ legacy \in {C!Nothing} \cup {C!OldRecord(owner) : owner \in LegacyOwners} /\ op = C!Idle
      /\ untold = {} /\ acked = {} /\ announced = {} /\ removed = {} /\ owned = 0 /\ ops = 0 /\ faults = 0
  BY DEF C!Init
<1>3. C!Nothing.meta = <<>> /\ (\A n \in C!Pages : C!Nothing.pages[n] = <<>>) /\ C!Nothing \in Records
  <2>1. <<>> \in Options(Seq(Msgs)) /\ <<>> \in Options(Metas)
    BY OptionHas
  <2> QED
    BY <2>1 DEF C!Nothing, C!NoPages, Records
<1>4. legacy = C!Nothing \/ \E owner \in {"none", "own"} : legacy = C!OldRecord(owner)
  BY <1>2
<1>5. ASSUME NEW owner \in {"none", "own"}, legacy = C!OldRecord(owner)
      PROVE  /\ legacy \in Records /\ legacy.pages[0] = OldPage /\ legacy.meta = OldMeta(owner)
             /\ \A n \in C!Pages \ {0} : legacy.pages[n] = <<>>
  <2>1. legacy.meta = OldMeta(owner)
    BY <1>5 DEF OldMeta
  <2> QED
    BY <1>5, <2>1, OldIs
<1>6. Bare(scoped, legacy)
  BY <1>1, <1>2, <1>3, <1>4, <1>5 DEF Bare
<1>7. StoreTyped
  <2>1. GoodOption(0, <<>>, owned) /\ \A n \in C!Pages : GoodOption(n, scoped.pages[n], owned)
    BY <1>2, <1>3, OptionHas DEF GoodOption
  <2>2. /\ scoped \in Records /\ legacy \in Records
        /\ legacy.pages[0] \in {<<>>, OldPage} /\ (\A n \in C!Pages \ {0} : legacy.pages[n] = <<>>)
        /\ legacy.meta \in {<<>>, OldMeta("own"), OldMeta("none")}
    BY <1>1, <1>2, <1>3, <1>4, <1>5
  <2> QED
    BY <2>1, <2>2 DEF StoreTyped
<1>8. RestTyped
  BY <1>1, <1>2 DEF RestTyped
<1>9. op.at = "done" /\ op.writes = <<>> /\ op.id = 0 /\ op = [at |-> op.at, writes |-> op.writes, id |-> op.id]
  BY <1>2 DEF C!Idle
<1>10. GoodWrites(<<>>, owned)
  BY DEF GoodWrites, Distinct
<1>11. OpTyped
  BY <1>9, <1>10 DEF OpTyped
<1>12. Trims
  BY <1>9 DEF Trims
<1>13. ScopedAhead = scoped /\ LegacyAhead = legacy /\ ViewAhead = ViewNow
  BY <1>7, <1>9, NothingAhead
<1>14. PICK u : u = ViewNow
  OBVIOUS
<1>15. /\ NewestApart(u) /\ Whole(scoped, legacy) /\ Counted(u) /\ OwnOnce(u) /\ IndexApart(Stock(scoped, legacy))
       /\ \A p \in Places(u) : ~(Sent(At(u, p)) /\ At(u, p).status = "pending")
       /\ \A m \in Stock(scoped, legacy) : m.id \notin 1 .. MaxPeerIds
  BY <1>6, <1>14, BareHolds DEF ViewNow
<1>16. acked \cup ToldIds = {}
  BY <1>2 DEF ToldIds
<1>17. HandledIsShown /\ StoredIsAhead
  BY <1>9, <1>16 DEF HandledIsShown, StoredIsAhead
<1>18. Kept
  BY <1>7, <1>8, <1>11, <1>12, <1>13, <1>14, <1>15, <1>17 DEF Kept
<1>19. ToBe = {}
  BY <1>9 DEF ToBe
<1>20. Announced
  BY <1>2, <1>9, <1>13, <1>15, <1>16 DEF Announced
<1>21. PendingIsSent(u, op.at, op.id)
  BY <1>15 DEF PendingIsSent, Sent
<1>22. IndexApart(Stock(scoped, legacy) \cup ToBe)
  BY <1>15, <1>19
<1>23. Faultless
  BY <1>13, <1>14, <1>15, <1>20, <1>21, <1>22 DEF Faultless
<1> QED
  BY <1>18, <1>23 DEF ConversationInv

\* What the peer sent is not stored.
LEMMA HideKeeps == ASSUME ConversationInv, NEW p \in C!PeerMessages, C!hidden(C!AsMessage(p)) PROVE ConversationInv'
<1>1. PICK m : m = C!AsMessage(p)
  OBVIOUS
<1>2. m.id \in 1 .. MaxPeerIds
  BY <1>1 DEF C!AsMessage, C!received, C!PeerMessages
<1> QED
  BY <1>1, <1>2, HiddenKeeps

\* What the peer sent, new or again, is taken up.
LEMMA PeerBegins ==
    ASSUME ConversationInv, op = C!Idle, NEW p \in C!PeerMessages,
           C!Incoming(C!AsMessage(p)) \/ C!screenshot(C!AsMessage(p), TRUE)
    PROVE  ConversationInv'
<1>1. C!Incoming(C!AsMessage(p))
  BY DEF C!screenshot
<1> QED
  BY <1>1, IncomingKeeps

\* Every operation that may begin.
LEMMA BeginKeeps == ASSUME ConversationInv, C!Free, C!Begin PROVE ConversationInv'
<1>0. op = C!Idle
  BY DEF C!Free
<1>1. CASE \E m \in C!PeerMessages : C!Incoming(C!AsMessage(m)) \/ C!screenshot(C!AsMessage(m), TRUE)
  BY <1>0, <1>1, PeerBegins
<1>2. ASSUME NEW id \in C!Reachable, NEW kind \in {"edit", "delete", "react", "delivered", "read", "failed"}, C!revision(id, kind)
      PROVE  ConversationInv'
  BY <1>0, <1>2, RevisionKeeps
<1>3. ASSUME NEW id \in C!Reachable, C!resend(id) \/ C!React(id) PROVE ConversationInv'
  BY <1>0, <1>3, ResendKeeps, ReactKeeps
<1>4. ASSUME NEW id \in C!Reachable, NEW kind \in {"edit", "delete"}, C!revise_own(id, kind) PROVE ConversationInv'
  BY <1>0, <1>4, ReviseOwnKeeps
<1>5. ASSUME NEW id \in C!Reachable, NEW status \in C!Statuses, C!Patch(id, status) PROVE ConversationInv'
  BY <1>0, <1>5, PatchKeeps
<1>6. CASE C!send \/ C!MarkRead
  BY <1>0, <1>6, SendKeeps, MarkReadKeeps
<1>7. CASE C!Sweep
  BY <1>0, <1>7, SweptKeeps
<1>8. CASE \E m \in C!Recorded : C!Record(m)
  BY <1>0, <1>8, RecordKeeps
<1>9. CASE \E include_unattributed \in BOOLEAN : C!Clear(include_unattributed)
  BY <1>0, <1>9, ClearedKeeps
<1> QED
  BY <1>1, <1>2, <1>3, <1>4, <1>5, <1>6, <1>7, <1>8, <1>9 DEF C!Begin

\* Nothing changes but the preferences.
LEMMA ConversationStays ==
    ASSUME ConversationInv, UNCHANGED <<scoped, legacy, op, untold, acked, announced, removed, owned, faults>>, ops' \in {ops, ops + 1}
    PROVE  ConversationInv'
<1>1. scoped' = scoped /\ legacy' = legacy /\ op' = op /\ untold' = untold /\ acked' = acked /\ announced' = announced
      /\ removed' = removed /\ owned' = owned /\ ops' \in {ops, ops + 1} /\ faults' = faults
  OBVIOUS
<1>0. Kept /\ (faults = 0 => Faultless)
  BY DEF ConversationInv
<1>2. StoreTyped /\ OpTyped /\ RestTyped /\ (Trims \/ Clears \/ Appends) /\ NewestApart(ViewNow) /\ NewestApart(ViewAhead)
      /\ HandledIsShown /\ StoredIsAhead
  BY <1>0 DEF Kept
<1>3. /\ StoreTyped' /\ OpTyped' /\ NewestApart(ViewNow)' /\ NewestApart(ViewAhead)' /\ StoredIsAhead'
      /\ ScopedAhead' = ScopedAhead /\ LegacyAhead' = LegacyAhead /\ ViewAhead' = ViewAhead /\ ViewNow' = ViewNow /\ ToBe' = ToBe
  BY <1>1, <1>2, SameStore
<1>4. RestTyped'
  BY <1>1, <1>2 DEF RestTyped
<1>5. ToldIds' = ToldIds /\ News' = News
  BY <1>1 DEF ToldIds, News
<1>6. HandledIsShown'
  BY <1>1, <1>2, <1>3, <1>5 DEF HandledIsShown
<1>7. (Trims \/ Clears \/ Appends)'
  <2>1. Trims => Trims'
    BY <1>1, <1>3 DEF Trims
  <2>2. Clears => Clears'
    BY <1>1, <1>5 DEF Clears
  <2>3. Appends => Appends'
    BY <1>1, <1>3 DEF Appends
  <2> QED
    BY <1>2, <2>1, <2>2, <2>3
<1>8. Kept'
  BY <1>2, <1>3, <1>4, <1>6, <1>7 DEF Kept
<1>9. ASSUME faults' = 0 PROVE Faultless'
  <2>0. Faultless
    BY <1>0, <1>1, <1>9
  <2>1. Whole(ScopedAhead, LegacyAhead)' /\ Counted(ViewAhead)' /\ OwnOnce(ViewAhead)' /\ PendingIsSent(ViewAhead, op.at, op.id)'
    BY <1>1, <1>3, <2>0 DEF Faultless
  <2>2. IndexApart(Stock(scoped, legacy) \cup ToBe)'
    BY <1>1, <1>3, <2>0 DEF Faultless
  <2>3. Announced'
    BY <1>1, <1>3, <1>5, <2>0 DEF Announced, Faultless
  <2> QED
    BY <2>1, <2>2, <2>3 DEF Faultless
<1> QED
  BY <1>8, <1>9 DEF ConversationInv

\* A name is kept with the metadata, where it is shown from already.
LEMMA NamesKeeps == ASSUME ConversationInv, C!set_peer_username PROVE ConversationInv'
<1>0. Kept /\ (faults = 0 => Faultless)
  BY DEF ConversationInv
<1>1. /\ op.writes = <<>> /\ scoped' = [scoped EXCEPT !.meta = C!load_metadata]
      /\ UNCHANGED <<legacy, op, untold, acked, announced, removed, owned, ops, faults>>
  BY DEF C!set_peer_username, C!told, C!counters
<1>2. StoreTyped /\ OpTyped /\ RestTyped /\ NewestApart(ViewNow) /\ HandledIsShown /\ StoredIsAhead /\ owned \in Nat
  BY <1>0 DEF Kept, RestTyped
<1>3. PICK v : v = ViewNow
  OBVIOUS
<1>4. C!load_metadata = v.meta /\ v.meta \in Options(Metas) /\ v.meta = ShownMeta(scoped, legacy)
  BY <1>2, <1>3, ViewIs DEF ViewNow, View
<1>5. PICK s : s = scoped'
  OBVIOUS
<1>6. s \in Records /\ s.pages = scoped.pages /\ s.meta = v.meta
  <2>1. scoped \in Records
    BY <1>2 DEF StoreTyped
  <2> QED
    BY <1>1, <1>4, <1>5, <2>1 DEF Records
<1>7. ShownMeta(s, legacy) = v.meta /\ (\A n \in C!Pages : ShownPage(s, legacy, n) = ShownPage(scoped, legacy, n))
  BY <1>4, <1>6 DEF ShownMeta, ShownPage
<1>8. View(s, legacy) = v
  BY <1>3, <1>4, <1>7 DEF ViewNow, View
<1>9. ScopedAfter(<<>>, s) = s /\ LegacyAfter(<<>>, legacy) = legacy
  BY <1>2, <1>6, NothingAfter DEF StoreTyped
<1>10. ViewNow' = v /\ ViewAhead' = v /\ ScopedAhead' = s /\ LegacyAhead' = legacy
  BY <1>1, <1>5, <1>8, <1>9 DEF ViewNow, ViewAhead, ScopedAhead, LegacyAhead
<1>11. ViewAhead = v /\ ScopedAhead = scoped /\ LegacyAhead = legacy
  BY <1>1, <1>2, <1>3, NothingAhead
<1>12. StoreTyped' /\ RestTyped' /\ OpTyped' /\ Trims'
  <2>1. StoreTyped'
    BY <1>1, <1>2, <1>5, <1>6 DEF StoreTyped
  <2>2. RestTyped'
    BY <1>1, <1>2 DEF RestTyped
  <2>3. OpTyped'
    BY <1>1, <1>2 DEF OpTyped
  <2>4. Trims'
    BY <1>1 DEF Trims
  <2> QED
    BY <2>1, <2>2, <2>3, <2>4
<1>13. ToldIds' = ToldIds /\ News' = News /\ ToBe' = ToBe
  BY <1>1 DEF ToldIds, News, ToBe
<1>14. HandledIsShown' /\ StoredIsAhead' /\ NewestApart(ViewNow)' /\ NewestApart(ViewAhead)'
  BY <1>1, <1>2, <1>3, <1>10, <1>11, <1>13 DEF HandledIsShown, StoredIsAhead
<1>15. Kept'
  BY <1>12, <1>14 DEF Kept
<1>16. ASSUME faults = 0 PROVE Faultless'
  <2>1. /\ Whole(scoped, legacy) /\ Counted(v) /\ OwnOnce(v) /\ PendingIsSent(v, op.at, op.id) /\ Announced
        /\ IndexApart(Stock(scoped, legacy) \cup ToBe)
    BY <1>0, <1>11, <1>16 DEF Faultless
  <2>2. Stock(s, legacy) = Stock(scoped, legacy)
    BY <1>6 DEF Stock
  <2>3. Whole(s, legacy)
    <3>1. View(scoped, legacy) = v /\ ShownMeta(scoped, legacy) = v.meta
      BY <1>3, <1>4 DEF ViewNow
    <3> QED
      BY <1>6, <1>7, <1>8, <2>1, <2>2, <3>1 DEF Whole
  <2>4. IndexApart(Stock(scoped, legacy) \cup ToBe)'
    BY <1>1, <1>5, <1>13, <2>1, <2>2
  <2>5. Announced'
    BY <1>1, <1>10, <1>11, <1>13, <2>1, <2>2 DEF Announced
  <2>6. Whole(ScopedAhead, LegacyAhead)' /\ Counted(ViewAhead)' /\ OwnOnce(ViewAhead)' /\ PendingIsSent(ViewAhead, op.at, op.id)'
    BY <1>1, <1>10, <2>1, <2>3
  <2> QED
    BY <2>4, <2>5, <2>6 DEF Faultless
<1> QED
  BY <1>1, <1>15, <1>16 DEF ConversationInv

\* Every step of the conversation.
LEMMA ConversationKeeps == ASSUME ConversationInv, C!Next PROVE ConversationInv'
<1>1. CASE C!Free /\ C!Begin
  BY <1>1, BeginKeeps
<1>2. CASE \E u \in untold : C!Handled(u)
  BY <1>2, HandledKeeps
<1>3. CASE \E status \in {"sent", "failed"} : C!transmit(status)
  BY <1>3, TransmitKeeps
<1>4. CASE C!Released
  BY <1>4, ReleasedKeeps
<1>5. CASE C!Write
  <2>1. Kept'
    BY <1>5, WriteKeeps DEF ConversationInv
  <2>2. faults' = faults
    BY <1>5 DEF C!Write, C!counters
  <2>3. faults = 0 => Faultless'
    BY <1>5, WriteFaultless DEF ConversationInv
  <2> QED
    BY <2>1, <2>2, <2>3 DEF ConversationInv
<1>6. CASE C!WriteFails \/ C!Crash
  BY <1>6, EndKeeps
<1>7. CASE C!Beside
  <2>1. ASSUME NEW p, C!SetAccountPreferences(p) PROVE ConversationInv'
    <3>1. UNCHANGED <<scoped, legacy, op, untold, acked, announced, removed, owned, faults>> /\ ops' \in {ops, ops + 1}
      BY <2>1 DEF C!SetAccountPreferences, C!store, C!told, C!counters
    <3> QED
      BY <3>1, ConversationStays
  <2>2. ASSUME NEW p \in C!PeerMessages, C!Hide(C!AsMessage(p)) \/ C!screenshot(C!AsMessage(p), FALSE)
        PROVE  ConversationInv'
    <3>1. C!hidden(C!AsMessage(p))
      BY <2>2 DEF C!Hide, C!screenshot
    <3> QED
      BY <3>1, HideKeeps
  <2> QED
    BY <1>7, <2>1, <2>2 DEF C!Beside
<1>8. CASE C!set_peer_username
  BY <1>8, NamesKeeps
<1> QED
  BY <1>1, <1>2, <1>3, <1>4, <1>5, <1>6, <1>7, <1>8 DEF C!Next

-----------------------------------------------------------------------------
(* What it says of the conversation. *)
LEMMA ShowsHandled == ASSUME ConversationInv PROVE C!NothingHandledIsLost
<1>0. StoreTyped /\ RestTyped /\ owned \in Nat /\ HandledIsShown
  BY DEF ConversationInv, Kept, RestTyped
<1>1. PICK v : v = ViewNow
  OBVIOUS
<1>2. C!Reachable = ShownIds(v) /\ C!load_metadata = v.meta
  BY <1>0, <1>1, ViewIs
<1>3. acked \ removed \subseteq C!Reachable
  BY <1>0, <1>1, <1>2 DEF HandledIsShown
<1>4. ASSUME faults = 0 PROVE announced \subseteq acked /\ acked \ removed \subseteq announced \cup C!Told \cup ByWindow
  <2>1. announced \subseteq acked /\ (acked \cup ToldIds) \ removed \subseteq News \cup ByWindow
    BY <1>4 DEF ConversationInv, Faultless, Announced
  <2>2. News \subseteq announced \cup C!Told
    BY DEF News, C!Told
  <2> QED
    BY <2>1, <2>2
<1>5. ASSUME C!Settled, C!load_metadata = <<>> PROVE acked \ removed = {}
  <2>1. op = C!Idle /\ faults = 0
    BY <1>5 DEF C!Settled
  <2>2. op.writes = <<>>
    BY <2>1 DEF C!Idle
  <2>3. Whole(scoped, legacy) /\ Counted(v)
    BY <1>0, <1>1, <2>1, <2>2, NothingAhead DEF ConversationInv, Faultless
  <2>4. PICK c : c = C!current
    OBVIOUS
  <2>5. Slots(v.page, Top(v)) = {}
    BY <1>0, <1>1, <1>2, <1>5, <2>3, <2>4, CurrentCounts
  <2>6. \A n \in 0 .. Top(v) : \A i \in 1 .. Len(v.page[n]) : FALSE
    BY <2>5, InSlots
  <2>7. ShownIds(v) = {}
    BY <2>6 DEF ShownIds, Ids
  <2> QED
    BY <1>2, <1>3, <2>7
<1> QED
  BY <1>3, <1>4, <1>5 DEF C!NothingHandledIsLost

\* The newest two pages have no message twice.
LEMMA ShowsOnce == ASSUME ConversationInv PROVE C!NoTwins
<1>0. StoreTyped /\ owned \in Nat /\ NewestApart(ViewNow)
  BY DEF ConversationInv, Kept, RestTyped
<1>1. PICK v : v = ViewNow
  OBVIOUS
<1>2. PICK top : top = Top(v)
  OBVIOUS
<1>3. /\ C!LatestPage = top /\ top \in C!Pages /\ top \in Nat
      /\ \A n \in C!Pages : C!OnPage(n) = v.page[n] /\ C!IdsOn(n) = Ids(v.page[n]) /\ GoodPage(n, v.page[n], owned)
  BY <1>0, <1>1, <1>2, ViewIs, ConversationsAssumption DEF C!Pages
<1>4. ASSUME NEW n \in {C!LatestPage, C!LatestPage - 1} \cap C!Pages, NEW i \in 1 .. Len(C!OnPage(n))
      PROVE  /\ \A j \in 1 .. Len(C!OnPage(n)) : C!OnPage(n)[i].id = C!OnPage(n)[j].id => i = j
             /\ n = C!LatestPage /\ n > 0 => C!OnPage(n)[i].id \notin C!IdsOn(n - 1)
  <2>1. C!OnPage(n) = v.page[n] /\ GoodPage(n, v.page[n], owned)
    BY <1>3
  <2>2. \A j \in 1 .. Len(C!OnPage(n)) : C!OnPage(n)[i].id = C!OnPage(n)[j].id => i = j
    BY <2>1 DEF GoodPage
  <2>3. ASSUME n = C!LatestPage, n > 0 PROVE C!OnPage(n)[i].id \notin C!IdsOn(n - 1)
    <3>1. n = top /\ top > 0 /\ top - 1 \in C!Pages
      BY <1>3, <2>3, ConversationsAssumption DEF C!Pages
    <3>2. C!IdsOn(n - 1) = Ids(v.page[top - 1])
      BY <1>3, <3>1
    <3>3. C!OnPage(n)[i].id \in Ids(v.page[top])
      BY <2>1, <3>1 DEF Ids
    <3>4. Ids(v.page[top]) \cap Ids(v.page[top - 1]) = {}
      BY <1>0, <1>1, <1>2, <3>1 DEF NewestApart
    <3> QED
      BY <3>2, <3>3, <3>4
  <2> QED
    BY <2>2, <2>3
<1> QED
  BY <1>4 DEF C!NoTwins

\* The messages are those at the places shown.
LEMMA MessagesAre ==
    ASSUME StoreTyped, owned \in Nat, NEW v, v = ViewNow
    PROVE  /\ \A m : m \in C!Messages <=> \E p \in Places(v) : m = At(v, p)
           /\ C!Total = Cardinality(Places(v))
           /\ \A m \in C!Messages : GoodMsg(m, owned) /\ m \in Stock(scoped, legacy)
           /\ IsFiniteSet(Places(v))
<1>1. PICK top : top = Top(v)
  OBVIOUS
<1>2. /\ C!LatestPage = top /\ top \in Nat /\ 0 .. top \subseteq C!Pages
      /\ \A n \in C!Pages : C!OnPage(n) = v.page[n] /\ GoodPage(n, v.page[n], owned) /\ v.page[n] \in Seq(Msgs)
  BY <1>1, ViewIs, ConversationsAssumption DEF C!Pages
<1>3. \A n \in 0 .. top : C!OnPage(n) = v.page[n]
  BY <1>2
<1>4. UNION {{<<n, i>> : i \in 1 .. Len(C!OnPage(n))} : n \in 0 .. C!LatestPage} = Places(v)
  BY <1>1, <1>2, <1>3 DEF Places, Slots
<1>5. C!Total = Cardinality(Places(v))
  BY <1>4 DEF C!Total, C!Cardinality, Cardinality
<1>6. \A m : m \in C!Messages <=> \E n \in 0 .. top : \E i \in 1 .. Len(v.page[n]) : m = v.page[n][i]
  BY <1>2, <1>3 DEF C!Messages
<1>7. ASSUME NEW m \in C!Messages PROVE \E p \in Places(v) : m = At(v, p)
  <2>1. PICK n \in 0 .. top : \E i \in 1 .. Len(v.page[n]) : m = v.page[n][i]
    BY <1>6
  <2>2. PICK i \in 1 .. Len(v.page[n]) : m = v.page[n][i]
    BY <2>1
  <2>3. <<n, i>> \in Places(v) /\ At(v, <<n, i>>) = v.page[n][i]
    BY <1>1, InSlots DEF Places, At
  <2> QED
    BY <2>2, <2>3
<1>8. ASSUME NEW p \in Places(v) PROVE At(v, p) \in C!Messages
  <2>1. PICK n \in 0 .. top : \E i \in 1 .. Len(v.page[n]) : p = <<n, i>>
    BY <1>1, InSlots DEF Places
  <2>2. PICK i \in 1 .. Len(v.page[n]) : p = <<n, i>>
    BY <2>1
  <2>3. At(v, p) = v.page[n][i]
    BY <2>2 DEF At
  <2> QED
    BY <1>6, <2>3
<1>9. ASSUME NEW m \in C!Messages PROVE GoodMsg(m, owned) /\ m \in Stock(scoped, legacy)
  <2>1. PICK n \in 0 .. top : \E i \in 1 .. Len(v.page[n]) : m = v.page[n][i]
    BY <1>6
  <2>2. PICK i \in 1 .. Len(v.page[n]) : m = v.page[n][i]
    BY <2>1
  <2>3. n \in C!Pages /\ GoodPage(n, v.page[n], owned)
    BY <1>2
  <2>4. m \in Stock(scoped, legacy)
    BY <2>2, <2>3, ShownIsStock DEF ViewNow
  <2> QED
    BY <2>2, <2>3, <2>4 DEF GoodPage
<1>10. IsFiniteSet(Places(v))
  <2>1. \A n \in 0 .. top : Len(v.page[n]) \in Nat
    BY <1>2
  <2> QED
    BY <1>1, <1>2, <2>1, SlotsFinite DEF Places
<1> QED
  BY <1>5, <1>7, <1>8, <1>9, <1>10

\* The metadata counts what is there.
LEMMA ShowsTrue == ASSUME ConversationInv PROVE C!MetadataIsTrue
<1>0. StoreTyped /\ owned \in Nat
  BY DEF ConversationInv, Kept, RestTyped
<1>1. PICK v : v = ViewNow
  OBVIOUS
<1> SUFFICES ASSUME C!Settled, C!load_metadata # <<>>
             PROVE  /\ C!load_metadata[1].total = C!Total
                    /\ \A m \in C!Messages : m.ts >= C!load_metadata[1].oldest
                    /\ ~Uncounted => Cardinality({m \in C!Messages : m.from = "peer" /\ m.status = "delivered"}) <= C!load_metadata[1].unread
  BY DEF C!MetadataIsTrue, C!Cardinality, Cardinality
<1>2. op = C!Idle /\ faults = 0 /\ op.writes = <<>>
  BY DEF C!Settled, C!Idle
<1>3. Counted(v)
  BY <1>0, <1>1, <1>2, NothingAhead DEF ConversationInv, Faultless
<1>4. C!load_metadata = v.meta /\ v.meta # <<>>
  BY <1>0, <1>1, ViewIs
<1>5. /\ v.meta[1].total = Cardinality(Places(v))
      /\ Uncounted \/ Cardinality(UnreadPlaces(v)) <= v.meta[1].unread
      /\ \A p \in Places(v) : At(v, p).ts >= v.meta[1].oldest
  BY <1>3, <1>4 DEF Counted
<1>6. /\ \A m : m \in C!Messages <=> \E p \in Places(v) : m = At(v, p)
      /\ C!Total = Cardinality(Places(v)) /\ IsFiniteSet(Places(v))
  BY <1>0, <1>1, MessagesAre
<1>7. PICK A : A = [p \in Places(v) |-> At(v, p)]
  OBVIOUS
<1>8. PICK P : P = UnreadPlaces(v)
  OBVIOUS
<1>9. \A p : p \in P <=> p \in Places(v) /\ IsUnread(At(v, p))
  BY <1>8 DEF UnreadPlaces
<1>10. {m \in C!Messages : m.from = "peer" /\ m.status = "delivered"} = {A[p] : p \in P}
  <2>1. ASSUME NEW m \in C!Messages, m.from = "peer", m.status = "delivered" PROVE \E p \in P : m = A[p]
    <3>1. PICK p \in Places(v) : m = At(v, p)
      BY <1>6
    <3> QED
      BY <1>7, <1>9, <2>1, <3>1 DEF IsUnread
  <2>2. ASSUME NEW p \in P PROVE A[p] \in C!Messages /\ A[p].from = "peer" /\ A[p].status = "delivered"
    <3>1. p \in Places(v) /\ A[p] = At(v, p) /\ IsUnread(At(v, p))
      BY <1>7, <1>9
    <3> QED
      BY <1>6, <3>1 DEF IsUnread
  <2> QED
    BY <2>1, <2>2
<1>11. IsFiniteSet(P)
  <2>1. P \subseteq Places(v)
    BY <1>9
  <2> QED
    BY <1>6, <2>1, FS_Subset
<1>12. Cardinality({A[p] : p \in P}) <= Cardinality(P) /\ IsFiniteSet({A[p] : p \in P})
  BY <1>11, Images
<1>13. Cardinality({A[p] : p \in P}) \in Nat /\ Cardinality(P) \in Nat
  BY <1>11, <1>12, FS_CardinalityType
<1>14. v.meta[1].unread \in Nat
  <2>1. v.meta[1] \in Metas
    BY <1>0, <1>1, <1>4, ViewIs, OptionIs
  <2> QED
    BY <2>1 DEF Metas
<1>15. ~Uncounted => Cardinality({A[p] : p \in P}) <= v.meta[1].unread
  BY <1>5, <1>8, <1>12, <1>13, <1>14
<1> QED
  BY <1>4, <1>5, <1>6, <1>10, <1>15

\* The account's own messages hold.
LEMMA ShowsOwn == ASSUME ConversationInv PROVE C!OwnMessagesHold
<1>0. StoreTyped /\ owned \in Nat
  BY DEF ConversationInv, Kept, RestTyped
<1>1. PICK v : v = ViewNow
  OBVIOUS
<1>2. /\ \A m : m \in C!Messages <=> \E p \in Places(v) : m = At(v, p)
      /\ \A m \in C!Messages : GoodMsg(m, owned) /\ m \in Stock(scoped, legacy)
  BY <1>0, <1>1, MessagesAre
<1>3. \A m \in C!Messages : m.editor \in {"none", m.from}
  BY <1>2 DEF GoodMsg, Sent
<1>4. ASSUME C!Settled, NEW m \in C!Messages, Sent(m) PROVE m.status # "pending"
  BY <1>1, <1>2, <1>4, IdleIsSent DEF C!Settled
<1>5. ASSUME faults = 0, NEW m \in C!Messages, NEW k \in C!Messages, Sent(m), Sent(k), m.index = k.index PROVE m.id = k.id
  <2>1. IndexApart(Stock(scoped, legacy) \cup ToBe)
    BY <1>5 DEF ConversationInv, Faultless
  <2> QED
    BY <1>2, <1>5, <2>1 DEF IndexApart, Sent
<1> QED
  BY <1>3, <1>4, <1>5 DEF C!OwnMessagesHold, Sent

\* The invariant is strong enough.
LEMMA ConversationShows == ASSUME ConversationInv PROVE C!ConversationsSound
BY ShowsHandled, ShowsOnce, ShowsTrue, ShowsOwn DEF C!ConversationsSound

\* No step of the other parts is one of the conversation.
LEMMA ConversationSteps ==
    ASSUME part = "conversations" => ConversationInv, [AccountsNext]_<<part, vars, conversationVars, clientVars>>
    PROVE  (part = "conversations" => ConversationInv)'
<1>1. CASE UNCHANGED <<part, conversationVars>>
  <2>1. part' = part /\ UNCHANGED C!vars
    BY <1>1, Zenon DEF conversationVars, C!vars
  <2> QED
    BY <2>1, ConversationStays DEF C!vars
<1>2. CASE part = "conversations" /\ C!Next /\ part' = part
  BY <1>2, ConversationKeeps
<1> QED
  BY <1>1, <1>2 DEF AccountsNext, UpdaterStep, ConversationsStep, ClientStep

\* Whatever is sent, received, recorded, revised, patched, read, swept and cleared, and
\* wherever a write fails or the agent ends between two writes: what the ILM was told is
\* handled is on a page the conversation reaches, unless it was hidden, the newest two pages
\* have no message twice, and only its sender changed a message.  As long as nothing failed,
\* what was handled was announced, the metadata counts what is there, no send stays pending
\* and no two of the account's own messages have one index, but for what windows recorded or
\* made pending (ByWindow), and the unread count only where they recorded nothing of the
\* peer's below delivered (~Uncounted).  At any page size, and for any number of pages,
\* messages, operations and failures; the record under the peer alone, if there is one, has
\* this account or nobody as its owner (conversations/store.rs, inbound.rs, outbound.rs).
THEOREM ConversationsAreSound ==
    ASSUME LegacyOwners \subseteq {"none", "own"}
    PROVE  AccountsSpec => []ConversationsSound
<1>1. AccountsInit => (part = "conversations" => ConversationInv)
  BY ConversationStarts DEF AccountsInit
<1>2. /\ (part = "conversations" => ConversationInv)
      /\ [AccountsNext]_<<part, vars, conversationVars, clientVars>>
      => (part = "conversations" => ConversationInv)'
  BY ConversationSteps
<1>3. (part = "conversations" => ConversationInv) => ConversationsSound
  BY ConversationShows DEF ConversationsSound
<1> QED
  BY <1>1, <1>2, <1>3, PTL DEF AccountsSpec

-----------------------------------------------------------------------------
(* The updater.                                                            *)

\* Where neither the files nor the watchdogs change, and the engine is not at a step
\* they depend on.
LEMMA CleanStays ==
    ASSUME UpdaterTyped, CleanGood, UNCHANGED <<works, target, backup, watch, errors>>, engine'.run = engine.run,
           \/ engine'.at = engine.at /\ engine'.of = engine.of
           \/ engine'.at \notin {"put", "spawn", "exit"} /\ engine.at \notin {"spawn", "exit"}
    PROVE  CleanGood'
<1>1. OneWatch' /\ \A v \in Versions : WatchGood(v)'
  BY DEF CleanGood, OneWatch, WatchGood, Running
<1>2. Recoverable' /\ InGoodHands'
  BY DEF CleanGood, Recoverable, InGoodHands, Running, Watched, Erred
<1> QED
  BY <1>1, <1>2 DEF CleanGood

\* Where only the engine, its downloads and what it hands over change.
LEMMA EngineMoves ==
    ASSUME UpdaterInv,
           UNCHANGED <<mac, works, target, backup, failed, watch, rolled, crashes, overlap, errors>>,
           latest' \in Versions, incoming' \in MaybeVersion, cache' \in MaybeVersion,
           handed' \subseteq Versions, handed' # {} => mac, retried' \subseteq Unmarked,
           engine' \in EngineRec, EngineGood(engine)', CacheGood(engine)',
           engine'.at \in Swapping => ~mac, engine'.run = engine.run,
           \/ engine'.at = engine.at /\ engine'.of = engine.of
           \/ engine'.at \notin {"put", "spawn", "exit"} /\ engine.at \notin {"spawn", "exit"}
    PROVE  UpdaterInv'
<1>1. UpdaterTyped'
  BY DEF UpdaterInv, UpdaterTyped, HostTyped
<1>2. OneWay' /\ MarkedFirst'
  BY DEF UpdaterInv, OneWay, MarkedFirst, Unmarked, Watched
<1>3. ASSUME Clean' PROVE CleanGood'
  BY <1>3, CleanStays DEF UpdaterInv, Clean, Erred
<1> QED
  BY <1>1, <1>2, <1>3 DEF UpdaterInv

\* An agent that has just started, and none.
LEMMA Starts ==
    ASSUME NEW v \in MaybeVersion, NEW s
    PROVE  /\ started(v, s) \in EngineRec
           /\ started(v, s).run = v /\ started(v, s).at = "idle" /\ ~started(v, s).staged
           /\ started(v, s).of = 0
<1>1. (s # "off") \in BOOLEAN
  OBVIOUS
<1>2. PICK b \in BOOLEAN : b = (s # "off")
  BY <1>1, Zenon
<1>3. started(v, s) = [run |-> v, offer |-> 0, staged |-> FALSE, settled |-> FALSE, auto |-> b, at |-> "idle",
                       trigger |-> "Idle", ready |-> FALSE, auto_install |-> FALSE, failed_before |-> FALSE,
                       again |-> FALSE, of |-> 0]
  BY <1>2, Zenon DEF started
<1> QED
  BY <1>3 DEF EngineRec, MaybeVersion, EngineAt

LEMMA DownIs == Down \in EngineRec /\ Down.run = 0 /\ Down.at = "idle" /\ ~Down.staged /\ Down.of = 0
<1>1. 0 \in MaybeVersion
  BY DEF MaybeVersion
<1>2. PICK s : s = "unset"
  OBVIOUS
<1> QED
  BY <1>1, <1>2, Starts DEF Down

\* A release is only published.
LEMMA PublishKeeps ==
    ASSUME UpdaterInv, Publish
    PROVE  UpdaterInv'
<1>0. UpdaterTyped /\ EngineGood(engine) /\ CacheGood(engine) /\ OneWay /\ MarkedFirst
  BY DEF UpdaterInv
<1>1. UNCHANGED <<mac, works, crashes, target, backup, incoming, cache, failed, watch, handed, rolled, retried, overlap, errors>>
  BY DEF Publish, fileVars, pastVars
<1>2. latest' \in Versions /\ engine' = engine
  BY <1>0, BoundsAreNat DEF Publish, fileVars, UpdaterTyped, HostTyped, EngineRec, EngineAt, MaybeVersion, EngineGood, CacheGood, Versions, Swapping
<1>3. EngineGood(engine)' /\ CacheGood(engine)'
  BY <1>0, <1>1 DEF Publish, fileVars, UpdaterTyped, HostTyped, EngineRec, EngineGood, CacheGood, Swapping, Running, Unmarked
<1>4. /\ engine'.run = engine.run /\ (engine'.at \in Swapping => ~mac)
      /\ \/ engine'.at = engine.at /\ engine'.of = engine.of
         \/ engine'.at \notin {"put", "spawn", "exit"} /\ engine.at \notin {"spawn", "exit"}
  BY <1>0 DEF Publish, fileVars, UpdaterTyped, EngineRec, OneWay, Swapping
<1> QED
  BY <1>0, <1>1, <1>2, <1>3, <1>4, EngineMoves DEF UpdaterTyped, HostTyped, OneWay, MarkedFirst

\* Looking for a release: the engine goes on to prepare one, or forgets its offer.
LEMMA CheckKeeps ==
    ASSUME UpdaterInv, Check
    PROVE  UpdaterInv'
<1>0. UpdaterTyped /\ EngineGood(engine) /\ CacheGood(engine) /\ OneWay /\ MarkedFirst /\ engine.at = "idle"
  BY DEF UpdaterInv, Check, Idle
<1>1. UNCHANGED <<mac, works, latest, crashes, target, backup, incoming, cache, failed, watch, handed, rolled, retried, overlap, errors>>
  BY DEF Check, hostVars, fileVars, pastVars
<1>2. PICK version : version = candidate([draft |-> FALSE, prerelease |-> FALSE, tag |-> latest], engine.run)
  OBVIOUS
<1>3. version \in MaybeVersion
  BY <1>0, <1>2 DEF candidate, MaybeVersion, UpdaterTyped, HostTyped
<1>4. \/ engine' = engine
      \/ engine' = [engine EXCEPT !.offer = 0, !.staged = FALSE, !.settled = FALSE]
      \/ version # 0 /\ engine' = [engine EXCEPT !.at = "prepare", !.of = version]
  BY <1>2 DEF Check
<1>5. engine' \in EngineRec /\ engine'.run = engine.run /\ engine'.at \in {"idle", "prepare"}
  BY <1>0, <1>3, <1>4 DEF UpdaterTyped, EngineRec, EngineAt, MaybeVersion
<1>6. EngineGood(engine)' /\ CacheGood(engine)'
  <2>1. engine.run # 0
    BY DEF Check, Idle, Running
  <2> QED
    BY <1>0, <1>1, <1>4, <2>1 DEF UpdaterTyped, EngineRec, EngineGood, CacheGood, Swapping
<1> QED
  BY <1>0, <1>1, <1>5, <1>6, EngineMoves DEF UpdaterTyped, HostTyped, OneWay, MarkedFirst, Swapping

\* What was staged for another version goes, and the engine no longer says it is there.
LEMMA DownloadPathKeeps ==
    ASSUME UpdaterInv, download_path
    PROVE  UpdaterInv'
<1>0. UpdaterTyped /\ EngineGood(engine) /\ CacheGood(engine) /\ OneWay /\ MarkedFirst
  BY DEF UpdaterInv
<1>1. UNCHANGED <<mac, works, latest, crashes, target, backup, incoming, failed, watch, handed, rolled, retried, overlap, errors>>
  BY DEF download_path, hostVars, fileVars, pastVars
<1>2. cache' \in MaybeVersion /\ engine' \in EngineRec
  BY <1>0, BoundsAreNat DEF download_path, goto, UpdaterTyped, HostTyped, EngineRec, EngineAt, MaybeVersion, EngineGood, CacheGood, Versions, Swapping
<1>3. EngineGood(engine)' /\ CacheGood(engine)'
  BY <1>0, <1>1 DEF download_path, goto, UpdaterTyped, HostTyped, EngineRec, EngineGood, CacheGood, Swapping, Running, Unmarked
<1>4. /\ engine'.run = engine.run /\ (engine'.at \in Swapping => ~mac)
      /\ \/ engine'.at = engine.at /\ engine'.of = engine.of
         \/ engine'.at \notin {"put", "spawn", "exit"} /\ engine.at \notin {"spawn", "exit"}
  BY <1>0 DEF download_path, goto, UpdaterTyped, EngineRec, OneWay, Swapping
<1> QED
  BY <1>0, <1>1, <1>2, <1>3, <1>4, EngineMoves DEF UpdaterTyped, HostTyped, OneWay, MarkedFirst

\* Staged is what the cache holds.
LEMMA PrepareKeeps ==
    ASSUME UpdaterInv, NEW outcome \in Fetched, prepare(outcome)
    PROVE  UpdaterInv'
<1>0. UpdaterTyped /\ EngineGood(engine) /\ CacheGood(engine) /\ OneWay /\ MarkedFirst
  BY DEF UpdaterInv
<1>1. UNCHANGED <<mac, works, latest, crashes, target, backup, incoming, failed, watch, handed, rolled, retried, overlap, errors>>
  BY DEF prepare, hostVars, fileVars, pastVars
<1>2. cache' \in MaybeVersion /\ engine' \in EngineRec
  BY <1>0, BoundsAreNat DEF prepare, Fetched, stage, discard, UpdaterTyped, HostTyped, EngineRec, EngineAt, MaybeVersion, EngineGood, CacheGood, Versions, Swapping
<1>3. EngineGood(engine)' /\ CacheGood(engine)'
  BY <1>0, <1>1 DEF prepare, Fetched, stage, discard, UpdaterTyped, HostTyped, EngineRec, EngineGood, CacheGood, Swapping, Running, Unmarked
<1>4. /\ engine'.run = engine.run /\ (engine'.at \in Swapping => ~mac)
      /\ \/ engine'.at = engine.at /\ engine'.of = engine.of
         \/ engine'.at \notin {"put", "spawn", "exit"} /\ engine.at \notin {"spawn", "exit"}
  BY <1>0 DEF prepare, Fetched, stage, discard, UpdaterTyped, EngineRec, OneWay, Swapping
<1> QED
  BY <1>0, <1>1, <1>2, <1>3, <1>4, EngineMoves DEF UpdaterTyped, HostTyped, OneWay, MarkedFirst

LEMMA SwapFailsKeeps ==
    ASSUME UpdaterInv, SwapFails
    PROVE  UpdaterInv'
<1>0. UpdaterTyped /\ EngineGood(engine) /\ CacheGood(engine) /\ OneWay /\ MarkedFirst
  BY DEF UpdaterInv
<1>1. UNCHANGED <<mac, works, latest, crashes, target, backup, cache, failed, watch, handed, rolled, retried, overlap, errors>>
  BY DEF SwapFails, installing, hostVars
<1>2. incoming' \in MaybeVersion /\ engine' \in EngineRec
  BY <1>0, BoundsAreNat DEF SwapFails, released, goto, UpdaterTyped, HostTyped, EngineRec, EngineAt, MaybeVersion, EngineGood, CacheGood, Versions, Swapping
<1>3. EngineGood(engine)' /\ CacheGood(engine)'
  BY <1>0, <1>1 DEF SwapFails, released, goto, UpdaterTyped, HostTyped, EngineRec, EngineGood, CacheGood, Swapping, Running, Unmarked
<1>4. /\ engine'.run = engine.run /\ (engine'.at \in Swapping => ~mac)
      /\ \/ engine'.at = engine.at /\ engine'.of = engine.of
         \/ engine'.at \notin {"put", "spawn", "exit"} /\ engine.at \notin {"spawn", "exit"}
  BY <1>0 DEF SwapFails, released, goto, UpdaterTyped, EngineRec, OneWay, Swapping
<1> QED
  BY <1>0, <1>1, <1>2, <1>3, <1>4, EngineMoves DEF UpdaterTyped, HostTyped, OneWay, MarkedFirst

LEMMA SwapCopiesKeeps ==
    ASSUME UpdaterInv, SwapCopies
    PROVE  UpdaterInv'
<1>0. UpdaterTyped /\ EngineGood(engine) /\ CacheGood(engine) /\ OneWay /\ MarkedFirst
  BY DEF UpdaterInv
<1>1. UNCHANGED <<mac, works, latest, crashes, target, backup, cache, failed, watch, handed, rolled, retried, overlap, errors>>
  BY DEF SwapCopies, installing, hostVars
<1>2. incoming' \in MaybeVersion /\ engine' \in EngineRec
  BY <1>0, BoundsAreNat DEF SwapCopies, goto, UpdaterTyped, HostTyped, EngineRec, EngineAt, MaybeVersion, EngineGood, CacheGood, Versions, Swapping
<1>3. EngineGood(engine)' /\ CacheGood(engine)'
  BY <1>0, <1>1 DEF SwapCopies, goto, UpdaterTyped, HostTyped, EngineRec, EngineGood, CacheGood, Swapping, Running, Unmarked
<1>4. /\ engine'.run = engine.run /\ (engine'.at \in Swapping => ~mac)
      /\ \/ engine'.at = engine.at /\ engine'.of = engine.of
         \/ engine'.at \notin {"put", "spawn", "exit"} /\ engine.at \notin {"spawn", "exit"}
  BY <1>0 DEF SwapCopies, goto, UpdaterTyped, EngineRec, OneWay, Swapping
<1> QED
  BY <1>0, <1>1, <1>2, <1>3, <1>4, EngineMoves DEF UpdaterTyped, HostTyped, OneWay, MarkedFirst

\* The backup goes while the running agent is still the target.
LEMMA SwapForgetsKeeps ==
    ASSUME UpdaterInv, SwapForgets
    PROVE  UpdaterInv'
<1>0. UpdaterTyped /\ EngineGood(engine) /\ CacheGood(engine)
  BY DEF UpdaterInv
<1>1. UpdaterTyped'
  <2>1. HostTyped'
    BY <1>0, BoundsAreNat DEF SwapForgets, goto, installing, settingVars, hostVars, UpdaterTyped, HostTyped, EngineRec, MaybeVersion, EngineGood, CacheGood, Versions, Swapping, Unmarked
  <2>2. engine' \in EngineRec
    BY <1>0, BoundsAreNat DEF SwapForgets, goto, installing, settingVars, hostVars, UpdaterTyped, HostTyped, EngineRec, EngineAt, MaybeVersion, Versions
  <2>3. watch' \in [Versions -> WatchRec]
    BY <1>0 DEF SwapForgets, goto, installing, settingVars, hostVars, UpdaterTyped, WatchRec, WatchAt, Children, NoWatch
  <2> QED
    BY <2>1, <2>2, <2>3 DEF UpdaterTyped
<1>2. EngineGood(engine)' /\ CacheGood(engine)'
  BY <1>0 DEF SwapForgets, goto, installing, settingVars, hostVars, UpdaterTyped, HostTyped, EngineRec, EngineGood, CacheGood, Swapping, Running, Unmarked
<1>3. OneWay' /\ MarkedFirst'
  BY <1>0 DEF SwapForgets, goto, installing, settingVars, hostVars, UpdaterInv, UpdaterTyped, EngineRec, WatchRec, OneWay, MarkedFirst, Swapping, Watched, NoWatch, Unmarked
<1>4. ASSUME Clean' PROVE CleanGood'
  <2>0. Clean /\ CleanGood
    BY <1>0, <1>4 DEF SwapForgets, goto, installing, settingVars, hostVars, UpdaterInv, UpdaterTyped, HostTyped, Clean, Erred
  <2>1. OneWatch'
    BY <1>0, <2>0 DEF SwapForgets, goto, installing, settingVars, hostVars, UpdaterTyped, WatchRec, CleanGood, OneWatch, NoWatch
  <2>2. \A w \in Versions : WatchGood(w)'
    BY <1>0, <2>0 DEF SwapForgets, goto, installing, settingVars, hostVars, UpdaterTyped, HostTyped, EngineRec, WatchRec, EngineGood, CleanGood, OneWatch, WatchGood, Recoverable, InGoodHands, NoWatch, Running, Unmarked, Erred
  <2>3. Recoverable'
    BY <1>0, <2>0 DEF SwapForgets, goto, installing, settingVars, hostVars, UpdaterTyped, HostTyped, EngineRec, WatchRec, EngineGood, CleanGood, WatchGood, Recoverable, Running, Unmarked
  <2>4. InGoodHands'
    BY <1>0, <2>0 DEF SwapForgets, goto, installing, settingVars, hostVars, UpdaterTyped, HostTyped, EngineRec, WatchRec, EngineGood, CleanGood, OneWatch, WatchGood, Recoverable, InGoodHands, Watched, NoWatch, Running, Unmarked, Erred
  <2> QED
    BY <2>1, <2>2, <2>3, <2>4 DEF CleanGood
<1> QED
  BY <1>1, <1>2, <1>3, <1>4 DEF UpdaterInv

\* The copy made is put in place: a backup is there.
LEMMA SwapPutsKeeps ==
    ASSUME UpdaterInv, SwapPuts
    PROVE  UpdaterInv'
<1>0. UpdaterTyped /\ EngineGood(engine) /\ CacheGood(engine)
  BY DEF UpdaterInv
<1>1. UpdaterTyped'
  <2>1. HostTyped'
    BY <1>0, BoundsAreNat DEF SwapPuts, goto, installing, settingVars, hostVars, UpdaterTyped, HostTyped, EngineRec, MaybeVersion, EngineGood, CacheGood, Versions, Swapping, Unmarked
  <2>2. engine' \in EngineRec
    BY <1>0, BoundsAreNat DEF SwapPuts, goto, installing, settingVars, hostVars, UpdaterTyped, HostTyped, EngineRec, EngineAt, MaybeVersion, Versions
  <2>3. watch' \in [Versions -> WatchRec]
    BY <1>0 DEF SwapPuts, goto, installing, settingVars, hostVars, UpdaterTyped, WatchRec, WatchAt, Children, NoWatch
  <2> QED
    BY <2>1, <2>2, <2>3 DEF UpdaterTyped
<1>2. EngineGood(engine)' /\ CacheGood(engine)'
  BY <1>0 DEF SwapPuts, goto, installing, settingVars, hostVars, UpdaterTyped, HostTyped, EngineRec, EngineGood, CacheGood, Swapping, Running, Unmarked
<1>3. OneWay' /\ MarkedFirst'
  BY <1>0 DEF SwapPuts, goto, installing, settingVars, hostVars, UpdaterInv, UpdaterTyped, EngineRec, WatchRec, OneWay, MarkedFirst, Swapping, Watched, NoWatch, Unmarked
<1>4. ASSUME Clean' PROVE CleanGood'
  <2>0. Clean /\ CleanGood
    BY <1>0, <1>4 DEF SwapPuts, goto, installing, settingVars, hostVars, UpdaterInv, UpdaterTyped, HostTyped, Clean, Erred
  <2>1. OneWatch'
    BY <1>0, <2>0 DEF SwapPuts, goto, installing, settingVars, hostVars, UpdaterTyped, WatchRec, CleanGood, OneWatch, NoWatch
  <2>2. \A w \in Versions : WatchGood(w)'
    BY <1>0, <2>0 DEF SwapPuts, goto, installing, settingVars, hostVars, UpdaterTyped, HostTyped, EngineRec, WatchRec, EngineGood, CleanGood, OneWatch, WatchGood, Recoverable, InGoodHands, NoWatch, Running, Unmarked, Erred
  <2>3. Recoverable'
    BY <1>0, <2>0 DEF SwapPuts, goto, installing, settingVars, hostVars, UpdaterTyped, HostTyped, EngineRec, WatchRec, EngineGood, CleanGood, WatchGood, Recoverable, Running, Unmarked
  <2>4. InGoodHands'
    BY <1>0, <2>0 DEF SwapPuts, goto, installing, settingVars, hostVars, UpdaterTyped, HostTyped, EngineRec, WatchRec, EngineGood, CleanGood, OneWatch, WatchGood, Recoverable, InGoodHands, Watched, NoWatch, Running, Unmarked, Erred
  <2> QED
    BY <2>1, <2>2, <2>3, <2>4 DEF CleanGood
<1> QED
  BY <1>1, <1>2, <1>3, <1>4 DEF UpdaterInv

LEMMA SpawnNewKeeps ==
    ASSUME UpdaterInv, NEW v \in Versions, SpawnNew(v)
    PROVE  UpdaterInv'
<1>0. UpdaterTyped /\ EngineGood(engine) /\ CacheGood(engine)
  BY DEF UpdaterInv
<1>1. UpdaterTyped'
  <2>1. HostTyped'
    BY <1>0, BoundsAreNat DEF SpawnNew, watching, watchesOnly, fileVars, hostVars, UpdaterTyped, HostTyped, EngineRec, MaybeVersion, EngineGood, CacheGood, Versions, Swapping, Unmarked
  <2>2. engine' \in EngineRec
    BY <1>0, BoundsAreNat DEF SpawnNew, watching, watchesOnly, fileVars, hostVars, UpdaterTyped, HostTyped, EngineRec, EngineAt, MaybeVersion, Versions
  <2>3. watch' \in [Versions -> WatchRec]
    BY <1>0 DEF SpawnNew, watching, watchesOnly, fileVars, hostVars, UpdaterTyped, WatchRec, WatchAt, Children, NoWatch
  <2> QED
    BY <2>1, <2>2, <2>3 DEF UpdaterTyped
<1>2. EngineGood(engine)' /\ CacheGood(engine)'
  BY <1>0 DEF SpawnNew, watching, watchesOnly, fileVars, hostVars, UpdaterTyped, HostTyped, EngineRec, EngineGood, CacheGood, Swapping, Running, Unmarked
<1>3. OneWay' /\ MarkedFirst'
  BY <1>0 DEF SpawnNew, watching, watchesOnly, fileVars, hostVars, UpdaterInv, UpdaterTyped, EngineRec, WatchRec, OneWay, MarkedFirst, Swapping, Watched, NoWatch, Unmarked
<1>4. ASSUME Clean' PROVE CleanGood'
  <2>0. Clean /\ CleanGood
    BY <1>0, <1>4 DEF SpawnNew, watching, watchesOnly, fileVars, hostVars, UpdaterInv, UpdaterTyped, HostTyped, Clean, Erred
  <2>1. OneWatch'
    BY <1>0, <2>0 DEF SpawnNew, watching, watchesOnly, fileVars, hostVars, UpdaterTyped, WatchRec, CleanGood, OneWatch, NoWatch
  <2>2. \A w \in Versions : WatchGood(w)'
    BY <1>0, <2>0 DEF SpawnNew, watching, watchesOnly, fileVars, hostVars, UpdaterTyped, HostTyped, EngineRec, WatchRec, EngineGood, CleanGood, OneWatch, WatchGood, Recoverable, InGoodHands, NoWatch, Running, Unmarked, Erred
  <2>3. Recoverable'
    BY <1>0, <2>0 DEF SpawnNew, watching, watchesOnly, fileVars, hostVars, UpdaterTyped, HostTyped, EngineRec, WatchRec, EngineGood, CleanGood, WatchGood, Recoverable, Running, Unmarked
  <2>4. InGoodHands'
    BY <1>0, <2>0 DEF SpawnNew, watching, watchesOnly, fileVars, hostVars, UpdaterTyped, HostTyped, EngineRec, WatchRec, EngineGood, CleanGood, OneWatch, WatchGood, Recoverable, InGoodHands, Watched, NoWatch, Running, Unmarked, Erred
  <2> QED
    BY <2>1, <2>2, <2>3, <2>4 DEF CleanGood
<1> QED
  BY <1>1, <1>2, <1>3, <1>4 DEF UpdaterInv

LEMMA ProbeKeeps ==
    ASSUME UpdaterInv, NEW v \in Versions, Probe(v)
    PROVE  UpdaterInv'
<1>0. UpdaterTyped /\ EngineGood(engine) /\ CacheGood(engine)
  BY DEF UpdaterInv
<1>1. UpdaterTyped'
  <2>1. HostTyped'
    BY <1>0, BoundsAreNat DEF Probe, watching, watchesOnly, fileVars, hostVars, UpdaterTyped, HostTyped, EngineRec, MaybeVersion, EngineGood, CacheGood, Versions, Swapping, Unmarked
  <2>2. engine' \in EngineRec
    BY <1>0, BoundsAreNat DEF Probe, watching, watchesOnly, fileVars, hostVars, UpdaterTyped, HostTyped, EngineRec, EngineAt, MaybeVersion, Versions
  <2>3. watch' \in [Versions -> WatchRec]
    BY <1>0 DEF Probe, watching, watchesOnly, fileVars, hostVars, UpdaterTyped, WatchRec, WatchAt, Children, NoWatch
  <2> QED
    BY <2>1, <2>2, <2>3 DEF UpdaterTyped
<1>2. EngineGood(engine)' /\ CacheGood(engine)'
  BY <1>0 DEF Probe, watching, watchesOnly, fileVars, hostVars, UpdaterTyped, HostTyped, EngineRec, EngineGood, CacheGood, Swapping, Running, Unmarked
<1>3. OneWay' /\ MarkedFirst'
  BY <1>0 DEF Probe, watching, watchesOnly, fileVars, hostVars, UpdaterInv, UpdaterTyped, EngineRec, WatchRec, OneWay, MarkedFirst, Swapping, Watched, NoWatch, Unmarked
<1>4. ASSUME Clean' PROVE CleanGood'
  <2>0. Clean /\ CleanGood
    BY <1>0, <1>4 DEF Probe, watching, watchesOnly, fileVars, hostVars, UpdaterInv, UpdaterTyped, HostTyped, Clean, Erred
  <2>1. OneWatch'
    BY <1>0, <2>0 DEF Probe, watching, watchesOnly, fileVars, hostVars, UpdaterTyped, WatchRec, CleanGood, OneWatch, NoWatch
  <2>2. \A w \in Versions : WatchGood(w)'
    BY <1>0, <2>0 DEF Probe, watching, watchesOnly, fileVars, hostVars, UpdaterTyped, HostTyped, EngineRec, WatchRec, EngineGood, CleanGood, OneWatch, WatchGood, Recoverable, InGoodHands, NoWatch, Running, Unmarked, Erred
  <2>3. Recoverable'
    BY <1>0, <2>0 DEF Probe, watching, watchesOnly, fileVars, hostVars, UpdaterTyped, HostTyped, EngineRec, WatchRec, EngineGood, CleanGood, WatchGood, Recoverable, Running, Unmarked
  <2>4. InGoodHands'
    BY <1>0, <2>0 DEF Probe, watching, watchesOnly, fileVars, hostVars, UpdaterTyped, HostTyped, EngineRec, WatchRec, EngineGood, CleanGood, OneWatch, WatchGood, Recoverable, InGoodHands, Watched, NoWatch, Running, Unmarked, Erred
  <2> QED
    BY <2>1, <2>2, <2>3, <2>4 DEF CleanGood
<1> QED
  BY <1>1, <1>2, <1>3, <1>4 DEF UpdaterInv

\* The marker is there before the previous version is, if it could be written.
LEMMA MarkKeeps ==
    ASSUME UpdaterInv, NEW v \in Versions, Mark(v)
    PROVE  UpdaterInv'
<1>0. UpdaterTyped
  BY DEF UpdaterInv
<1>1. /\ UNCHANGED <<mac, works, latest, crashes, target, backup, incoming, cache, engine, handed, rolled, retried, overlap>>
      /\ errors' = errors \/ errors' = errors \cup {[what |-> "marker", of |-> v]}
      /\ failed' = failed \cup {v} \/ (failed' = failed /\ [what |-> "marker", of |-> v] \in errors')
  BY DEF Mark, mark_failed, Error, watchesOnly, hostVars, fileVars
<1>2. PICK at \in {"put", "putOnly"} :
        /\ watch' = [watch EXCEPT ![v].at = at]
        /\ watch[v].at = (IF at = "put" THEN "mark" ELSE "stuck")
  BY DEF Mark, watching
<1>3. /\ watch' \in [Versions -> WatchRec] /\ watch'[v].at = at /\ watch'[v].child = watch[v].child
      /\ \A w \in Versions : w # v => watch'[w] = watch[w]
  BY <1>0, <1>2 DEF UpdaterTyped, WatchRec, WatchAt
<1>4. UpdaterTyped'
  BY <1>0, <1>1, <1>3 DEF UpdaterTyped, HostTyped
<1>5. Unmarked \subseteq Unmarked' /\ v \in failed' \cup Unmarked' /\ failed \subseteq failed'
  BY <1>1 DEF Unmarked
<1>6. EngineGood(engine)' /\ CacheGood(engine)' /\ OneWay' /\ MarkedFirst'
  BY <1>1, <1>2, <1>3, <1>5 DEF UpdaterInv, EngineGood, CacheGood, OneWay, MarkedFirst, Watched
<1>7. ASSUME Clean' PROVE CleanGood'
  <2>1. CleanGood /\ at = "put"
    BY <1>1, <1>2, <1>7 DEF UpdaterInv, Clean, Erred, CleanGood, WatchGood
  <2>2. OneWatch' /\ \A w \in Versions : WatchGood(w)'
    BY <1>1, <1>2, <1>3, <2>1 DEF CleanGood, OneWatch, WatchGood, Running
  <2>3. Recoverable' /\ InGoodHands'
    <3>1. Watched'
      BY <1>3 DEF Watched
    <3>2. engine.at # "exit"
      BY <1>2, <2>1 DEF UpdaterInv, EngineGood, CleanGood, WatchGood, Running
    <3> QED
      BY <1>1, <2>1, <3>1, <3>2 DEF CleanGood, Recoverable, InGoodHands, Running
  <2> QED
    BY <2>2, <2>3 DEF CleanGood
<1> QED
  BY <1>4, <1>6, <1>7 DEF UpdaterInv

\* Where the rename succeeds, what was kept is the target again.
LEMMA PutBackKeeps ==
    ASSUME UpdaterInv, NEW v \in Versions, PutBack(v)
    PROVE  UpdaterInv'
<1>0. UpdaterTyped /\ EngineGood(engine) /\ watch[v].at \in {"put", "putOnly"}
  BY DEF UpdaterInv, PutBack
<1>1. /\ UNCHANGED <<mac, works, latest, crashes, incoming, cache, failed, engine, handed, retried, overlap>>
      /\ rolled' = rolled \cup {v} /\ errors \subseteq errors'
      /\ watch' = [watch EXCEPT ![v] = IF watch[v].at = "put" THEN [at |-> "respawn", child |-> "none"] ELSE NoWatch]
      /\ restored(v)
  BY DEF PutBack, restored, Error, watchesOnly, hostVars
<1>2. \/ errors' = errors /\ (IF backup # 0 THEN target' = backup /\ backup' = 0 ELSE UNCHANGED <<target, backup>>)
      \/ errors' = errors \cup {[what |-> "restore", of |-> v]} /\ UNCHANGED <<target, backup>>
  BY <1>1 DEF restored, Error
<1>3. /\ watch' \in [Versions -> WatchRec] /\ \A w \in Versions : w # v => watch'[w] = watch[w]
      /\ watch'[v].at = (IF watch[v].at = "put" THEN "respawn" ELSE "none")
  BY <1>0, <1>1 DEF UpdaterTyped, WatchRec, WatchAt, Children, NoWatch
<1>4. UpdaterTyped'
  BY <1>0, <1>1, <1>2, <1>3 DEF UpdaterTyped, HostTyped, MaybeVersion
<1>5. Unmarked \subseteq Unmarked'
  BY <1>1 DEF Unmarked
<1>6. EngineGood(engine)' /\ CacheGood(engine)' /\ OneWay' /\ MarkedFirst'
  BY <1>0, <1>1, <1>3, <1>5 DEF UpdaterInv, EngineGood, CacheGood, OneWay, MarkedFirst, Watched
<1>7. ASSUME Clean' PROVE CleanGood'
  <2>0. [what |-> "restore", of |-> v] \notin errors'
    BY <1>7 DEF Clean, Erred
  <2>1. CleanGood /\ errors' = errors /\ watch[v].at = "put"
    BY <1>0, <1>1, <1>2, <1>7, <2>0 DEF UpdaterInv, Clean, Erred, CleanGood, WatchGood
  <2>2. ~Running /\ engine.at = "idle" /\ \A w \in Versions : w # v => watch[w].at = "none"
    BY <1>0, <2>1 DEF EngineGood, CleanGood, OneWatch, WatchGood, Running
  <2>3. works[target'] /\ backup' = 0
    BY <1>2, <2>0, <2>1 DEF CleanGood, Recoverable
  <2>4. OneWatch' /\ \A w \in Versions : WatchGood(w)'
    BY <1>1, <1>3, <2>1, <2>2, <2>3 DEF OneWatch, WatchGood, Running
  <2>5. Recoverable' /\ InGoodHands'
    BY <1>1, <1>3, <2>1, <2>2, <2>3 DEF Recoverable, InGoodHands, Running, Watched
  <2> QED
    BY <2>4, <2>5 DEF CleanGood
<1> QED
  BY <1>4, <1>6, <1>7 DEF UpdaterInv

\* The app's failure is marked before it is known as one.
LEMMA InstallFailedKeeps ==
    ASSUME UpdaterInv, NEW v \in Versions, install_failed(v)
    PROVE  UpdaterInv'
<1>0. UpdaterTyped
  BY DEF UpdaterInv
<1>1. /\ UNCHANGED <<mac, works, latest, crashes, target, backup, incoming, cache, watch, engine, retried, overlap>>
      /\ rolled' = rolled \cup {v} /\ handed' = handed \ {v} /\ errors \subseteq errors'
      /\ failed' = failed \cup {v} \/ (failed' = failed /\ [what |-> "marker", of |-> v] \in errors')
  BY DEF install_failed, mark_failed, Error, hostVars, fileVars
<1>2. UpdaterTyped'
  BY <1>0, <1>1 DEF UpdaterTyped, HostTyped
<1>3. Unmarked \subseteq Unmarked' /\ v \in failed' \cup Unmarked' /\ failed \subseteq failed'
  BY <1>1 DEF Unmarked
<1>4. EngineGood(engine)' /\ CacheGood(engine)' /\ OneWay' /\ MarkedFirst'
  BY <1>1, <1>3 DEF UpdaterInv, EngineGood, CacheGood, OneWay, MarkedFirst, Watched
<1>5. ASSUME Clean' PROVE CleanGood'
  <2>1. CleanGood
    BY <1>1, <1>5 DEF UpdaterInv, Clean, Erred
  <2> QED
    BY <1>1, <2>1 DEF CleanGood, OneWatch, WatchGood, Recoverable, InGoodHands, Running, Watched, Erred
<1> QED
  BY <1>2, <1>4, <1>5 DEF UpdaterInv

LEMMA SetAutoInstallKeeps ==
    ASSUME UpdaterInv, NEW on \in {"on", "off"}, set_auto_install(on)
    PROVE  UpdaterInv'
<1>0. UpdaterTyped /\ EngineGood(engine) /\ CacheGood(engine) /\ OneWay /\ MarkedFirst
  BY DEF UpdaterInv
<1>1. UNCHANGED <<mac, works, latest, crashes, target, backup, incoming, cache, failed, watch, handed, rolled, retried, overlap, errors>>
  BY DEF set_auto_install, hostVars, fileVars, pastVars
<1>2. engine' = engine
  BY <1>0, BoundsAreNat DEF set_auto_install, UpdaterTyped, HostTyped, EngineRec, EngineAt, MaybeVersion, EngineGood, CacheGood, Versions, Swapping
<1>3. EngineGood(engine)' /\ CacheGood(engine)'
  BY <1>0, <1>1 DEF set_auto_install, UpdaterTyped, HostTyped, EngineRec, EngineGood, CacheGood, Swapping, Running, Unmarked
<1>4. /\ engine'.run = engine.run /\ (engine'.at \in Swapping => ~mac)
      /\ \/ engine'.at = engine.at /\ engine'.of = engine.of
         \/ engine'.at \notin {"put", "spawn", "exit"} /\ engine.at \notin {"spawn", "exit"}
  BY <1>0 DEF set_auto_install, UpdaterTyped, EngineRec, OneWay, Swapping
<1> QED
  BY <1>0, <1>1, <1>2, <1>3, <1>4, EngineMoves DEF UpdaterTyped, HostTyped, OneWay, MarkedFirst

LEMMA SettingHeldKeeps ==
    ASSUME UpdaterInv, NEW on \in {"on", "off"}, SettingHeld(on)
    PROVE  UpdaterInv'
<1>0. UpdaterTyped /\ EngineGood(engine) /\ CacheGood(engine) /\ OneWay /\ MarkedFirst
  BY DEF UpdaterInv
<1>1. UNCHANGED <<mac, works, latest, crashes, target, backup, incoming, cache, failed, watch, handed, rolled, retried, overlap, errors>>
  BY DEF SettingHeld, hostVars, fileVars, pastVars
<1>2. engine' \in EngineRec
  BY <1>0, BoundsAreNat DEF SettingHeld, UpdaterTyped, HostTyped, EngineRec, EngineAt, MaybeVersion, EngineGood, CacheGood, Versions, Swapping
<1>3. EngineGood(engine)' /\ CacheGood(engine)'
  BY <1>0, <1>1 DEF SettingHeld, UpdaterTyped, HostTyped, EngineRec, EngineGood, CacheGood, Swapping, Running, Unmarked
<1>4. /\ engine'.run = engine.run /\ (engine'.at \in Swapping => ~mac)
      /\ \/ engine'.at = engine.at /\ engine'.of = engine.of
         \/ engine'.at \notin {"put", "spawn", "exit"} /\ engine.at \notin {"spawn", "exit"}
  BY <1>0 DEF SettingHeld, UpdaterTyped, EngineRec, OneWay, Swapping
<1> QED
  BY <1>0, <1>1, <1>2, <1>3, <1>4, EngineMoves DEF UpdaterTyped, HostTyped, OneWay, MarkedFirst

LEMMA SessionsKeeps ==
    ASSUME UpdaterInv, Sessions
    PROVE  UpdaterInv'
<1>0. UpdaterTyped /\ EngineGood(engine) /\ CacheGood(engine) /\ OneWay /\ MarkedFirst
  BY DEF UpdaterInv
<1>1. UNCHANGED <<mac, works, latest, crashes, target, backup, incoming, cache, failed, watch, handed, rolled, retried, overlap, errors>>
  BY DEF Sessions, hostVars, fileVars, pastVars
<1>2. engine' = engine
  BY <1>0, BoundsAreNat DEF Sessions, UpdaterTyped, HostTyped, EngineRec, EngineAt, MaybeVersion, EngineGood, CacheGood, Versions, Swapping
<1>3. EngineGood(engine)' /\ CacheGood(engine)'
  BY <1>0, <1>1 DEF Sessions, UpdaterTyped, HostTyped, EngineRec, EngineGood, CacheGood, Swapping, Running, Unmarked
<1>4. /\ engine'.run = engine.run /\ (engine'.at \in Swapping => ~mac)
      /\ \/ engine'.at = engine.at /\ engine'.of = engine.of
         \/ engine'.at \notin {"put", "spawn", "exit"} /\ engine.at \notin {"spawn", "exit"}
  BY <1>0 DEF Sessions, UpdaterTyped, EngineRec, OneWay, Swapping
<1> QED
  BY <1>0, <1>1, <1>2, <1>3, <1>4, EngineMoves DEF UpdaterTyped, HostTyped, OneWay, MarkedFirst

\* The offer, the setting and the marker are read together: what was given up once
\* is marked, or its marker could not be written.
LEMMA ConsiderKeeps ==
    ASSUME UpdaterInv, NEW trigger \in {"Idle", "UserAsked"}, consider(trigger)
    PROVE  UpdaterInv'
<1>0. UpdaterTyped /\ EngineGood(engine) /\ CacheGood(engine) /\ OneWay /\ MarkedFirst /\ engine.at = "idle" /\ Running
  BY DEF UpdaterInv, consider, Idle
<1>a. UNCHANGED <<mac, works, latest, crashes, target, backup, incoming, cache, failed, watch, handed, rolled, retried, overlap, errors>>
  BY DEF consider, hostVars, fileVars, pastVars
<1>1. PICK f \in BOOLEAN, g \in BOOLEAN : f = failed_marker(engine.offer) /\ g = (engine.offer \in rolled)
  <2>1. failed_marker(engine.offer) \in BOOLEAN /\ (engine.offer \in rolled) \in BOOLEAN
    BY DEF failed_marker
  <2> QED
    BY <2>1, Zenon
<1>2. engine' = [engine EXCEPT !.at = "consider", !.trigger = trigger, !.ready = engine.staged, !.of = engine.offer,
                               !.auto_install = engine.auto, !.failed_before = f, !.again = g]
  BY <1>1, Zenon DEF consider
<1>3. engine' \in EngineRec /\ engine'.at = "consider" /\ engine'.run = engine.run
      /\ engine'.of = engine.offer /\ engine'.offer = engine.offer /\ engine'.staged = engine.staged
      /\ engine'.ready = engine.staged /\ engine'.failed_before = f /\ engine'.again = g
  BY <1>0, <1>2 DEF UpdaterTyped, EngineRec, EngineAt
<1>5. g => f \/ engine.offer \in Unmarked
  <2>1. engine.offer \in rolled => engine.offer \in failed \/ engine.offer \in Unmarked
    BY <1>0 DEF MarkedFirst
  <2> QED
    BY <1>1, <2>1, Zenon DEF failed_marker
<1>6. EngineGood(engine)' /\ CacheGood(engine)'
  <2>1. Unmarked' = Unmarked
    BY <1>a DEF Unmarked
  <2> QED
    BY <1>0, <1>a, <1>3, <1>5, <2>1 DEF EngineGood, CacheGood, Swapping, Running
<1> QED
  BY <1>0, <1>a, <1>3, <1>6, EngineMoves DEF UpdaterTyped, HostTyped, OneWay, MarkedFirst, Swapping

\* Nothing that was put back is installed again by itself where the marker was read.
LEMMA DecideKeeps ==
    ASSUME UpdaterInv, NEW can_install \in BOOLEAN, Decide(can_install)
    PROVE  UpdaterInv'
<1>0. UpdaterTyped /\ EngineGood(engine) /\ CacheGood(engine) /\ engine.at = "consider"
  BY DEF UpdaterInv, Decide
<1>1. PICK to \in {"idle", "copy"} :
        /\ engine' = [engine EXCEPT !.at = to]
        /\ to = "copy" => ~mac /\ engine.ready
        /\ handed' # handed => mac /\ engine.ready /\ handed' = handed \cup {engine.of}
        /\ retried' # retried => engine.again /\ ~engine.failed_before /\ retried' = retried \cup {engine.of}
  <2>1. CASE decide([trigger |-> engine.trigger, ready |-> engine.ready /\ can_install, signed_in |-> signedIn,
                     auto_install |-> engine.auto_install, failed_before |-> engine.failed_before])
    <3>1. engine.ready /\ (engine.trigger = "Idle" => ~engine.failed_before)
      BY <2>1 DEF decide
    <3>2. retried' # retried => engine.trigger = "Idle" /\ engine.again /\ retried' = retried \cup {engine.of}
      BY <2>1 DEF Decide
    <3>3. CASE mac
      BY <2>1, <3>1, <3>2, <3>3, Zenon DEF Decide, released, goto
    <3>4. CASE ~mac
      BY <2>1, <3>1, <3>2, <3>4, Zenon DEF Decide, goto
    <3> QED
      BY <3>3, <3>4
  <2>2. CASE ~decide([trigger |-> engine.trigger, ready |-> engine.ready /\ can_install, signed_in |-> signedIn,
                      auto_install |-> engine.auto_install, failed_before |-> engine.failed_before])
    BY <2>2, Zenon DEF Decide, released, goto
  <2> QED
    BY <2>1, <2>2
<1>2. engine' \in EngineRec /\ engine'.at = to /\ engine'.run = engine.run /\ engine'.of = engine.of
      /\ engine'.offer = engine.offer /\ engine'.staged = engine.staged
  BY <1>0, <1>1 DEF UpdaterTyped, EngineRec, EngineAt
<1>3. handed' \subseteq Versions
  BY <1>0, <1>1 DEF UpdaterTyped, HostTyped, EngineRec, MaybeVersion, EngineGood, Unmarked
<1>4. UNCHANGED <<mac, works, latest, crashes, target, backup, incoming, cache, failed, watch, rolled, overlap, errors>>
  BY DEF Decide, hostVars, fileVars
<1>5. EngineGood(engine)' /\ CacheGood(engine)'
  BY <1>0, <1>1, <1>2, <1>4 DEF EngineGood, CacheGood, Swapping, Unmarked
<1>6. retried' \subseteq Unmarked
  BY <1>0, <1>1 DEF UpdaterInv, EngineGood, MarkedFirst, Unmarked
<1>7. handed' # {} => mac
  BY <1>1 DEF UpdaterInv, OneWay
<1> QED
  BY <1>0, <1>1, <1>2, <1>3, <1>4, <1>5, <1>6, <1>7, EngineMoves DEF UpdaterTyped, HostTyped, Swapping

\* What is kept as the backup is the target of an agent that runs.
LEMMA SwapKeepsKeeps ==
    ASSUME UpdaterInv, SwapKeeps
    PROVE  UpdaterInv'
<1>0. UpdaterTyped /\ EngineGood(engine) /\ CacheGood(engine) /\ engine.at = "link"
  BY DEF UpdaterInv, SwapKeeps
<1>1. engine' \in EngineRec /\ engine'.at = "put" /\ engine'.run = engine.run /\ engine'.of = engine.of
      /\ engine'.offer = engine.offer /\ engine'.staged = engine.staged
  BY <1>0 DEF SwapKeeps, goto, UpdaterTyped, EngineRec, EngineAt
<1>2. /\ backup' = target /\ target \in Versions
      /\ UNCHANGED <<mac, works, latest, crashes, cache, failed, handed, rolled, retried, target, incoming, watch, overlap, errors>>
  BY <1>0 DEF SwapKeeps, installing, hostVars, UpdaterTyped, HostTyped
<1>3. UpdaterTyped'
  BY <1>0, <1>1, <1>2 DEF UpdaterTyped, HostTyped, MaybeVersion
<1>4. EngineGood(engine)' /\ CacheGood(engine)'
  BY <1>0, <1>1, <1>2 DEF EngineGood, CacheGood, Swapping, Unmarked
<1>5. OneWay' /\ MarkedFirst'
  BY <1>0, <1>1, <1>2 DEF UpdaterInv, OneWay, MarkedFirst, Swapping, Watched, Unmarked
<1>6. ASSUME Clean' PROVE CleanGood'
  <2>1. CleanGood
    BY <1>2, <1>6 DEF UpdaterInv, Clean, Erred
  <2>2. OneWatch' /\ \A v \in Versions : WatchGood(v)'
    BY <1>0, <1>1, <1>2, <2>1 DEF CleanGood, OneWatch, WatchGood, Running
  <2>3. works[target] /\ target # 0
    BY <1>0, <1>2, <2>1, BoundsAreNat DEF CleanGood, Recoverable, EngineGood, Running, Versions, Unmarked
  <2>4. Recoverable' /\ InGoodHands'
    BY <1>0, <1>1, <1>2, <2>1, <2>3 DEF CleanGood, Recoverable, InGoodHands, Running, Watched, Erred
  <2> QED
    BY <2>2, <2>4 DEF CleanGood
<1> QED
  BY <1>3, <1>4, <1>5, <1>6 DEF UpdaterInv

\* The watchdog has the install, with a backup to go back to; or the backup goes back; or an error leaves
\* the new version where it is.
LEMMA StartWatchdogKeeps ==
    ASSUME UpdaterInv, StartWatchdog
    PROVE  UpdaterInv'
<1>0. UpdaterTyped /\ EngineGood(engine) /\ CacheGood(engine) /\ engine.at = "spawn" /\ Running
  BY DEF UpdaterInv, StartWatchdog, EngineGood, Running
<1>1. UNCHANGED <<mac, works, latest, crashes, cache, failed, handed, rolled, retried>>
  BY DEF StartWatchdog, installing, hostVars
<1>2. engine.of \in Versions /\ engine.of = engine.offer /\ engine.staged
  BY <1>0 DEF UpdaterTyped, EngineRec, MaybeVersion, EngineGood, Swapping
<1>3. CASE /\ backup # 0
           /\ watch' = [watch EXCEPT ![engine.of] = [at |-> "await", child |-> "none"]]
           /\ overlap' = (overlap \/ Watched)
           /\ goto("exit")
           /\ UNCHANGED <<fileVars, errors>>
  <2>1. engine' \in EngineRec /\ engine'.at = "exit" /\ engine'.run = engine.run /\ engine'.of = engine.of
        /\ engine'.offer = engine.offer /\ engine'.staged = engine.staged
    BY <1>0, <1>3 DEF goto, UpdaterTyped, EngineRec, EngineAt
  <2>2. watch' \in [Versions -> WatchRec] /\ watch'[engine.of].at = "await"
        /\ \A v \in Versions : v # engine.of => watch'[v] = watch[v]
    BY <1>0, <1>2, <1>3 DEF UpdaterTyped, WatchRec, WatchAt, Children
  <2>3. UNCHANGED <<target, backup, incoming, errors>>
    BY <1>3 DEF fileVars
  <2>4. overlap' \in BOOLEAN
    BY <1>3
  <2>5. UpdaterTyped'
    BY <1>0, <1>1, <2>1, <2>2, <2>3, <2>4 DEF UpdaterTyped, HostTyped
  <2>6. EngineGood(engine)' /\ CacheGood(engine)'
    BY <1>0, <1>1, <1>2, <2>1, <2>3 DEF EngineGood, CacheGood, Swapping, Running
  <2>7. OneWay' /\ MarkedFirst'
    BY <1>0, <1>1, <2>1, <2>2, <2>3 DEF UpdaterInv, OneWay, MarkedFirst, Unmarked, Swapping, Watched
  <2>8. ASSUME Clean' PROVE CleanGood'
    <3>1. CleanGood /\ \A v \in Versions : watch[v].at = "none"
      BY <1>1, <1>3, <2>3, <2>8 DEF UpdaterInv, Clean, Erred, Watched
    <3>2. OneWatch' /\ \A v \in Versions : WatchGood(v)'
      BY <2>1, <2>2, <3>1 DEF OneWatch, WatchGood
    <3>3. Recoverable'
      BY <1>0, <1>1, <2>1, <2>3, <3>1 DEF CleanGood, Recoverable
    <3>4. InGoodHands'
      BY <1>0, <1>2, <2>1, <2>2 DEF InGoodHands, Running
    <3> QED
      BY <3>2, <3>3, <3>4 DEF CleanGood
  <2> QED
    BY <2>5, <2>6, <2>7, <2>8 DEF UpdaterInv
<1>4. CASE restored(engine.of) /\ released /\ UNCHANGED <<incoming, watch, overlap>>
  <2>a. \/ errors' = errors /\ (IF backup # 0 THEN target' = backup /\ backup' = 0 ELSE UNCHANGED <<target, backup>>)
        \/ errors' = errors \cup {[what |-> "restore", of |-> engine.of]} /\ UNCHANGED <<target, backup>>
    BY <1>4 DEF restored, Error
  <2>b. Unmarked \subseteq Unmarked'
    BY <2>a DEF Unmarked
  <2>1. engine' \in EngineRec /\ engine'.at = "idle" /\ engine'.run = engine.run /\ engine'.of = engine.of
        /\ engine'.offer = engine.offer /\ engine'.staged = engine.staged
    BY <1>0, <1>4 DEF released, goto, UpdaterTyped, EngineRec, EngineAt
  <2>2. target' \in Versions /\ backup' \in MaybeVersion
    BY <1>0, <2>a DEF UpdaterTyped, HostTyped, MaybeVersion
  <2>3. UpdaterTyped'
    BY <1>0, <1>1, <1>4, <2>1, <2>2 DEF UpdaterTyped, HostTyped
  <2>4. EngineGood(engine)' /\ CacheGood(engine)'
    BY <2>b, <1>0, <1>1, <1>2, <2>1 DEF EngineGood, CacheGood, Swapping, Running
  <2>5. OneWay' /\ MarkedFirst'
    BY <2>b, <1>0, <1>1, <1>4, <2>1 DEF UpdaterInv, OneWay, MarkedFirst, Swapping, Watched
  <2>6. ASSUME Clean' PROVE CleanGood'
    <3>0. [what |-> "restore", of |-> engine.of] \notin errors'
      BY <2>6 DEF Clean, Erred
    <3>1. CleanGood /\ errors' = errors
      BY <1>1, <1>4, <2>6, <2>a, <3>0 DEF UpdaterInv, Clean, Erred
    <3>2. backup # 0 /\ works[backup] /\ target' = backup /\ backup' = 0
      BY <1>0, <2>a, <3>0, <3>1 DEF CleanGood, Recoverable
    <3>3. OneWatch' /\ \A v \in Versions : WatchGood(v)'
      BY <1>0, <1>1, <1>4, <2>1, <3>1, <3>2 DEF CleanGood, OneWatch, WatchGood, Running
    <3>4. Recoverable' /\ InGoodHands'
      BY <1>0, <1>1, <2>1, <3>2 DEF Recoverable, InGoodHands, Running
    <3> QED
      BY <3>3, <3>4 DEF CleanGood
  <2> QED
    BY <2>3, <2>4, <2>5, <2>6 DEF UpdaterInv
<1>5. CASE Error("plan", engine.of) /\ released /\ UNCHANGED <<fileVars, watch, overlap>>
  <2>1. engine' \in EngineRec /\ engine'.at = "idle" /\ engine'.run = engine.run /\ engine'.of = engine.of
        /\ engine'.offer = engine.offer /\ engine'.staged = engine.staged
    BY <1>0, <1>5 DEF released, goto, UpdaterTyped, EngineRec, EngineAt
  <2>2. UNCHANGED <<target, backup, incoming, watch, overlap>> /\ errors' = errors \cup {[what |-> "plan", of |-> engine.of]}
    BY <1>5 DEF fileVars, Error
  <2>3. Unmarked \subseteq Unmarked' /\ ~Clean'
    BY <2>2 DEF Unmarked, Clean, Erred
  <2>4. UpdaterTyped'
    BY <1>0, <1>1, <2>1, <2>2 DEF UpdaterTyped, HostTyped
  <2>5. EngineGood(engine)' /\ CacheGood(engine)'
    BY <1>0, <1>1, <1>2, <2>1 DEF EngineGood, CacheGood, Swapping, Running
  <2>6. OneWay' /\ MarkedFirst'
    BY <1>0, <1>1, <2>1, <2>2, <2>3 DEF UpdaterInv, OneWay, MarkedFirst, Swapping, Watched
  <2> QED
    BY <2>3, <2>4, <2>5, <2>6 DEF UpdaterInv
<1> QED
  BY <1>3, <1>4, <1>5 DEF StartWatchdog

\* A watchdog waits for the agent that exits.
LEMMA ExitsKeeps ==
    ASSUME UpdaterInv, Exits
    PROVE  UpdaterInv'
<1>0. UpdaterTyped /\ engine.at = "exit"
  BY DEF UpdaterInv, Exits
<1>1. engine' \in EngineRec /\ engine'.run = 0 /\ engine'.at = "idle" /\ ~engine'.staged
  BY DownIs DEF Exits, ended
<1>2. UNCHANGED <<mac, works, latest, crashes, target, backup, incoming, cache, failed, watch, handed, rolled, retried, overlap, errors>>
  BY DEF Exits, hostVars, fileVars, pastVars
<1>3. UpdaterTyped' /\ EngineGood(engine)' /\ CacheGood(engine)'
  BY <1>0, <1>1, <1>2 DEF UpdaterTyped, HostTyped, EngineGood, CacheGood, Swapping, Unmarked
<1>4. OneWay' /\ MarkedFirst'
  BY <1>1, <1>2 DEF UpdaterInv, OneWay, MarkedFirst, Swapping, Watched, Unmarked
<1>5. ASSUME Clean' PROVE CleanGood'
  <2>1. CleanGood
    BY <1>2, <1>5 DEF UpdaterInv, Clean, Erred
  <2>2. watch[engine.of].at = "await" /\ engine.of \in Versions
    BY <1>0, <2>1 DEF CleanGood, InGoodHands, UpdaterInv, UpdaterTyped, EngineRec, MaybeVersion, EngineGood, Swapping, Unmarked, Erred
  <2>3. OneWatch' /\ \A v \in Versions : WatchGood(v)'
    BY <1>0, <1>1, <1>2, <2>1, <2>2 DEF CleanGood, OneWatch, WatchGood, Running
  <2>4. Recoverable' /\ InGoodHands'
    BY <1>1, <1>2, <2>1, <2>2 DEF CleanGood, Recoverable, InGoodHands, Running, Watched, Erred
  <2> QED
    BY <2>3, <2>4 DEF CleanGood
<1> QED
  BY <1>3, <1>4, <1>5 DEF UpdaterInv

LEMMA ParentStuckKeeps ==
    ASSUME UpdaterInv, NEW v \in Versions, ParentStuck(v)
    PROVE  UpdaterInv'
<1>0. UpdaterTyped
  BY DEF UpdaterInv
<1>1. /\ UNCHANGED <<mac, works, latest, target, backup, incoming, cache, failed, engine, handed, rolled, retried, overlap, errors>>
      /\ crashes' = crashes + 1 /\ watch' = [watch EXCEPT ![v].at = "stuck"] /\ watch[v].at = "await"
  BY DEF ParentStuck, watching, fileVars, pastVars
<1>2. watch' \in [Versions -> WatchRec] /\ \A w \in Versions : watch'[w] = watch[w] \/ (w = v /\ watch'[w].at = "stuck")
  BY <1>0, <1>1 DEF UpdaterTyped, WatchRec, WatchAt
<1>3. UpdaterTyped' /\ ~Clean'
  BY <1>0, <1>1, <1>2 DEF UpdaterTyped, HostTyped, Clean, Erred
<1>4. EngineGood(engine)' /\ CacheGood(engine)'
  BY <1>1 DEF UpdaterInv, EngineGood, CacheGood, Unmarked
<1>5. OneWay' /\ MarkedFirst'
  BY <1>1, <1>2 DEF UpdaterInv, OneWay, MarkedFirst, Watched, Unmarked
<1> QED
  BY <1>3, <1>4, <1>5 DEF UpdaterInv

\* The child is the only agent, if it starts.
LEMMA ChildStartsKeeps ==
    ASSUME UpdaterInv, NEW v \in Versions, ChildStarts(v)
    PROVE  UpdaterInv'
<1>0. UpdaterTyped /\ EngineGood(engine) /\ CacheGood(engine) /\ watch[v].at \in {"health", "kill"} /\ watch[v].child = "starting"
  BY DEF UpdaterInv, ChildStarts
<1>1. UNCHANGED <<mac, works, latest, crashes, target, backup, incoming, cache, failed, handed, rolled, retried, overlap, errors>>
  BY DEF ChildStarts, watchesOnly, hostVars, fileVars
<1>2. PICK c \in {"bound", "exited"} :
        /\ watch' = [watch EXCEPT ![v].child = c]
        /\ c = "bound" => works[target] /\ ~Running /\ engine' = started(target, stored)
        /\ c = "exited" => engine' = engine
  BY Zenon DEF ChildStarts
<1>3. /\ watch' \in [Versions -> WatchRec] /\ \A w \in Versions : watch'[w].at = watch[w].at
      /\ watch'[v].child = c /\ \A w \in Versions : w # v => watch'[w] = watch[w]
  BY <1>0, <1>2 DEF UpdaterTyped, WatchRec, Children
<1>4. c = "bound" => engine' \in EngineRec /\ engine'.run = target /\ engine'.at = "idle" /\ ~engine'.staged
  BY <1>0, <1>2, Starts DEF UpdaterTyped, HostTyped, MaybeVersion
<1>5. target \in Versions /\ target # 0
  BY <1>0, BoundsAreNat DEF UpdaterTyped, HostTyped, Versions
<1>6. UpdaterTyped' /\ EngineGood(engine)' /\ CacheGood(engine)'
  BY <1>0, <1>1, <1>2, <1>3, <1>4, <1>5 DEF UpdaterTyped, HostTyped, EngineGood, CacheGood, Swapping, Unmarked
<1>7. OneWay' /\ MarkedFirst'
  BY <1>1, <1>2, <1>3, <1>4 DEF UpdaterInv, OneWay, MarkedFirst, Swapping, Watched, Unmarked
<1>8. ASSUME Clean' PROVE CleanGood'
  <2>1. CleanGood /\ ~Running
    BY <1>0, <1>1, <1>8 DEF UpdaterInv, Clean, CleanGood, WatchGood, Erred
  <2>2. OneWatch'
    BY <1>3, <2>1 DEF CleanGood, OneWatch
  <2>3. \A w \in Versions : w # v => watch[w].at = "none"
    BY <1>0, <2>1 DEF CleanGood, OneWatch
  <2>4. \A w \in Versions : WatchGood(w)'
    BY <1>0, <1>2, <1>3, <1>4, <1>5, <2>1, <2>3 DEF WatchGood, Running
  <2>5. Recoverable' /\ InGoodHands'
    BY <1>0, <1>1, <1>2, <1>3, <1>4, <1>5, <2>1 DEF CleanGood, EngineGood, Recoverable, InGoodHands, Running, Watched, Unmarked, Erred
  <2> QED
    BY <2>2, <2>4, <2>5 DEF CleanGood
<1> QED
  BY <1>6, <1>7, <1>8 DEF UpdaterInv

\* Whatever its child was doing, no agent runs once it is killed.
LEMMA KillKeeps ==
    ASSUME UpdaterInv, NEW v \in Versions, Kill(v)
    PROVE  UpdaterInv'
<1>0. UpdaterTyped /\ EngineGood(engine) /\ CacheGood(engine) /\ watch[v].at = "kill"
  BY DEF UpdaterInv, Kill
<1>1. /\ UNCHANGED <<mac, works, latest, crashes, target, backup, incoming, cache, failed, handed, rolled, retried, overlap, errors>>
      /\ watch' = [watch EXCEPT ![v] = [at |-> "mark", child |-> "none"]]
  BY DEF Kill, watchesOnly, hostVars, fileVars
<1>2. IF watch[v].child = "bound" THEN engine' = Down ELSE engine' = engine
  BY Zenon DEF Kill, ended
<1>3. watch' \in [Versions -> WatchRec] /\ watch'[v].at = "mark" /\ \A w \in Versions : w # v => watch'[w] = watch[w]
  BY <1>0, <1>1 DEF UpdaterTyped, WatchRec, WatchAt, Children
<1>4. engine' = engine \/ (engine' \in EngineRec /\ engine'.run = 0 /\ engine'.at = "idle" /\ ~engine'.staged)
  BY <1>2, DownIs
<1>5. UpdaterTyped' /\ EngineGood(engine)' /\ CacheGood(engine)'
  BY <1>0, <1>1, <1>3, <1>4 DEF UpdaterTyped, HostTyped, EngineGood, CacheGood, Swapping, Unmarked
<1>6. OneWay' /\ MarkedFirst'
  BY <1>0, <1>1, <1>3, <1>4 DEF UpdaterInv, OneWay, MarkedFirst, Swapping, Watched, Unmarked
<1>7. ASSUME Clean' PROVE CleanGood'
  <2>1. CleanGood /\ \A w \in Versions : w # v => watch[w].at = "none"
    BY <1>0, <1>1, <1>7 DEF UpdaterInv, Clean, CleanGood, OneWatch, Erred
  <2>2. ~Running'
    BY <1>0, <1>2, <2>1, DownIs DEF CleanGood, WatchGood, Running
  <2>3. engine'.at = "idle"
    BY <1>0, <1>4, <2>2 DEF EngineGood, Running, Unmarked
  <2>4. OneWatch' /\ \A w \in Versions : WatchGood(w)'
    BY <1>3, <2>1, <2>2 DEF OneWatch, WatchGood
  <2>5. Recoverable' /\ InGoodHands'
    BY <1>1, <1>3, <2>1, <2>2, <2>3 DEF CleanGood, Recoverable, InGoodHands, Watched, Erred
  <2> QED
    BY <2>4, <2>5 DEF CleanGood
<1> QED
  BY <1>5, <1>6, <1>7 DEF UpdaterInv

\* The previous version is back, and works: an agent runs, unless it could not be started.
LEMMA RespawnKeeps ==
    ASSUME UpdaterInv, NEW v \in Versions, Respawn(v)
    PROVE  UpdaterInv'
<1>0. UpdaterTyped /\ EngineGood(engine) /\ CacheGood(engine) /\ watch[v].at = "respawn"
  BY DEF UpdaterInv, Respawn
<1>1. /\ UNCHANGED <<mac, works, latest, crashes, target, backup, incoming, cache, failed, handed, rolled, retried, overlap>>
      /\ errors \subseteq errors'
      /\ watch' = [watch EXCEPT ![v] = NoWatch]
  BY DEF Respawn, Error, watchesOnly, hostVars, fileVars
<1>2. /\ engine' = engine \/ (~Running /\ works[target] /\ engine' = started(target, stored))
      /\ \/ errors' = errors /\ (~Running /\ works[target] => engine' = started(target, stored))
         \/ errors' = errors \cup {[what |-> "respawn", of |-> v]}
  BY DEF Respawn, Error
<1>a. Unmarked \subseteq Unmarked'
  BY <1>1 DEF Unmarked
<1>3. watch' \in [Versions -> WatchRec] /\ watch'[v].at = "none" /\ \A w \in Versions : w # v => watch'[w] = watch[w]
  BY <1>0, <1>1 DEF UpdaterTyped, WatchRec, WatchAt, Children, NoWatch
<1>4. target \in Versions /\ target # 0
  BY <1>0, BoundsAreNat DEF UpdaterTyped, HostTyped, Versions
<1>5. /\ started(target, stored) \in EngineRec /\ started(target, stored).run = target
      /\ started(target, stored).at = "idle" /\ ~started(target, stored).staged
  BY <1>4, Starts DEF MaybeVersion
<1>6. UpdaterTyped' /\ EngineGood(engine)' /\ CacheGood(engine)'
  BY <1>0, <1>a, <1>1, <1>2, <1>3, <1>4, <1>5 DEF UpdaterTyped, HostTyped, EngineGood, CacheGood, Swapping
<1>7. OneWay' /\ MarkedFirst'
  BY <1>a, <1>1, <1>2, <1>3, <1>5 DEF UpdaterInv, OneWay, MarkedFirst, Swapping, Watched
<1>8. ASSUME Clean' PROVE CleanGood'
  <2>1. /\ CleanGood /\ ~Running /\ works[target]
        /\ \A w \in Versions : w # v => watch[w].at = "none"
    BY <1>0, <1>1, <1>8 DEF UpdaterInv, Clean, Erred, CleanGood, OneWatch, WatchGood
  <2>b. engine.at = "idle"
    BY <1>0, <2>1 DEF EngineGood, Running
  <2>2. engine'.at = "idle" /\ (engine'.run # 0 \/ [what |-> "respawn", of |-> v] \in errors')
    BY <1>2, <1>4, <1>5, <2>1, <2>b
  <2>a. engine'.run # 0 => engine'.run = target
    BY <1>2, <1>5, <2>1 DEF Running
  <2>3. OneWatch' /\ \A w \in Versions : WatchGood(w)'
    BY <1>3, <2>1 DEF OneWatch, WatchGood
  <2>4. Recoverable' /\ InGoodHands'
    BY <2>a, <1>1, <2>1, <2>2 DEF CleanGood, Recoverable, InGoodHands, Running, Erred
  <2> QED
    BY <2>3, <2>4 DEF CleanGood
<1> QED
  BY <1>6, <1>7, <1>8 DEF UpdaterInv

LEMMA AppInstallsKeeps ==
    ASSUME UpdaterInv, NEW v \in Versions, AppInstalls(v)
    PROVE  UpdaterInv'
<1>0. UpdaterTyped /\ EngineGood(engine) /\ CacheGood(engine) /\ v # 0
  BY BoundsAreNat DEF UpdaterInv, Versions
<1>1. /\ UNCHANGED <<mac, works, latest, crashes, backup, incoming, cache, failed, watch, rolled, retried, overlap, errors>>
      /\ target' = v /\ handed' = handed \ {v} /\ v \in handed /\ works[v] /\ engine' = started(v, stored)
  BY DEF AppInstalls, hostVars, pastVars
<1>2. engine' \in EngineRec /\ engine'.run = v /\ engine'.at = "idle" /\ ~engine'.staged
  BY <1>1, Starts DEF MaybeVersion
<1>3. UpdaterTyped' /\ EngineGood(engine)' /\ CacheGood(engine)'
  BY <1>0, <1>1, <1>2 DEF UpdaterTyped, HostTyped, EngineGood, CacheGood, Swapping, Unmarked
<1>4. mac /\ ~Watched
  BY <1>1 DEF UpdaterInv, OneWay
<1>5. OneWay' /\ MarkedFirst'
  BY <1>1, <1>2, <1>4 DEF UpdaterInv, OneWay, MarkedFirst, Swapping, Watched, Unmarked
<1>6. ASSUME Clean' PROVE CleanGood'
  <2>1. CleanGood
    BY <1>1, <1>6 DEF UpdaterInv, Clean, Erred
  <2>2. OneWatch' /\ \A w \in Versions : WatchGood(w)'
    BY <1>1, <1>4 DEF OneWatch, WatchGood, Watched
  <2>3. Recoverable' /\ InGoodHands'
    BY <1>0, <1>1, <1>2, <2>1 DEF CleanGood, Recoverable, InGoodHands, Running, Erred
  <2> QED
    BY <2>2, <2>3 DEF CleanGood
<1> QED
  BY <1>3, <1>5, <1>6 DEF UpdaterInv

LEMMA CrashKeeps ==
    ASSUME UpdaterInv, Crash
    PROVE  UpdaterInv'
<1>0. UpdaterTyped /\ EngineGood(engine) /\ CacheGood(engine)
  BY DEF UpdaterInv
<1>1. /\ UNCHANGED <<mac, works, latest, target, backup, incoming, cache, failed, handed, rolled, retried, overlap, errors>>
      /\ crashes' = crashes + 1
  BY DEF Crash, fileVars, pastVars
<1>2. engine' = engine \/ (engine' \in EngineRec /\ engine'.run = 0 /\ engine'.at = "idle" /\ ~engine'.staged)
  BY DownIs DEF Crash, ended
<1>3. watch' \in [Versions -> WatchRec] /\ \A v \in Versions : watch'[v] = watch[v] \/ watch'[v] = NoWatch
  BY <1>0 DEF Crash, UpdaterTyped, WatchRec, WatchAt, Children, NoWatch
<1>4. UpdaterTyped' /\ EngineGood(engine)' /\ CacheGood(engine)' /\ ~Clean'
  BY <1>0, <1>1, <1>2, <1>3 DEF UpdaterTyped, HostTyped, EngineGood, CacheGood, Swapping, Clean, Unmarked, Erred
<1>5. OneWay' /\ MarkedFirst'
  BY <1>1, <1>2, <1>3 DEF UpdaterInv, OneWay, MarkedFirst, Swapping, Watched, NoWatch, Unmarked
<1> QED
  BY <1>4, <1>5 DEF UpdaterInv

LEMMA RestartKeeps ==
    ASSUME UpdaterInv, Restart
    PROVE  UpdaterInv'
<1>0. UpdaterTyped /\ EngineGood(engine) /\ CacheGood(engine)
  BY DEF UpdaterInv
<1>1. /\ UNCHANGED <<mac, works, latest, crashes, target, backup, incoming, cache, failed, watch, handed, rolled, retried, errors>>
      /\ overlap' = (overlap \/ Watched) /\ ~Running /\ works[target] /\ engine' = started(target, stored)
  BY DEF Restart, hostVars, fileVars, pastVars
<1>2. target \in Versions /\ target # 0
  BY <1>0, BoundsAreNat DEF UpdaterTyped, HostTyped, Versions
<1>3. engine' \in EngineRec /\ engine'.run = target /\ engine'.at = "idle" /\ ~engine'.staged
  BY <1>1, <1>2, Starts DEF MaybeVersion
<1>4. UpdaterTyped' /\ EngineGood(engine)' /\ CacheGood(engine)'
  BY <1>0, <1>1, <1>2, <1>3 DEF UpdaterTyped, HostTyped, EngineGood, CacheGood, Swapping, Unmarked
<1>5. OneWay' /\ MarkedFirst'
  BY <1>1, <1>3 DEF UpdaterInv, OneWay, MarkedFirst, Swapping, Watched, Unmarked
<1>6. ASSUME Clean' PROVE CleanGood'
  <2>1. CleanGood /\ ~Watched
    BY <1>1, <1>6 DEF UpdaterInv, Clean, Erred
  <2>2. OneWatch' /\ \A v \in Versions : WatchGood(v)'
    BY <1>1, <2>1 DEF OneWatch, WatchGood, Watched
  <2>3. Recoverable' /\ InGoodHands'
    BY <1>1, <1>2, <1>3, <2>1 DEF CleanGood, Recoverable, InGoodHands, Running, Erred
  <2> QED
    BY <2>2, <2>3 DEF CleanGood
<1> QED
  BY <1>4, <1>5, <1>6 DEF UpdaterInv

LEMMA UpdaterInit == Init => UpdaterInv
<1> SUFFICES ASSUME Init PROVE UpdaterInv
  OBVIOUS
<1>1. 1 \in Versions /\ 1 \in MaybeVersion /\ 0 \in MaybeVersion
  BY BoundsAreNat DEF Versions, MaybeVersion
<1>2. engine \in EngineRec /\ engine.run = 1 /\ engine.at = "idle" /\ ~engine.staged
  <2>1. PICK s : s = "unset"
    OBVIOUS
  <2> QED
    BY <1>1, <2>1, Starts DEF Init
<1>3. watch \in [Versions -> WatchRec] /\ \A v \in Versions : watch[v].at = "none"
  BY DEF Init, NoWatch, WatchRec, WatchAt, Children
<1>4. UpdaterTyped
  BY <1>1, <1>2, <1>3 DEF Init, UpdaterTyped, HostTyped
<1>5. EngineGood(engine) /\ CacheGood(engine) /\ OneWay /\ MarkedFirst
  BY <1>2, <1>3 DEF Init, EngineGood, CacheGood, OneWay, MarkedFirst, Swapping, Watched, Unmarked
<1>6. CleanGood
  BY <1>2, <1>3 DEF Init, CleanGood, OneWatch, WatchGood, Recoverable, InGoodHands, Running, Erred
<1> QED
  BY <1>4, <1>5, <1>6 DEF UpdaterInv

LEMMA UpdaterNext == UpdaterInv /\ [Next]_vars => UpdaterInv'
<1> SUFFICES ASSUME UpdaterInv, [Next]_vars PROVE UpdaterInv'
  OBVIOUS
<1>1. CASE Publish \/ handle \/ download_path
  BY <1>1, PublishKeeps, CheckKeeps, ConsiderKeeps, SetAutoInstallKeeps, InstallFailedKeeps, DownloadPathKeeps
     DEF handle, run
<1>2. CASE \/ \E outcome \in Fetched : prepare(outcome)
           \/ \E can_install \in check_launch : Decide(can_install)
  BY <1>2, PrepareKeeps, DecideKeeps DEF check_launch
<1>3. CASE SwapFails \/ SwapCopies \/ SwapForgets \/ SwapKeeps \/ SwapPuts \/ StartWatchdog \/ Exits
  BY <1>3, SwapFailsKeeps, SwapCopiesKeeps, SwapForgetsKeeps, SwapKeepsKeeps, SwapPutsKeeps, StartWatchdogKeeps,
     ExitsKeeps
<1>4. CASE \E v \in Versions :
              \/ ParentStuck(v) \/ SpawnNew(v) \/ ChildStarts(v) \/ Probe(v) \/ Kill(v) \/ Mark(v)
              \/ PutBack(v) \/ Respawn(v) \/ AppInstalls(v)
  BY <1>4, ParentStuckKeeps, SpawnNewKeeps, ChildStartsKeeps, ProbeKeeps, KillKeeps, MarkKeeps, PutBackKeeps,
     RespawnKeeps, AppInstallsKeeps
<1>5. CASE (\E on \in {"on", "off"} : SettingHeld(on)) \/ Sessions \/ Crash \/ Restart
  BY <1>5, SettingHeldKeeps, SessionsKeeps, CrashKeeps, RestartKeeps
<1>6. CASE UNCHANGED vars
  BY <1>6 DEF vars, UpdaterInv, UpdaterTyped, HostTyped, EngineGood, CacheGood, OneWay, MarkedFirst, Clean, CleanGood,
              OneWatch, WatchGood, Recoverable, InGoodHands, Running, Watched, Unmarked, Erred
<1> QED
  BY <1>1, <1>2, <1>3, <1>4, <1>5, <1>6 DEF Next

\* Whatever process ends at whatever step, a whole agent is at the target and one that
\* does not work is put back, if the disk lets the watchdog; nothing put back whose marker
\* was written is installed again by itself; a staged offer is there when it is installed;
\* an agent runs or will be started (engine.rs, swap.rs, watchdog.rs).
THEOREM UpdatesAreSound == Spec => []UpdaterSound
<1>1. UpdaterInv => UpdaterSound
  <2> SUFFICES ASSUME UpdaterInv PROVE UpdaterSound
    OBVIOUS
  <2>1. UpdaterTyped /\ target # 0
    BY BoundsAreNat DEF UpdaterInv, UpdaterTyped, HostTyped, Versions
  <2>2. AgentIsUp
    BY <2>1 DEF UpdaterInv, UpdaterTyped, HostTyped, Clean, CleanGood, InGoodHands, AgentIsUp, Erred
  <2>3. TargetRuns
    <3>1. CASE ~Clean
      BY <2>1, <3>1 DEF UpdaterTyped, HostTyped, Clean, TargetRuns, Erred
    <3>2. CASE Clean
      <4>1. engine.at = "exit" => engine.of \in Versions
        BY <2>1 DEF UpdaterInv, UpdaterTyped, EngineRec, MaybeVersion, EngineGood, Swapping, Unmarked
      <4>2. works[target] \/ engine.at = "spawn" \/ Watched
        BY <3>2, <4>1 DEF UpdaterInv, CleanGood, Recoverable, InGoodHands, Watched, Erred
      <4> QED
        BY <2>1, <4>2 DEF TargetRuns
    <3> QED
      BY <3>1, <3>2
  <2>4. NoInstallLoop /\ StagedIsThere
    BY DEF UpdaterInv, MarkedFirst, CacheGood, NoInstallLoop, StagedIsThere, Unmarked
  <2> QED
    BY <2>2, <2>3, <2>4 DEF UpdaterSound
<1> QED
  BY UpdaterInit, UpdaterNext, <1>1, PTL DEF Spec

-----------------------------------------------------------------------------
(* The browser's client.                                                   *)

LEMMA HeadAndTail ==
    ASSUME NEW s \in Seq(Replies), s # <<>>
    PROVE  /\ Head(s) \in Replies /\ Head(s) = s[1] /\ 1 \in DOMAIN s
           /\ Tail(s) \in Seq(Replies)
           /\ \A i \in DOMAIN Tail(s) : i \in Nat /\ i + 1 \in DOMAIN s /\ Tail(s)[i] = s[i + 1]
OBVIOUS

LEMMA Appended ==
    ASSUME NEW s \in Seq(Replies), NEW x \in Replies
    PROVE  /\ Append(s, x) \in Seq(Replies)
           /\ \A i \in DOMAIN Append(s, x) :
                 \/ i \in DOMAIN s /\ Append(s, x)[i] = s[i]
                 \/ i = Len(s) + 1 /\ Append(s, x)[i] = x
           /\ \A i \in DOMAIN s : i < Len(s) + 1
OBVIOUS

LEMMA Joined ==
    ASSUME NEW s \in Seq(Replies), NEW t \in Seq(Replies)
    PROVE  /\ s \o t \in Seq(Replies)
           /\ \A i \in DOMAIN (s \o t) :
                 \/ i \in DOMAIN s /\ (s \o t)[i] = s[i]
                 \/ i \in Nat /\ i > Len(s) /\ i - Len(s) \in DOMAIN t /\ (s \o t)[i] = t[i - Len(s)]
           /\ \A i \in DOMAIN s : i \in Nat /\ i <= Len(s)
           /\ Len(s) \in Nat
<1>1. Len(s) \in Nat /\ Len(t) \in Nat /\ DOMAIN s = 1 .. Len(s) /\ DOMAIN t = 1 .. Len(t)
  OBVIOUS
<1>2. DOMAIN (s \o t) = 1 .. (Len(s) + Len(t))
  OBVIOUS
<1>3. \A i \in 1 .. (Len(s) + Len(t)) : (s \o t)[i] = IF i <= Len(s) THEN s[i] ELSE t[i - Len(s)]
  OBVIOUS
<1>4. s \o t \in Seq(Replies)
  OBVIOUS
<1> QED
  BY <1>1, <1>2, <1>3, <1>4

LEMMA TailOrdered ==
    ASSUME NEW s \in Seq(Replies), s # <<>>, Ordered(s)
    PROVE  Ordered(Tail(s)) /\ Before(<<Head(s)>>, Tail(s))
<1>1. ASSUME NEW i \in DOMAIN Tail(s), NEW j \in DOMAIN Tail(s), i < j, Tail(s)[i][1] = Tail(s)[j][1]
      PROVE  Tail(s)[i][2] < Tail(s)[j][2]
  BY <1>1, HeadAndTail DEF Ordered
<1>2. ASSUME NEW j \in DOMAIN Tail(s), Head(s)[1] = Tail(s)[j][1] PROVE Head(s)[2] < Tail(s)[j][2]
  <2>1. j + 1 \in DOMAIN s /\ Tail(s)[j] = s[j + 1] /\ Head(s) = s[1] /\ 1 \in DOMAIN s /\ 1 < j + 1
    BY HeadAndTail
  <2> QED
    BY <1>2, <2>1 DEF Ordered
<1>3. DOMAIN <<Head(s)>> = {1} /\ <<Head(s)>>[1] = Head(s)
  OBVIOUS
<1>4. Ordered(Tail(s))
  BY <1>1 DEF Ordered
<1> QED
  BY <1>2, <1>3, <1>4 DEF Before

LEMMA AppendOrdered ==
    ASSUME NEW s \in Seq(Replies), NEW x \in Replies, Ordered(s), Before(s, <<x>>)
    PROVE  Ordered(Append(s, x))
<1>1. \A i \in DOMAIN s : s[i][1] = x[1] => s[i][2] < x[2]
  <2>1. 1 \in DOMAIN <<x>> /\ <<x>>[1] = x
    OBVIOUS
  <2> QED
    BY <2>1 DEF Before
<1>2. ASSUME NEW i \in DOMAIN Append(s, x), NEW j \in DOMAIN Append(s, x), i < j,
             Append(s, x)[i][1] = Append(s, x)[j][1]
      PROVE  Append(s, x)[i][2] < Append(s, x)[j][2]
  <2>1. i \in DOMAIN s /\ Append(s, x)[i] = s[i]
    <3>1. DOMAIN Append(s, x) = 1 .. (Len(s) + 1) /\ Len(s) \in Nat
      OBVIOUS
    <3> QED
      BY <1>2, <3>1, Appended
  <2>2. CASE j \in DOMAIN s /\ Append(s, x)[j] = s[j]
    BY <1>2, <2>1, <2>2 DEF Ordered
  <2>3. CASE Append(s, x)[j] = x
    BY <1>1, <1>2, <2>1, <2>3
  <2> QED
    BY <2>2, <2>3, Appended
<1> QED
  BY <1>2 DEF Ordered

LEMMA JoinOrdered ==
    ASSUME NEW s \in Seq(Replies), NEW t \in Seq(Replies), Ordered(s), Ordered(t), Before(s, t)
    PROVE  Ordered(s \o t)
<1>1. ASSUME NEW i \in DOMAIN (s \o t), NEW j \in DOMAIN (s \o t), i < j, (s \o t)[i][1] = (s \o t)[j][1]
      PROVE  (s \o t)[i][2] < (s \o t)[j][2]
  <2>1. CASE j \in DOMAIN s /\ (s \o t)[j] = s[j]
    <3>1. i \in DOMAIN s /\ (s \o t)[i] = s[i]
      BY <1>1, <2>1, Joined
    <3> QED
      BY <1>1, <2>1, <3>1 DEF Ordered
  <2>2. CASE j \in Nat /\ j - Len(s) \in DOMAIN t /\ (s \o t)[j] = t[j - Len(s)]
    <3>1. CASE i \in DOMAIN s /\ (s \o t)[i] = s[i]
      BY <1>1, <2>2, <3>1 DEF Before
    <3>2. CASE i \in Nat /\ i - Len(s) \in DOMAIN t /\ (s \o t)[i] = t[i - Len(s)]
      <4>1. i - Len(s) < j - Len(s)
        BY <1>1, <2>2, <3>2, Joined
      <4> QED
        BY <1>1, <2>2, <3>2, <4>1 DEF Ordered
    <3> QED
      BY <3>1, <3>2, Joined
  <2> QED
    BY <2>1, <2>2, Joined
<1> QED
  BY <1>1 DEF Ordered

LEMMA BeforeAppend ==
    ASSUME NEW s \in Seq(Replies), NEW x \in Replies, NEW t, Before(s, t), Before(<<x>>, t)
    PROVE  Before(Append(s, x), t)
<1>1. 1 \in DOMAIN <<x>> /\ <<x>>[1] = x
  OBVIOUS
<1>2. \A j \in DOMAIN t : x[1] = t[j][1] => x[2] < t[j][2]
  BY <1>1 DEF Before
<1> QED
  BY <1>2, Appended DEF Before

LEMMA BeforeJoin ==
    ASSUME NEW s, NEW t \in Seq(Replies), NEW u \in Seq(Replies), Before(s, t), Before(s, u)
    PROVE  Before(s, t \o u)
<1>1. ASSUME NEW i \in DOMAIN s, NEW j \in DOMAIN (t \o u), s[i][1] = (t \o u)[j][1]
      PROVE  s[i][2] < (t \o u)[j][2]
  <2>1. CASE j \in DOMAIN t /\ (t \o u)[j] = t[j]
    BY <1>1, <2>1 DEF Before
  <2>2. CASE j - Len(t) \in DOMAIN u /\ (t \o u)[j] = u[j - Len(t)]
    BY <1>1, <2>2 DEF Before
  <2> QED
    BY <2>1, <2>2, Joined
<1> QED
  BY <1>1 DEF Before

LEMMA BeforeParts ==
    ASSUME NEW s, NEW t \in Seq(Replies), t # <<>>, Before(s, t)
    PROVE  Before(s, <<Head(t)>>) /\ Before(s, Tail(t))
<1>1. DOMAIN <<Head(t)>> = {1} /\ <<Head(t)>>[1] = Head(t)
  OBVIOUS
<1>2. Before(s, <<Head(t)>>)
  BY <1>1, HeadAndTail DEF Before
<1>3. Before(s, Tail(t))
  BY HeadAndTail DEF Before
<1> QED
  BY <1>2, <1>3

\* Replies of different connections are in order whatever they are.
LEMMA ApartIsBefore ==
    ASSUME NEW s, NEW t, NEW c, \/ Without(s, c) /\ OnlyOf(t, c)
                                \/ OnlyOf(s, c) /\ Without(t, c)
    PROVE  Before(s, t)
BY DEF Before, Without, OnlyOf

LEMMA HeardParts ==
    ASSUME NEW s \in Seq(Replies), s # <<>>, NEW f, NEW n, Heard(s, f, n)
    PROVE  Heard(<<Head(s)>>, f, n) /\ Heard(Tail(s), f, n)
<1>1. DOMAIN <<Head(s)>> = {1} /\ <<Head(s)>>[1] = Head(s)
  OBVIOUS
<1>2. Heard(<<Head(s)>>, f, n)
  BY <1>1, HeadAndTail DEF Heard
<1>3. Heard(Tail(s), f, n)
  BY HeadAndTail DEF Heard
<1> QED
  BY <1>2, <1>3

LEMMA HeardAppend ==
    ASSUME NEW s \in Seq(Replies), NEW x \in Replies, NEW f, NEW n, Heard(s, f, n), Heard(<<x>>, f, n)
    PROVE  Heard(Append(s, x), f, n)
<1>1. 1 \in DOMAIN <<x>> /\ <<x>>[1] = x
  OBVIOUS
<1>2. x[2] <= n /\ f[x[1]] = "done"
  BY <1>1 DEF Heard
<1> QED
  BY <1>2, Appended DEF Heard

LEMMA HeardJoin ==
    ASSUME NEW s \in Seq(Replies), NEW t \in Seq(Replies), NEW f, NEW n, Heard(s, f, n), Heard(t, f, n)
    PROVE  Heard(s \o t, f, n)
BY Joined DEF Heard

-----------------------------------------------------------------------------
\* A state that is kept keeps its connection.
SameConn ==
    /\ state' = None \/ state' \in ClientRec
    /\ state' # None => state # None /\ state'.conn = state.conn

LEMMA Typed ==
    ASSUME ClientTyped, SameConn, UNCHANGED call
    PROVE  ClientTyped'
BY DEF ClientTyped, SameConn

\* What drops or makes a connection.
LEMMA RunningIs ==
    ASSUME ClientTyped, CallsTyped
    PROVE  /\ W!Running(state) \subseteq W!Inits
           /\ W!Ending(state) \in [W!Inits -> {"none", "running", "ending", "ended"}]
           /\ \A c \in W!Inits :
                 IF c \in W!Running(state)
                 THEN task[c] = "running" /\ W!Ending(state)[c] = "ending" /\ state # None /\ c = state.conn
                 ELSE W!Ending(state)[c] = task[c]
BY DEF ClientTyped, CallsTyped, W!Running, W!Ending, ClientRec

CallsInv == ClientTyped /\ CallsTyped /\ (~Overlap => Calls)

LEMMA BeginCalls ==
    ASSUME CallsInv, NEW c \in W!Inits, NEW restart \in BOOLEAN, W!Begin(c, restart)
    PROVE  CallsInv'
<1> USE DEF CallsInv
<1>1. call' \in [W!Inits -> {"none", "connecting", "done", "failed"}] /\ call[c] = "none"
      /\ call'[c] = "connecting" /\ \A d \in W!Inits : d # c => call'[d] = call[d]
  BY DEF W!Begin, ClientTyped
<1>2. state' = None
  BY DEF W!Begin, W!refuse_init, W!teardown_before_connect, W!is_initialized
<1>3. \/ /\ connection_generation' = connection_generation + 1 /\ state # None
         /\ task' = W!Ending(state) /\ closed' = closed \cup W!Running(state)
      \/ UNCHANGED <<connection_generation, task, closed>>
  BY DEF W!Begin, W!teardown_before_connect, W!is_initialized
<1>4. connection_generation' \in Nat /\ connection_generation' >= connection_generation
  BY <1>3 DEF CallsTyped
<1>5. gen' \in [W!Inits -> Nat] /\ gen'[c] = connection_generation'
      /\ \A d \in W!Inits : d # c => gen'[d] = gen[d]
  BY <1>4 DEF W!Begin, CallsTyped
<1>6. sink' = c /\ reported' = reported
  BY DEF W!Begin
<1>7. ClientTyped'
  BY <1>1, <1>2 DEF ClientTyped
<1>8. CallsTyped'
  BY <1>3, <1>4, <1>5, <1>6, RunningIs DEF CallsTyped
<1>9. ASSUME ~Overlap PROVE Calls'
  <2>1. \A d \in W!Inits : call[d] # "connecting"
    BY <1>9 DEF W!Begin, W!Settled
  <2>2. c \notin closed /\ c \notin reported /\ c \notin W!Running(state) /\ task[c] = "none"
    BY <1>1, <1>9, RunningIs DEF Calls, CallsTyped
  <2>3. \A d \in W!Inits : task'[d] # "none" => call'[d] = "done"
    BY <1>1, <1>3, <1>9, <2>2, RunningIs DEF Calls
  <2>4. ASSUME NEW d \in closed'
        PROVE  gen'[d] < connection_generation' /\ task'[d] \in {"ending", "ended"} /\ d \notin reported'
    <3>1. CASE d \in closed
      BY <1>3, <1>4, <1>5, <1>6, <1>9, <2>2, <3>1, RunningIs DEF Calls, CallsTyped
    <3>2. CASE d \in W!Running(state) /\ connection_generation' = connection_generation + 1 /\ task' = W!Ending(state)
      BY <1>5, <1>6, <1>9, <2>2, <3>2, RunningIs DEF Calls, CallsTyped
    <3> QED
      BY <1>3, <3>1, <3>2
  <2>5. \A d \in reported' : task'[d] = "ended"
    BY <1>3, <1>6, <1>9, RunningIs DEF Calls, CallsTyped
  <2>6. \A d \in W!Inits : gen'[d] <= connection_generation'
    BY <1>4, <1>5, <1>9 DEF Calls, CallsTyped
  <2> QED
    BY <1>1, <1>2, <1>5, <1>6, <2>1, <2>3, <2>4, <2>5, <2>6 DEF Calls
<1> QED
  BY <1>7, <1>8, <1>9

LEMMA ConnectedCalls ==
    ASSUME CallsInv, NEW c \in W!Inits, W!Connected(c)
    PROVE  CallsInv'
<1> USE DEF CallsInv
<1>1. call' \in [W!Inits -> {"none", "connecting", "done", "failed"}] /\ call[c] = "connecting"
      /\ call'[c] = "done" /\ \A d \in W!Inits : d # c => call'[d] = call[d]
  BY DEF W!Connected, ClientTyped
<1>2. state' \in ClientRec /\ state'.conn = c
  <2>1. <<>> \in Seq(Replies)
    OBVIOUS
  <2> QED
    BY <2>1 DEF W!Connected, W!WorkspaceState, ClientRec
<1>3. /\ task' \in [W!Inits -> {"none", "running", "ending", "ended"}]
      /\ task'[c] = "running" /\ \A d \in W!Inits : d # c => task'[d] = W!Ending(state)[d]
  BY RunningIs DEF W!Connected
<1>4. closed' = closed \cup W!Running(state) /\ UNCHANGED <<gen, connection_generation, sink, reported>>
  BY DEF W!Connected
<1>5. ClientTyped'
  BY <1>1, <1>2 DEF ClientTyped
<1>6. CallsTyped'
  BY <1>3, <1>4, RunningIs DEF CallsTyped
<1>7. ASSUME ~Overlap PROVE Calls'
  <2>1. state = None /\ sink = c /\ \A d \in W!Inits : call[d] = "connecting" => d = c
    BY <1>1, <1>7 DEF Calls
  <2>2. W!Running(state) = {} /\ \A d \in W!Inits : d # c => task'[d] = task[d]
    BY <1>3, <2>1, RunningIs DEF W!Running
  <2>3. task[c] = "none" /\ c \notin closed /\ c \notin reported
    BY <1>1, <1>7 DEF Calls, CallsTyped
  <2> QED
    BY <1>1, <1>2, <1>3, <1>4, <1>7, <2>1, <2>2, <2>3 DEF Calls, CallsTyped
<1> QED
  BY <1>5, <1>6, <1>7

LEMMA CloseCalls ==
    ASSUME CallsInv, W!close_connection
    PROVE  CallsInv'
<1> USE DEF CallsInv
<1>1. /\ state' = None /\ connection_generation' = connection_generation + 1 /\ UNCHANGED <<call, gen, reported>>
      /\ task' = W!Ending(state) /\ closed' = closed \cup W!Running(state)
  BY DEF W!close_connection
<1>2. ClientTyped' /\ CallsTyped'
  BY <1>1, RunningIs DEF ClientTyped, CallsTyped
<1>3. ASSUME ~Overlap PROVE Calls'
  <2>1. \A d \in W!Inits : call[d] # "connecting"
    BY <1>3 DEF W!close_connection, W!Settled
  <2>2. \A d \in W!Inits : gen'[d] < connection_generation'
    BY <1>1, <1>3 DEF Calls, CallsTyped
  <2>3. \A d \in closed' : task'[d] \in {"ending", "ended"} /\ d \notin reported'
    BY <1>1, <1>3, RunningIs DEF Calls, CallsTyped
  <2>4. \A d \in reported' : task'[d] = "ended"
    BY <1>1, <1>3, RunningIs DEF Calls, CallsTyped
  <2>5. \A d \in W!Inits : task'[d] # "none" => call'[d] = "done"
    BY <1>1, <1>3, RunningIs DEF Calls
  <2>6. closed' \subseteq W!Inits /\ \A d \in W!Inits : gen'[d] <= connection_generation'
    BY <1>2, <2>2 DEF CallsTyped
  <2> QED
    BY <1>1, <2>1, <2>2, <2>3, <2>4, <2>5, <2>6 DEF Calls
<1> QED
  BY <1>2, <1>3

LEMMA EndCalls ==
    ASSUME CallsInv, NEW c \in W!Inits, W!ConnectFails(c) \/ W!SocketEnds(c) \/ W!TaskEnds(c)
    PROVE  CallsInv'
<1> USE DEF CallsInv
<1>1. CASE W!ConnectFails(c)
  <2>1. call' \in [W!Inits -> {"none", "connecting", "done", "failed"}] /\ call[c] = "connecting"
        /\ call'[c] = "failed" /\ \A d \in W!Inits : d # c => call'[d] = call[d]
    BY <1>1 DEF W!ConnectFails, ClientTyped
  <2>2. UNCHANGED <<gen, connection_generation, sink, state, task, closed, reported>>
    BY <1>1 DEF W!ConnectFails
  <2>3. ClientTyped' /\ CallsTyped'
    BY <2>1, <2>2 DEF ClientTyped, CallsTyped, ClientRec
  <2> QED
    BY <2>1, <2>2, <2>3 DEF Calls
<1>2. CASE W!SocketEnds(c) \/ W!TaskEnds(c)
  <2>1. UNCHANGED <<call, gen, connection_generation, sink, state, closed>>
    BY <1>2 DEF W!SocketEnds, W!TaskEnds
  <2>2. /\ task' \in [W!Inits -> {"none", "running", "ending", "ended"}]
        /\ \A d \in W!Inits : d # c => task'[d] = task[d]
        /\ \/ task[c] = "running" /\ task'[c] = "ending" /\ reported' = reported
           \/ /\ task[c] = "ending" /\ task'[c] = "ended"
              /\ reported' = reported \/ (reported' = reported \cup {c} /\ gen[c] = connection_generation)
    BY <1>2 DEF W!SocketEnds, W!TaskEnds, W!should_report_death, CallsTyped
  <2>3. ClientTyped' /\ CallsTyped'
    BY <2>1, <2>2 DEF ClientTyped, CallsTyped
  <2>4. ASSUME ~Overlap PROVE Calls'
    <3>1. \A d \in closed' : task'[d] \in {"ending", "ended"} /\ d \notin reported'
      BY <2>1, <2>2, <2>4 DEF Calls, CallsTyped
    <3>2. \A d \in reported' : task'[d] = "ended"
      BY <2>1, <2>2, <2>4 DEF Calls, CallsTyped
    <3>3. \A d \in W!Inits : task'[d] # "none" => call'[d] = "done"
      BY <2>1, <2>2, <2>4 DEF Calls
    <3> QED
      BY <2>1, <2>4, <3>1, <3>2, <3>3 DEF Calls
  <2> QED
    BY <2>3, <2>4
<1> QED
  BY <1>1, <1>2

LEMMA OtherCalls ==
    ASSUME CallsInv, SameConn, UNCHANGED <<call, gen, connection_generation, sink, task, closed, reported>>
    PROVE  CallsInv'
BY Typed DEF CallsInv, CallsTyped, Calls, SameConn

-----------------------------------------------------------------------------
DoneStays == \A c \in W!Inits : call[c] = "done" => call'[c] = "done"

SameTables ==
    state' # None =>
       /\ state # None /\ state'.conn = state.conn
       /\ state'.connections = state.connections /\ state'.pending_opens = state.pending_opens

SameStream ==
    state' # None => state # None /\ state'.stream = state.stream /\ state'.pending = state.pending

LEMMA OtherHandles ==
    ASSUME HandlesTyped, Handles, SameTables, DoneStays, UNCHANGED <<opener, multiplexed>>
    PROVE  HandlesTyped' /\ Handles'
<1>1. HandlesTyped' /\ W!OneHandleEach'
  BY DEF HandlesTyped, Handles, W!OneHandleEach
<1>2. \A c : On(c)' => On(c) /\ state'.connections = state.connections /\ state'.pending_opens = state.pending_opens
  BY DEF On, SameTables
<1>3. ASSUME NEW i \in DOMAIN multiplexed'
      PROVE  call'[multiplexed'[i][1]] = "done" /\ (On(multiplexed[i][1])' => multiplexed'[i][2] \in state'.connections)
  BY <1>2 DEF Handles, HandlesTyped, DoneStays
<1>4. ASSUME NEW o \in Openers, Opening(o)'
      PROVE  /\ opener'[o].conn \in W!Inits /\ opener'[o].cid \in Cids /\ call'[opener'[o].conn] = "done"
             /\ \A i \in DOMAIN multiplexed' : multiplexed'[i] # <<opener'[o].conn, opener'[o].cid>>
             /\ On(opener[o].conn)' => opener'[o].cid \in state'.pending_opens
             /\ \A p \in Openers : Opening(p)' /\ opener'[p].conn = opener'[o].conn
                                     /\ opener'[p].cid = opener'[o].cid => p = o
  BY <1>2, <1>4 DEF Handles, Opening, DoneStays
<1> QED
  BY <1>1, <1>3, <1>4 DEF Handles, On

LEMMA ConnectedHandles ==
    ASSUME ClientTyped, HandlesTyped, Handles, NEW c \in W!Inits, W!Connected(c)
    PROVE  HandlesTyped' /\ Handles'
<1>1. call[c] = "connecting" /\ state'.conn = c /\ DoneStays /\ UNCHANGED <<opener, multiplexed>>
  BY DEF W!Connected, W!WorkspaceState, ClientTyped, DoneStays, W!openVars
<1>2. HandlesTyped' /\ W!OneHandleEach'
  BY <1>1 DEF HandlesTyped, Handles, W!OneHandleEach
<1>3. ASSUME NEW i \in DOMAIN multiplexed'
      PROVE  call'[multiplexed'[i][1]] = "done" /\ multiplexed'[i][1] # c
  BY <1>1 DEF Handles, HandlesTyped, DoneStays
<1>4. ASSUME NEW o \in Openers, Opening(o)'
      PROVE  /\ opener'[o].conn \in W!Inits /\ opener'[o].cid \in Cids /\ call'[opener'[o].conn] = "done"
             /\ \A i \in DOMAIN multiplexed' : multiplexed'[i] # <<opener'[o].conn, opener'[o].cid>>
             /\ opener'[o].conn # c
             /\ \A p \in Openers : Opening(p)' /\ opener'[p].conn = opener'[o].conn
                                     /\ opener'[p].cid = opener'[o].cid => p = o
  BY <1>1, <1>4 DEF Handles, Opening, DoneStays
<1> QED
  BY <1>1, <1>2, <1>3, <1>4 DEF Handles, On

\* An account is claimed by one call, which may be waiting or new.
LEMMA ClaimHandles ==
    ASSUME ClientTyped, HandlesTyped, Handles, state # None, NEW o \in Openers, NEW cid \in Cids, ~Opening(o),
           cid \notin state.connections, cid \notin state.pending_opens, DoneStays,
           state' = [state EXCEPT !.pending_opens = @ \cup {cid}],
           opener' \in [Openers -> OpenRec], \A p \in Openers : p # o => opener'[p] = opener[p],
           Opening(o)', opener'[o].conn = state.conn, opener'[o].cid = cid, UNCHANGED multiplexed
    PROVE  HandlesTyped' /\ Handles'
<1>1. state \in ClientRec /\ state.conn \in W!Inits /\ call[state.conn] = "done"
  BY DEF ClientTyped, ClientRec
<1>2. state'.conn = state.conn /\ state'.connections = state.connections
      /\ state'.pending_opens = state.pending_opens \cup {cid}
  BY <1>1 DEF ClientRec
<1>3. HandlesTyped' /\ W!OneHandleEach'
  BY DEF HandlesTyped, Handles, W!OneHandleEach
<1>4. ASSUME NEW i \in DOMAIN multiplexed'
      PROVE  /\ call'[multiplexed'[i][1]] = "done"
             /\ On(multiplexed[i][1])' => multiplexed'[i][2] \in state'.connections
             /\ multiplexed'[i] # <<state.conn, cid>>
  <2>1. multiplexed[i] \in W!Inits \X Cids /\ i \in DOMAIN multiplexed
    BY DEF HandlesTyped
  <2>2. call'[multiplexed'[i][1]] = "done"
    BY <2>1 DEF Handles, DoneStays
  <2>3. On(multiplexed[i][1])' => multiplexed'[i][2] \in state'.connections
    BY <1>2, <2>1 DEF Handles, On
  <2>4. multiplexed[i] # <<state.conn, cid>>
    BY <2>1 DEF Handles, On
  <2> QED
    BY <2>2, <2>3, <2>4
<1>5. ASSUME NEW p \in Openers, Opening(p), p # o
      PROVE  /\ opener[p].conn \in W!Inits /\ opener[p].cid \in Cids /\ call'[opener[p].conn] = "done"
             /\ \A i \in DOMAIN multiplexed : multiplexed[i] # <<opener[p].conn, opener[p].cid>>
             /\ state'.conn = opener[p].conn => opener[p].cid \in state'.pending_opens
             /\ ~(opener[p].conn = state.conn /\ opener[p].cid = cid)
  BY <1>2, <1>5 DEF Handles, On, DoneStays
<1>6. \A p \in Openers : Opening(p)' => p = o \/ (Opening(p) /\ opener'[p] = opener[p])
  BY DEF Opening
<1>7. ASSUME NEW p \in Openers, Opening(p)'
      PROVE  /\ opener'[p].conn \in W!Inits /\ opener'[p].cid \in Cids /\ call'[opener'[p].conn] = "done"
             /\ \A i \in DOMAIN multiplexed' : multiplexed'[i] # <<opener'[p].conn, opener'[p].cid>>
             /\ On(opener[p].conn)' => opener'[p].cid \in state'.pending_opens
             /\ \A q \in Openers : Opening(q)' /\ opener'[q].conn = opener'[p].conn
                                     /\ opener'[q].cid = opener'[p].cid => q = p
  <2>1. CASE p = o
    <3>1. call'[state.conn] = "done" /\ cid \in state'.pending_opens
      BY <1>1, <1>2 DEF DoneStays
    <3>2. \A i \in DOMAIN multiplexed' : multiplexed'[i] # <<state.conn, cid>>
      BY <1>4
    <3>3. \A q \in Openers : Opening(q)' /\ opener'[q].conn = state.conn /\ opener'[q].cid = cid => q = o
      BY <1>5, <1>6
    <3> QED
      BY <1>1, <2>1, <3>1, <3>2, <3>3 DEF On
  <2>2. CASE p # o /\ Opening(p) /\ opener'[p] = opener[p]
    <3>1. \A q \in Openers : Opening(q)' /\ opener'[q].conn = opener'[p].conn
                               /\ opener'[q].cid = opener'[p].cid => q = p
      BY <1>5, <1>6, <2>2 DEF Handles
    <3> QED
      BY <1>5, <2>2, <3>1 DEF On
  <2> QED
    BY <1>6, <1>7, <2>1, <2>2
<1> QED
  BY <1>3, <1>4, <1>7 DEF Handles, On

\* A call that is not making a handle comes or goes.
LEMMA WaitHandles ==
    ASSUME HandlesTyped, Handles, DoneStays, SameTables, NEW o \in Openers,
           opener' \in [Openers -> OpenRec], \A p \in Openers : p # o => opener'[p] = opener[p],
           ~Opening(o)', UNCHANGED multiplexed
    PROVE  HandlesTyped' /\ Handles'
<1>1. HandlesTyped' /\ W!OneHandleEach'
  BY DEF HandlesTyped, Handles, W!OneHandleEach
<1>2. \A c : On(c)' => On(c) /\ state'.connections = state.connections /\ state'.pending_opens = state.pending_opens
  BY DEF On, SameTables
<1>3. ASSUME NEW i \in DOMAIN multiplexed'
      PROVE  call'[multiplexed'[i][1]] = "done" /\ (On(multiplexed[i][1])' => multiplexed'[i][2] \in state'.connections)
  BY <1>2 DEF Handles, HandlesTyped, DoneStays
<1>4. \A p \in Openers : Opening(p)' => p # o /\ Opening(p) /\ opener'[p] = opener[p]
  BY DEF Opening
<1>5. ASSUME NEW p \in Openers, Opening(p)'
      PROVE  /\ opener'[p].conn \in W!Inits /\ opener'[p].cid \in Cids /\ call'[opener'[p].conn] = "done"
             /\ \A i \in DOMAIN multiplexed' : multiplexed'[i] # <<opener'[p].conn, opener'[p].cid>>
             /\ On(opener[p].conn)' => opener'[p].cid \in state'.pending_opens
             /\ \A q \in Openers : Opening(q)' /\ opener'[q].conn = opener'[p].conn
                                     /\ opener'[q].cid = opener'[p].cid => q = p
  BY <1>2, <1>4, <1>5 DEF Handles, DoneStays
<1> QED
  BY <1>1, <1>3, <1>4, <1>5 DEF Handles, On

NoOpenFacts == W!NoOpen \in OpenRec /\ W!NoOpen.at = "idle"

LEMMA NoOpenIs == NoOpenFacts
BY DEF NoOpenFacts, W!NoOpen, OpenRec

LEMMA OpenHandles ==
    ASSUME ClientTyped, HandlesTyped, Handles, NEW o \in Openers, NEW cid \in Cids, NEW ensure \in BOOLEAN,
           W!Open(o, cid, ensure)
    PROVE  HandlesTyped' /\ Handles' /\ SameConn
<1>1. /\ opener[o].at = "idle" /\ state # None /\ cid \notin state.connections
      /\ state' = [state EXCEPT !.pending_opens = @ \cup {cid}]
      /\ opener' = [opener EXCEPT ![o] =
                      [at |-> IF cid \notin state.pending_opens THEN "multiplex" ELSE "waiting",
                       conn |-> state.conn, cid |-> cid, ensure |-> ensure]]
      /\ UNCHANGED <<call, multiplexed>>
  BY DEF W!Open, W!is_initialized, W!others
<1>2. state \in ClientRec /\ DoneStays
  BY <1>1 DEF ClientTyped, DoneStays
<1>3. PICK e : e = [at |-> IF cid \notin state.pending_opens THEN "multiplex" ELSE "waiting",
                    conn |-> state.conn, cid |-> cid, ensure |-> ensure]
  OBVIOUS
<1>4. e \in OpenRec /\ e.conn = state.conn /\ e.cid = cid
      /\ e.at = IF cid \notin state.pending_opens THEN "multiplex" ELSE "waiting"
  BY <1>2, <1>3 DEF OpenRec, ClientRec
<1>5. opener' \in [Openers -> OpenRec] /\ opener'[o] = e /\ \A p \in Openers : p # o => opener'[p] = opener[p]
  BY <1>1, <1>3, <1>4 DEF HandlesTyped
<1>6. SameConn
  BY <1>1, <1>2 DEF SameConn, ClientRec
<1>7. CASE cid \notin state.pending_opens
  <2>1. Opening(o)' /\ ~Opening(o) /\ opener'[o].conn = state.conn /\ opener'[o].cid = cid
    BY <1>1, <1>4, <1>5, <1>7 DEF Opening
  <2> QED
    BY <1>1, <1>2, <1>5, <1>6, <1>7, <2>1, ClaimHandles
<1>8. CASE cid \in state.pending_opens
  <2>1. SameTables
    BY <1>1, <1>2, <1>8 DEF SameTables, ClientRec
  <2>2. ~Opening(o)'
    BY <1>4, <1>5, <1>8 DEF Opening
  <2> QED
    BY <1>1, <1>2, <1>5, <1>6, <2>1, <2>2, WaitHandles
<1> QED
  BY <1>7, <1>8

LEMMA PollHandles ==
    ASSUME ClientTyped, HandlesTyped, Handles, NEW o \in Openers, opener[o].cid \in Cids,
           W!Poll(o) \/ W!PollTimesOut(o)
    PROVE  HandlesTyped' /\ Handles' /\ SameConn
<1> DEFINE cid == opener[o].cid
<1>1. \/ /\ state # None /\ cid \notin state.connections /\ cid \notin state.pending_opens
         /\ state' = [state EXCEPT !.pending_opens = @ \cup {cid}]
         /\ opener' = [opener EXCEPT ![o].at = "multiplex", ![o].conn = state.conn]
      \/ UNCHANGED state /\ opener' = [opener EXCEPT ![o] = W!NoOpen]
  BY DEF W!Poll, W!PollTimesOut, W!is_initialized
<1>2. opener[o].at = "waiting" /\ UNCHANGED <<call, multiplexed>>
  BY DEF W!Poll, W!PollTimesOut, W!others
<1>3. DoneStays /\ ~Opening(o)
  BY <1>2 DEF DoneStays, Opening
<1>4. CASE /\ state # None /\ cid \notin state.connections /\ cid \notin state.pending_opens
           /\ state' = [state EXCEPT !.pending_opens = @ \cup {cid}]
           /\ opener' = [opener EXCEPT ![o].at = "multiplex", ![o].conn = state.conn]
  <2>1. state \in ClientRec /\ opener[o] \in OpenRec
    BY <1>4 DEF ClientTyped, HandlesTyped
  <2>2. PICK e : e = [opener[o] EXCEPT !.at = "multiplex", !.conn = state.conn]
    OBVIOUS
  <2>3. e \in OpenRec /\ e.conn = state.conn /\ e.cid = cid /\ e.at = "multiplex"
    BY <2>1, <2>2 DEF OpenRec, ClientRec
  <2>4. opener' \in [Openers -> OpenRec] /\ opener'[o] = e /\ \A p \in Openers : p # o => opener'[p] = opener[p]
    BY <1>4, <2>2, <2>3 DEF HandlesTyped
  <2>5. SameConn
    BY <1>4, <2>1 DEF SameConn, ClientRec
  <2>6. Opening(o)' /\ opener'[o].conn = state.conn /\ opener'[o].cid = cid
    BY <2>3, <2>4 DEF Opening
  <2> QED
    BY <1>2, <1>3, <1>4, <2>4, <2>5, <2>6, ClaimHandles
<1>5. CASE UNCHANGED state /\ opener' = [opener EXCEPT ![o] = W!NoOpen]
  <2>1. opener' \in [Openers -> OpenRec] /\ ~Opening(o)' /\ \A p \in Openers : p # o => opener'[p] = opener[p]
    BY <1>5, NoOpenIs DEF NoOpenFacts, HandlesTyped, Opening
  <2>2. SameTables /\ SameConn
    BY <1>5 DEF SameTables, SameConn, ClientTyped
  <2> QED
    BY <1>2, <1>3, <2>1, <2>2, WaitHandles
<1> QED
  BY <1>1, <1>4, <1>5

LEMMA MultiplexedHandles ==
    ASSUME ClientTyped, HandlesTyped, Handles, NEW o \in Openers, W!Multiplexed(o)
    PROVE  HandlesTyped' /\ Handles' /\ SameConn /\ SameStream
<1> DEFINE c == opener[o].conn
           cid == opener[o].cid
<1>1. PICK ok \in BOOLEAN :
        /\ state' = IF state = None \/ state.conn # c THEN state
                    ELSE [state EXCEPT !.pending_opens = @ \ {cid}, !.connections = IF ok THEN @ \cup {cid} ELSE @]
        /\ multiplexed' = IF ok THEN Append(multiplexed, <<c, cid>>) ELSE multiplexed
  BY DEF W!Multiplexed
<1>2. Opening(o) /\ opener' = [opener EXCEPT ![o] = W!NoOpen] /\ UNCHANGED call
  BY DEF W!Multiplexed, Opening, W!others
<1>3. c \in W!Inits /\ cid \in Cids /\ call[c] = "done" /\ (On(c) => cid \in state.pending_opens)
      /\ \A i \in DOMAIN multiplexed : multiplexed[i] # <<c, cid>>
  BY <1>2 DEF Handles
<1>4. opener' \in [Openers -> OpenRec] /\ \A p \in Openers : Opening(p)' => p # o /\ Opening(p) /\ opener'[p] = opener[p]
  BY <1>2, NoOpenIs DEF NoOpenFacts, HandlesTyped, Opening
<1>5. /\ state' = None \/ state' \in ClientRec
      /\ state' # None => /\ state # None /\ state'.conn = state.conn
                          /\ state'.stream = state.stream /\ state'.pending = state.pending
                          /\ state.conn # c =>
                                state'.pending_opens = state.pending_opens /\ state'.connections = state.connections
                          /\ state.conn = c => /\ state'.pending_opens = state.pending_opens \ {cid}
                                               /\ state.connections \subseteq state'.connections
                                               /\ ok => cid \in state'.connections
  <2>1. CASE state = None \/ state.conn # c
    BY <1>1, <2>1 DEF ClientTyped
  <2>2. CASE state # None /\ state.conn = c
    <3>1. state \in ClientRec
      BY <2>2 DEF ClientTyped
    <3>2. PICK b : b = IF ok THEN state.connections \cup {cid} ELSE state.connections
      OBVIOUS
    <3>3. state' = [state EXCEPT !.pending_opens = state.pending_opens \ {cid}, !.connections = b]
      BY <1>1, <2>2, <3>2
    <3>4. b \subseteq Cids /\ state.connections \subseteq b /\ (ok => cid \in b)
      BY <1>3, <3>1, <3>2 DEF ClientRec
    <3> QED
      BY <2>2, <3>1, <3>3, <3>4 DEF ClientRec
  <2> QED
    BY <2>1, <2>2
<1>6. SameConn /\ SameStream
  BY <1>5 DEF SameConn, SameStream
<1>7. multiplexed' \in Seq(W!Inits \X Cids)
  BY <1>1, <1>3 DEF HandlesTyped
<1>8. \A i \in DOMAIN multiplexed' :
        \/ i \in DOMAIN multiplexed /\ multiplexed'[i] = multiplexed[i]
        \/ ok /\ i = Len(multiplexed) + 1 /\ multiplexed'[i] = <<c, cid>>
  BY <1>1, <1>3 DEF HandlesTyped
<1>9. \A p \in Openers : Opening(p) /\ p # o => ~(opener[p].conn = c /\ opener[p].cid = cid)
  BY <1>2 DEF Handles
<1>10. W!OneHandleEach'
  <2>1. ASSUME NEW i \in DOMAIN multiplexed', NEW j \in DOMAIN multiplexed', multiplexed'[i] = multiplexed'[j]
        PROVE  i = j
    BY <1>3, <1>8, <2>1 DEF Handles, W!OneHandleEach, W!IsInjective
  <2> QED
    BY <2>1 DEF W!OneHandleEach, W!IsInjective
<1>11. ASSUME NEW i \in DOMAIN multiplexed'
       PROVE  call'[multiplexed'[i][1]] = "done" /\ (On(multiplexed[i][1])' => multiplexed'[i][2] \in state'.connections)
  <2>1. CASE i \in DOMAIN multiplexed /\ multiplexed'[i] = multiplexed[i]
    BY <1>2, <1>5, <2>1 DEF Handles, On
  <2>2. CASE ok /\ multiplexed'[i] = <<c, cid>>
    BY <1>2, <1>3, <1>5, <2>2 DEF On
  <2> QED
    BY <1>8, <2>1, <2>2
<1>12. ASSUME NEW p \in Openers, Opening(p)'
       PROVE  /\ opener'[p].conn \in W!Inits /\ opener'[p].cid \in Cids /\ call'[opener'[p].conn] = "done"
              /\ \A i \in DOMAIN multiplexed' : multiplexed'[i] # <<opener'[p].conn, opener'[p].cid>>
              /\ On(opener[p].conn)' => opener'[p].cid \in state'.pending_opens
              /\ \A q \in Openers : Opening(q)' /\ opener'[q].conn = opener'[p].conn
                                      /\ opener'[q].cid = opener'[p].cid => q = p
  <2>1. p # o /\ Opening(p) /\ opener'[p] = opener[p]
    BY <1>4, <1>12
  <2>2. /\ opener[p].conn \in W!Inits /\ opener[p].cid \in Cids /\ call'[opener[p].conn] = "done"
        /\ ~(opener[p].conn = c /\ opener[p].cid = cid)
        /\ \A i \in DOMAIN multiplexed : multiplexed[i] # <<opener[p].conn, opener[p].cid>>
    BY <1>2, <1>9, <2>1 DEF Handles
  <2>3. \A i \in DOMAIN multiplexed' : multiplexed'[i] # <<opener[p].conn, opener[p].cid>>
    BY <1>8, <2>2
  <2>4. state' # None /\ state'.conn = opener[p].conn => opener[p].cid \in state'.pending_opens
    <3>1. SUFFICES ASSUME state' # None, state'.conn = opener[p].conn PROVE opener[p].cid \in state'.pending_opens
      OBVIOUS
    <3>2. On(opener[p].conn) /\ opener[p].cid \in state.pending_opens
      BY <1>5, <2>1, <3>1 DEF Handles, On
    <3> QED
      BY <1>5, <2>2, <3>1, <3>2 DEF On
  <2>5. \A q \in Openers : Opening(q)' /\ opener'[q].conn = opener'[p].conn
                             /\ opener'[q].cid = opener'[p].cid => q = p
    BY <1>4, <2>1 DEF Handles
  <2> QED
    BY <2>1, <2>2, <2>3, <2>4, <2>5 DEF On
<1> QED
  BY <1>4, <1>6, <1>7, <1>10, <1>11, <1>12 DEF HandlesTyped, Handles, On

LEMMA StaysNamed ==
    ASSUME HandlesTyped, Named, NEW o \in Openers, NEW cid \in Cids, NEW ensure \in BOOLEAN,
           W!Open(o, cid, ensure) \/ W!Multiplexed(o) \/ W!Poll(o) \/ W!PollTimesOut(o)
    PROVE  Named'
<1>1. \/ opener' = [opener EXCEPT ![o] =
                      [at |-> IF cid \notin state.pending_opens THEN "multiplex" ELSE "waiting",
                       conn |-> state.conn, cid |-> cid, ensure |-> ensure]]
      \/ opener' = [opener EXCEPT ![o] = W!NoOpen]
      \/ opener[o].at = "waiting" /\ opener' = [opener EXCEPT ![o].at = "multiplex", ![o].conn = state.conn]
  BY DEF W!Open, W!Multiplexed, W!Poll, W!PollTimesOut
<1>2. opener[o] \in OpenRec /\ \A p \in Openers : p # o => opener'[p] = opener[p]
  BY <1>1 DEF HandlesTyped
<1>3. opener'[o].cid = cid \/ opener'[o].at = "idle" \/ (opener'[o].cid = opener[o].cid /\ opener[o].at = "waiting")
  BY <1>1, <1>2, NoOpenIs DEF NoOpenFacts, HandlesTyped, OpenRec
<1> QED
  BY <1>2, <1>3 DEF Named

-----------------------------------------------------------------------------
OrderInv == RepliesTyped /\ HeldOnce /\ Order

LEMMA StillHeard ==
    ASSUME NEW s \in Seq(Replies), DoneStays, messages \in Nat, messages' \in Nat, messages' >= messages,
           Heard(s, call, messages)
    PROVE  Heard(s, call', messages')
<1>1. \A i \in DOMAIN s : s[i][1] \in W!Inits /\ s[i][2] \in Nat
  BY DEF Replies
<1> QED
  BY <1>1 DEF Heard, DoneStays

LEMMA OtherOrder ==
    ASSUME ClientTyped, OrderInv, SameStream, DoneStays, UNCHANGED W!streamVars
    PROVE  OrderInv'
<1> USE DEF OrderInv, W!streamVars
<1>1. RepliesTyped'
  BY DEF RepliesTyped
<1>2. state # None => state.stream \in W!Inits \cup {0} /\ state.pending \in Seq(Replies)
  BY DEF ClientTyped, ClientRec
<1>3. HeldOnce'
  BY <1>2 DEF HeldOnce, InState, SameStream, DoneStays, RepliesTyped
<1>4. \A c \in W!Inits : Holds(c)' => Holds(c)
  BY DEF Holds, InState, SameStream
<1>5. \A s \in Seq(Replies) : Heard(s, call, messages) => Heard(s, call', messages')
  BY StillHeard DEF RepliesTyped
<1> QED
  BY <1>1, <1>2, <1>3, <1>4, <1>5 DEF Order, SameStream, RepliesTyped

LEMMA ConnectedOrder ==
    ASSUME ClientTyped, OrderInv, NEW c \in W!Inits, W!Connected(c)
    PROVE  OrderInv'
<1> USE DEF OrderInv, W!streamVars
<1>1. /\ call[c] = "connecting" /\ DoneStays /\ call'[c] = "done" /\ UNCHANGED <<queue, taker, given, messages>>
      /\ state'.stream = c /\ state'.pending = <<>>
  BY DEF W!Connected, W!WorkspaceState, ClientTyped, DoneStays
<1>2. RepliesTyped'
  BY <1>1 DEF RepliesTyped
<1>3. \A t \in Takers : taker[t] # c
  BY <1>1, ClientAssumption DEF HeldOnce, W!Inits
<1>4. HeldOnce'
  BY <1>1, <1>3 DEF HeldOnce, InState, DoneStays, RepliesTyped
<1>5. \A s \in Seq(Replies) : Heard(s, call, messages) => Heard(s, call', messages')
  BY <1>1, StillHeard DEF RepliesTyped
<1>6. Without(given, c)
  BY <1>1 DEF Order, Heard, Without
<1>7. Ordered(<<>>) /\ Heard(<<>>, call', messages') /\ Before(given, <<>>)
  BY DEF Ordered, Heard, Before
<1>8. ASSUME NEW d \in W!Inits, Holds(d)' PROVE Before(given, queue[d]) /\ Without(<<>>, d)
  <2>1. d = c \/ Holds(d)
    BY <1>1, <1>8 DEF Holds, InState
  <2>2. CASE d = c
    BY <1>6, <2>2, ApartIsBefore DEF Order, Without
  <2>3. CASE Holds(d)
    BY <2>3 DEF Order, Without
  <2> QED
    BY <2>1, <2>2, <2>3
<1>9. Ordered(given') /\ Heard(given', call', messages')
  BY <1>1, <1>5 DEF Order, RepliesTyped
<1>10. \A d \in W!Inits : Ordered(queue'[d]) /\ Heard(queue'[d], call', messages') /\ OnlyOf(queue'[d], d)
  BY <1>1, <1>5 DEF Order, RepliesTyped
<1> QED
  BY <1>1, <1>2, <1>4, <1>7, <1>8, <1>9, <1>10 DEF Order

LEMMA HearOrder ==
    ASSUME ClientTyped, OrderInv, NEW c \in W!Inits, W!Hear(c)
    PROVE  OrderInv'
<1> USE DEF OrderInv, W!streamVars
<1>1. state # None /\ state.conn = c /\ call[c] = "done" /\ state \in ClientRec
  BY DEF W!Hear, ClientTyped
<1> DEFINE x == <<c, messages + 1>>
<1>2. x \in Replies /\ x[1] = c /\ x[2] = messages + 1 /\ messages' = messages + 1 /\ messages \in Nat /\ messages' \in Nat
  BY DEF W!Hear, Replies, RepliesTyped
<1>3. UNCHANGED <<call, state, taker, given>>
  BY DEF W!Hear
<1>4. queue' \in [W!Inits -> Seq(Replies)] /\ queue'[c] = Append(queue[c], x)
      /\ \A d \in W!Inits : d # c => queue'[d] = queue[d]
  BY <1>2 DEF W!Hear, RepliesTyped
<1> HIDE DEF x
<1>5. DoneStays /\ \A s \in Seq(Replies) : Heard(s, call, messages) => Heard(s, call', messages')
  <2>1. DoneStays /\ messages' >= messages
    BY <1>2, <1>3 DEF DoneStays
  <2> QED
    BY <1>2, <2>1, StillHeard
<1>6. \A s \in Seq(Replies) : Heard(s, call, messages) => Before(s, <<x>>)
  <2>1. DOMAIN <<x>> = {1} /\ <<x>>[1] = x
    OBVIOUS
  <2>2. \A s \in Seq(Replies) : \A i \in DOMAIN s : s[i] \in Replies /\ s[i][2] \in Nat
    BY DEF Replies
  <2> QED
    BY <1>2, <2>1, <2>2 DEF Before, Heard
<1>7. queue[c] \in Seq(Replies) /\ Ordered(queue[c]) /\ Heard(queue[c], call, messages) /\ OnlyOf(queue[c], c)
  BY DEF Order, RepliesTyped
<1>8. Ordered(queue'[c])
  BY <1>2, <1>4, <1>6, <1>7, AppendOrdered
<1>9. Heard(queue'[c], call', messages') /\ OnlyOf(queue'[c], c)
  <2>1. Heard(<<x>>, call', messages')
    <3>1. DOMAIN <<x>> = {1} /\ <<x>>[1] = x
      OBVIOUS
    <3> QED
      BY <1>1, <1>2, <1>3, <3>1 DEF Heard
  <2>2. Heard(queue'[c], call', messages')
    BY <1>2, <1>4, <1>5, <1>7, <2>1, HeardAppend
  <2>3. OnlyOf(queue'[c], c)
    BY <1>2, <1>4, <1>7, Appended DEF OnlyOf
  <2> QED
    BY <2>2, <2>3
<1>10. Holds(c) => Before(given, queue'[c])
  <2>1. Holds(c) => Before(given, queue[c])
    BY DEF Order
  <2>2. Before(given, <<x>>)
    BY <1>6 DEF Order, RepliesTyped
  <2>3. ASSUME Before(given, queue[c]) PROVE Before(given, Append(queue[c], x))
    <3>1. \A i \in DOMAIN given : given[i][1] = x[1] => given[i][2] < x[2]
      <4>1. 1 \in DOMAIN <<x>> /\ <<x>>[1] = x
        OBVIOUS
      <4> QED
        BY <2>2, <4>1 DEF Before
    <3> QED
      BY <1>2, <1>7, <2>3, <3>1, Appended DEF Before
  <2> QED
    BY <1>4, <2>1, <2>3
<1>11. RepliesTyped'
  BY <1>2, <1>3, <1>4 DEF RepliesTyped
<1>12. HeldOnce' /\ \A d \in W!Inits : Holds(d)' = Holds(d)
  BY <1>3 DEF HeldOnce, Holds, InState
<1>13. Ordered(given') /\ Heard(given', call', messages')
  BY <1>3, <1>5 DEF Order, RepliesTyped
<1>14. Ordered(state'.pending) /\ Heard(state'.pending, call', messages') /\ Before(given', state'.pending)
  BY <1>1, <1>3, <1>5 DEF Order, ClientRec
<1>15. ASSUME NEW d \in W!Inits
       PROVE  Ordered(queue'[d]) /\ Heard(queue'[d], call', messages') /\ OnlyOf(queue'[d], d)
  <2>1. CASE d = c
    BY <1>8, <1>9, <2>1
  <2>2. CASE d # c
    <3>1. queue[d] \in Seq(Replies) /\ Ordered(queue[d]) /\ Heard(queue[d], call, messages) /\ OnlyOf(queue[d], d)
      BY DEF Order, RepliesTyped
    <3> QED
      BY <1>4, <1>5, <2>2, <3>1
  <2> QED
    BY <2>1, <2>2
<1>16. ASSUME NEW d \in W!Inits, Holds(d)'
       PROVE  Before(given', queue'[d]) /\ (state' # None => Without(state'.pending, d))
  <2>1. Before(given, queue[d]) /\ Without(state.pending, d)
    BY <1>1, <1>12, <1>16 DEF Order
  <2>2. Before(given, queue'[d])
    BY <1>4, <1>10, <1>12, <1>16, <2>1
  <2> QED
    BY <1>3, <2>1, <2>2
<1> QED
  BY <1>11, <1>12, <1>13, <1>14, <1>15, <1>16 DEF Order

\* The reply given is the first of s, which what was given comes before.
LEMMA GiveFirst ==
    ASSUME RepliesTyped, Ordered(given), Heard(given, call, messages),
           NEW s \in Seq(Replies), s # <<>>, Ordered(s), Heard(s, call, messages), Before(given, s),
           given' = Append(given, Head(s)), UNCHANGED <<call, messages>>
    PROVE  /\ given' \in Seq(Replies) /\ Ordered(given') /\ Heard(given', call', messages')
           /\ Tail(s) \in Seq(Replies) /\ Ordered(Tail(s)) /\ Heard(Tail(s), call', messages')
           /\ Before(given', Tail(s))
<1>1. Head(s) \in Replies /\ Tail(s) \in Seq(Replies) /\ given \in Seq(Replies)
  BY HeadAndTail DEF RepliesTyped
<1>2. Ordered(Tail(s)) /\ Before(<<Head(s)>>, Tail(s))
  BY TailOrdered
<1>3. Before(given, <<Head(s)>>) /\ Before(given, Tail(s))
  BY BeforeParts
<1>4. Heard(<<Head(s)>>, call, messages) /\ Heard(Tail(s), call, messages)
  BY HeardParts
<1>5. Ordered(Append(given, Head(s))) /\ Heard(Append(given, Head(s)), call, messages)
  BY <1>1, <1>3, <1>4, AppendOrdered, HeardAppend
<1>6. Before(Append(given, Head(s)), Tail(s))
  BY <1>1, <1>2, <1>3, BeforeAppend
<1>7. Append(given, Head(s)) \in Seq(Replies)
  BY <1>1, Appended
<1> QED
  BY <1>1, <1>2, <1>4, <1>5, <1>6, <1>7

\* What is given of one connection comes before nothing or everything of another.
LEMMA GivenOfOther ==
    ASSUME NEW g \in Seq(Replies), NEW x \in Replies, NEW t, NEW d, OnlyOf(t, d), x[1] # d, Before(g, t)
    PROVE  Before(Append(g, x), t)
<1>1. DOMAIN <<x>> = {1} /\ <<x>>[1] = x
  OBVIOUS
<1>2. Before(<<x>>, t)
  BY <1>1 DEF Before, OnlyOf
<1> QED
  BY <1>2, BeforeAppend

LEMMA NextMessageOrder ==
    ASSUME ClientTyped, OrderInv, NEW t \in Takers, W!NextMessage(t)
    PROVE  OrderInv' /\ SameConn /\ SameTables
<1> USE DEF OrderInv
<1>1. taker[t] = 0 /\ state # None /\ state \in ClientRec /\ UNCHANGED <<call, queue, messages>>
  BY DEF W!NextMessage, W!is_initialized, ClientTyped
<1>2. DoneStays
  BY <1>1 DEF DoneStays
<1>3. CASE /\ state.pending # <<>> /\ given' = Append(given, Head(state.pending))
           /\ state' = [state EXCEPT !.pending = Tail(@)] /\ UNCHANGED taker
  <2>1. state.pending \in Seq(Replies) /\ Ordered(state.pending) /\ Heard(state.pending, call, messages)
        /\ Before(given, state.pending)
    BY <1>1 DEF Order, ClientRec
  <2>2. /\ given' \in Seq(Replies) /\ Ordered(given') /\ Heard(given', call', messages')
        /\ Tail(state.pending) \in Seq(Replies) /\ Ordered(Tail(state.pending))
        /\ Heard(Tail(state.pending), call', messages') /\ Before(given', Tail(state.pending))
    BY <1>1, <1>3, <2>1, GiveFirst DEF Order
  <2>3. state' \in ClientRec /\ state'.pending = Tail(state.pending) /\ state'.stream = state.stream
        /\ state'.conn = state.conn /\ state'.connections = state.connections
        /\ state'.pending_opens = state.pending_opens
    BY <1>1, <1>3, <2>2 DEF ClientRec
  <2>4. RepliesTyped'
    BY <1>1, <1>3, <2>2 DEF RepliesTyped
  <2>5. HeldOnce' /\ \A d \in W!Inits : Holds(d)' => Holds(d)
    BY <1>1, <1>3, <2>3 DEF HeldOnce, Holds, InState
  <2>6. ASSUME NEW d \in W!Inits, Holds(d) PROVE Before(given', queue'[d]) /\ Without(state'.pending, d)
    <3>1. Before(given, queue[d]) /\ Without(state.pending, d) /\ OnlyOf(queue[d], d)
      BY <1>1, <2>6 DEF Order
    <3>2. Head(state.pending) \in Replies /\ Head(state.pending)[1] # d
      BY <1>3, <2>1, <3>1, HeadAndTail DEF Without
    <3>3. Without(Tail(state.pending), d)
      BY <1>3, <2>1, <3>1, HeadAndTail DEF Without
    <3>4. Before(Append(given, Head(state.pending)), queue[d])
      BY <3>1, <3>2, GivenOfOther DEF RepliesTyped
    <3> QED
      BY <1>1, <1>3, <2>3, <3>3, <3>4
  <2>7. \A d \in W!Inits : Ordered(queue'[d]) /\ Heard(queue'[d], call', messages') /\ OnlyOf(queue'[d], d)
    BY <1>1 DEF Order
  <2>8. Order'
    BY <2>2, <2>3, <2>5, <2>6, <2>7 DEF Order
  <2> QED
    BY <1>1, <2>3, <2>4, <2>5, <2>8 DEF SameConn, SameTables
<1>4. CASE /\ state.stream # 0 /\ taker' = [taker EXCEPT ![t] = state.stream]
           /\ state' = [state EXCEPT !.stream = 0] /\ UNCHANGED given
  <2>1. state' \in ClientRec /\ state'.pending = state.pending /\ state'.stream = 0
        /\ state'.conn = state.conn /\ state'.connections = state.connections
        /\ state'.pending_opens = state.pending_opens
    BY <1>1, <1>4 DEF ClientRec
  <2>2. taker' \in [Takers -> W!Inits \cup {0}] /\ taker'[t] = state.stream /\ state.stream \in W!Inits
        /\ \A u \in Takers : u # t => taker'[u] = taker[u]
    BY <1>1, <1>4 DEF RepliesTyped, ClientRec
  <2>3. RepliesTyped'
    BY <1>1, <1>4, <2>2 DEF RepliesTyped
  <2>4. HeldOnce'
    <3>1. call'[state.stream] = "done" /\ \A u \in Takers : taker[u] # state.stream
      BY <1>1, <1>4 DEF HeldOnce, InState
    <3>2. \A d \in W!Inits : ~InState(d)'
      BY <2>1, ClientAssumption DEF InState, W!Inits
    <3> QED
      BY <1>1, <2>1, <2>2, <3>1, <3>2 DEF HeldOnce
  <2>5. \A d \in W!Inits : Holds(d)' => Holds(d)
    BY <1>1, <2>1, <2>2, ClientAssumption DEF Holds, InState, W!Inits
  <2>6. Order'
    BY <1>1, <1>4, <2>1, <2>5 DEF Order
  <2> QED
    BY <1>1, <2>1, <2>3, <2>4, <2>6 DEF SameConn, SameTables
<1> QED
  BY <1>3, <1>4 DEF W!NextMessage

\* The stream goes back to the state, or what it still holds is rescued, or there is no
\* state and it is gone.
Returned(c, rest) ==
    \/ state = None /\ state' = None /\ queue'[c] = <<>>
    \/ /\ state # None /\ state.stream = 0 /\ state' = [state EXCEPT !.stream = c]
       /\ queue'[c] = rest
    \/ /\ state # None /\ state.stream # 0 /\ state' = [state EXCEPT !.pending = @ \o rest]
       /\ queue'[c] = <<>>

LEMMA ReturnedKeeps ==
    ASSUME ClientTyped, OrderInv, NEW t \in Takers, NEW c \in W!Inits, taker[t] = c,
           NEW rest \in Seq(Replies), Returned(c, rest), taker' = [taker EXCEPT ![t] = 0],
           queue' \in [W!Inits -> Seq(Replies)], \A d \in W!Inits : d # c => queue'[d] = queue[d],
           UNCHANGED <<call, messages>>,
           given' \in Seq(Replies), Ordered(given'), Heard(given', call, messages),
           Ordered(rest), Heard(rest, call, messages), OnlyOf(rest, c), Before(given', rest),
           state # None => Before(given', state.pending),
           \A d \in W!Inits : d # c /\ Holds(d) => Before(given', queue[d])
    PROVE  OrderInv' /\ SameConn /\ SameTables
<1> USE DEF OrderInv
<1>1. RepliesTyped'
  BY ClientAssumption DEF RepliesTyped, W!Inits
<1>2. call[c] = "done" /\ Holds(c) /\ ~InState(c) /\ \A u \in Takers : taker[u] = c => u = t
  <2>1. taker[t] # 0
    BY ClientAssumption DEF W!Inits
  <2>2. call[taker[t]] = "done" /\ ~InState(taker[t]) /\ \A u \in Takers : taker[u] = taker[t] => u = t
    BY <2>1 DEF HeldOnce
  <2> QED
    BY <2>2 DEF Holds, InState
<1>3. taker'[t] = 0 /\ \A u \in Takers : u # t => taker'[u] = taker[u]
  BY DEF RepliesTyped
<1>4. 0 \notin W!Inits
  BY ClientAssumption DEF W!Inits
<1>5. Ordered(<<>>) /\ Heard(<<>>, call, messages) /\ OnlyOf(<<>>, c) /\ \A s : Before(s, <<>>)
  BY DEF Ordered, Heard, OnlyOf, Before
<1>6. \A d \in W!Inits : Ordered(queue'[d]) /\ Heard(queue'[d], call', messages') /\ OnlyOf(queue'[d], d)
  BY <1>5 DEF Order, Returned
<1>7. Before(given', queue'[c])
  BY <1>5 DEF Returned
<1>8. ASSUME NEW d \in W!Inits, d # c, Holds(d)
      PROVE  Before(given', queue'[d]) /\ (state # None => Without(state.pending, d))
  BY <1>8 DEF Order
<1>9. CASE state = None /\ state' = None /\ queue'[c] = <<>>
  <2>1. HeldOnce'
    BY <1>3, <1>4, <1>9 DEF HeldOnce, InState
  <2>2. \A d \in W!Inits : Holds(d)' => Holds(d) /\ d # c
    BY <1>2, <1>3, <1>4, <1>9 DEF Holds, InState
  <2>3. Order'
    BY <1>6, <1>8, <1>9, <2>2 DEF Order
  <2> QED
    BY <1>1, <1>9, <2>1, <2>3 DEF SameConn, SameTables
<1>10. CASE state # None /\ state.stream = 0 /\ state' = [state EXCEPT !.stream = c] /\ queue'[c] = rest
  <2>1. state' \in ClientRec /\ state'.stream = c /\ state'.pending = state.pending /\ state'.conn = state.conn
        /\ state'.connections = state.connections /\ state'.pending_opens = state.pending_opens
    BY <1>10 DEF ClientTyped, ClientRec
  <2>2. HeldOnce'
    BY <1>2, <1>3, <1>4, <2>1 DEF HeldOnce, InState
  <2>3. \A d \in W!Inits : Holds(d)' => Holds(d)
    BY <1>2, <1>3, <1>4, <2>1 DEF Holds, InState
  <2>4. Without(state.pending, c)
    BY <1>2, <1>10 DEF Order
  <2>5. Ordered(state'.pending) /\ Heard(state'.pending, call', messages') /\ Before(given', state'.pending)
    BY <1>10, <2>1 DEF Order
  <2>6. ASSUME NEW d \in W!Inits, Holds(d)' PROVE Before(given', queue'[d]) /\ Without(state'.pending, d)
    BY <1>7, <1>8, <1>10, <2>1, <2>3, <2>4, <2>6
  <2>7. Order'
    BY <1>6, <2>5, <2>6 DEF Order
  <2> QED
    BY <1>1, <1>10, <2>1, <2>2, <2>7 DEF SameConn, SameTables
<1>11. CASE /\ state # None /\ state.stream # 0 /\ state' = [state EXCEPT !.pending = @ \o rest]
            /\ queue'[c] = <<>>
  <2>1. state \in ClientRec /\ state.pending \in Seq(Replies) /\ state.pending \o rest \in Seq(Replies)
    BY <1>11, Joined DEF ClientTyped, ClientRec
  <2>2. state' \in ClientRec /\ state'.stream = state.stream /\ state'.pending = state.pending \o rest
        /\ state'.conn = state.conn
        /\ state'.connections = state.connections /\ state'.pending_opens = state.pending_opens
    BY <1>11, <2>1 DEF ClientRec
  <2>3. HeldOnce'
    BY <1>2, <1>3, <1>4, <1>11, <2>2 DEF HeldOnce, InState
  <2>4. \A d \in W!Inits : Holds(d)' => Holds(d) /\ d # c
    BY <1>2, <1>3, <1>4, <1>11, <2>2 DEF Holds, InState
  <2>5. Without(state.pending, c) /\ Ordered(state.pending) /\ Heard(state.pending, call, messages)
    BY <1>2, <1>11 DEF Order
  <2>6. Before(state.pending, rest)
    BY <2>5, ApartIsBefore
  <2>7. Ordered(state.pending \o rest) /\ Heard(state.pending \o rest, call, messages)
    BY <2>1, <2>5, <2>6, JoinOrdered, HeardJoin
  <2>8. Before(given', state.pending \o rest)
    BY <1>11, <2>1, BeforeJoin
  <2>9. ASSUME NEW d \in W!Inits, Holds(d)' PROVE Before(given', queue'[d]) /\ Without(state'.pending, d)
    <3>1. d # c /\ Before(given', queue'[d]) /\ Without(state.pending, d)
      BY <1>8, <1>11, <2>4, <2>9
    <3>2. Without(rest, d)
      BY <3>1 DEF OnlyOf, Without
    <3>3. Without(state.pending \o rest, d)
      <4>1. ASSUME NEW i \in DOMAIN (state.pending \o rest) PROVE (state.pending \o rest)[i][1] # d
        <5>1. CASE i \in DOMAIN state.pending /\ (state.pending \o rest)[i] = state.pending[i]
          BY <3>1, <5>1 DEF Without
        <5>2. CASE i - Len(state.pending) \in DOMAIN rest /\ (state.pending \o rest)[i] = rest[i - Len(state.pending)]
          BY <3>2, <5>2 DEF Without
        <5> QED
          BY <2>1, <5>1, <5>2, Joined
      <4> QED
        BY <4>1 DEF Without
    <3> QED
      BY <2>2, <3>1, <3>3
  <2>10. Order'
    BY <1>6, <2>2, <2>7, <2>8, <2>9 DEF Order
  <2> QED
    BY <1>1, <1>11, <2>2, <2>3, <2>10 DEF SameConn, SameTables
<1> QED
  BY <1>9, <1>10, <1>11 DEF Returned

LEMMA TakesOrder ==
    ASSUME ClientTyped, OrderInv, NEW t \in Takers, W!Takes(t)
    PROVE  OrderInv' /\ SameConn /\ SameTables
<1> USE DEF OrderInv
<1> DEFINE c == taker[t]
           q == queue[c]
           x == Head(q)
           rest == Tail(q)
<1>1. c \in W!Inits /\ Holds(c)
  BY DEF W!Takes, RepliesTyped, Holds
<1>2. /\ q # <<>> /\ given' = Append(given, x) /\ state' = W!restored(state, c, rest)
      /\ queue' = [queue EXCEPT ![c] = W!left(state, rest)]
      /\ taker' = [taker EXCEPT ![t] = 0] /\ UNCHANGED <<call, messages>>
  BY DEF W!Takes
<1>3. q \in Seq(Replies) /\ Ordered(q) /\ Heard(q, call, messages) /\ OnlyOf(q, c) /\ Before(given, q)
  BY <1>1 DEF Order, RepliesTyped
<1>4. /\ given' \in Seq(Replies) /\ Ordered(given') /\ Heard(given', call, messages)
      /\ rest \in Seq(Replies) /\ Ordered(rest) /\ Heard(rest, call, messages) /\ Before(given', rest)
  BY <1>2, <1>3, GiveFirst DEF Order
<1>5. x \in Replies /\ x[1] = c /\ OnlyOf(rest, c)
  BY <1>2, <1>3, HeadAndTail DEF OnlyOf
<1>6. queue' \in [W!Inits -> Seq(Replies)] /\ \A d \in W!Inits : d # c => queue'[d] = queue[d]
  <2>1. W!left(state, rest) \in Seq(Replies)
    BY <1>4 DEF W!left
  <2> QED
    BY <1>1, <1>2, <2>1 DEF RepliesTyped
<1>7. Returned(c, rest)
  BY <1>1, <1>2 DEF Returned, W!restored, W!left, RepliesTyped
<1>8. ASSUME state # None PROVE Before(given', state.pending)
  <2>1. Without(state.pending, c) /\ Before(given, state.pending)
    BY <1>1, <1>8 DEF Order
  <2>2. OnlyOf(<<x>>, c)
    BY <1>5 DEF OnlyOf
  <2>3. Before(<<x>>, state.pending)
    BY <2>1, <2>2, ApartIsBefore
  <2> QED
    BY <1>2, <1>5, <2>1, <2>3, BeforeAppend DEF RepliesTyped
<1>9. ASSUME NEW d \in W!Inits, d # c, Holds(d) PROVE Before(given', queue[d])
  <2>1. Before(given, queue[d]) /\ OnlyOf(queue[d], d)
    BY <1>9 DEF Order
  <2> QED
    BY <1>2, <1>5, <1>9, <2>1, GivenOfOther DEF RepliesTyped
<1> HIDE DEF c, q, x, rest
<1>10. taker[t] = c
  BY DEF c
<1> QED
  BY <1>1, <1>2, <1>4, <1>5, <1>6, <1>7, <1>8, <1>9, <1>10, ReturnedKeeps

LEMMA TakesNothingOrder ==
    ASSUME ClientTyped, OrderInv, NEW t \in Takers, W!TakesNothing(t)
    PROVE  OrderInv' /\ SameConn /\ SameTables
<1> USE DEF OrderInv
<1>1. PICK c : c = taker[t]
  OBVIOUS
<1>2. c \in W!Inits /\ Holds(c)
  BY <1>1 DEF W!TakesNothing, RepliesTyped, Holds
<1>3. /\ queue[c] = <<>> /\ state' = W!restored(state, c, <<>>)
      /\ taker' = [taker EXCEPT ![t] = 0] /\ UNCHANGED <<call, messages, queue, given>>
  BY <1>1 DEF W!TakesNothing
<1>4. <<>> \in Seq(Replies) /\ Ordered(<<>>) /\ Heard(<<>>, call, messages) /\ OnlyOf(<<>>, c) /\ Before(given', <<>>)
  <2>1. <<>> \in Seq(Replies)
    OBVIOUS
  <2> QED
    BY <2>1 DEF Ordered, Heard, OnlyOf, Before
<1>5. Returned(c, <<>>)
  BY <1>3 DEF Returned, W!restored
<1>6. /\ given' \in Seq(Replies) /\ Ordered(given') /\ Heard(given', call, messages)
      /\ queue' \in [W!Inits -> Seq(Replies)]
      /\ state # None => Before(given', state.pending)
      /\ \A d \in W!Inits : Holds(d) => Before(given', queue[d])
  BY <1>3 DEF Order, RepliesTyped
<1>7. taker[t] = c /\ \A d \in W!Inits : d # c => queue'[d] = queue[d]
  BY <1>1, <1>3
<1> QED
  BY <1>2, <1>3, <1>4, <1>5, <1>6, <1>7, ReturnedKeeps

-----------------------------------------------------------------------------
LEMMA ClientStarts == W!Init => ClientInv
<1> SUFFICES ASSUME W!Init PROVE ClientInv
  OBVIOUS
<1> USE DEF W!Init
<1>1. ClientTyped /\ CallsTyped
  BY DEF ClientTyped, CallsTyped
<1>2. Calls
  BY DEF Calls
<1>3. opener \in [Openers -> OpenRec] /\ \A o \in Openers : opener[o].at = "idle"
  BY NoOpenIs DEF NoOpenFacts
<1>4. HandlesTyped
  <2>1. <<>> \in Seq(W!Inits \X Cids)
    OBVIOUS
  <2> QED
    BY <1>3, <2>1 DEF HandlesTyped
<1>5. Named /\ Handles
  BY <1>3 DEF Named, Handles, Opening, W!OneHandleEach, W!IsInjective
<1>6. RepliesTyped
  <2>1. <<>> \in Seq(Replies)
    OBVIOUS
  <2> QED
    BY <2>1 DEF RepliesTyped
<1>7. HeldOnce
  BY DEF HeldOnce
<1>8. Order
  <2>1. \A c \in W!Inits : ~Holds(c)
    BY ClientAssumption DEF Holds, InState, W!Inits
  <2>2. \A c \in W!Inits : queue[c] = <<>>
    OBVIOUS
  <2>3. Ordered(<<>>) /\ Heard(<<>>, call, messages) /\ \A c : OnlyOf(<<>>, c)
    BY DEF Ordered, Heard, OnlyOf
  <2> QED
    BY <2>1, <2>2, <2>3 DEF Order
<1> QED
  BY <1>1, <1>2, <1>4, <1>5, <1>6, <1>7, <1>8 DEF ClientInv

\* A step of init, restart, close or the task touches neither tables nor streams.
LEMMA CallSteps ==
    ASSUME ClientInv,
           \/ W!close_connection
           \/ \E c \in W!Inits : \/ \E restart \in BOOLEAN : W!Begin(c, restart)
                                 \/ W!ConnectFails(c) \/ W!SocketEnds(c) \/ W!TaskEnds(c)
    PROVE  ClientInv'
<1> USE DEF ClientInv, CallsInv, OrderInv
<1>1. CallsInv'
  BY BeginCalls, EndCalls, CloseCalls
<1>2. state' = None \/ state' = state
  BY DEF W!Begin, W!refuse_init, W!teardown_before_connect, W!is_initialized, W!ConnectFails,
         W!SocketEnds, W!TaskEnds, W!close_connection
<1>3. SameTables /\ SameStream
  BY <1>2 DEF SameTables, SameStream
<1>4. DoneStays
  BY DEF DoneStays, ClientTyped, W!Begin, W!ConnectFails, W!SocketEnds, W!TaskEnds, W!close_connection
<1>5. UNCHANGED <<opener, multiplexed>> /\ UNCHANGED W!streamVars
  BY DEF W!Begin, W!ConnectFails, W!SocketEnds, W!TaskEnds, W!close_connection, W!openVars
<1>6. Named'
  BY <1>5 DEF Named
<1> QED
  BY <1>1, <1>3, <1>4, <1>5, <1>6, OtherHandles, OtherOrder

LEMMA ConnectedSteps ==
    ASSUME ClientInv, NEW c \in W!Inits, W!Connected(c)
    PROVE  ClientInv'
<1>1. Named'
  BY DEF ClientInv, Named, W!Connected, W!openVars
<1> QED
  BY <1>1, ConnectedCalls, ConnectedHandles, ConnectedOrder DEF ClientInv, CallsInv, OrderInv

LEMMA ReplySteps ==
    ASSUME ClientInv, \/ \E c \in W!Inits : W!Hear(c)
                      \/ \E t \in Takers : W!NextMessage(t) \/ W!Takes(t) \/ W!TakesNothing(t)
    PROVE  ClientInv'
<1> USE DEF ClientInv, CallsInv, OrderInv
<1>1. OrderInv' /\ SameConn /\ SameTables
  <2>1. CASE \E c \in W!Inits : W!Hear(c)
    <3>1. UNCHANGED state
      BY <2>1 DEF W!Hear
    <3>2. SameConn /\ SameTables
      BY <3>1 DEF SameConn, SameTables, ClientTyped
    <3> QED
      BY <2>1, <3>2, HearOrder
  <2>2. CASE \E t \in Takers : W!NextMessage(t) \/ W!Takes(t) \/ W!TakesNothing(t)
    BY <2>2, NextMessageOrder, TakesOrder, TakesNothingOrder
  <2> QED
    BY <2>1, <2>2
<1>2. UNCHANGED <<call, gen, connection_generation, sink, task, closed, reported, opener, multiplexed>>
  BY DEF W!Hear, W!NextMessage, W!Takes, W!TakesNothing, W!openVars
<1>3. CallsInv'
  BY <1>1, <1>2, OtherCalls
<1>4. DoneStays /\ Named'
  BY <1>2 DEF DoneStays, Named
<1> QED
  BY <1>1, <1>2, <1>3, <1>4, OtherHandles

LEMMA OpenSteps ==
    ASSUME ClientInv, NEW o \in Openers,
           \/ \E cid \in Cids : W!OpenMessengerFor(o, cid) \/ W!EnsureMessengerOpen(o, cid)
           \/ W!Multiplexed(o) \/ W!Poll(o) \/ W!PollTimesOut(o)
    PROVE  ClientInv'
<1> USE DEF ClientInv, CallsInv, OrderInv
<1>1. CASE \E cid \in Cids, ensure \in BOOLEAN : W!Open(o, cid, ensure)
  <2>1. PICK cid \in Cids, ensure \in BOOLEAN : W!Open(o, cid, ensure)
    BY <1>1
  <2>2. HandlesTyped' /\ Handles' /\ SameConn /\ Named'
    BY <2>1, OpenHandles, StaysNamed
  <2>3. UNCHANGED <<call, gen, connection_generation, sink, task, closed, reported, W!streamVars>>
    BY <2>1 DEF W!Open, W!others
  <2>4. SameStream
    BY <2>1 DEF W!Open, W!is_initialized, SameStream, ClientTyped, ClientRec
  <2>5. DoneStays
    BY <2>3 DEF DoneStays
  <2> QED
    BY <2>2, <2>3, <2>4, <2>5, OtherCalls, OtherOrder
<1>2. CASE W!Multiplexed(o)
  <2>1. opener[o].cid \in Cids
    BY <1>2 DEF Named, W!Multiplexed
  <2>2. HandlesTyped' /\ Handles' /\ SameConn /\ Named'
    BY <1>2, <2>1, MultiplexedHandles, StaysNamed
  <2>3. UNCHANGED <<call, gen, connection_generation, sink, task, closed, reported, W!streamVars>>
    BY <1>2 DEF W!Multiplexed, W!others
  <2>4. SameStream
    BY <1>2, MultiplexedHandles
  <2>5. DoneStays
    BY <2>3 DEF DoneStays
  <2> QED
    BY <2>2, <2>3, <2>4, <2>5, OtherCalls, OtherOrder
<1>3. CASE W!Poll(o) \/ W!PollTimesOut(o)
  <2>1. opener[o].cid \in Cids
    BY <1>3 DEF Named, W!Poll, W!PollTimesOut
  <2>2. HandlesTyped' /\ Handles' /\ SameConn /\ Named'
    BY <1>3, <2>1, PollHandles, StaysNamed
  <2>3. UNCHANGED <<call, gen, connection_generation, sink, task, closed, reported, W!streamVars>>
    BY <1>3 DEF W!Poll, W!PollTimesOut, W!others
  <2>4. SameStream
    BY <1>3 DEF W!Poll, W!PollTimesOut, W!is_initialized, SameStream, ClientTyped, ClientRec
  <2>5. DoneStays
    BY <2>3 DEF DoneStays
  <2> QED
    BY <2>2, <2>3, <2>4, <2>5, OtherCalls, OtherOrder
<1> QED
  BY <1>1, <1>2, <1>3 DEF W!OpenMessengerFor, W!EnsureMessengerOpen

LEMMA ClientSteps ==
    ASSUME ClientInv, [AccountsNext]_<<part, vars, conversationVars, clientVars>>
    PROVE  ClientInv'
<1>1. CASE UNCHANGED clientVars
  BY <1>1 DEF clientVars, ClientInv, ClientTyped, CallsTyped, Calls, HandlesTyped, Named, Handles, Opening,
              On, W!OneHandleEach, RepliesTyped, HeldOnce, InState, Order, Holds
<1>2. CASE W!Next
  BY <1>2, CallSteps, ConnectedSteps, ReplySteps, OpenSteps DEF W!Next
<1> QED
  BY <1>1, <1>2 DEF AccountsNext, UpdaterStep, ConversationsStep, ClientStep

\* Whatever the page calls while other calls of it wait, an account gets one handle on a
\* connection and the replies of a connection reach the page once and in order - at any
\* number of calls, connections, accounts and replies (the WASM client's lib.rs).
THEOREM ClientKeepsOrder == AccountsSpec => [](W!OneHandleEach /\ W!DeliveredInOrder)
<1>1. AccountsInit => ClientInv
  BY ClientStarts DEF AccountsInit
<1>2. ClientInv /\ [AccountsNext]_<<part, vars, conversationVars, clientVars>> => ClientInv'
  BY ClientSteps
<1>3. ClientInv => W!OneHandleEach /\ W!DeliveredInOrder
  BY DEF ClientInv, Handles, Order, Ordered, W!DeliveredInOrder
<1> QED
  BY <1>1, <1>2, <1>3, PTL DEF AccountsSpec

\* Where the page calls init, restart and close one after the other, it is also told of
\* no death of a connection it closed itself, and while its task runs it can send
\* (lib.rs, connection_lifecycle.rs).
THEOREM ClientIsSound ==
    ASSUME ~Overlap
    PROVE  AccountsSpec => []ClientSound
<1>1. AccountsInit => ClientInv
  BY ClientStarts DEF AccountsInit
<1>2. ClientInv /\ [AccountsNext]_<<part, vars, conversationVars, clientVars>> => ClientInv'
  BY ClientSteps
<1>3. ClientInv => ClientSound
  <2> SUFFICES ASSUME ClientInv PROVE W!ClientSound
    BY DEF ClientSound
  <2>1. W!OneHandleEach /\ W!DeliveredInOrder
    BY DEF ClientInv, Handles, Order, Ordered, W!DeliveredInOrder
  <2>2. W!DeathIsTrue
    BY DEF ClientInv, Calls, W!DeathIsTrue
  <2>3. W!LiveClientCanSend
    BY ClientAssumption DEF ClientInv, Calls, ClientTyped, ClientRec, W!Inits, W!LiveClientCanSend, W!CanSend
  <2> QED
    BY <2>1, <2>2, <2>3 DEF W!ClientSound
<1> QED
  BY <1>1, <1>2, <1>3, PTL DEF AccountsSpec

=============================================================================
