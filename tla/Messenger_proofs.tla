------------------------- MODULE Messenger_proofs --------------------------
(***************************************************************************)
(* What the messenger keeps, for every set of accounts, any number of      *)
(* handles and any traffic, and that it implements the mailbox.            *)
(*                                                                         *)
(* Two arguments carry the proofs.  A frame is in one place: on the wire,  *)
(* in the router's hand, queued, taken by a multiplex call, in one ILM's   *)
(* channel, or read.  And a request is under way once: queued, with the    *)
(* agent or answered on the wire; until the messenger stops the handle     *)
(* that asked is then waiting, and a poll under way is in the background   *)
(* set.                                                                    *)
(***************************************************************************)
EXTENDS Messenger, FiniteSetTheorems, TLAPS

Pcs == Held \cup {"none", "gone"}
AskStates == {"idle", "registered", "waiting", "answered", "failed"}
Frames == 1..MaxTraffic
HandleRecords == [cid : Cids \cup {None}, pc : Pcs, inbox : Seq(Frames), taken : Seq(Frames)]

OutMsgs == [kind : {"frame"}, sendable : BOOLEAN] \cup Requests
NetMsgs ==
    [kind : {"notification"}, id : Frames, cid : Cids, as : {"Frame", "NotAFrame", "Unreadable"}]
    \cup {Junk, Other}
    \cup [kind : {"ask"}, of : Handles]
    \cup [kind : {"poll"}, of : Frames, sessions : SUBSET Cids]

Flags == browser \in BOOLEAN /\ link \in BOOLEAN /\ appOpen \in BOOLEAN

Shapes ==
    /\ handle \in [Handles -> HandleRecords]
    /\ routes \in [Cids -> Handles \cup {None}]
    /\ backends \in [Cids -> Handles \cup {None}]
    /\ pending \in [Cids -> Seq(Frames)]
    /\ hand \in {None} \cup [cid : Cids, frame : Frames]
    /\ net \in Seq(NetMsgs)
    /\ out \in Seq(OutMsgs)
    /\ agent \in SUBSET Requests
    /\ ask \in [Handles -> AskStates]
    /\ asked \in [Handles -> Nat]
    /\ background \in SUBSET (1..traffic)
    /\ read \in [Cids -> SUBSET Frames]
    /\ traffic \in 0..MaxTraffic
    /\ phase \in {"running", "ended", "stopped"}
    /\ junk \in Nat /\ (phase = "running" => junk < GiveUpAfter)

\* How far a call has come says what it holds.
Calls ==
    \A h \in Handles :
        /\ handle[h].pc = "none" => handle[h] = Idle
        /\ handle[h].pc # "none" => handle[h].cid \in Cids
        /\ handle[h].pc = "routed" => handle[h].taken = <<>>
        /\ handle[h].pc \in {"none", "routed", "filling"} => ask[h] = "idle"

\* A route or a backend is that of a call of its own account.
Owned ==
    \A c \in Cids, h \in Handles :
        /\ routes[c] = h => handle[h].cid = c
        /\ backends[c] = h => handle[h].cid = c /\ handle[h].pc \in {"loading", "live", "gone"}

\* In the browser no step of multiplex or of the router is left half done.
Whole == browser => hand = None /\ \A h \in Handles : handle[h].pc \notin {"routed", "filling"}

-----------------------------------------------------------------------------
(* Where a frame is.                                                       *)

Places ==
    Cids \X {"pending", "read"} \cup Handles \X {"inbox", "taken"} \cup {None} \X {"hand", "net"}

FramesOf(s) == {s[i].id : i \in {j \in 1..Len(s) : s[j].kind = "notification"}}

Contents == [p \in Places |->
    CASE p[2] = "pending" -> Range(pending[p[1]])
      [] p[2] = "read"    -> read[p[1]]
      [] p[2] = "inbox"   -> Range(handle[p[1]].inbox)
      [] p[2] = "taken"   -> Range(handle[p[1]].taken)
      [] p[2] = "hand"    -> IF hand = None THEN {} ELSE {hand.frame}
      [] p[2] = "net"     -> FramesOf(net)]

Apart(F) == \A p, q \in Places : p # q => F[p] \cap F[q] = {}
Seen(F) == \A p \in Places : F[p] \subseteq 1..traffic

Injective(s) == \A i, j \in 1..Len(s) : s[i] = s[j] => i = j

\* Two messages for the same frame, or the same request.
Same(m, n) ==
    \/ m.kind = "notification" /\ n.kind = "notification" /\ m.id = n.id
    \/ m.kind \in {"ask", "poll"} /\ n.kind = m.kind /\ m.of = n.of

NoTwice(s) == \A i, j \in 1..Len(s) : Same(s[i], s[j]) => i = j

FrameOnce ==
    /\ Apart(Contents) /\ Seen(Contents)
    /\ \A c \in Cids : Injective(pending[c])
    /\ \A h \in Handles : Injective(handle[h].inbox) /\ Injective(handle[h].taken)

-----------------------------------------------------------------------------
(* Where a request is.                                                     *)

Among(q, s) == \E i \in 1..Len(s) : s[i].kind = q.kind /\ s[i].of = q.of
UnderWay(q) == Among(q, out) \/ q \in agent \/ Among(q, net)

RequestOnce ==
    /\ NoTwice(net) /\ NoTwice(out)
    /\ \A q \in Requests :
          /\ ~(Among(q, out) /\ q \in agent)
          /\ ~(Among(q, out) /\ Among(q, net))
          /\ ~(q \in agent /\ Among(q, net))

Awaited ==
    /\ \A h \in Handles : UnderWay([kind |-> "ask", of |-> h]) /\ phase # "stopped" => ask[h] = "waiting"
    /\ \A n \in Frames : UnderWay([kind |-> "poll", of |-> n]) => n \in background
    /\ phase # "running" => out = <<>>

\* A reply of a backend that reached the application is of one in use before.
Inside ==
    \A r \in app :
        /\ r.kind \in {"ask", "other"}
        /\ r.kind = "ask" =>
              /\ r.of \in Handles
              /\ handle[r.of].pc \in {"loading", "live", "gone"}
              /\ ~Inspected(r.of)

Inv ==
    /\ Flags /\ Shapes /\ Calls /\ Owned /\ Whole /\ FrameOnce
    /\ RequestOnce /\ Awaited /\ Inside
    /\ BrowserStrandsNothing /\ StoppedLeavesNoWaiter

-----------------------------------------------------------------------------
(* Sequences.                                                              *)

\* What an appended sequence holds.
LEMMA RangeAppend ==
    ASSUME NEW S, NEW s \in Seq(S), NEW x \in S
    PROVE  Range(Append(s, x)) = Range(s) \cup {x}
<1>1. /\ Append(s, x) \in Seq(S) /\ Len(Append(s, x)) = Len(s) + 1 /\ Len(s) \in Nat
      /\ \A i \in 1..Len(s) : Append(s, x)[i] = s[i]
      /\ Append(s, x)[Len(s) + 1] = x
      /\ DOMAIN Append(s, x) = 1..(Len(s) + 1) /\ DOMAIN s = 1..Len(s)
  OBVIOUS
<1>2. 1..(Len(s) + 1) = 1..Len(s) \cup {Len(s) + 1}
  BY <1>1
<1> QED
  BY <1>1, <1>2 DEF Range

\* A new element keeps a sequence free of repetitions.
LEMMA InjectiveAppend ==
    ASSUME NEW S, NEW s \in Seq(S), NEW x \in S, Injective(s), x \notin Range(s)
    PROVE  Injective(Append(s, x))
<1>1. /\ Len(Append(s, x)) = Len(s) + 1 /\ Len(s) \in Nat
      /\ \A i \in 1..Len(s) : Append(s, x)[i] = s[i] /\ s[i] # x
      /\ Append(s, x)[Len(s) + 1] = x
  BY DEF Range
<1> QED
  BY <1>1 DEF Injective

\* The first element of a sequence leaves it.
LEMMA TailParts ==
    ASSUME NEW S, NEW s \in Seq(S), s # <<>>
    PROVE  /\ Head(s) = s[1] /\ Head(s) \in S /\ Tail(s) \in Seq(S)
           /\ Len(s) \in Nat \ {0} /\ Len(Tail(s)) = Len(s) - 1
           /\ \A i \in 1..Len(Tail(s)) : i + 1 \in 1..Len(s) /\ Tail(s)[i] = s[i + 1]
           /\ \A j \in 2..Len(s) : j - 1 \in 1..Len(Tail(s)) /\ Tail(s)[j - 1] = s[j]
           /\ 1..Len(s) = {1} \cup 2..Len(s)
OBVIOUS

LEMMA RangeTail ==
    ASSUME NEW S, NEW s \in Seq(S), s # <<>>, Injective(s)
    PROVE  /\ Range(Tail(s)) = Range(s) \ {Head(s)} /\ Head(s) \in Range(s)
           /\ Injective(Tail(s))
<1>1. Injective(Tail(s))
  BY TailParts DEF Injective
<1>2. DOMAIN s = 1..Len(s) /\ DOMAIN Tail(s) = 1..Len(Tail(s))
  BY TailParts
<1>3. ASSUME NEW y \in Range(Tail(s)) PROVE y \in Range(s) /\ y # Head(s)
  BY <1>2, <1>3, TailParts DEF Range, Injective
<1>4. ASSUME NEW y \in Range(s), y # Head(s) PROVE y \in Range(Tail(s))
  <2>1. PICK j \in 2..Len(s) : y = s[j]
    BY <1>2, <1>4, TailParts DEF Range
  <2> QED
    BY <1>2, <2>1, TailParts DEF Range
<1>5. Head(s) \in Range(s)
  BY <1>2, TailParts DEF Range
<1> QED
  BY <1>1, <1>3, <1>4, <1>5

-----------------------------------------------------------------------------
(* Frames and their places.                                                *)

\* Contents, place by place, before and after a step.
LEMMA ContentsAre ==
    /\ \A c \in Cids :
          /\ <<c, "pending">> \in Places /\ <<c, "read">> \in Places
          /\ Contents[<<c, "pending">>] = Range(pending[c])
          /\ Contents'[<<c, "pending">>] = Range(pending'[c])
          /\ Contents[<<c, "read">>] = read[c]
          /\ Contents'[<<c, "read">>] = read'[c]
    /\ \A h \in Handles :
          /\ <<h, "inbox">> \in Places /\ <<h, "taken">> \in Places
          /\ Contents[<<h, "inbox">>] = Range(handle[h].inbox)
          /\ Contents'[<<h, "inbox">>] = Range(handle'[h].inbox)
          /\ Contents[<<h, "taken">>] = Range(handle[h].taken)
          /\ Contents'[<<h, "taken">>] = Range(handle'[h].taken)
    /\ <<None, "hand">> \in Places /\ <<None, "net">> \in Places
    /\ Contents[<<None, "hand">>] = IF hand = None THEN {} ELSE {hand.frame}
    /\ Contents'[<<None, "hand">>] = IF hand' = None THEN {} ELSE {hand'.frame}
    /\ Contents[<<None, "net">>] = FramesOf(net)
    /\ Contents'[<<None, "net">>] = FramesOf(net')
BY DEF Contents, Places

LEMMA PlaceIs ==
    ASSUME NEW p \in Places
    PROVE  \/ \E c \in Cids : p = <<c, "pending">> \/ p = <<c, "read">>
           \/ \E h \in Handles : p = <<h, "inbox">> \/ p = <<h, "taken">>
           \/ p = <<None, "hand">> \/ p = <<None, "net">>
BY DEF Places

LEMMA NoneIs == None \notin Handles /\ None \notin Cids /\ None \notin [cid : Cids, frame : Frames]
BY NoneIsApart DEF Frames

\* The places outside X, one kind at a time.
LEMMA EachPlace ==
    ASSUME NEW X,
           \A c \in Cids : <<c, "pending">> \notin X => Range(pending'[c]) \subseteq Range(pending[c]),
           \A c \in Cids : <<c, "read">> \notin X => read'[c] \subseteq read[c],
           \A h \in Handles : <<h, "inbox">> \notin X => Range(handle'[h].inbox) \subseteq Range(handle[h].inbox),
           \A h \in Handles : <<h, "taken">> \notin X => Range(handle'[h].taken) \subseteq Range(handle[h].taken),
           <<None, "hand">> \notin X => hand' = None \/ hand' = hand,
           <<None, "net">> \notin X => FramesOf(net') \subseteq FramesOf(net)
    PROVE  \A p \in Places \ X : Contents'[p] \subseteq Contents[p]
<1> TAKE p \in Places \ X
<1>1. ASSUME NEW c \in Cids, p = <<c, "pending">> PROVE Contents'[p] \subseteq Contents[p]
  BY <1>1, ContentsAre
<1>2. ASSUME NEW c \in Cids, p = <<c, "read">> PROVE Contents'[p] \subseteq Contents[p]
  BY <1>2, ContentsAre
<1>3. ASSUME NEW h \in Handles, p = <<h, "inbox">> PROVE Contents'[p] \subseteq Contents[p]
  BY <1>3, ContentsAre
<1>4. ASSUME NEW h \in Handles, p = <<h, "taken">> PROVE Contents'[p] \subseteq Contents[p]
  BY <1>4, ContentsAre
<1>5. CASE p = <<None, "hand">>
  BY <1>5, ContentsAre
<1>6. CASE p = <<None, "net">>
  BY <1>6, ContentsAre
<1> QED
  BY <1>1, <1>2, <1>3, <1>4, <1>5, <1>6, PlaceIs

\* What goes from one place to another is still in one place; what is dropped
\* on the way is in none.
LEMMA MovedApart ==
    ASSUME NEW F, NEW G, Apart(F),
           NEW src \in Places, NEW dst \in Places, src # dst, NEW M \in SUBSET F[src],
           G[src] \subseteq F[src] \ M, G[dst] \subseteq F[dst] \cup M,
           \A p \in Places \ {src, dst} : G[p] \subseteq F[p]
    PROVE  Apart(G)
BY DEF Apart

LEMMA MovedOne ==
    ASSUME NEW F, NEW G, Apart(F),
           NEW src \in Places, NEW dst \in Places, src # dst, NEW x \in F[src],
           G[src] = F[src] \ {x}, G[dst] = F[dst] \cup {x},
           \A p \in Places \ {src, dst} : G[p] \subseteq F[p]
    PROVE  Apart(G)
BY DEF Apart

LEMMA ShrunkApart ==
    ASSUME NEW F, NEW G, Apart(F), \A p \in Places : G[p] \subseteq F[p]
    PROVE  Apart(G)
BY DEF Apart

LEMMA ArrivedApart ==
    ASSUME NEW F, NEW G, Apart(F), NEW dst \in Places, NEW x,
           \A p \in Places : x \notin F[p],
           G[dst] \subseteq F[dst] \cup {x},
           \A p \in Places \ {dst} : G[p] \subseteq F[p]
    PROVE  Apart(G)
BY DEF Apart

\* Steps that leave the frames where they are.
LEMMA FramesStay ==
    ASSUME FrameOnce, UNCHANGED <<handle, pending, hand, read, net>>,
           traffic \in Nat, traffic' \in Nat, traffic <= traffic'
    PROVE  FrameOnce'
<1>1. Contents' = Contents
  BY DEF Contents
<1>2. 1..traffic \subseteq 1..traffic'
  OBVIOUS
<1>3. Apart(Contents)' /\ Seen(Contents)'
  BY <1>1, <1>2 DEF FrameOnce, Apart, Seen
<1> QED
  BY <1>3 DEF FrameOnce

LEMMA FramesSame ==
    ASSUME FrameOnce, UNCHANGED <<pending, hand, read, net, traffic>>,
           \A h \in Handles : handle'[h].inbox = handle[h].inbox /\ handle'[h].taken = handle[h].taken
    PROVE  FrameOnce'
<1>1. \A p \in Places \ {} : Contents'[p] \subseteq Contents[p]
  BY EachPlace
<1>2. Apart(Contents)' /\ Seen(Contents)'
  BY <1>1, ShrunkApart DEF FrameOnce, Seen, Apart
<1> QED
  BY <1>2 DEF FrameOnce

-----------------------------------------------------------------------------
(* Messages on a channel.                                                  *)

LEMMA FramesAppend ==
    ASSUME NEW S, NEW s \in Seq(S), NEW x \in S
    PROVE  FramesOf(Append(s, x)) =
               FramesOf(s) \cup (IF x.kind = "notification" THEN {x.id} ELSE {})
<1>1. /\ Append(s, x) \in Seq(S) /\ Len(Append(s, x)) = Len(s) + 1 /\ Len(s) \in Nat
      /\ \A i \in 1..Len(s) : Append(s, x)[i] = s[i]
      /\ Append(s, x)[Len(s) + 1] = x
  OBVIOUS
<1>2. 1..(Len(s) + 1) = 1..Len(s) \cup {Len(s) + 1}
  BY <1>1
<1> QED
  BY <1>1, <1>2 DEF FramesOf

LEMMA NoTwiceAppend ==
    ASSUME NEW S, NEW s \in Seq(S), NEW x \in S, NoTwice(s),
           \A i \in 1..Len(s) : ~Same(s[i], x) /\ ~Same(x, s[i])
    PROVE  NoTwice(Append(s, x))
<1>1. /\ Len(Append(s, x)) = Len(s) + 1 /\ Len(s) \in Nat
      /\ \A i \in 1..Len(s) : Append(s, x)[i] = s[i]
      /\ Append(s, x)[Len(s) + 1] = x
  OBVIOUS
<1> QED
  BY <1>1 DEF NoTwice

LEMMA AmongAppend ==
    ASSUME NEW S, NEW s \in Seq(S), NEW x \in S, NEW q
    PROVE  Among(q, Append(s, x)) <=> Among(q, s) \/ (x.kind = q.kind /\ x.of = q.of)
<1>1. /\ Len(Append(s, x)) = Len(s) + 1 /\ Len(s) \in Nat
      /\ \A i \in 1..Len(s) : Append(s, x)[i] = s[i]
      /\ Append(s, x)[Len(s) + 1] = x
  OBVIOUS
<1>2. 1..(Len(s) + 1) = 1..Len(s) \cup {Len(s) + 1}
  BY <1>1
<1> QED
  BY <1>1, <1>2 DEF Among

LEMMA NoTwiceTail ==
    ASSUME NEW S, NEW s \in Seq(S), s # <<>>, NoTwice(s)
    PROVE  NoTwice(Tail(s))
BY TailParts DEF NoTwice

LEMMA FramesTail ==
    ASSUME NEW S, NEW s \in Seq(S), s # <<>>, NoTwice(s)
    PROVE  /\ Head(s).kind = "notification" =>
                 /\ FramesOf(Tail(s)) = FramesOf(s) \ {Head(s).id}
                 /\ Head(s).id \in FramesOf(s)
           /\ Head(s).kind # "notification" => FramesOf(Tail(s)) = FramesOf(s)
<1>1. ASSUME NEW y \in FramesOf(Tail(s))
      PROVE  y \in FramesOf(s) /\ (Head(s).kind = "notification" => y # Head(s).id)
  <2>1. PICK i \in 1..Len(Tail(s)) : Tail(s)[i].kind = "notification" /\ y = Tail(s)[i].id
    BY <1>1 DEF FramesOf
  <2>2. i + 1 \in 1..Len(s) /\ Tail(s)[i] = s[i + 1] /\ i + 1 # 1 /\ 1 \in 1..Len(s) /\ Head(s) = s[1]
    BY <2>1, TailParts
  <2>3. ~Same(s[1], s[i + 1])
    BY <2>2 DEF NoTwice
  <2> QED
    BY <2>1, <2>2, <2>3 DEF FramesOf, Same
<1>2. ASSUME NEW y \in FramesOf(s), Head(s).kind = "notification" => y # Head(s).id
      PROVE  y \in FramesOf(Tail(s))
  <2>1. PICK j \in 1..Len(s) : s[j].kind = "notification" /\ y = s[j].id
    BY <1>2 DEF FramesOf
  <2>2. j \in 2..Len(s)
    BY <1>2, <2>1, TailParts
  <2>3. j - 1 \in 1..Len(Tail(s)) /\ Tail(s)[j - 1] = s[j]
    BY <2>2, TailParts
  <2> QED
    BY <2>1, <2>3 DEF FramesOf
<1>3. Head(s).kind = "notification" => Head(s).id \in FramesOf(s)
  BY TailParts DEF FramesOf
<1> QED
  BY <1>1, <1>2, <1>3

LEMMA AmongTail ==
    ASSUME NEW S, NEW s \in Seq(S), s # <<>>, NoTwice(s), NEW q
    PROVE  /\ Among(q, Tail(s)) => Among(q, s)
           /\ Head(s).kind = q.kind /\ Head(s).of = q.of => Among(q, s)
           /\ Among(q, s) => Among(q, Tail(s)) \/ (Head(s).kind = q.kind /\ Head(s).of = q.of)
           /\ Head(s).kind = q.kind /\ Head(s).of = q.of /\ q.kind \in {"ask", "poll"}
                => ~Among(q, Tail(s))
<1>1. ASSUME NEW i \in 1..Len(Tail(s)), Tail(s)[i].kind = q.kind, Tail(s)[i].of = q.of
      PROVE  /\ Among(q, s)
             /\ ~(Head(s).kind = q.kind /\ Head(s).of = q.of /\ q.kind \in {"ask", "poll"})
  <2>1. i + 1 \in 1..Len(s) /\ Tail(s)[i] = s[i + 1] /\ i + 1 # 1 /\ 1 \in 1..Len(s) /\ Head(s) = s[1]
    BY TailParts
  <2>2. ~Same(s[1], s[i + 1])
    BY <2>1 DEF NoTwice
  <2> QED
    BY <1>1, <2>1, <2>2 DEF Among, Same
<1>2. ASSUME NEW j \in 1..Len(s), s[j].kind = q.kind, s[j].of = q.of
      PROVE  Among(q, Tail(s)) \/ (Head(s).kind = q.kind /\ Head(s).of = q.of)
  <2>1. CASE j = 1
    BY <1>2, <2>1, TailParts
  <2>2. CASE j \in 2..Len(s)
    BY <1>2, <2>2, TailParts DEF Among
  <2> QED
    BY <2>1, <2>2, TailParts
<1>3. Head(s).kind = q.kind /\ Head(s).of = q.of => Among(q, s)
  BY TailParts DEF Among
<1> QED
  BY <1>1, <1>2, <1>3 DEF Among

-----------------------------------------------------------------------------
(* The initial states, and one lemma per action.                           *)

LEMMA InitInv == Init => Inv
<1> SUFFICES ASSUME Init PROVE Inv
  OBVIOUS
<1> USE DEF Init
<1>1. Flags
  BY DEF Flags
<1>2. Shapes
  <2>1. Idle \in HandleRecords
    BY DEF Idle, HandleRecords, Pcs
  <2>2. traffic \in 0..MaxTraffic /\ background \in SUBSET (1..traffic) /\ junk < GiveUpAfter
    BY BoundsAreNat
  <2> QED
    BY <2>1, <2>2 DEF Shapes, AskStates
<1>3. Calls /\ Owned /\ Whole
  BY NoneIs DEF Calls, Owned, Whole, Idle
<1>4. FrameOnce
  <2>0. Range(<<>>) = {} /\ FramesOf(<<>>) = {}
    BY DEF Range, FramesOf
  <2>1. ASSUME NEW p \in Places PROVE Contents[p] = {}
    <3>1. /\ \A c \in Cids : pending[c] = <<>> /\ read[c] = {}
          /\ \A h \in Handles : handle[h].inbox = <<>> /\ handle[h].taken = <<>>
          /\ net = <<>> /\ hand = None
      BY DEF Idle
    <3>2. /\ \A c \in Cids : Contents[<<c, "pending">>] = {} /\ Contents[<<c, "read">>] = {}
          /\ \A h \in Handles : Contents[<<h, "inbox">>] = {} /\ Contents[<<h, "taken">>] = {}
          /\ Contents[<<None, "hand">>] = {} /\ Contents[<<None, "net">>] = {}
      BY <2>0, <3>1, ContentsAre
    <3> QED
      BY <3>2, PlaceIs
  <2>2. Injective(<<>>)
    BY DEF Injective
  <2> QED
    BY <2>1, <2>2 DEF FrameOnce, Apart, Seen, Idle
<1>5. RequestOnce /\ Awaited /\ Inside
  BY DEF RequestOnce, NoTwice, Awaited, UnderWay, Among, Inside
<1>6. BrowserStrandsNothing /\ StoppedLeavesNoWaiter
  BY DEF BrowserStrandsNothing, StoppedLeavesNoWaiter
<1> QED
  BY <1>1, <1>2, <1>3, <1>4, <1>5, <1>6 DEF Inv

\* What a step keeps of the requests when it leaves the channels alone.
LEMMA RequestsStay ==
    ASSUME RequestOnce, Awaited, UNCHANGED <<net, out, agent, ask, background, phase>>
    PROVE  RequestOnce' /\ Awaited'
BY DEF RequestOnce, Awaited, UnderWay

LEMMA EmptySequence == Range(<<>>) = {} /\ FramesOf(<<>>) = {} /\ Injective(<<>>)
BY DEF Range, FramesOf, Injective

\* Open in the browser: what was queued for the account goes to the new ILM's
\* channel.
LEMMA OpenInBrowserStep ==
    ASSUME Inv, NEW h \in Handles, NEW c \in Cids, Open(h, c), browser
    PROVE  Inv'
<1> USE DEF Inv
<1>0. /\ handle[h] = Idle /\ ask[h] = "idle" /\ h # None
      /\ UNCHANGED <<hand, net, out, agent, ask, background, read, phase, sides, counts>>
      /\ routes' = [routes EXCEPT ![c] = h]
  BY NoneIs DEF Open, Calls
<1>1. /\ handle' = [handle EXCEPT ![h] = [cid |-> c, pc |-> "loading", inbox |-> pending[c], taken |-> <<>>]]
      /\ pending' = [pending EXCEPT ![c] = <<>>]
      /\ backends' = [backends EXCEPT ![c] = h]
  BY DEF Open
<1>2. Flags'
  BY DEF Open, Flags, sides
<1>3. Shapes'
  <2>1. [cid |-> c, pc |-> "loading", inbox |-> pending[c], taken |-> <<>>] \in HandleRecords
    BY DEF Shapes, HandleRecords, Pcs, Held, Opening
  <2>2. handle' \in [Handles -> HandleRecords]
    BY <1>1, <2>1 DEF Shapes
  <2>3. /\ routes' \in [Cids -> Handles \cup {None}] /\ backends' \in [Cids -> Handles \cup {None}]
        /\ pending' \in [Cids -> Seq(Frames)]
    BY <1>0, <1>1 DEF Shapes
  <2> QED
    BY <1>0, <2>2, <2>3 DEF Shapes, sides, counts
<1>4. /\ handle'[h] = [cid |-> c, pc |-> "loading", inbox |-> pending[c], taken |-> <<>>]
      /\ \A g \in Handles \ {h} : handle'[g] = handle[g]
  BY <1>1 DEF Shapes
<1>5. Calls'
  BY <1>0, <1>4 DEF Calls
<1>6. Owned'
  <2>1. \A d \in Cids \ {c} : routes'[d] = routes[d] /\ backends'[d] = backends[d]
    BY <1>0, <1>1 DEF Shapes
  <2>2. routes'[c] = h /\ backends'[c] = h
    BY <1>0, <1>1 DEF Shapes
  <2>3. \A d \in Cids : routes[d] # h /\ backends[d] # h
    BY <1>0, NoneIs DEF Owned, Idle
  <2> QED
    BY <1>4, <2>1, <2>2, <2>3 DEF Owned
<1>7. Whole'
  BY <1>0, <1>4 DEF Whole
<1>8. FrameOnce'
  <2>1. Contents'[<<c, "pending">>] = {} /\ Contents'[<<h, "inbox">>] = Contents[<<c, "pending">>]
    <3>1. pending'[c] = <<>> /\ handle'[h].inbox = pending[c]
      BY <1>1, <1>4 DEF Shapes
    <3> QED
      BY <3>1, ContentsAre, EmptySequence
  <2>2. \A p \in Places \ {<<c, "pending">>, <<h, "inbox">>} : Contents'[p] \subseteq Contents[p]
    <3>1. \A d \in Cids \ {c} : pending'[d] = pending[d]
      BY <1>1 DEF Shapes
    <3>2. read' = read /\ hand' = hand /\ net' = net /\ handle'[h].taken = <<>>
      BY <1>0, <1>4
    <3> QED
      BY <1>4, <3>1, <3>2, EachPlace, EmptySequence
  <2>3. Apart(Contents)'
    <3>1. <<c, "pending">> # <<h, "inbox">> /\ <<c, "pending">> \in Places /\ <<h, "inbox">> \in Places
      BY ContentsAre
    <3> QED
      BY <2>1, <2>2, <3>1, MovedApart DEF FrameOnce, Apart
  <2>4. Seen(Contents)'
    BY <1>0, <2>1, <2>2, ContentsAre DEF FrameOnce, Seen, counts
  <2> QED
    BY <1>1, <1>4, <2>3, <2>4, EmptySequence DEF FrameOnce, Shapes
<1>9. RequestOnce' /\ Awaited'
  BY <1>0, RequestsStay
<1>10. Inside'
  <2>1. \A d \in Cids : backends'[d] = IF d = c THEN h ELSE backends[d]
    BY <1>1 DEF Shapes
  <2>2. app' = app
    BY <1>0 DEF sides
  <2>3. \A r \in app : r.kind = "ask" => r.of # h /\ handle[r.of].cid \in Cids
    BY <1>0 DEF Inside, Idle, Calls
  <2> QED
    BY <1>4, <2>1, <2>2, <2>3 DEF Inside, Inspected
<1>11. BrowserStrandsNothing'
  BY <1>0, <1>1 DEF BrowserStrandsNothing, Shapes
<1>12. StoppedLeavesNoWaiter'
  <2>1. \A d \in Cids : backends'[d] = IF d = c THEN h ELSE backends[d]
    BY <1>1 DEF Shapes
  <2>2. \A g \in Handles : ask[g] = "waiting" => g # h /\ handle[g].cid \in Cids
    BY <1>0 DEF Calls
  <2>3. ask' = ask /\ phase' = phase
    BY <1>0
  <2> QED
    BY <1>4, <2>1, <2>2, <2>3 DEF StoppedLeavesNoWaiter, Inspected
<1> QED
  BY <1>2, <1>3, <1>5, <1>6, <1>7, <1>8, <1>9, <1>10, <1>11, <1>12

\* Open in a native client: the route first, nothing else yet.
LEMMA OpenNativeStep ==
    ASSUME Inv, NEW h \in Handles, NEW c \in Cids, Open(h, c), ~browser
    PROVE  Inv'
<1> USE DEF Inv
<1>0. /\ handle[h] = Idle /\ ask[h] = "idle" /\ h # None
      /\ UNCHANGED <<hand, net, out, agent, ask, background, read, phase, sides, counts>>
      /\ routes' = [routes EXCEPT ![c] = h]
  BY NoneIs DEF Open, Calls
<1>1. /\ handle' = [handle EXCEPT ![h] = [cid |-> c, pc |-> "routed", inbox |-> <<>>, taken |-> <<>>]]
      /\ UNCHANGED <<pending, backends>>
  BY DEF Open
<1>2. Flags' /\ ~browser'
  BY DEF Open, Flags, sides
<1>3. Shapes'
  <2>1. [cid |-> c, pc |-> "routed", inbox |-> <<>>, taken |-> <<>>] \in HandleRecords
    BY DEF Shapes, HandleRecords, Pcs, Held, Opening
  <2>2. handle' \in [Handles -> HandleRecords] /\ routes' \in [Cids -> Handles \cup {None}]
    BY <1>0, <1>1, <2>1 DEF Shapes
  <2> QED
    BY <1>0, <1>1, <2>2 DEF Shapes, sides, counts
<1>4. /\ handle'[h] = [cid |-> c, pc |-> "routed", inbox |-> <<>>, taken |-> <<>>]
      /\ \A g \in Handles \ {h} : handle'[g] = handle[g]
  BY <1>1 DEF Shapes
<1>5. Calls'
  BY <1>0, <1>4 DEF Calls
<1>6. Owned'
  <2>1. \A d \in Cids \ {c} : routes'[d] = routes[d]
    BY <1>0, <1>1 DEF Shapes
  <2>2. routes'[c] = h /\ backends' = backends
    BY <1>0, <1>1 DEF Shapes
  <2>3. \A d \in Cids : routes[d] # h /\ backends[d] # h
    BY <1>0, NoneIs DEF Owned, Idle
  <2> QED
    BY <1>4, <2>1, <2>2, <2>3 DEF Owned
<1>7. Whole' /\ BrowserStrandsNothing'
  BY <1>2 DEF Whole, BrowserStrandsNothing
<1>8. FrameOnce'
  <2>1. pending' = pending /\ read' = read /\ hand' = hand /\ net' = net
        /\ handle'[h].inbox = <<>> /\ handle'[h].taken = <<>> /\ traffic' = traffic
    BY <1>0, <1>1, <1>4 DEF counts
  <2>2. \A p \in Places \ {} : Contents'[p] \subseteq Contents[p]
    BY <1>4, <2>1, EachPlace, EmptySequence
  <2>3. Apart(Contents)' /\ Seen(Contents)'
    BY <2>1, <2>2, ShrunkApart DEF FrameOnce, Seen, Apart
  <2> QED
    BY <1>4, <2>1, <2>3, EmptySequence DEF FrameOnce
<1>9. RequestOnce' /\ Awaited'
  BY <1>0, RequestsStay
<1>10. Inside'
  <2>1. backends' = backends /\ app' = app
    BY <1>0, <1>1 DEF sides
  <2>2. \A r \in app : r.kind = "ask" => r.of # h
    BY <1>0 DEF Inside, Idle
  <2> QED
    BY <1>4, <2>1, <2>2 DEF Inside, Inspected
<1>11. StoppedLeavesNoWaiter'
  <2>1. \A g \in Handles : ask[g] = "waiting" => g # h
    BY <1>0
  <2>2. ask' = ask /\ phase' = phase /\ backends' = backends
    BY <1>0, <1>1
  <2> QED
    BY <1>4, <2>1, <2>2 DEF StoppedLeavesNoWaiter, Inspected
<1> QED
  BY <1>2, <1>3, <1>5, <1>6, <1>7, <1>8, <1>9, <1>10, <1>11

\* The queue is taken into the call's hands.
LEMMA TakePendingStep ==
    ASSUME Inv, NEW h \in Handles, TakePending(h)
    PROVE  Inv'
<1> USE DEF Inv
<1>a. PICK c \in Cids : c = handle[h].cid
  BY DEF TakePending, Calls
<1>0. /\ handle[h].pc = "routed" /\ handle[h].taken = <<>> /\ ask[h] = "idle"
      /\ UNCHANGED <<routes, backends, hand, net, out, agent, ask, background, read, phase, sides, counts>>
      /\ pending' = [pending EXCEPT ![c] = <<>>]
  BY <1>a DEF TakePending, Calls
<1>1. /\ handle'[h].pc = "filling" /\ handle'[h].taken = pending[c]
      /\ handle'[h].cid = c /\ handle'[h].inbox = handle[h].inbox
      /\ \A g \in Handles \ {h} : handle'[g] = handle[g]
  BY <1>a DEF TakePending, Shapes, HandleRecords
<1>2. ~browser
  BY <1>0 DEF Whole
<1>3. Flags' /\ ~browser'
  BY <1>2 DEF TakePending, Flags, sides
<1>4. Shapes'
  <2>1. handle' \in [Handles -> HandleRecords]
    <3>1. /\ handle' = [handle EXCEPT ![h].pc = "filling", ![h].taken = pending[c]]
          /\ handle \in [Handles -> HandleRecords] /\ pending[c] \in Seq(Frames)
      BY <1>a DEF TakePending, Shapes
    <3>2. "filling" \in Pcs
      BY DEF Pcs, Held, Opening
    <3> QED
      BY <3>1, <3>2 DEF HandleRecords
  <2>2. pending' \in [Cids -> Seq(Frames)]
    BY <1>0 DEF Shapes
  <2> QED
    BY <1>0, <2>1, <2>2 DEF Shapes, sides, counts
<1>5. Calls'
  BY <1>0, <1>1 DEF Calls
<1>6. Owned'
  <2>1. \A d \in Cids : backends[d] # h
    BY <1>0 DEF Owned
  <2> QED
    BY <1>0, <1>1, <1>a, <2>1 DEF Owned
<1>7. Whole' /\ BrowserStrandsNothing'
  BY <1>3 DEF Whole, BrowserStrandsNothing
<1>8. FrameOnce'
  <2>1. read' = read /\ hand' = hand /\ net' = net /\ traffic' = traffic
        /\ pending'[c] = <<>> /\ \A d \in Cids \ {c} : pending'[d] = pending[d]
    BY <1>0 DEF counts, Shapes
  <2>2. Contents'[<<c, "pending">>] = {} /\ Contents'[<<h, "taken">>] = Contents[<<c, "pending">>]
    <3>1. Range(pending'[c]) = {} /\ Range(handle'[h].taken) = Range(pending[c])
      BY <1>1, <2>1, EmptySequence
    <3> QED
      BY <3>1, ContentsAre
  <2>3. \A p \in Places \ {<<c, "pending">>, <<h, "taken">>} : Contents'[p] \subseteq Contents[p]
    BY <1>0, <1>1, <2>1, EachPlace
  <2>4. Apart(Contents)'
    <3>1. <<c, "pending">> # <<h, "taken">> /\ <<c, "pending">> \in Places /\ <<h, "taken">> \in Places
      BY <1>0, ContentsAre
    <3> QED
      BY <2>2, <2>3, <3>1, MovedApart DEF FrameOnce, Apart
  <2>5. Seen(Contents)'
    BY <1>0, <2>1, <2>2, <2>3, ContentsAre DEF FrameOnce, Seen
  <2> QED
    BY <1>0, <1>1, <2>1, <2>4, <2>5, EmptySequence DEF FrameOnce
<1>9. RequestOnce' /\ Awaited'
  BY <1>0, RequestsStay
<1>10. Inside'
  BY <1>0, <1>1 DEF Inside, Inspected, sides
<1>11. StoppedLeavesNoWaiter'
  BY <1>0, <1>1 DEF StoppedLeavesNoWaiter, Inspected
<1> QED
  BY <1>3, <1>4, <1>5, <1>6, <1>7, <1>8, <1>9, <1>10, <1>11

\* One frame in hand goes to the channel.
LEMMA FlushStep ==
    ASSUME Inv, NEW h \in Handles, Flush(h)
    PROVE  Inv'
<1> USE DEF Inv
<1>0. /\ handle[h].pc = "filling" /\ handle[h].taken # <<>> /\ handle[h].taken \in Seq(Frames)
      /\ handle[h].inbox \in Seq(Frames)
      /\ UNCHANGED <<pending, routes, backends, hand, net, out, agent, ask, background, read, phase, sides, counts>>
  BY DEF Flush, Shapes, HandleRecords
<1>1. /\ handle'[h].pc = handle[h].pc /\ handle'[h].taken = Tail(handle[h].taken)
      /\ handle'[h].cid = handle[h].cid /\ handle'[h].inbox = Append(handle[h].inbox, Head(handle[h].taken))
      /\ \A g \in Handles \ {h} : handle'[g] = handle[g]
  BY DEF Flush, Shapes, HandleRecords
<1>2. ~browser
  BY <1>0 DEF Whole
<1>3. Flags' /\ ~browser'
  BY <1>2 DEF Flush, Flags, sides
<1>a. /\ Head(handle[h].taken) \in Frames /\ Tail(handle[h].taken) \in Seq(Frames)
      /\ Append(handle[h].inbox, Head(handle[h].taken)) \in Seq(Frames)
  BY <1>0, TailParts
<1>4. Shapes'
  <2>1. handle' \in [Handles -> HandleRecords]
    <3>1. /\ handle' = [handle EXCEPT ![h].inbox = Append(handle[h].inbox, Head(handle[h].taken)),
                                      ![h].taken = Tail(handle[h].taken)]
          /\ handle \in [Handles -> HandleRecords]
      BY DEF Flush, Shapes
    <3> QED
      BY <1>a, <3>1 DEF HandleRecords
  <2> QED
    BY <1>0, <2>1 DEF Shapes, sides, counts
<1>5. Calls'
  BY <1>0, <1>1 DEF Calls
<1>6. Owned'
  BY <1>0, <1>1 DEF Owned
<1>7. Whole' /\ BrowserStrandsNothing'
  BY <1>3 DEF Whole, BrowserStrandsNothing
<1>8. FrameOnce'
  <2>x. PICK x \in Frames : x = Head(handle[h].taken)
    BY <1>a
  <2>1. read' = read /\ hand' = hand /\ net' = net /\ traffic' = traffic /\ pending' = pending
    BY <1>0 DEF counts
  <2>2. /\ Contents'[<<h, "taken">>] = Contents[<<h, "taken">>] \ {x} /\ x \in Contents[<<h, "taken">>]
        /\ Injective(handle'[h].taken)
    <3>1. Injective(handle[h].taken)
      BY DEF FrameOnce
    <3>2. /\ Range(handle'[h].taken) = Range(handle[h].taken) \ {x} /\ x \in Range(handle[h].taken)
          /\ Injective(handle'[h].taken)
      BY <1>0, <1>1, <2>x, <3>1, RangeTail
    <3> QED
      BY <3>2, ContentsAre
  <2>3. Contents'[<<h, "inbox">>] = Contents[<<h, "inbox">>] \cup {x}
    <3>1. Range(handle'[h].inbox) = Range(handle[h].inbox) \cup {x}
      BY <1>0, <1>1, <2>x, RangeAppend
    <3> QED
      BY <3>1, ContentsAre
  <2>4. \A p \in Places \ {<<h, "taken">>, <<h, "inbox">>} : Contents'[p] \subseteq Contents[p]
    BY <1>0, <1>1, <2>1, EachPlace
  <2>5. <<h, "taken">> # <<h, "inbox">> /\ <<h, "taken">> \in Places /\ <<h, "inbox">> \in Places
    BY <1>0, ContentsAre
  <2>6. Apart(Contents)'
    BY <2>2, <2>3, <2>4, <2>5, MovedOne DEF FrameOnce, Apart
  <2>7. Seen(Contents)'
    BY <2>1, <2>2, <2>3, <2>4, <2>5 DEF FrameOnce, Seen
  <2>8. x \notin Range(handle[h].inbox)
    BY <2>2, <2>5, ContentsAre DEF FrameOnce, Apart
  <2>9. Injective(handle'[h].inbox)
    BY <1>0, <1>1, <2>x, <2>8, InjectiveAppend DEF FrameOnce
  <2> QED
    BY <1>1, <2>1, <2>2, <2>6, <2>7, <2>9 DEF FrameOnce
<1>9. RequestOnce' /\ Awaited'
  BY <1>0, RequestsStay
<1>10. Inside'
  BY <1>0, <1>1 DEF Inside, Inspected, sides
<1>11. StoppedLeavesNoWaiter'
  BY <1>0, <1>1 DEF StoppedLeavesNoWaiter, Inspected
<1> QED
  BY <1>3, <1>4, <1>5, <1>6, <1>7, <1>8, <1>9, <1>10, <1>11

\* The backend of the call replaces the account's earlier one; it has asked
\* for nothing yet.
LEMMA NewBackendStep ==
    ASSUME Inv, NEW h \in Handles, NewBackend(h)
    PROVE  Inv'
<1> USE DEF Inv
<1>a. PICK c \in Cids : c = handle[h].cid
  BY DEF NewBackend, Calls
<1>0. /\ handle[h].pc = "filling" /\ ask[h] = "idle" /\ handle[h].taken = <<>>
      /\ UNCHANGED <<pending, routes, hand, net, out, agent, ask, background, read, phase, sides, counts>>
      /\ handle' = [handle EXCEPT ![h].pc = "loading"]
      /\ backends' = [backends EXCEPT ![c] = h]
  BY <1>a DEF NewBackend, Calls
<1>1. /\ handle'[h].pc = "loading" /\ handle'[h].taken = handle[h].taken
      /\ handle'[h].cid = c /\ handle'[h].inbox = handle[h].inbox
      /\ \A g \in Handles \ {h} : handle'[g] = handle[g]
  BY <1>a, <1>0 DEF Shapes, HandleRecords
<1>2. ~browser
  BY <1>0 DEF Whole
<1>3. Flags' /\ ~browser'
  BY <1>2 DEF NewBackend, Flags, sides
<1>4. Shapes'
  <2>1. handle' \in [Handles -> HandleRecords]
    <3>1. "loading" \in Pcs /\ handle \in [Handles -> HandleRecords]
      BY DEF Pcs, Held, Opening, Shapes
    <3> QED
      BY <1>0, <3>1 DEF HandleRecords
  <2>2. backends' \in [Cids -> Handles \cup {None}]
    BY <1>0 DEF Shapes
  <2> QED
    BY <1>0, <2>1, <2>2 DEF Shapes, sides, counts
<1>b. \A d \in Cids : backends'[d] = IF d = c THEN h ELSE backends[d]
  BY <1>0 DEF Shapes
<1>5. Calls'
  BY <1>0, <1>1, <1>a DEF Calls
<1>6. Owned'
  <2>1. \A d \in Cids : backends[d] # h
    BY <1>0 DEF Owned
  <2> QED
    BY <1>0, <1>1, <1>a, <1>b, <2>1 DEF Owned
<1>7. Whole' /\ BrowserStrandsNothing'
  BY <1>3 DEF Whole, BrowserStrandsNothing
<1>8. FrameOnce'
  BY <1>0, <1>1, FramesSame DEF Shapes, counts
<1>9. RequestOnce' /\ Awaited'
  BY <1>0, RequestsStay
<1>10. Inside'
  <2>1. \A r \in app : r.kind = "ask" => r.of # h /\ handle[r.of].cid \in Cids
    BY <1>0 DEF Inside, Calls
  <2> QED
    BY <1>0, <1>1, <1>b, <2>1 DEF Inside, Inspected, sides
<1>11. StoppedLeavesNoWaiter'
  <2>1. \A g \in Handles : ask[g] = "waiting" => g # h /\ handle[g].cid \in Cids
    BY <1>0 DEF Calls
  <2> QED
    BY <1>0, <1>1, <1>b, <2>1 DEF StoppedLeavesNoWaiter, Inspected
<1> QED
  BY <1>3, <1>4, <1>5, <1>6, <1>7, <1>8, <1>9, <1>10, <1>11

\* The ILM is ready.
LEMMA LoadStep ==
    ASSUME Inv, NEW h \in Handles, Load(h)
    PROVE  Inv'
<1> USE DEF Inv
<1>0. /\ handle[h].pc = "loading" /\ ask[h] = "answered"
      /\ UNCHANGED <<pending, routes, backends, hand, net, out, agent, background, read, phase, sides, counts>>
      /\ handle' = [handle EXCEPT ![h].pc = "live"]
      /\ ask' = [ask EXCEPT ![h] = "idle"]
  BY DEF Load
<1>1. /\ handle'[h].pc = "live" /\ handle'[h].taken = handle[h].taken
      /\ handle'[h].cid = handle[h].cid /\ handle'[h].inbox = handle[h].inbox
      /\ \A g \in Handles \ {h} : handle'[g] = handle[g]
      /\ \A g \in Handles : ask'[g] = IF g = h THEN "idle" ELSE ask[g]
  BY <1>0 DEF Shapes, HandleRecords
<1>2. Flags' /\ (browser' <=> browser)
  BY DEF Load, Flags, sides
<1>3. Shapes'
  <2>1. handle' \in [Handles -> HandleRecords]
    <3>1. "live" \in Pcs /\ handle \in [Handles -> HandleRecords]
      BY DEF Pcs, Held, Shapes
    <3> QED
      BY <1>0, <3>1 DEF HandleRecords
  <2>2. ask' \in [Handles -> AskStates]
    BY <1>0 DEF Shapes, AskStates
  <2> QED
    BY <1>0, <2>1, <2>2 DEF Shapes, sides, counts
<1>4. Calls'
  BY <1>0, <1>1 DEF Calls
<1>5. Owned'
  BY <1>0, <1>1 DEF Owned
<1>6. Whole'
  <2>1. ASSUME browser PROVE hand' = None /\ \A g \in Handles : handle'[g].pc \notin {"routed", "filling"}
    BY <1>0, <1>1, <2>1 DEF Whole
  <2> QED
    BY <1>2, <2>1 DEF Whole
<1>7. BrowserStrandsNothing'
  BY <1>0, <1>2 DEF BrowserStrandsNothing
<1>8. FrameOnce'
  BY <1>0, <1>1, FramesSame DEF Shapes, counts
<1>9. RequestOnce'
  BY <1>0 DEF RequestOnce
<1>10. Awaited'
  BY <1>0, <1>1 DEF Awaited, UnderWay
<1>11. Inside'
  BY <1>0, <1>1 DEF Inside, Inspected, sides
<1>12. StoppedLeavesNoWaiter'
  BY <1>0, <1>1 DEF StoppedLeavesNoWaiter, Inspected
<1> QED
  BY <1>2, <1>3, <1>4, <1>5, <1>6, <1>7, <1>8, <1>9, <1>10, <1>11, <1>12

\* A handle that leaves takes its route and its channel with it.
LEMMA DropStep ==
    ASSUME Inv, NEW h \in Handles, Drop(h)
    PROVE  Inv'
<1> USE DEF Inv
<1>a. PICK c \in Cids : c = handle[h].cid
  BY DEF Drop, Calls
<1>0. /\ handle[h].pc \in {"loading", "live"}
      /\ UNCHANGED <<pending, backends, hand, net, out, agent, ask, background, read, phase, sides, counts>>
      /\ handle' = [handle EXCEPT ![h].pc = "gone", ![h].inbox = <<>>]
      /\ routes' = [routes EXCEPT ![c] = None]
  BY <1>a DEF Drop
<1>1. /\ handle'[h].pc = "gone" /\ handle'[h].taken = handle[h].taken
      /\ handle'[h].cid = handle[h].cid /\ handle'[h].inbox = <<>>
      /\ \A g \in Handles \ {h} : handle'[g] = handle[g]
      /\ \A d \in Cids : routes'[d] = IF d = c THEN None ELSE routes[d]
  BY <1>0 DEF Shapes, HandleRecords
<1>2. Flags' /\ (browser' <=> browser)
  BY DEF Drop, Flags, sides
<1>3. Shapes'
  <2>1. handle' \in [Handles -> HandleRecords]
    <3>1. "gone" \in Pcs /\ handle \in [Handles -> HandleRecords] /\ <<>> \in Seq(Frames)
      BY DEF Pcs, Held, Shapes
    <3> QED
      BY <1>0, <3>1 DEF HandleRecords
  <2>2. routes' \in [Cids -> Handles \cup {None}]
    BY <1>0 DEF Shapes
  <2> QED
    BY <1>0, <2>1, <2>2 DEF Shapes, sides, counts
<1>4. Calls'
  BY <1>0, <1>1 DEF Calls
<1>5. Owned'
  <2>1. \A d \in Cids, g \in Handles : routes'[d] = g => routes[d] = g
    BY <1>1, NoneIs
  <2>2. \A g \in Handles : handle'[g].cid = handle[g].cid
    BY <1>1
  <2>3. \A g \in Handles : handle[g].pc \in {"loading", "live", "gone"} => handle'[g].pc \in {"loading", "live", "gone"}
    BY <1>1
  <2>4. backends' = backends
    BY <1>0
  <2> QED
    BY <2>1, <2>2, <2>3, <2>4 DEF Owned
<1>6. Whole'
  <2>1. ASSUME browser PROVE hand' = None /\ \A g \in Handles : handle'[g].pc \notin {"routed", "filling"}
    BY <1>0, <1>1, <2>1 DEF Whole
  <2> QED
    BY <1>2, <2>1 DEF Whole
<1>7. BrowserStrandsNothing'
  <2>1. ASSUME browser, NEW d \in Cids, routes'[d] # None PROVE pending'[d] = <<>>
    BY <1>0, <1>1, <2>1 DEF BrowserStrandsNothing
  <2> QED
    BY <1>2, <2>1 DEF BrowserStrandsNothing
<1>8. FrameOnce'
  <2>1. pending' = pending /\ read' = read /\ hand' = hand /\ net' = net /\ traffic' = traffic
    BY <1>0 DEF counts
  <2>2. \A p \in Places \ {} : Contents'[p] \subseteq Contents[p]
    BY <1>1, <2>1, EachPlace, EmptySequence
  <2>3. Apart(Contents)' /\ Seen(Contents)'
    BY <2>1, <2>2, ShrunkApart DEF FrameOnce, Seen, Apart
  <2> QED
    BY <1>1, <2>1, <2>3, EmptySequence DEF FrameOnce
<1>9. RequestOnce' /\ Awaited'
  BY <1>0, RequestsStay
<1>10. Inside'
  <2>1. \A g \in Handles : handle'[g].cid = handle[g].cid
    BY <1>1
  <2>2. \A g \in Handles : handle[g].pc \in {"loading", "live", "gone"} => handle'[g].pc \in {"loading", "live", "gone"}
    BY <1>1
  <2>3. app' = app /\ backends' = backends
    BY <1>0 DEF sides
  <2> QED
    BY <2>1, <2>2, <2>3 DEF Inside, Inspected
<1>11. StoppedLeavesNoWaiter'
  <2>1. \A g \in Handles : handle'[g].cid = handle[g].cid
    BY <1>1
  <2>2. phase' = phase /\ backends' = backends /\ ask' = ask
    BY <1>0
  <2> QED
    BY <1>0, <2>1, <2>2 DEF StoppedLeavesNoWaiter, Inspected
<1> QED
  BY <1>2, <1>3, <1>4, <1>5, <1>6, <1>7, <1>8, <1>9, <1>10, <1>11

\* The ILM reads the first frame of its channel.
LEMMA NextMessageStep ==
    ASSUME Inv, NEW h \in Handles, NextMessage(h)
    PROVE  Inv'
<1> USE DEF Inv
<1>a. PICK c \in Cids : c = handle[h].cid
  BY DEF NextMessage, Calls
<1>b. /\ handle[h].inbox \in Seq(Frames) /\ handle[h].inbox # <<>> /\ Injective(handle[h].inbox)
      /\ handle[h].pc = "live"
  BY DEF NextMessage, Shapes, HandleRecords, FrameOnce
<1>x. PICK x \in Frames : x = Head(handle[h].inbox)
  BY <1>b, TailParts
<1>0. /\ UNCHANGED <<pending, routes, backends, hand, net, out, agent, ask, background, phase, sides, counts>>
      /\ handle' = [handle EXCEPT ![h].inbox = Tail(handle[h].inbox)]
      /\ read' = [read EXCEPT ![c] = @ \cup {x}]
  BY <1>a, <1>x DEF NextMessage
<1>1. /\ handle'[h].pc = "live" /\ handle'[h].taken = handle[h].taken
      /\ handle'[h].cid = handle[h].cid /\ handle'[h].inbox = Tail(handle[h].inbox)
      /\ \A g \in Handles \ {h} : handle'[g] = handle[g]
  BY <1>0, <1>b DEF Shapes, HandleRecords
<1>2. Flags' /\ (browser' <=> browser)
  BY DEF NextMessage, Flags, sides
<1>3. Shapes'
  <2>1. handle' \in [Handles -> HandleRecords]
    <3>1. Tail(handle[h].inbox) \in Seq(Frames) /\ handle \in [Handles -> HandleRecords]
      BY <1>b, TailParts DEF Shapes
    <3> QED
      BY <1>0, <3>1 DEF HandleRecords
  <2>2. read' \in [Cids -> SUBSET Frames]
    BY <1>0 DEF Shapes
  <2> QED
    BY <1>0, <2>1, <2>2 DEF Shapes, sides, counts
<1>4. Calls'
  BY <1>0, <1>1, <1>b DEF Calls
<1>5. Owned'
  BY <1>0, <1>1, <1>b DEF Owned
<1>6. Whole'
  <2>1. ASSUME browser PROVE hand' = None /\ \A g \in Handles : handle'[g].pc \notin {"routed", "filling"}
    BY <1>0, <1>1, <2>1 DEF Whole
  <2> QED
    BY <1>2, <2>1 DEF Whole
<1>7. BrowserStrandsNothing'
  BY <1>0, <1>2 DEF BrowserStrandsNothing
<1>8. FrameOnce'
  <2>1. /\ pending' = pending /\ hand' = hand /\ net' = net /\ traffic' = traffic
        /\ \A d \in Cids \ {c} : read'[d] = read[d]
        /\ read'[c] = read[c] \cup {x}
    BY <1>0 DEF counts, Shapes
  <2>2. /\ Range(handle'[h].inbox) = Range(handle[h].inbox) \ {x} /\ x \in Range(handle[h].inbox)
        /\ Injective(handle'[h].inbox)
    BY <1>1, <1>b, <1>x, RangeTail
  <2>3. /\ Contents'[<<h, "inbox">>] = Contents[<<h, "inbox">>] \ {x} /\ x \in Contents[<<h, "inbox">>]
        /\ Contents'[<<c, "read">>] = Contents[<<c, "read">>] \cup {x}
    BY <2>1, <2>2, ContentsAre
  <2>4. \A p \in Places \ {<<h, "inbox">>, <<c, "read">>} : Contents'[p] \subseteq Contents[p]
    BY <1>1, <2>1, EachPlace
  <2>5. <<h, "inbox">> # <<c, "read">> /\ <<h, "inbox">> \in Places /\ <<c, "read">> \in Places
    BY ContentsAre
  <2>6. Apart(Contents)'
    BY <2>3, <2>4, <2>5, MovedOne DEF FrameOnce, Apart
  <2>7. Seen(Contents)'
    BY <2>1, <2>3, <2>4, <2>5 DEF FrameOnce, Seen
  <2> QED
    BY <1>1, <2>1, <2>2, <2>6, <2>7 DEF FrameOnce
<1>9. RequestOnce' /\ Awaited'
  BY <1>0, RequestsStay
<1>10. Inside'
  BY <1>0, <1>1, <1>b DEF Inside, Inspected, sides
<1>11. StoppedLeavesNoWaiter'
  BY <1>0, <1>1 DEF StoppedLeavesNoWaiter, Inspected
<1> QED
  BY <1>2, <1>3, <1>4, <1>5, <1>6, <1>7, <1>8, <1>9, <1>10, <1>11

-----------------------------------------------------------------------------
(* Requests and their places.                                              *)

LEMMA RequestIs ==
    ASSUME NEW q \in Requests
    PROVE  \/ \E h \in Handles : q = [kind |-> "ask", of |-> h]
           \/ \E n \in Frames : q = [kind |-> "poll", of |-> n]
BY DEF Requests, Frames

LEMMA RequestKinds ==
    /\ \A h \in Handles : [kind |-> "ask", of |-> h] \in Requests
    /\ \A n \in Frames : [kind |-> "poll", of |-> n] \in Requests
    /\ \A q \in Requests : /\ q.kind \in {"ask", "poll"}
                           /\ q.kind = "ask" => q.of \in Handles
                           /\ q.kind = "poll" => q.of \in Frames
    /\ \A q, r \in Requests : q.kind = r.kind /\ q.of = r.of => q = r
<1>1. \A q \in Requests : /\ q.kind \in {"ask", "poll"}
                          /\ q.kind = "ask" => q.of \in Handles
                          /\ q.kind = "poll" => q.of \in Frames
                          /\ q = [kind |-> q.kind, of |-> q.of]
  BY RequestIs
<1> QED
  BY <1>1 DEF Requests, Frames

LEMMA OutIs ==
    ASSUME NEW m \in OutMsgs
    PROVE  \/ m.kind = "frame" /\ m \notin Requests
           \/ m \in Requests /\ m.kind # "frame"
<1>1. CASE m \in Requests
  BY <1>1, RequestKinds
<1>2. CASE m \in [kind : {"frame"}, sendable : BOOLEAN]
  <2>1. m.kind = "frame"
    BY <1>2
  <2> QED
    BY <2>1, RequestKinds
<1> QED
  BY <1>1, <1>2 DEF OutMsgs

\* A step after which no channel holds a request it did not hold.
LEMMA RequestsFewer ==
    ASSUME RequestOnce, NoTwice(net'), NoTwice(out'),
           \A q \in Requests : /\ Among(q, out') => Among(q, out)
                               /\ q \in agent' => q \in agent
                               /\ Among(q, net') => Among(q, net)
    PROVE  RequestOnce' /\ \A q \in Requests : UnderWay(q)' => UnderWay(q)
BY DEF RequestOnce, UnderWay

\* Awaited, for a step that lets no request under way be forgotten.
LEMMA AwaitedStays ==
    ASSUME Awaited,
           \A q \in Requests : UnderWay(q)' => UnderWay(q),
           phase' # "stopped" => phase # "stopped",
           \A h \in Handles : UnderWay([kind |-> "ask", of |-> h])' /\ ask[h] = "waiting" => ask'[h] = "waiting",
           \A n \in Frames : UnderWay([kind |-> "poll", of |-> n])' /\ n \in background => n \in background',
           phase' # "running" => out' = <<>>
    PROVE  Awaited'
<1>1. ASSUME NEW h \in Handles, UnderWay([kind |-> "ask", of |-> h])', phase' # "stopped"
      PROVE  ask'[h] = "waiting"
  BY <1>1, RequestKinds DEF Awaited
<1>2. ASSUME NEW n \in Frames, UnderWay([kind |-> "poll", of |-> n])'
      PROVE  n \in background'
  BY <1>2, RequestKinds DEF Awaited
<1> QED
  BY <1>1, <1>2 DEF Awaited

-----------------------------------------------------------------------------
(* The callers' requests and frames.                                       *)

\* The bound on the traffic, one further.
LEMMA TrafficGrows ==
    ASSUME Shapes, traffic < MaxTraffic, traffic' = traffic + 1
    PROVE  /\ traffic' \in 0..MaxTraffic /\ traffic \in Nat /\ traffic' \in Nat /\ traffic <= traffic'
           /\ 1..traffic \subseteq 1..traffic' /\ traffic + 1 \in Frames
           /\ background \in SUBSET (1..traffic')
<1>1. traffic \in 0..MaxTraffic /\ MaxTraffic \in Nat /\ background \subseteq 1..traffic
  BY BoundsAreNat DEF Shapes
<1>2. traffic \in Nat /\ traffic' \in Nat /\ traffic <= traffic' /\ traffic' \in 0..MaxTraffic
  BY <1>1
<1>3. 1..traffic \subseteq 1..traffic' /\ traffic + 1 \in Frames
  BY <1>1, <1>2 DEF Frames
<1> QED
  BY <1>1, <1>2, <1>3

\* A frame queued for the connection is no request.
LEMMA SendMessageStep ==
    ASSUME Inv, NEW h \in Handles, NEW p \in Payloads, NEW e \in Extensions, SendMessage(h, p, e)
    PROVE  Inv'
<1> USE DEF Inv
<1>x. PICK x \in OutMsgs : x = [kind |-> "frame", sendable |-> to_request(p, e).wire # "Refused"]
  <2>1. \A b \in BOOLEAN : [kind |-> "frame", sendable |-> b] \in OutMsgs
    BY DEF OutMsgs
  <2>2. (to_request(p, e).wire # "Refused") \in BOOLEAN
    OBVIOUS
  <2> QED
    BY <2>1, <2>2
<1>0. /\ UNCHANGED <<handle, routes, backends, pending, hand, net, agent, ask, background, read, phase, sides, asked>>
      /\ traffic' = traffic + 1 /\ traffic < MaxTraffic /\ phase # "stopped"
      /\ out' = IF phase = "running" THEN Append(out, x) ELSE out
  BY <1>x DEF SendMessage
<1>1. Flags' /\ (browser' <=> browser)
  BY DEF SendMessage, Flags, sides
<1>2. Shapes'
  <2>1. out' \in Seq(OutMsgs)
    BY <1>0 DEF Shapes
  <2> QED
    BY <1>0, <2>1, TrafficGrows DEF Shapes, sides
<1>3. Calls' /\ Owned'
  BY <1>0 DEF Calls, Owned
<1>4. Whole' /\ BrowserStrandsNothing'
  BY <1>0, <1>1 DEF Whole, BrowserStrandsNothing
<1>5. FrameOnce'
  BY <1>0, TrafficGrows, FramesStay
<1>6. NoTwice(out') /\ \A q \in Requests : Among(q, out') => Among(q, out)
  <2>1. x.kind = "frame" /\ out \in Seq(OutMsgs)
    BY <1>x DEF Shapes
  <2>2. \A i \in 1..Len(out) : ~Same(out[i], x) /\ ~Same(x, out[i])
    BY <2>1 DEF Same
  <2>3. NoTwice(Append(out, x))
    BY <2>1, <2>2, NoTwiceAppend DEF RequestOnce
  <2>4. \A q \in Requests : Among(q, Append(out, x)) => Among(q, out)
    BY <2>1, AmongAppend, RequestKinds
  <2> QED
    BY <1>0, <2>3, <2>4 DEF RequestOnce
<1>7. RequestOnce' /\ \A q \in Requests : UnderWay(q)' => UnderWay(q)
  BY <1>0, <1>6, RequestsFewer DEF RequestOnce
<1>8. Awaited'
  <2>1. phase' # "running" => out' = <<>>
    BY <1>0 DEF Awaited
  <2> QED
    BY <1>0, <1>7, <2>1, AwaitedStays
<1>9. Inside'
  BY <1>0 DEF Inside, Inspected, sides
<1>10. StoppedLeavesNoWaiter'
  BY <1>0 DEF StoppedLeavesNoWaiter, Inspected
<1> QED
  BY <1>1, <1>2, <1>3, <1>4, <1>5, <1>7, <1>8, <1>9, <1>10

\* A slot for a reply: no request of this handle is under way.
LEMMA RegisterStep ==
    ASSUME Inv, NEW h \in Handles, Register(h)
    PROVE  Inv'
<1> USE DEF Inv
<1>0. /\ UNCHANGED <<handle, routes, backends, pending, hand, net, out, agent, background, read, phase, sides, traffic>>
      /\ handle[h].pc \in {"loading", "live"} /\ ask[h] \in {"idle", "answered", "failed"}
      /\ ask' = [ask EXCEPT ![h] = "registered"] /\ asked' = [asked EXCEPT ![h] = @ + 1]
  BY DEF Register
<1>1. Flags' /\ (browser' <=> browser)
  BY DEF Register, Flags, sides
<1>2. Shapes'
  <2>1. ask' \in [Handles -> AskStates]
    BY <1>0 DEF Shapes, AskStates
  <2>2. asked' \in [Handles -> Nat]
    BY <1>0 DEF Shapes
  <2> QED
    BY <1>0, <2>1, <2>2 DEF Shapes, sides
<1>a. \A g \in Handles : ask'[g] = IF g = h THEN "registered" ELSE ask[g]
  BY <1>0 DEF Shapes
<1>3. Calls'
  BY <1>0, <1>a DEF Calls
<1>4. Owned'
  BY <1>0 DEF Owned
<1>5. Whole' /\ BrowserStrandsNothing'
  BY <1>0, <1>1 DEF Whole, BrowserStrandsNothing
<1>6. FrameOnce'
  BY <1>0, FramesSame
<1>7. RequestOnce'
  BY <1>0 DEF RequestOnce
<1>8. Awaited'
  BY <1>0, <1>a DEF Awaited, UnderWay
<1>9. Inside'
  BY <1>0 DEF Inside, Inspected, sides
<1>10. StoppedLeavesNoWaiter'
  BY <1>0, <1>a DEF StoppedLeavesNoWaiter, Inspected
<1> QED
  BY <1>1, <1>2, <1>3, <1>4, <1>5, <1>6, <1>7, <1>8, <1>9, <1>10

\* The request leaves, and is the only one of its handle under way; or the
\* tasks have ended and it fails.
LEMMA SendRequestStep ==
    ASSUME Inv, NEW h \in Handles, SendRequest(h)
    PROVE  Inv'
<1> USE DEF Inv
<1>x. PICK x \in Requests : x = [kind |-> "ask", of |-> h]
  BY RequestKinds
<1>0. /\ UNCHANGED <<handle, routes, backends, pending, hand, net, agent, background, read, phase, sides, counts>>
      /\ ask[h] = "registered"
  BY DEF SendRequest
<1>1. Flags' /\ (browser' <=> browser)
  BY DEF SendRequest, Flags, sides
<1>2. \/ /\ phase = "running" /\ out' = Append(out, x)
         /\ ask' = [ask EXCEPT ![h] = "waiting"]
      \/ /\ phase # "running" /\ out' = out
         /\ ask' = [ask EXCEPT ![h] = "failed"]
  BY <1>x DEF SendRequest
<1>a. \A g \in Handles \ {h} : ask'[g] = ask[g]
  BY <1>2 DEF Shapes
<1>b. ask'[h] = IF phase = "running" THEN "waiting" ELSE "failed"
  BY <1>2 DEF Shapes
<1>c. x \in OutMsgs /\ out \in Seq(OutMsgs)
  BY DEF OutMsgs, Shapes
<1>3. Shapes'
  <2>1. ask' \in [Handles -> AskStates]
    BY <1>2 DEF Shapes, AskStates
  <2>2. out' \in Seq(OutMsgs)
    BY <1>2, <1>c
  <2> QED
    BY <1>0, <2>1, <2>2 DEF Shapes, sides, counts
<1>4. Calls'
  BY <1>0, <1>a DEF Calls
<1>5. Owned'
  BY <1>0 DEF Owned
<1>6. Whole' /\ BrowserStrandsNothing'
  BY <1>0, <1>1 DEF Whole, BrowserStrandsNothing
<1>7. FrameOnce'
  BY <1>0, FramesSame DEF counts
<1>8. phase # "stopped" => ~UnderWay(x)
  BY <1>0, <1>x DEF Awaited
<1>9. ASSUME phase = "running" PROVE RequestOnce' /\ Awaited'
  <2>1. out' = Append(out, x) /\ ~UnderWay(x) /\ phase' = phase
    BY <1>0, <1>2, <1>8, <1>9
  <2>2. NoTwice(out')
    <3>1. \A i \in 1..Len(out) : ~(out[i].kind = "ask" /\ out[i].of = h)
      BY <1>x, <2>1 DEF UnderWay, Among
    <3>2. \A i \in 1..Len(out) : ~Same(out[i], x) /\ ~Same(x, out[i])
      BY <1>x, <3>1 DEF Same
    <3> QED
      BY <1>c, <2>1, <3>2, NoTwiceAppend DEF RequestOnce
  <2>3. \A q \in Requests : Among(q, out') <=> Among(q, out) \/ q = x
    BY <1>c, <2>1, AmongAppend, RequestKinds
  <2>4. RequestOnce'
    BY <1>0, <2>1, <2>2, <2>3 DEF RequestOnce, UnderWay
  <2>5. \A q \in Requests : UnderWay(q)' => UnderWay(q) \/ q = x
    BY <1>0, <2>3 DEF UnderWay
  <2>6. \A g \in Handles \ {h} : [kind |-> "ask", of |-> g] # x
    BY <1>x
  <2>7. \A n \in Frames : [kind |-> "poll", of |-> n] # x
    BY <1>x
  <2>8. Awaited'
    <3>1. ASSUME NEW g \in Handles, UnderWay([kind |-> "ask", of |-> g])' PROVE ask'[g] = "waiting"
      BY <1>9, <1>a, <1>b, <2>5, <2>6, <3>1, RequestKinds DEF Awaited
    <3>2. ASSUME NEW n \in Frames, UnderWay([kind |-> "poll", of |-> n])' PROVE n \in background'
      BY <1>0, <2>5, <2>7, <3>2, RequestKinds DEF Awaited
    <3> QED
      BY <1>9, <2>1, <3>1, <3>2 DEF Awaited
  <2> QED
    BY <2>4, <2>8
<1>10. ASSUME phase # "running" PROVE RequestOnce' /\ Awaited'
  <2>1. out' = out
    BY <1>2, <1>10
  <2>2. RequestOnce' /\ \A q \in Requests : UnderWay(q)' => UnderWay(q)
    BY <1>0, <2>1 DEF RequestOnce, UnderWay
  <2>3. ASSUME NEW g \in Handles, ask[g] = "waiting" PROVE ask'[g] = "waiting"
    BY <1>0, <1>a, <2>3
  <2>4. Awaited'
    BY <1>0, <2>1, <2>2, <2>3, AwaitedStays DEF Awaited
  <2> QED
    BY <2>2, <2>4
<1>11. Inside'
  BY <1>0 DEF Inside, Inspected, sides
<1>12. StoppedLeavesNoWaiter'
  BY <1>0, <1>a, <1>b DEF StoppedLeavesNoWaiter, Inspected
<1> QED
  BY <1>1, <1>3, <1>4, <1>5, <1>6, <1>7, <1>9, <1>10, <1>11, <1>12

-----------------------------------------------------------------------------
(* The connection's task.                                                  *)

\* The queue's first entry has left it.
LEMMA Unqueued ==
    ASSUME Inv, out # <<>>
    PROVE  /\ Head(out) \in OutMsgs /\ Tail(out) \in Seq(OutMsgs) /\ NoTwice(Tail(out))
           /\ \A q \in Requests : Among(q, Tail(out)) => Among(q, out)
           /\ Head(out) \in Requests => Among(Head(out), out) /\ ~Among(Head(out), Tail(out))
<1>1. out \in Seq(OutMsgs) /\ NoTwice(out)
  BY DEF Inv, Shapes, RequestOnce
<1>2. Head(out) \in Requests => Among(Head(out), out) /\ ~Among(Head(out), Tail(out))
  BY <1>1, AmongTail, RequestKinds
<1> QED
  BY <1>1, <1>2, TailParts, NoTwiceTail, AmongTail

\* A request reaches the agent.
LEMMA OutboundSentStep ==
    ASSUME Inv, Running, out # <<>>, out' = Tail(out),
           agent' = IF Head(out).kind = "frame" THEN agent ELSE agent \cup {Head(out)},
           UNCHANGED <<ask, phase>>,
           UNCHANGED <<browser, handle, routes, backends, pending, hand, net, background, read, link, sides, counts>>
    PROVE  Inv'
<1> USE DEF Inv
<1>1. Flags' /\ (browser' <=> browser)
  BY DEF Flags, sides
<1>2. \/ agent' = agent
      \/ agent' = agent \cup {Head(out)} /\ Head(out) \in Requests
  BY Unqueued, OutIs
<1>3. Shapes'
  <2>1. agent' \in SUBSET Requests
    BY <1>2 DEF Shapes
  <2> QED
    BY <2>1, Unqueued DEF Shapes, sides, counts
<1>4. Calls' /\ Owned'
  BY DEF Calls, Owned
<1>5. Whole' /\ BrowserStrandsNothing'
  BY <1>1 DEF Whole, BrowserStrandsNothing
<1>6. FrameOnce'
  BY FramesSame DEF counts
<1>7. RequestOnce'
  BY <1>2, Unqueued DEF RequestOnce
<1>8. \A q \in Requests : UnderWay(q)' => UnderWay(q)
  BY <1>2, Unqueued DEF UnderWay
<1>9. Awaited'
  BY <1>8, AwaitedStays DEF Running
<1>10. Inside'
  BY DEF Inside, Inspected, sides
<1>11. StoppedLeavesNoWaiter'
  BY DEF StoppedLeavesNoWaiter, Inspected
<1> QED
  BY <1>1, <1>3, <1>4, <1>5, <1>6, <1>7, <1>9, <1>10, <1>11

\* A refused request is abandoned: it is under way no more.
LEMMA OutboundRefusedStep ==
    ASSUME Inv, Running, out # <<>>, out' = Tail(out),
           ask' = IF Head(out).kind = "ask" /\ Inspected(Head(out).of)
                  THEN [ask EXCEPT ![Head(out).of] = "failed"] ELSE ask,
           UNCHANGED <<agent, phase>>,
           UNCHANGED <<browser, handle, routes, backends, pending, hand, net, background, read, link, sides, counts>>
    PROVE  Inv'
<1> USE DEF Inv
<1>1. Flags' /\ (browser' <=> browser)
  BY DEF Flags, sides
<1>2. \/ ask' = ask
      \/ /\ Head(out) \in Requests /\ Head(out).kind = "ask" /\ Head(out).of \in Handles
         /\ ask' = [ask EXCEPT ![Head(out).of] = "failed"]
  BY Unqueued, OutIs, RequestKinds
<1>3. Shapes'
  <2>1. ask' \in [Handles -> AskStates]
    BY <1>2 DEF Shapes, AskStates
  <2> QED
    BY <2>1, Unqueued DEF Shapes, sides, counts
<1>a. RequestOnce' /\ \A q \in Requests : UnderWay(q)' => UnderWay(q)
  <2>1. NoTwice(net') /\ NoTwice(out') /\ \A q \in Requests : Among(q, out') => Among(q, out)
    BY Unqueued DEF RequestOnce
  <2> QED
    BY <2>1, RequestsFewer
<1>b. \A h \in Handles : ask'[h] = ask[h] \/ (Head(out) = [kind |-> "ask", of |-> h] /\ Head(out) \in Requests)
  <2>1. Head(out) \in Requests /\ Head(out).kind = "ask" => Head(out) = [kind |-> "ask", of |-> Head(out).of]
    BY RequestIs
  <2> QED
    BY <1>2, <2>1 DEF Shapes
<1>c. \A h \in Handles : handle[h].pc \in {"none", "routed", "filling"} => ask'[h] = "idle"
  <2>1. ASSUME NEW h \in Handles, Head(out) = [kind |-> "ask", of |-> h], Head(out) \in Requests
        PROVE  ask[h] = "waiting"
    BY <2>1, Unqueued DEF Awaited, UnderWay, Running
  <2> QED
    BY <1>b, <2>1 DEF Calls
<1>4. Calls'
  BY <1>c DEF Calls
<1>5. Owned'
  BY DEF Owned
<1>6. Whole' /\ BrowserStrandsNothing'
  BY <1>1 DEF Whole, BrowserStrandsNothing
<1>7. FrameOnce'
  BY FramesSame DEF counts
<1>8. ASSUME NEW h \in Handles, UnderWay([kind |-> "ask", of |-> h])', ask[h] = "waiting"
      PROVE  ask'[h] = "waiting"
  <2>1. CASE ask'[h] = ask[h]
    BY <1>8, <2>1
  <2>2. CASE Head(out) = [kind |-> "ask", of |-> h] /\ Head(out) \in Requests
    <3>1. Among(Head(out), out) /\ ~Among(Head(out), out')
      BY <2>2, Unqueued
    <3>2. Head(out) \notin agent' /\ ~Among(Head(out), net')
      BY <2>2, <3>1 DEF RequestOnce
    <3> QED
      BY <1>8, <2>2, <3>1, <3>2 DEF UnderWay
  <2> QED
    BY <1>b, <2>1, <2>2
<1>9. Awaited'
  BY <1>8, <1>a, AwaitedStays DEF Running
<1>10. Inside'
  BY DEF Inside, Inspected, sides
<1>11. StoppedLeavesNoWaiter'
  BY DEF StoppedLeavesNoWaiter, Running
<1> QED
  BY <1>1, <1>3, <1>4, <1>5, <1>6, <1>7, <1>9, <1>10, <1>11, <1>a

\* The first message of the connection has been taken off it.
LEMMA Heard ==
    ASSUME Inv, net # <<>>
    PROVE  /\ Head(net) \in NetMsgs /\ Tail(net) \in Seq(NetMsgs) /\ NoTwice(Tail(net))
           /\ \A q \in Requests : Among(q, Tail(net)) => Among(q, net)
           /\ \A q \in Requests : Head(net).kind = q.kind /\ Head(net).of = q.of =>
                 Among(q, net) /\ ~Among(q, Tail(net))
           /\ FramesOf(Tail(net)) \subseteq FramesOf(net)
<1>1. net \in Seq(NetMsgs) /\ NoTwice(net)
  BY DEF Inv, Shapes, RequestOnce
<1>2. \A q \in Requests : Head(net).kind = q.kind /\ Head(net).of = q.of =>
          Among(q, net) /\ ~Among(q, Tail(net))
  BY <1>1, AmongTail, RequestKinds
<1> QED
  BY <1>1, <1>2, TailParts, NoTwiceTail, AmongTail, FramesTail

LEMMA NetIs ==
    ASSUME NEW m \in NetMsgs
    PROVE  /\ m.kind = "notification" => m.id \in Frames /\ m.cid \in Cids
           /\ m.kind = "ask" => m.of \in Handles
           /\ m.kind = "poll" => m.of \in Frames
<1>1. CASE m \in {Junk, Other}
  BY <1>1 DEF Junk, Other
<1>2. CASE m \in [kind : {"notification"}, id : Frames, cid : Cids, as : {"Frame", "NotAFrame", "Unreadable"}]
  BY <1>2
<1>3. CASE m \in [kind : {"ask"}, of : Handles]
  BY <1>3
<1>4. CASE m \in [kind : {"poll"}, of : Frames, sessions : SUBSET Cids]
  BY <1>4
<1> QED
  BY <1>1, <1>2, <1>3, <1>4 DEF NetMsgs

\* Frames may leave the wire without a trace.
LEMMA FramesFewer ==
    ASSUME FrameOnce, UNCHANGED <<handle, pending, hand, read, traffic>>,
           FramesOf(net') \subseteq FramesOf(net)
    PROVE  FrameOnce'
<1>1. \A p \in Places \ {} : Contents'[p] \subseteq Contents[p]
  BY EachPlace
<1>2. Apart(Contents)' /\ Seen(Contents)'
  BY <1>1, ShrunkApart DEF FrameOnce, Seen, Apart
<1> QED
  BY <1>2 DEF FrameOnce

\* The steps that drop a message, end the tasks, or both.
LEMMA DroppedStep ==
    ASSUME Inv, Running,
           (phase' = phase /\ out' = out) \/ EndTasks,
           net' = net \/ (net # <<>> /\ net' = Tail(net)),
           junk' \in Nat, phase' = "running" => junk' < GiveUpAfter,
           UNCHANGED <<browser, handle, routes, backends, pending, hand, agent, ask, background, read, link, appOpen, app, counts>>
    PROVE  Inv'
<1> USE DEF Inv
<1>1. Flags' /\ (browser' <=> browser)
  BY DEF Flags
<1>0. /\ net' \in Seq(NetMsgs) /\ NoTwice(net') /\ FramesOf(net') \subseteq FramesOf(net)
      /\ \A q \in Requests : Among(q, net') => Among(q, net)
  <2>1. CASE net' = net
    BY <2>1 DEF RequestOnce, Shapes
  <2>2. CASE net # <<>> /\ net' = Tail(net)
    BY <2>2, Heard
  <2> QED
    BY <2>1, <2>2
<1>a. /\ out' \in Seq(OutMsgs) /\ NoTwice(out') /\ \A q \in Requests : Among(q, out') => Among(q, out)
      /\ phase' \in {"running", "ended"} /\ (phase' # "running" => out' = <<>>)
  <2>1. CASE phase' = phase /\ out' = out
    BY <2>1 DEF RequestOnce, Shapes, Running
  <2>2. CASE EndTasks
    <3>1. out' = <<>> /\ phase' = "ended"
      BY <2>2 DEF EndTasks
    <3>2. <<>> \in Seq(OutMsgs) /\ Len(<<>>) = 0
      OBVIOUS
    <3>3. \A q \in Requests : ~Among(q, out')
      BY <3>1, <3>2 DEF Among
    <3>4. NoTwice(out')
      BY <3>1, <3>2 DEF NoTwice
    <3> QED
      BY <3>1, <3>2, <3>3, <3>4
  <2> QED
    BY <2>1, <2>2
<1>2. Shapes'
  BY <1>0, <1>a DEF Shapes, counts
<1>3. Calls' /\ Owned'
  BY DEF Calls, Owned
<1>4. Whole' /\ BrowserStrandsNothing'
  BY <1>1 DEF Whole, BrowserStrandsNothing
<1>5. FrameOnce'
  BY <1>0, FramesFewer DEF counts
<1>6. RequestOnce' /\ \A q \in Requests : UnderWay(q)' => UnderWay(q)
  BY <1>0, <1>a, RequestsFewer
<1>7. Awaited'
  BY <1>6, <1>a, AwaitedStays DEF Running
<1>8. Inside'
  BY DEF Inside, Inspected
<1>9. StoppedLeavesNoWaiter'
  BY <1>a DEF StoppedLeavesNoWaiter
<1> QED
  BY <1>1, <1>2, <1>3, <1>4, <1>5, <1>6, <1>7, <1>8, <1>9

LEMMA OutboundStep ==
    ASSUME Inv, Outbound
    PROVE  Inv'
<1>0. Running /\ out # <<>>
      /\ UNCHANGED <<browser, handle, routes, backends, pending, hand, net, background, read, link, sides, counts>>
  BY DEF Outbound
<1>1. CASE /\ out' = Tail(out) /\ UNCHANGED <<ask, phase>>
           /\ agent' = IF Head(out).kind = "frame" THEN agent ELSE agent \cup {Head(out)}
  BY <1>0, <1>1, OutboundSentStep
<1>2. CASE EndTasks /\ UNCHANGED <<agent, ask>>
  <2>1. junk' = junk /\ junk \in Nat /\ phase' # "running" /\ app' = app /\ appOpen' = appOpen
    BY <1>0, <1>2 DEF EndTasks, sides, Inv, Shapes
  <2> QED
    BY <1>0, <1>2, <2>1, DroppedStep
<1>3. CASE /\ out' = Tail(out) /\ UNCHANGED <<agent, phase>>
           /\ ask' = IF Head(out).kind = "ask" /\ Inspected(Head(out).of)
                     THEN [ask EXCEPT ![Head(out).of] = "failed"] ELSE ask
  BY <1>0, <1>3, OutboundRefusedStep
<1> QED
  BY <1>1, <1>2, <1>3 DEF Outbound

LEMMA SkipUnreadableStep ==
    ASSUME Inv, SkipUnreadable
    PROVE  Inv'
<1>1. /\ Running /\ net # <<>> /\ net' = Tail(net)
      /\ UNCHANGED <<browser, handle, routes, backends, pending, hand, agent, ask, background, read, link, appOpen, app, counts>>
      /\ junk' = junk + 1 /\ ((phase' = phase /\ out' = out) \/ EndTasks)
  BY DEF SkipUnreadable, Hear
<1>2. junk' \in Nat /\ junk \in Nat /\ GiveUpAfter \in Nat
  BY <1>1, BoundsAreNat DEF Inv, Shapes
<1>3. phase' = "running" => junk' < GiveUpAfter
  <2>1. CASE junk + 1 >= GiveUpAfter
    BY <2>1 DEF SkipUnreadable, EndTasks
  <2>2. CASE ~(junk + 1 >= GiveUpAfter)
    BY <1>1, <1>2, <2>2
  <2> QED
    BY <2>1, <2>2
<1> QED
  BY <1>1, <1>2, <1>3, DroppedStep

LEMMA StreamEndsStep ==
    ASSUME Inv, StreamEnds
    PROVE  Inv'
<1>1. /\ Running /\ EndTasks /\ net' = net
      /\ UNCHANGED <<browser, handle, routes, backends, pending, hand, agent, ask, background, read, link, appOpen, app, counts>>
      /\ junk' = junk
  BY DEF StreamEnds, sides
<1>2. junk' \in Nat /\ phase' # "running"
  BY <1>1 DEF Inv, Shapes, EndTasks
<1> QED
  BY <1>1, <1>2, DroppedStep

\* Every request in the map of a backend in use is abandoned.
LEMMA AbandonStep ==
    ASSUME Inv, Abandon
    PROVE  Inv'
<1> USE DEF Inv
<1>0. /\ phase = "ended" /\ phase' = "stopped"
      /\ UNCHANGED <<handle, routes, backends, pending, hand, net, out, agent, background, read, sides, counts>>
      /\ ask' = [h \in Handles |->
                   IF ask[h] \in {"registered", "waiting"} /\ Inspected(h) THEN "failed" ELSE ask[h]]
  BY DEF Abandon
<1>1. Flags' /\ (browser' <=> browser)
  BY DEF Abandon, Flags, sides
<1>2. Shapes'
  <2>1. ask' \in [Handles -> AskStates]
    BY <1>0 DEF Shapes, AskStates
  <2> QED
    BY <1>0, <2>1 DEF Shapes, sides, counts
<1>3. Calls'
  BY <1>0 DEF Calls
<1>4. Owned'
  BY <1>0 DEF Owned
<1>5. Whole' /\ BrowserStrandsNothing'
  BY <1>0, <1>1 DEF Whole, BrowserStrandsNothing
<1>6. FrameOnce'
  BY <1>0, FramesSame DEF counts
<1>7. RequestOnce'
  BY <1>0 DEF RequestOnce
<1>8. Awaited'
  BY <1>0 DEF Awaited, UnderWay
<1>9. Inside'
  BY <1>0 DEF Inside, Inspected, sides
<1>10. StoppedLeavesNoWaiter'
  BY <1>0 DEF StoppedLeavesNoWaiter, Inspected
<1> QED
  BY <1>1, <1>2, <1>3, <1>4, <1>5, <1>6, <1>7, <1>8, <1>9, <1>10

\* The frame at the head of the wire, on its way to one other place.
LEMMA RoutedOnce ==
    ASSUME Inv, net # <<>>, net' = Tail(net), Head(net).kind = "notification",
           NEW dst \in Places, dst # <<None, "net">>,
           Contents'[dst] = Contents[dst] \cup {Head(net).id},
           \A p \in Places \ {<<None, "net">>, dst} : Contents'[p] \subseteq Contents[p],
           traffic' = traffic
    PROVE  /\ Apart(Contents)' /\ Seen(Contents)'
           /\ \A p \in Places \ {<<None, "net">>} : Head(net).id \notin Contents[p]
<1>x. PICK x : x = Head(net).id
  OBVIOUS
<1>1. Contents'[<<None, "net">>] = Contents[<<None, "net">>] \ {x} /\ x \in Contents[<<None, "net">>]
  <2>1. net \in Seq(NetMsgs) /\ NoTwice(net)
    BY DEF Inv, Shapes, RequestOnce
  <2>2. FramesOf(net') = FramesOf(net) \ {x} /\ x \in FramesOf(net)
    BY <1>x, <2>1, FramesTail
  <2> QED
    BY <2>2, ContentsAre
<1>2. <<None, "net">> \in Places
  BY ContentsAre
<1>3. Apart(Contents)'
  BY <1>1, <1>2, <1>x, MovedOne DEF Inv, FrameOnce, Apart
<1>4. Seen(Contents)'
  BY <1>1, <1>2, <1>x DEF Inv, FrameOnce, Seen
<1>5. \A p \in Places \ {<<None, "net">>} : x \notin Contents[p]
  BY <1>1, <1>2 DEF Inv, FrameOnce, Apart
<1> QED
  BY <1>3, <1>4, <1>5, <1>x

\* What routing a frame leaves as it was.
LEMMA RoutedRest ==
    ASSUME Inv, Running, net # <<>>, net' = Tail(net), junk' = 0,
           UNCHANGED <<browser, routes, backends, agent, ask, background, read, link, appOpen, app, counts, phase, out>>,
           \A h \in Handles : handle'[h].cid = handle[h].cid /\ handle'[h].pc = handle[h].pc
    PROVE  /\ Flags' /\ (browser' <=> browser) /\ Owned' /\ RequestOnce' /\ Awaited' /\ Inside'
           /\ StoppedLeavesNoWaiter'
           /\ junk' \in Nat /\ (phase' = "running" => junk' < GiveUpAfter)
<1> USE DEF Inv
<1>1. Flags' /\ (browser' <=> browser)
  BY DEF Flags
<1>2. Owned'
  BY DEF Owned
<1>3. RequestOnce' /\ \A q \in Requests : UnderWay(q)' => UnderWay(q)
  <2>1. NoTwice(net') /\ NoTwice(out') /\ \A q \in Requests : Among(q, net') => Among(q, net)
    BY Heard DEF RequestOnce
  <2> QED
    BY <2>1, RequestsFewer
<1>4. Awaited'
  BY <1>3, AwaitedStays DEF Running
<1>5. Inside'
  BY DEF Inside, Inspected
<1>6. StoppedLeavesNoWaiter'
  BY DEF StoppedLeavesNoWaiter, Running
<1>7. junk' \in Nat /\ junk' < GiveUpAfter
  BY BoundsAreNat
<1> QED
  BY <1>1, <1>2, <1>3, <1>4, <1>5, <1>6, <1>7

\* To the channel of the account's route.
LEMMA RouteToHandleStep ==
    ASSUME Inv, Running, net # <<>>, net' = Tail(net), junk' = 0, Head(net).kind = "notification",
           NEW h \in Handles,
           handle' = [handle EXCEPT ![h].inbox = Append(@, Head(net).id)],
           UNCHANGED <<pending, hand>>,
           UNCHANGED <<browser, routes, backends, agent, ask, background, read, link, appOpen, app, counts, phase, out>>,
           routes[Head(net).cid] = h
    PROVE  Inv'
<1> USE DEF Inv
<1>x. PICK x \in Frames : x = Head(net).id
  BY Heard, NetIs
<1>a. handle[h].inbox \in Seq(Frames) /\ handle \in [Handles -> HandleRecords]
  BY DEF Shapes, HandleRecords
<1>1. /\ handle'[h].pc = handle[h].pc /\ handle'[h].taken = handle[h].taken
      /\ handle'[h].cid = handle[h].cid /\ handle'[h].inbox = Append(handle[h].inbox, x)
      /\ \A g \in Handles \ {h} : handle'[g] = handle[g]
  BY <1>a, <1>x DEF HandleRecords
<1>2. /\ Flags' /\ (browser' <=> browser) /\ Owned' /\ RequestOnce' /\ Awaited' /\ Inside'
      /\ StoppedLeavesNoWaiter'
      /\ junk' \in Nat /\ (phase' = "running" => junk' < GiveUpAfter)
  BY <1>1, RoutedRest
<1>3. Shapes'
  <2>1. handle' \in [Handles -> HandleRecords]
    <3>1. Append(handle[h].inbox, x) \in Seq(Frames)
      BY <1>a
    <3> QED
      BY <1>a, <1>x, <3>1 DEF HandleRecords
  <2> QED
    BY <1>2, <2>1, Heard DEF Shapes, counts
<1>b. handle[h].pc # "none"
  <2>1. handle[h].cid \in Cids
    BY Heard, NetIs DEF Owned
  <2> QED
    BY <2>1, NoneIs DEF Calls, Idle
<1>4. Calls'
  BY <1>1, <1>b DEF Calls
<1>5. Whole' /\ BrowserStrandsNothing'
  BY <1>1, <1>2 DEF Whole, BrowserStrandsNothing
<1>6. FrameOnce'
  <2>1. Contents'[<<h, "inbox">>] = Contents[<<h, "inbox">>] \cup {x}
    <3>1. Range(handle'[h].inbox) = Range(handle[h].inbox) \cup {x}
      BY <1>1, <1>a, RangeAppend
    <3> QED
      BY <3>1, ContentsAre
  <2>2. \A p \in Places \ {<<None, "net">>, <<h, "inbox">>} : Contents'[p] \subseteq Contents[p]
    BY <1>1, EachPlace
  <2>3. <<h, "inbox">> \in Places /\ <<h, "inbox">> # <<None, "net">> /\ traffic' = traffic
    BY ContentsAre DEF counts
  <2>4. Apart(Contents)' /\ Seen(Contents)' /\ x \notin Contents[<<h, "inbox">>]
    BY <1>x, <2>1, <2>2, <2>3, RoutedOnce
  <2>5. Injective(handle'[h].inbox)
    <3>1. x \notin Range(handle[h].inbox) /\ Injective(handle[h].inbox)
      BY <2>4, ContentsAre DEF FrameOnce
    <3> QED
      BY <1>1, <1>a, <3>1, InjectiveAppend
  <2> QED
    BY <1>1, <2>4, <2>5 DEF FrameOnce
<1> QED
  BY <1>2, <1>3, <1>4, <1>5, <1>6

\* To the account's queue, in the browser in one step.
LEMMA RouteToQueueStep ==
    ASSUME Inv, Running, net # <<>>, net' = Tail(net), junk' = 0, Head(net).kind = "notification",
           pending' = [pending EXCEPT ![Head(net).cid] = Append(@, Head(net).id)],
           UNCHANGED <<handle, hand>>,
           UNCHANGED <<browser, routes, backends, agent, ask, background, read, link, appOpen, app, counts, phase, out>>,
           routes[Head(net).cid] = None
    PROVE  Inv'
<1> USE DEF Inv
<1>x. PICK x \in Frames : x = Head(net).id
  BY Heard, NetIs
<1>c. PICK c \in Cids : c = Head(net).cid
  BY Heard, NetIs
<1>a. pending[c] \in Seq(Frames)
  BY DEF Shapes
<1>1. pending'[c] = Append(pending[c], x) /\ \A d \in Cids \ {c} : pending'[d] = pending[d]
  BY <1>a, <1>c, <1>x DEF Shapes
<1>2. /\ Flags' /\ (browser' <=> browser) /\ Owned' /\ RequestOnce' /\ Awaited' /\ Inside'
      /\ StoppedLeavesNoWaiter'
      /\ junk' \in Nat /\ (phase' = "running" => junk' < GiveUpAfter)
  BY RoutedRest
<1>3. Shapes'
  <2>1. pending' \in [Cids -> Seq(Frames)]
    <3>1. Append(pending[c], x) \in Seq(Frames)
      BY <1>a
    <3> QED
      BY <1>c, <1>x, <3>1 DEF Shapes
  <2> QED
    BY <1>2, <2>1, Heard DEF Shapes, counts
<1>4. Calls'
  BY DEF Calls
<1>5. Whole'
  BY <1>2 DEF Whole
<1>7. BrowserStrandsNothing'
  <2>1. ASSUME browser, NEW d \in Cids, routes'[d] # None PROVE pending'[d] = <<>>
    <3>1. d # c
      BY <1>c, <2>1
    <3> QED
      BY <1>1, <2>1, <3>1 DEF BrowserStrandsNothing
  <2> QED
    BY <1>2, <2>1 DEF BrowserStrandsNothing
<1>6. FrameOnce'
  <2>1. Contents'[<<c, "pending">>] = Contents[<<c, "pending">>] \cup {x}
    <3>1. Range(pending'[c]) = Range(pending[c]) \cup {x}
      BY <1>1, <1>a, RangeAppend
    <3> QED
      BY <3>1, ContentsAre
  <2>2. \A p \in Places \ {<<None, "net">>, <<c, "pending">>} : Contents'[p] \subseteq Contents[p]
    BY <1>1, EachPlace
  <2>3. <<c, "pending">> \in Places /\ <<c, "pending">> # <<None, "net">> /\ traffic' = traffic
    BY ContentsAre DEF counts
  <2>4. Apart(Contents)' /\ Seen(Contents)' /\ x \notin Contents[<<c, "pending">>]
    BY <1>x, <2>1, <2>2, <2>3, RoutedOnce
  <2>5. Injective(pending'[c])
    <3>1. x \notin Range(pending[c]) /\ Injective(pending[c])
      BY <2>4, ContentsAre DEF FrameOnce
    <3> QED
      BY <1>1, <1>a, <3>1, InjectiveAppend
  <2> QED
    BY <1>1, <2>4, <2>5 DEF FrameOnce
<1> QED
  BY <1>2, <1>3, <1>4, <1>5, <1>6, <1>7

\* To the router's hand, in a native client.
LEMMA RouteToHandStep ==
    ASSUME Inv, Running, net # <<>>, net' = Tail(net), junk' = 0, Head(net).kind = "notification",
           hand' = [cid |-> Head(net).cid, frame |-> Head(net).id], ~browser,
           UNCHANGED <<handle, pending>>,
           UNCHANGED <<browser, routes, backends, agent, ask, background, read, link, appOpen, app, counts, phase, out>>
    PROVE  Inv'
<1> USE DEF Inv
<1>x. PICK x \in Frames : x = Head(net).id
  BY Heard, NetIs
<1>c. PICK c \in Cids : c = Head(net).cid
  BY Heard, NetIs
<1>1. /\ hand' = [cid |-> c, frame |-> x] /\ hand' \in [cid : Cids, frame : Frames]
      /\ hand' # None /\ hand'.frame = x /\ hand = None
  BY <1>c, <1>x, NoneIs DEF Running
<1>2. /\ Flags' /\ (browser' <=> browser) /\ Owned' /\ RequestOnce' /\ Awaited' /\ Inside'
      /\ StoppedLeavesNoWaiter'
      /\ junk' \in Nat /\ (phase' = "running" => junk' < GiveUpAfter)
  BY RoutedRest
<1>3. Shapes'
  BY <1>1, <1>2, Heard DEF Shapes, counts
<1>4. Calls'
  BY DEF Calls
<1>5. Whole' /\ BrowserStrandsNothing'
  BY <1>2 DEF Whole, BrowserStrandsNothing
<1>6. FrameOnce'
  <2>1. Contents'[<<None, "hand">>] = Contents[<<None, "hand">>] \cup {x}
    BY <1>1, ContentsAre
  <2>2. \A p \in Places \ {<<None, "net">>, <<None, "hand">>} : Contents'[p] \subseteq Contents[p]
    BY EachPlace
  <2>3. <<None, "hand">> \in Places /\ <<None, "hand">> # <<None, "net">> /\ traffic' = traffic
    BY ContentsAre DEF counts
  <2>4. Apart(Contents)' /\ Seen(Contents)'
    BY <1>x, <2>1, <2>2, <2>3, RoutedOnce
  <2> QED
    BY <2>4 DEF FrameOnce
<1> QED
  BY <1>2, <1>3, <1>4, <1>5, <1>6

LEMMA RouteFrameStep ==
    ASSUME Inv, RouteFrame
    PROVE  Inv'
<1>0. /\ Running /\ net # <<>> /\ net' = Tail(net) /\ junk' = 0 /\ Head(net).kind = "notification"
      /\ UNCHANGED <<browser, routes, backends, agent, ask, background, read, link, connected, appOpen, app, counts>>
  BY DEF RouteFrame, Hear
<1>1. CASE (UNCHANGED <<phase, out>> \/ EndTasks) /\ UNCHANGED <<handle, pending, hand>>
  <2>1. junk' \in Nat /\ junk' < GiveUpAfter
    BY <1>0, BoundsAreNat
  <2> QED
    BY <1>0, <1>1, <2>1, DroppedStep
<1>2. CASE /\ UNCHANGED <<phase, out>> /\ routes[Head(net).cid] # None
           /\ handle' = [handle EXCEPT ![routes[Head(net).cid]].inbox = Append(@, Head(net).id)]
           /\ UNCHANGED <<pending, hand>>
  <2>1. routes[Head(net).cid] \in Handles
    BY <1>0, <1>2, Heard, NetIs DEF Inv, Shapes
  <2> QED
    BY <1>0, <1>2, <2>1, RouteToHandleStep
<1>3. CASE /\ UNCHANGED <<phase, out>> /\ routes[Head(net).cid] = None
           /\ pending' = [pending EXCEPT ![Head(net).cid] = Append(@, Head(net).id)]
           /\ UNCHANGED <<handle, hand>>
  BY <1>0, <1>3, RouteToQueueStep
<1>4. CASE /\ UNCHANGED <<phase, out>> /\ ~browser
           /\ hand' = [cid |-> Head(net).cid, frame |-> Head(net).id]
           /\ UNCHANGED <<handle, pending>>
  BY <1>0, <1>4, RouteToHandStep
<1> QED
  BY <1>1, <1>2, <1>3, <1>4 DEF RouteFrame

\* The frame in the router's hand joins its account's queue.
LEMMA QueueFrameStep ==
    ASSUME Inv, QueueFrame
    PROVE  Inv'
<1> USE DEF Inv
<1>0. /\ hand # None /\ hand \in [cid : Cids, frame : Frames] /\ hand' = None
      /\ UNCHANGED <<handle, routes, backends, net, out, agent, ask, background, read, phase, sides, counts>>
  BY DEF QueueFrame, Shapes
<1>c. PICK c \in Cids : c = hand.cid
  BY <1>0
<1>x. PICK x \in Frames : x = hand.frame
  BY <1>0
<1>a. pending[c] \in Seq(Frames)
  BY DEF Shapes
<1>b. pending' = [pending EXCEPT ![c] = Append(@, x)]
  BY <1>c, <1>x DEF QueueFrame
<1>1. pending'[c] = Append(pending[c], x) /\ \A d \in Cids \ {c} : pending'[d] = pending[d]
  BY <1>a, <1>b DEF Shapes
<1>2. ~browser
  BY <1>0 DEF Whole
<1>3. Flags' /\ ~browser'
  BY <1>2 DEF QueueFrame, Flags, sides
<1>4. Shapes'
  <2>1. pending' \in [Cids -> Seq(Frames)]
    <3>1. Append(pending[c], x) \in Seq(Frames)
      BY <1>a
    <3> QED
      BY <1>b, <3>1 DEF Shapes
  <2> QED
    BY <1>0, <2>1 DEF Shapes, sides, counts
<1>5. Calls' /\ Owned'
  BY <1>0 DEF Calls, Owned
<1>6. Whole' /\ BrowserStrandsNothing'
  BY <1>3 DEF Whole, BrowserStrandsNothing
<1>7. FrameOnce'
  <2>1. Contents'[<<c, "pending">>] = Contents[<<c, "pending">>] \cup {x}
    <3>1. Range(pending'[c]) = Range(pending[c]) \cup {x}
      BY <1>1, <1>a, RangeAppend
    <3> QED
      BY <3>1, ContentsAre
  <2>2. Contents'[<<None, "hand">>] = Contents[<<None, "hand">>] \ {x} /\ x \in Contents[<<None, "hand">>]
    BY <1>0, <1>x, ContentsAre
  <2>3. \A p \in Places \ {<<None, "hand">>, <<c, "pending">>} : Contents'[p] \subseteq Contents[p]
    BY <1>0, <1>1, EachPlace
  <2>4. /\ <<c, "pending">> \in Places /\ <<None, "hand">> \in Places
        /\ <<None, "hand">> # <<c, "pending">> /\ traffic' = traffic
    BY <1>0, ContentsAre DEF counts
  <2>5. Apart(Contents)'
    BY <2>1, <2>2, <2>3, <2>4, MovedOne DEF FrameOnce, Apart
  <2>6. Seen(Contents)'
    BY <2>1, <2>2, <2>3, <2>4 DEF FrameOnce, Seen
  <2>7. Injective(pending'[c])
    <3>1. x \notin Contents[<<c, "pending">>]
      BY <2>2, <2>4 DEF FrameOnce, Apart
    <3>2. x \notin Range(pending[c]) /\ Injective(pending[c])
      BY <3>1, ContentsAre DEF FrameOnce
    <3> QED
      BY <1>1, <1>a, <3>2, InjectiveAppend
  <2> QED
    BY <1>0, <1>1, <2>5, <2>6, <2>7 DEF FrameOnce
<1>8. RequestOnce' /\ Awaited'
  BY <1>0, RequestsStay
<1>9. Inside'
  BY <1>0 DEF Inside, Inspected, sides
<1>10. StoppedLeavesNoWaiter'
  BY <1>0 DEF StoppedLeavesNoWaiter, Inspected
<1> QED
  BY <1>3, <1>4, <1>5, <1>6, <1>7, <1>8, <1>9, <1>10

\* The answer at the head of the wire leaves it: it is under way no more.
LEMMA Answered ==
    ASSUME Inv, Running, net # <<>>, net' = Tail(net), UNCHANGED <<out, agent, phase>>
    PROVE  /\ RequestOnce' /\ \A q \in Requests : UnderWay(q)' => UnderWay(q)
           /\ \A q \in Requests : Head(net).kind = q.kind /\ Head(net).of = q.of =>
                 UnderWay(q) /\ ~UnderWay(q)'
<1>1. NoTwice(net') /\ NoTwice(out') /\ \A q \in Requests : Among(q, net') => Among(q, net)
  BY Heard DEF Inv, RequestOnce
<1>2. RequestOnce' /\ \A q \in Requests : UnderWay(q)' => UnderWay(q)
  BY <1>1, RequestsFewer DEF Inv
<1>3. ASSUME NEW q \in Requests, Head(net).kind = q.kind, Head(net).of = q.of
      PROVE  UnderWay(q) /\ ~UnderWay(q)'
  BY <1>3, Heard DEF Inv, RequestOnce, UnderWay
<1> QED
  BY <1>2, <1>3

\* A poll's answer is never the application's.
LEMMA ReplyPollStep ==
    ASSUME Inv, Running, net # <<>>, net' = Tail(net), junk' = 0,
           Head(net).kind = "poll", background' = background \ {Head(net).of},
           UNCHANGED <<ask, phase, out, app>>,
           UNCHANGED <<browser, handle, routes, backends, pending, hand, agent, read, link, appOpen, counts>>
    PROVE  Inv'
<1> USE DEF Inv
<1>1. Flags' /\ (browser' <=> browser)
  BY DEF Flags
<1>2. Shapes'
  <2>1. junk' \in Nat /\ junk' < GiveUpAfter
    BY BoundsAreNat
  <2> QED
    BY <2>1, Heard DEF Shapes, counts
<1>3. Calls' /\ Owned'
  BY DEF Calls, Owned
<1>4. Whole' /\ BrowserStrandsNothing'
  BY <1>1 DEF Whole, BrowserStrandsNothing
<1>5. FrameOnce'
  BY Heard, FramesFewer DEF counts
<1>6. RequestOnce' /\ \A q \in Requests : UnderWay(q)' => UnderWay(q)
  BY Answered
<1>7. \A n \in Frames : UnderWay([kind |-> "poll", of |-> n])' /\ n \in background => n \in background'
  <2>1. ASSUME NEW n \in Frames, n = Head(net).of PROVE ~UnderWay([kind |-> "poll", of |-> n])'
    BY <2>1, Answered, RequestKinds
  <2> QED
    BY <2>1
<1>8. Awaited'
  BY <1>6, <1>7, AwaitedStays DEF Running
<1>9. Inside'
  BY DEF Inside, Inspected
<1>10. StoppedLeavesNoWaiter'
  BY DEF StoppedLeavesNoWaiter, Running
<1> QED
  BY <1>1, <1>2, <1>3, <1>4, <1>5, <1>6, <1>8, <1>9, <1>10

\* A reply claimed by the backend that waits for it.
LEMMA ReplyClaimedStep ==
    ASSUME Inv, Running, net # <<>>, net' = Tail(net), junk' = 0,
           Head(net).kind = "ask", ask' = [ask EXCEPT ![Head(net).of] = "answered"],
           UNCHANGED <<background, phase, out, app>>,
           UNCHANGED <<browser, handle, routes, backends, pending, hand, agent, read, link, appOpen, counts>>
    PROVE  Inv'
<1> USE DEF Inv
<1>h. PICK h \in Handles : h = Head(net).of
  BY Heard, NetIs
<1>q. PICK q \in Requests : q = [kind |-> "ask", of |-> h]
  BY RequestKinds
<1>1. Flags' /\ (browser' <=> browser)
  BY DEF Flags
<1>0. \A g \in Handles : ask'[g] = IF g = h THEN "answered" ELSE ask[g]
  BY <1>h DEF Shapes
<1>a. UnderWay(q) /\ ~UnderWay(q)'
  BY <1>h, <1>q, Answered
<1>b. ask[h] = "waiting"
  BY <1>a, <1>q DEF Awaited, Running
<1>2. Shapes'
  <2>1. junk' \in Nat /\ junk' < GiveUpAfter
    BY BoundsAreNat
  <2>2. ask' \in [Handles -> AskStates]
    BY <1>h DEF Shapes, AskStates
  <2> QED
    BY <2>1, <2>2, Heard DEF Shapes, counts
<1>3. Calls'
  BY <1>0, <1>b DEF Calls
<1>4. Whole' /\ BrowserStrandsNothing'
  BY <1>1 DEF Whole, BrowserStrandsNothing
<1>5. FrameOnce'
  BY Heard, FramesFewer DEF counts
<1>6. RequestOnce' /\ \A r \in Requests : UnderWay(r)' => UnderWay(r)
  BY Answered
<1>7. \A g \in Handles : UnderWay([kind |-> "ask", of |-> g])' /\ ask[g] = "waiting" => ask'[g] = "waiting"
  BY <1>0, <1>a, <1>q
<1>8. Awaited'
  BY <1>6, <1>7, AwaitedStays DEF Running
<1>9. Inside'
  BY DEF Inside, Inspected
<1>10. StoppedLeavesNoWaiter'
  BY DEF StoppedLeavesNoWaiter, Running
<1>11. Owned'
  BY DEF Owned
<1> QED
  BY <1>1, <1>2, <1>3, <1>4, <1>5, <1>6, <1>8, <1>9, <1>10, <1>11

\* A reply no backend in use waits for goes to the application.
LEMMA ReplyHandedStep ==
    ASSUME Inv, Running, net # <<>>, net' = Tail(net), junk' = 0,
           Head(net).kind \in {"ask", "other"},
           Head(net).kind = "ask" =>
               ~(Inspected(Head(net).of) /\ ask[Head(net).of] \in {"waiting", "registered"}),
           app' = app \cup {[kind |-> Head(net).kind, of |-> Head(net).of]},
           UNCHANGED <<background, phase, out, ask>>,
           UNCHANGED <<browser, handle, routes, backends, pending, hand, agent, read, link, appOpen, counts>>
    PROVE  Inv'
<1> USE DEF Inv
<1>1. Flags' /\ (browser' <=> browser)
  BY DEF Flags
<1>2. Shapes'
  <2>1. junk' \in Nat /\ junk' < GiveUpAfter
    BY BoundsAreNat
  <2> QED
    BY <2>1, Heard DEF Shapes, counts
<1>3. Calls' /\ Owned'
  BY DEF Calls, Owned
<1>4. Whole' /\ BrowserStrandsNothing'
  BY <1>1 DEF Whole, BrowserStrandsNothing
<1>5. FrameOnce'
  BY Heard, FramesFewer DEF counts
<1>6. RequestOnce' /\ \A q \in Requests : UnderWay(q)' => UnderWay(q)
  BY Answered
<1>7. Awaited'
  BY <1>6, AwaitedStays DEF Running
<1>8. Inside'
  <2>1. ASSUME Head(net).kind = "ask"
        PROVE  /\ Head(net).of \in Handles /\ ~Inspected(Head(net).of)
               /\ handle[Head(net).of].pc \in {"loading", "live", "gone"}
    <3>h. PICK h \in Handles : h = Head(net).of
      BY <2>1, Heard, NetIs
    <3>1. UnderWay([kind |-> "ask", of |-> h])
      BY <2>1, <3>h, Answered, RequestKinds
    <3>2. ask[h] = "waiting"
      BY <3>1 DEF Awaited, Running
    <3>3. handle[h].pc \notin {"none", "routed", "filling"} /\ handle[h].pc \in Pcs
      BY <3>2 DEF Calls, Shapes, HandleRecords
    <3> QED
      BY <2>1, <3>h, <3>2, <3>3 DEF Pcs, Held, Opening
  <2>2. \A r \in app' : r \in app \/ r = [kind |-> Head(net).kind, of |-> Head(net).of]
    OBVIOUS
  <2> QED
    BY <2>1, <2>2 DEF Inside, Inspected
<1>9. StoppedLeavesNoWaiter'
  BY DEF StoppedLeavesNoWaiter, Running
<1> QED
  BY <1>1, <1>2, <1>3, <1>4, <1>5, <1>6, <1>7, <1>8, <1>9

LEMMA ReplyStep ==
    ASSUME Inv, Reply
    PROVE  Inv'
<1>0. /\ Running /\ net # <<>> /\ net' = Tail(net) /\ junk' = 0 /\ Head(net).kind \in {"poll", "ask", "other"}
      /\ UNCHANGED <<browser, handle, routes, backends, pending, hand, agent, read, link, appOpen, counts>>
  BY DEF Reply, Hear
<1>1. CASE Head(net).kind = "poll"
  <2>1. Head(net).of \in background
    <3>n. PICK n \in Frames : n = Head(net).of
      BY <1>0, <1>1, Heard, NetIs
    <3>1. Among([kind |-> "poll", of |-> n], net)
      BY <1>0, <1>1, <3>n, Heard, RequestKinds
    <3> QED
      BY <3>n, <3>1 DEF Inv, Awaited, UnderWay
  <2>2. /\ background' = background \ {Head(net).of} /\ UNCHANGED <<ask, phase, out, app>>
    BY <1>1, <2>1 DEF Reply
  <2> QED
    BY <1>0, <1>1, <2>2, ReplyPollStep
<1>2. CASE Head(net).kind = "ask" /\ Inspected(Head(net).of) /\ ask[Head(net).of] \in {"waiting", "registered"}
  <2>1. ask' = [ask EXCEPT ![Head(net).of] = "answered"] /\ UNCHANGED <<background, phase, out, app>>
    BY <1>2 DEF Reply
  <2> QED
    BY <1>0, <1>2, <2>1, ReplyClaimedStep
<1>3. CASE /\ Head(net).kind \in {"ask", "other"}
           /\ ~(Head(net).kind = "ask" /\ Inspected(Head(net).of) /\ ask[Head(net).of] \in {"waiting", "registered"})
  <2>1. /\ UNCHANGED <<background, ask>>
        /\ \/ app' = app \cup {[kind |-> Head(net).kind, of |-> Head(net).of]} /\ UNCHANGED <<phase, out>>
           \/ EndTasks /\ UNCHANGED app
    BY <1>3 DEF Reply
  <2>2. CASE app' = app \cup {[kind |-> Head(net).kind, of |-> Head(net).of]} /\ UNCHANGED <<phase, out>>
    BY <1>0, <1>3, <2>1, <2>2, ReplyHandedStep
  <2>3. CASE EndTasks /\ UNCHANGED app
    <3>1. junk' \in Nat /\ junk' < GiveUpAfter
      BY <1>0, BoundsAreNat
    <3> QED
      BY <1>0, <2>1, <2>3, <3>1, DroppedStep
  <2> QED
    BY <2>1, <2>2, <2>3
<1> QED
  BY <1>0, <1>1, <1>2, <1>3

\* A round of polls: new numbers, all in the background set.
LEMMA PollStep ==
    ASSUME Inv, Poll
    PROVE  Inv'
<1> USE DEF Inv
<1>n. PICK n \in Nat :
          /\ n > 0 /\ traffic + n <= MaxTraffic /\ traffic' = traffic + n
          /\ background' = background \cup (traffic + 1)..(traffic + n)
          /\ out' = out \o [i \in 1..n |-> [kind |-> "poll", of |-> traffic + i]]
  <2>1. Cardinality({c \in Cids : routes[c] # None}) \in Nat
    BY BoundsAreNat, FS_Subset, FS_CardinalityType
  <2> QED
    BY <2>1 DEF Poll
<1>0. UNCHANGED <<handle, routes, backends, pending, hand, net, agent, ask, read, phase, sides, asked>> /\ Running
  BY DEF Poll
<1>1. Flags' /\ (browser' <=> browser)
  BY DEF Poll, Flags, sides
<1>s. PICK s : s = [i \in 1..n |-> [kind |-> "poll", of |-> traffic + i]]
  OBVIOUS
<1>t. traffic \in Nat /\ MaxTraffic \in Nat /\ out \in Seq(OutMsgs) /\ Len(out) \in Nat
  BY BoundsAreNat DEF Shapes
<1>a. /\ s \in Seq(OutMsgs) /\ Len(s) = n /\ out' = out \o s
      /\ \A i \in 1..n : s[i].kind = "poll" /\ s[i].of = traffic + i
  <2>1. \A i \in 1..n : traffic + i \in Frames
    BY <1>n, <1>t DEF Frames
  <2>2. \A i \in 1..n : [kind |-> "poll", of |-> traffic + i] \in OutMsgs
    BY <2>1, RequestKinds DEF OutMsgs
  <2>3. s \in [1..n -> OutMsgs]
    BY <1>s, <2>2
  <2>4. s \in Seq(OutMsgs) /\ Len(s) = n
    BY <2>3, <1>n
  <2> QED
    BY <1>n, <1>s, <2>4
<1>b. /\ out' \in Seq(OutMsgs) /\ Len(out') = Len(out) + n
      /\ \A i \in 1..Len(out) : out'[i] = out[i]
      /\ \A i \in (Len(out) + 1)..(Len(out) + n) :
            out'[i].kind = "poll" /\ out'[i].of = traffic + (i - Len(out)) /\ i - Len(out) \in 1..n
  <2>0. \A v, w \in Seq(OutMsgs) : v \o w \in Seq(OutMsgs) /\ Len(v \o w) = Len(v) + Len(w)
    OBVIOUS
  <2>1. out' \in Seq(OutMsgs) /\ Len(out') = Len(out) + n
    BY <1>a, <1>t, <2>0
  <2>2. \A i \in 1..Len(out) : out'[i] = out[i]
    BY <1>a, <1>t
  <2>3. ASSUME NEW i \in (Len(out) + 1)..(Len(out) + n)
        PROVE  i - Len(out) \in 1..n /\ out'[i] = s[i - Len(out)]
    BY <1>a, <1>t
  <2> QED
    BY <1>a, <2>1, <2>2, <2>3
<1>2. Shapes'
  <2>1. traffic' \in 0..MaxTraffic
    BY <1>n, <1>t
  <2>2. background' \in SUBSET (1..traffic')
    BY <1>n, <1>t DEF Shapes
  <2> QED
    BY <1>0, <1>b, <2>1, <2>2 DEF Shapes, sides
<1>3. Calls' /\ Owned'
  BY <1>0 DEF Calls, Owned
<1>4. Whole' /\ BrowserStrandsNothing'
  BY <1>0, <1>1 DEF Whole, BrowserStrandsNothing
<1>5. FrameOnce'
  BY <1>0, <1>n, <1>t, FramesStay
<1>c. \A i \in 1..Len(out) : out[i].kind = "poll" => out[i].of \in 1..traffic
  <2>1. ASSUME NEW i \in 1..Len(out), out[i].kind = "poll" PROVE out[i].of \in 1..traffic
    <3>1. out[i] \in Requests
      BY <1>t, <2>1, OutIs
    <3>2. out[i].of \in Frames
      BY <2>1, <3>1, RequestKinds
    <3>3. Among([kind |-> "poll", of |-> out[i].of], out)
      BY <2>1 DEF Among
    <3> QED
      BY <3>2, <3>3 DEF Awaited, UnderWay, Shapes
  <2> QED
    BY <2>1
<1>6. NoTwice(out')
  <2> SUFFICES ASSUME NEW i \in 1..Len(out'), NEW j \in 1..Len(out'), Same(out'[i], out'[j]), i # j
               PROVE  FALSE
    BY DEF NoTwice
  <2> DEFINE L == Len(out)
  <2>0. L \in Nat /\ 1..Len(out') = 1..L \cup (L + 1)..(L + n)
    BY <1>b, <1>t
  <2>1. CASE i \in 1..L /\ j \in 1..L
    BY <1>b, <2>1 DEF RequestOnce, NoTwice
  <2>2. CASE i \in (L + 1)..(L + n) /\ j \in (L + 1)..(L + n)
    BY <1>b, <1>t, <2>2 DEF Same
  <2>3. CASE i \in 1..L /\ j \in (L + 1)..(L + n)
    <3>1. out[i].kind = "poll" /\ out[i].of = traffic + (j - L) /\ j - L \in 1..n
      BY <1>b, <2>3 DEF Same
    <3> QED
      BY <1>c, <1>t, <2>3, <3>1
  <2>4. CASE i \in (L + 1)..(L + n) /\ j \in 1..L
    <3>1. out[j].kind = "poll" /\ out[j].of = traffic + (i - L) /\ i - L \in 1..n
      BY <1>b, <2>4 DEF Same
    <3> QED
      BY <1>c, <1>t, <2>4, <3>1
  <2> QED
    BY <2>0, <2>1, <2>2, <2>3, <2>4
<1>7. ASSUME NEW q \in Requests, Among(q, out')
      PROVE  Among(q, out) \/ (q.kind = "poll" /\ q.of \in (traffic + 1)..(traffic + n))
  <2>1. PICK i \in 1..Len(out') : out'[i].kind = q.kind /\ out'[i].of = q.of
    BY <1>7 DEF Among
  <2>2. CASE i \in 1..Len(out)
    BY <1>b, <2>1, <2>2 DEF Among
  <2>3. CASE i \in (Len(out) + 1)..(Len(out) + n)
    <3>1. q.kind = "poll" /\ q.of = traffic + (i - Len(out)) /\ i - Len(out) \in 1..n
      BY <1>b, <2>1, <2>3
    <3> QED
      BY <1>t, <3>1
  <2> QED
    BY <1>b, <1>t, <2>1, <2>2, <2>3
<1>d. ASSUME NEW q \in Requests, q.kind = "poll", q.of \in (traffic + 1)..(traffic + n) PROVE ~UnderWay(q)
  <2>1. q = [kind |-> "poll", of |-> q.of] /\ q.of \in Frames
    BY <1>d, RequestIs
  <2>2. q.of \notin background
    BY <1>d, <1>t DEF Shapes
  <2> QED
    BY <2>1, <2>2 DEF Awaited
<1>8. RequestOnce'
  BY <1>0, <1>6, <1>7, <1>d DEF RequestOnce, UnderWay
<1>9. Awaited'
  <2>1. \A q \in Requests : UnderWay(q)' => UnderWay(q) \/ (q.kind = "poll" /\ q.of \in (traffic + 1)..(traffic + n))
    BY <1>0, <1>7 DEF UnderWay
  <2>2. ASSUME NEW h \in Handles, UnderWay([kind |-> "ask", of |-> h])' PROVE ask'[h] = "waiting"
    BY <1>0, <2>1, <2>2, RequestKinds DEF Awaited, Running
  <2>3. ASSUME NEW k \in Frames, UnderWay([kind |-> "poll", of |-> k])' PROVE k \in background'
    BY <1>n, <2>1, <2>3, RequestKinds DEF Awaited
  <2> QED
    BY <1>0, <2>2, <2>3 DEF Awaited, Running
<1>10. Inside'
  BY <1>0 DEF Inside, Inspected, sides
<1>11. StoppedLeavesNoWaiter'
  BY <1>0 DEF StoppedLeavesNoWaiter, Inspected
<1> QED
  BY <1>1, <1>2, <1>3, <1>4, <1>5, <1>8, <1>9, <1>10, <1>11

-----------------------------------------------------------------------------
(* The agent and the application.                                          *)

\* What the agent sends of its own accord asks nothing, and a frame it sends
\* is nowhere else.
LEMMA AgentSendsStep ==
    ASSUME Inv, NEW m \in NetMsgs, AgentSends(m), m.kind \notin {"ask", "poll"},
           m.kind = "notification" => m.id = traffic + 1
    PROVE  Inv'
<1> USE DEF Inv
<1>0. /\ UNCHANGED <<handle, routes, backends, pending, hand, out, agent, ask, background, read, phase, sides, asked>>
      /\ phase = "running" /\ traffic < MaxTraffic /\ traffic' = traffic + 1 /\ net' = Append(net, m)
  BY DEF AgentSends
<1>1. Flags' /\ (browser' <=> browser)
  BY DEF AgentSends, Flags, sides
<1>a. net \in Seq(NetMsgs) /\ net' \in Seq(NetMsgs)
  BY <1>0 DEF Shapes
<1>2. Shapes'
  BY <1>0, <1>a, TrafficGrows DEF Shapes, sides
<1>3. Calls' /\ Owned'
  BY <1>0 DEF Calls, Owned
<1>4. Whole' /\ BrowserStrandsNothing'
  BY <1>0, <1>1 DEF Whole, BrowserStrandsNothing
<1>b. \A p \in Places : traffic + 1 \notin Contents[p]
  <2>1. traffic + 1 \notin 1..traffic
    BY <1>0, TrafficGrows
  <2> QED
    BY <2>1 DEF FrameOnce, Seen
<1>5. FrameOnce'
  <2>1. FramesOf(net') \subseteq FramesOf(net) \cup {traffic + 1}
    BY <1>0, <1>a, FramesAppend
  <2>2. Contents'[<<None, "net">>] \subseteq Contents[<<None, "net">>] \cup {traffic + 1}
    BY <2>1, ContentsAre
  <2>3. \A p \in Places \ {<<None, "net">>} : Contents'[p] \subseteq Contents[p]
    BY <1>0, EachPlace
  <2>4. <<None, "net">> \in Places
    BY ContentsAre
  <2>5. Apart(Contents)'
    BY <1>b, <2>2, <2>3, <2>4, ArrivedApart DEF FrameOnce, Apart
  <2>6. Seen(Contents)'
    <3>1. traffic + 1 \in 1..traffic' /\ 1..traffic \subseteq 1..traffic'
      BY <1>0, TrafficGrows
    <3> QED
      BY <2>2, <2>3, <2>4, <3>1 DEF FrameOnce, Seen
  <2> QED
    BY <1>0, <2>5, <2>6 DEF FrameOnce
<1>6. NoTwice(net')
  <2>1. \A i \in 1..Len(net) : ~(net[i].kind = "notification" /\ net[i].id = traffic + 1)
    BY <1>b, ContentsAre DEF FramesOf
  <2>2. \A i \in 1..Len(net) : ~Same(net[i], m) /\ ~Same(m, net[i])
    BY <2>1 DEF Same
  <2> QED
    BY <1>0, <1>a, <2>2, NoTwiceAppend DEF RequestOnce
<1>7. RequestOnce' /\ \A q \in Requests : UnderWay(q)' => UnderWay(q)
  <2>1. \A q \in Requests : Among(q, net') => Among(q, net)
    BY <1>0, <1>a, AmongAppend, RequestKinds
  <2> QED
    BY <1>0, <1>6, <2>1, RequestsFewer DEF RequestOnce
<1>8. Awaited'
  BY <1>0, <1>7, AwaitedStays
<1>9. Inside'
  BY <1>0 DEF Inside, Inspected, sides
<1>10. StoppedLeavesNoWaiter'
  BY <1>0 DEF StoppedLeavesNoWaiter, Inspected
<1> QED
  BY <1>1, <1>2, <1>3, <1>4, <1>5, <1>7, <1>8, <1>9, <1>10

\* The agent's answer to a request goes onto the wire.
LEMMA AgentAnswersStep ==
    ASSUME Inv, NEW m \in agent, NEW S \in SUBSET Cids, AgentAnswers(m, S)
    PROVE  Inv'
<1> USE DEF Inv
<1>m. m \in Requests
  BY DEF Shapes
<1>x. PICK x \in NetMsgs : /\ x = (IF m.kind = "poll" THEN [kind |-> "poll", of |-> m.of, sessions |-> S] ELSE m)
                           /\ x.kind = m.kind /\ x.of = m.of
  <2>1. CASE m.kind = "poll"
    <3>1. m.of \in Frames
      BY <1>m, <2>1, RequestKinds
    <3>2. [kind |-> "poll", of |-> m.of, sessions |-> S] \in NetMsgs
      BY <3>1 DEF NetMsgs
    <3> QED
      BY <2>1, <3>2
  <2>2. CASE m.kind = "ask"
    <3>1. m \in [kind : {"ask"}, of : Handles]
      BY <1>m, <2>2, RequestIs
    <3> QED
      BY <2>2, <3>1 DEF NetMsgs
  <2> QED
    BY <1>m, <2>1, <2>2, RequestKinds
<1>0. /\ UNCHANGED <<handle, routes, backends, pending, hand, out, ask, background, read, phase, sides, counts>>
      /\ agent' = agent \ {m} /\ net' = Append(net, x)
  BY <1>x DEF AgentAnswers
<1>1. Flags' /\ (browser' <=> browser)
  BY DEF AgentAnswers, Flags, sides
<1>a. net \in Seq(NetMsgs) /\ net' \in Seq(NetMsgs) /\ x.kind \in {"ask", "poll"}
  BY <1>0, <1>m, <1>x, RequestKinds DEF Shapes
<1>2. Shapes'
  BY <1>0, <1>a DEF Shapes, sides, counts
<1>3. Calls' /\ Owned'
  BY <1>0 DEF Calls, Owned
<1>4. Whole' /\ BrowserStrandsNothing'
  BY <1>0, <1>1 DEF Whole, BrowserStrandsNothing
<1>5. FrameOnce'
  <2>1. FramesOf(net') \subseteq FramesOf(net)
    BY <1>0, <1>a, FramesAppend
  <2> QED
    BY <1>0, <2>1, FramesFewer DEF counts
<1>6. NoTwice(net')
  <2>1. ~Among(m, net)
    BY <1>m DEF RequestOnce
  <2>2. \A i \in 1..Len(net) : ~Same(net[i], x) /\ ~Same(x, net[i])
    BY <1>x, <1>a, <2>1 DEF Same, Among
  <2> QED
    BY <1>0, <1>a, <2>2, NoTwiceAppend DEF RequestOnce
<1>7. \A q \in Requests : Among(q, net') => Among(q, net) \/ q = m
  BY <1>0, <1>a, <1>m, <1>x, AmongAppend, RequestKinds
<1>8. RequestOnce'
  BY <1>0, <1>6, <1>7 DEF RequestOnce
<1>9. \A q \in Requests : UnderWay(q)' => UnderWay(q)
  BY <1>0, <1>7 DEF UnderWay
<1>10. Awaited'
  BY <1>0, <1>9, AwaitedStays DEF Awaited
<1>11. Inside'
  BY <1>0 DEF Inside, Inspected, sides
<1>12. StoppedLeavesNoWaiter'
  BY <1>0 DEF StoppedLeavesNoWaiter, Inspected
<1> QED
  BY <1>1, <1>2, <1>3, <1>4, <1>5, <1>8, <1>10, <1>11, <1>12

\* Nothing the invariant speaks of changes.
LEMMA OutsideStep ==
    ASSUME Inv, link' \in BOOLEAN, appOpen' \in BOOLEAN,
           UNCHANGED <<browser, handle, routes, backends, pending, hand, net, out, agent, ask, background, read, phase, app, junk, counts>>
    PROVE  Inv'
<1> USE DEF Inv
<1>1. Flags' /\ (browser' <=> browser)
  BY DEF Flags
<1>2. Shapes'
  BY DEF Shapes, counts
<1>3. Calls' /\ Owned'
  BY DEF Calls, Owned
<1>4. Whole' /\ BrowserStrandsNothing'
  BY <1>1 DEF Whole, BrowserStrandsNothing
<1>5. FrameOnce'
  BY FramesSame DEF counts
<1>6. RequestOnce' /\ Awaited'
  BY RequestsStay
<1>7. Inside'
  BY DEF Inside, Inspected
<1>8. StoppedLeavesNoWaiter'
  BY DEF StoppedLeavesNoWaiter, Inspected
<1> QED
  BY <1>1, <1>2, <1>3, <1>4, <1>5, <1>6, <1>7, <1>8

-----------------------------------------------------------------------------
LEMMA NextInv == Inv /\ [Next]_vars => Inv'
<1> SUFFICES ASSUME Inv, [Next]_vars PROVE Inv'
  OBVIOUS
<1>1. CASE UNCHANGED vars
  BY <1>1, OutsideStep DEF vars, counts, Inv, Flags
<1>2. CASE Task
  BY <1>2, OutboundStep, SkipUnreadableStep, RouteFrameStep, QueueFrameStep, ReplyStep, StreamEndsStep,
     AbandonStep DEF Task
<1>3. CASE Poll
  BY <1>3, PollStep
<1>4. CASE LinkFails
  <2>1. link' \in BOOLEAN /\ appOpen' \in BOOLEAN
    BY <1>4 DEF LinkFails, sides, Inv, Flags
  <2> QED
    BY <1>4, <2>1, OutsideStep DEF LinkFails, sides
<1>5. CASE AppStops
  <2>1. link' \in BOOLEAN /\ appOpen' \in BOOLEAN
    BY <1>5 DEF AppStops, Inv, Flags
  <2> QED
    BY <1>5, <2>1, OutsideStep DEF AppStops
<1>6. ASSUME NEW h \in Handles, Caller(h) \/ Register(h) \/ Drop(h) PROVE Inv'
  BY <1>6, TakePendingStep, FlushStep, NewBackendStep, LoadStep, NextMessageStep, SendRequestStep,
     RegisterStep, DropStep DEF Caller
<1>7. ASSUME NEW h \in Handles, NEW c \in Cids, Open(h, c) PROVE Inv'
  BY <1>7, OpenInBrowserStep, OpenNativeStep
<1>8. ASSUME NEW h \in Handles, NEW p \in Payloads, NEW e \in Extensions, SendMessage(h, p, e) PROVE Inv'
  BY <1>8, SendMessageStep
<1>9. ASSUME NEW c \in Cids, NEW w \in Wires, AgentSends(Notification(c, w)) PROVE Inv'
  <2>1. routed_as(w) \in {"Frame", "NotAFrame", "Unreadable"}
    BY DEF routed_as, decode_notification
  <2>2. traffic + 1 \in Frames
    BY <1>9, TrafficGrows DEF AgentSends, Inv
  <2>3. Notification(c, w) \in NetMsgs /\ Notification(c, w).kind = "notification"
        /\ Notification(c, w).id = traffic + 1
    BY <2>1, <2>2 DEF Notification, NetMsgs
  <2> QED
    BY <1>9, <2>3, AgentSendsStep
<1>10. CASE AgentSends(Junk) \/ AgentSends(Other)
  <2>1. Junk \in NetMsgs /\ Other \in NetMsgs /\ Junk.kind = "junk" /\ Other.kind = "other"
    BY DEF Junk, Other, NetMsgs
  <2> QED
    BY <1>10, <2>1, AgentSendsStep
<1>11. ASSUME NEW m \in agent, NEW S \in SUBSET Cids, AgentAnswers(m, S) PROVE Inv'
  BY <1>11, AgentAnswersStep
<1> QED
  BY <1>1, <1>2, <1>3, <1>4, <1>5, <1>6, <1>7, <1>8, <1>9, <1>10, <1>11 DEF Next

\* Every state the messenger reaches satisfies the inductive invariant.
THEOREM InvHolds == Spec => []Inv
BY InitInv, NextInv, PTL DEF Spec

\* The messenger's fields keep their shapes, for every set of accounts and
\* handles and any traffic; the run of unreadable payloads stays below the
\* limit while the messenger runs (mod.rs).
THEOREM TypeCorrect == Spec => []TypeOK
<1>1. Inv => TypeOK
  <2> SUFFICES ASSUME Inv PROVE TypeOK
    OBVIOUS
  <2> USE DEF Inv
  <2>1. browser \in BOOLEAN /\ link \in BOOLEAN /\ appOpen \in BOOLEAN
    BY DEF Flags
  <2>2. ASSUME NEW h \in Handles
        PROVE  /\ handle[h].pc \in Held \cup {"none", "gone"}
               /\ handle[h].cid \in Cids \cup {None}
               /\ Range(handle[h].inbox) \cup Range(handle[h].taken) \subseteq 1..traffic
               /\ ask[h] \in {"idle", "registered", "waiting", "answered", "failed"}
    <3>1. Range(handle[h].inbox) \cup Range(handle[h].taken) \subseteq 1..traffic
      BY ContentsAre DEF FrameOnce, Seen
    <3> QED
      BY <3>1 DEF Shapes, HandleRecords, Pcs, AskStates
  <2>3. \A c \in Cids : Range(pending[c]) \subseteq 1..traffic
    BY ContentsAre DEF FrameOnce, Seen
  <2>4. /\ \A c \in Cids : {routes[c], backends[c]} \subseteq Handles \cup {None}
        /\ background \subseteq 1..traffic /\ agent \subseteq Requests
        /\ phase \in {"running", "ended", "stopped"} /\ (phase = "running" => junk < GiveUpAfter)
    BY DEF Shapes
  <2> QED
    BY <2>1, <2>2, <2>3, <2>4 DEF TypeOK
<1> QED
  BY <1>1, InvHolds, PTL

\* In the browser the queue of an account with a route is empty, for every
\* interleaving of multiplex, drop and arrivals (mod.rs, multiplex and the
\* inbound task).
THEOREM QueueIsEmptied == Spec => []BrowserStrandsNothing
<1>1. Inv => BrowserStrandsNothing
  BY DEF Inv
<1> QED
  BY <1>1, InvHolds, PTL

\* After the tasks have ended no backend in use waits for an answer, whatever
\* was queued, sent or unanswered then (mod.rs, the end of the select; backend_channel.rs).
THEOREM NobodyLeftWaiting == Spec => []StoppedLeavesNoWaiter
<1>1. Inv => StoppedLeavesNoWaiter
  BY DEF Inv
<1> QED
  BY <1>1, InvHolds, PTL

\* No poll's answer and no reply to the account's present backend reaches the
\* application, for any order of sends, answers, drops and new backends
\* (mod.rs, the inbound task; backend_channel.rs, the slot before the send).
THEOREM RepliesAreClaimed == Spec => []RepliesStayInside
<1>1. Inv => RepliesStayInside
  BY DEF Inv, Inside, RepliesStayInside
<1> QED
  BY <1>1, InvHolds, PTL

-----------------------------------------------------------------------------
(* The messenger implements the mailbox.                                   *)

\* What is kept for an account, member by member, before and after a step.
LEMMA KeptIs ==
    ASSUME NEW c \in Cids, NEW x
    PROVE  /\ x \in Kept(c) <=> \/ x \in Range(pending[c])
                                \/ hand # None /\ hand.cid = c /\ x = hand.frame
                                \/ \E h \in Handles : /\ handle[h].cid = c
                                                      /\ x \in Range(handle[h].inbox) \cup Range(handle[h].taken)
           /\ x \in Kept(c)' <=> \/ x \in Range(pending'[c])
                                 \/ hand' # None /\ hand'.cid = c /\ x = hand'.frame
                                 \/ \E h \in Handles : /\ handle'[h].cid = c
                                                       /\ x \in Range(handle'[h].inbox) \cup Range(handle'[h].taken)
BY DEF Kept

Serves(h) == IF handle[h].pc \in Held THEN handle[h].cid ELSE "no account"

LEMMA InitMaps == Init => Promise!Init
<1> SUFFICES ASSUME Init PROVE Promise!Init
  OBVIOUS
<1>1. \A c \in Cids : Kept(c) = {}
  <2>1. /\ \A c \in Cids : pending[c] = <<>>
        /\ \A h \in Handles : handle[h].inbox = <<>> /\ handle[h].taken = <<>>
        /\ hand = None
    BY DEF Init, Idle
  <2> QED
    BY <2>1, KeptIs, EmptySequence
<1>2. \A h \in Handles : Serves(h) = "no account"
  BY DEF Init, Idle, Held, Opening, Serves
<1> QED
  BY <1>1, <1>2 DEF Init, Promise!Init, Promise!NoCid, Serves

\* A step the mailbox does not notice.
LEMMA Unnoticed ==
    ASSUME \A c \in Cids : Kept(c)' = Kept(c), read' = read,
           \A h \in Handles : Serves(h)' = Serves(h)
    PROVE  UNCHANGED Promise!vars
<1>1. [c \in Cids |-> Kept(c)]' = [c \in Cids |-> Kept(c)]
  OBVIOUS
<1>2. [h \in Handles |-> Serves(h)]' = [h \in Handles |-> Serves(h)]
  OBVIOUS
<1> QED
  BY <1>1, <1>2 DEF Promise!vars, Serves

\* Steps that touch neither frames nor the progress of a call.
LEMMA Elsewhere ==
    ASSUME UNCHANGED <<pending, hand, read>>,
           \A h \in Handles : /\ handle'[h].cid = handle[h].cid
                              /\ handle'[h].inbox = handle[h].inbox /\ handle'[h].taken = handle[h].taken
                              /\ handle'[h].pc = handle[h].pc \/ {handle'[h].pc, handle[h].pc} \subseteq Held
    PROVE  UNCHANGED Promise!vars
<1>1. ASSUME NEW c \in Cids, NEW x PROVE x \in Kept(c)' <=> x \in Kept(c)
  BY KeptIs
<1>2. \A c \in Cids : Kept(c)' = Kept(c)
  BY <1>1
<1>3. \A h \in Handles : Serves(h)' = Serves(h)
  BY DEF Serves
<1> QED
  BY <1>2, <1>3, Unnoticed

\* Open is the mailbox's Open: the queued frames stay kept.
LEMMA OpenMaps ==
    ASSUME Inv, NEW h \in Handles, NEW c \in Cids, Open(h, c)
    PROVE  Promise!Open(h, c)
<1>0. /\ handle[h] = Idle /\ hand' = hand /\ read' = read
      /\ \A g \in Handles \ {h} : handle'[g] = handle[g]
      /\ handle'[h].cid = c /\ handle'[h].taken = <<>> /\ handle'[h].pc \in Held
  BY DEF Open, Inv, Calls, Shapes, Held, Opening
<1>1. /\ \A d \in Cids \ {c} : pending'[d] = pending[d]
      /\ \/ pending'[c] = pending[c] /\ handle'[h].inbox = <<>>
         \/ pending'[c] = <<>> /\ handle'[h].inbox = pending[c]
  BY DEF Open, Inv, Shapes
<1>2. ASSUME NEW d \in Cids, NEW x PROVE x \in Kept(d)' <=> x \in Kept(d)
  <2>1. handle[h].inbox = <<>> /\ handle[h].taken = <<>>
    BY <1>0 DEF Idle
  <2>2. \A g \in Handles \ {h} : handle'[g] = handle[g]
    BY <1>0
  <2>3. CASE d # c
    BY <1>0, <1>1, <2>1, <2>3, KeptIs, EmptySequence
  <2>4. CASE d = c
    BY <1>0, <1>1, <2>1, <2>4, KeptIs, EmptySequence
  <2> QED
    BY <2>3, <2>4
<1>3. \A d \in Cids : Kept(d)' = Kept(d)
  BY <1>2
<1>4. [d \in Cids |-> Kept(d)]' = [d \in Cids |-> Kept(d)]
  BY <1>3
<1>5. Serves(h) = "no account" /\ Serves(h)' = c /\ \A g \in Handles \ {h} : Serves(g)' = Serves(g)
  <2>1. Serves(h) = "no account"
    BY <1>0 DEF Serves, Idle, Held, Opening
  <2> QED
    BY <1>0, <2>1 DEF Serves
<1>6. [g \in Handles |-> Serves(g)]' = [[g \in Handles |-> Serves(g)] EXCEPT ![h] = c]
  BY <1>5
<1> QED
  BY <1>0, <1>4, <1>5, <1>6 DEF Promise!Open, Promise!NoCid, Serves

\* Taking the queue and flushing it keep every frame.
LEMMA TakePendingMaps ==
    ASSUME Inv, NEW h \in Handles, TakePending(h)
    PROVE  UNCHANGED Promise!vars
<1>a. PICK c \in Cids : c = handle[h].cid
  BY DEF TakePending, Inv, Calls
<1>0. /\ hand' = hand /\ read' = read /\ handle[h].taken = <<>>
      /\ \A g \in Handles \ {h} : handle'[g] = handle[g]
      /\ handle'[h].cid = c /\ handle'[h].taken = pending[c] /\ handle'[h].inbox = handle[h].inbox
      /\ handle'[h].pc \in Held /\ handle[h].pc \in Held
  BY <1>a DEF TakePending, Inv, Calls, Shapes, HandleRecords, Held, Opening
<1>1. pending'[c] = <<>> /\ \A d \in Cids \ {c} : pending'[d] = pending[d]
  BY <1>a DEF TakePending, Inv, Shapes
<1>2. ASSUME NEW d \in Cids, NEW x PROVE x \in Kept(d)' <=> x \in Kept(d)
  <2>3. CASE d # c
    BY <1>0, <1>1, <1>a, <2>3, KeptIs, EmptySequence
  <2>4. CASE d = c
    BY <1>0, <1>1, <1>a, <2>4, KeptIs, EmptySequence
  <2> QED
    BY <2>3, <2>4
<1>3. \A d \in Cids : Kept(d)' = Kept(d)
  BY <1>2
<1>4. \A g \in Handles : Serves(g)' = Serves(g)
  BY <1>0, <1>a DEF Serves
<1> QED
  BY <1>0, <1>3, <1>4, Unnoticed

LEMMA FlushMaps ==
    ASSUME Inv, NEW h \in Handles, Flush(h)
    PROVE  UNCHANGED Promise!vars
<1>a. /\ handle[h].taken \in Seq(Frames) /\ handle[h].inbox \in Seq(Frames) /\ handle[h].taken # <<>>
      /\ Injective(handle[h].taken)
  BY DEF Flush, Inv, Shapes, HandleRecords, FrameOnce
<1>0. /\ hand' = hand /\ read' = read /\ pending' = pending
      /\ \A g \in Handles \ {h} : handle'[g] = handle[g]
      /\ handle'[h].cid = handle[h].cid /\ handle'[h].pc = handle[h].pc
      /\ handle'[h].taken = Tail(handle[h].taken)
      /\ handle'[h].inbox = Append(handle[h].inbox, Head(handle[h].taken))
  BY DEF Flush, Inv, Shapes, HandleRecords
<1>1. Range(handle'[h].inbox) \cup Range(handle'[h].taken) = Range(handle[h].inbox) \cup Range(handle[h].taken)
  <2>x. PICK x \in Frames : x = Head(handle[h].taken)
    BY <1>a, TailParts
  <2>1. Range(handle'[h].taken) = Range(handle[h].taken) \ {x} /\ x \in Range(handle[h].taken)
    BY <1>0, <1>a, <2>x, RangeTail
  <2>2. Range(handle'[h].inbox) = Range(handle[h].inbox) \cup {x}
    BY <1>0, <1>a, <2>x, RangeAppend
  <2> QED
    BY <2>1, <2>2
<1>b. \A g \in Handles :
          /\ handle'[g].cid = handle[g].cid
          /\ Range(handle'[g].inbox) \cup Range(handle'[g].taken) = Range(handle[g].inbox) \cup Range(handle[g].taken)
  BY <1>0, <1>1
<1>2. ASSUME NEW d \in Cids, NEW x PROVE x \in Kept(d)' <=> x \in Kept(d)
  BY <1>0, <1>b, KeptIs
<1>3. \A d \in Cids : Kept(d)' = Kept(d)
  BY <1>2
<1>4. \A g \in Handles : Serves(g)' = Serves(g)
  BY <1>0 DEF Serves
<1> QED
  BY <1>0, <1>3, <1>4, Unnoticed

\* A handle that leaves closes, and gives up what its channel held.
LEMMA DropMaps ==
    ASSUME Inv, NEW h \in Handles, Drop(h)
    PROVE  Promise!Close(h)
<1>c. PICK c \in Cids : c = handle[h].cid
  BY DEF Drop, Inv, Calls
<1>0. /\ hand' = hand /\ read' = read /\ pending' = pending
      /\ \A g \in Handles \ {h} : handle'[g] = handle[g]
      /\ handle'[h].cid = c /\ handle'[h].pc = "gone"
      /\ handle'[h].taken = handle[h].taken /\ handle'[h].inbox = <<>>
      /\ handle[h].pc \in {"loading", "live"}
  BY <1>c DEF Drop, Inv, Shapes, HandleRecords
<1>1. ASSUME NEW d \in Cids, NEW x
      PROVE  (x \in Kept(d)' => x \in Kept(d)) /\ (d # c => (x \in Kept(d)' <=> x \in Kept(d)))
  <2>1. x \in Kept(d)' => x \in Kept(d)
    BY <1>0, <1>c, KeptIs, EmptySequence
  <2>2. d # c => (x \in Kept(d)' <=> x \in Kept(d))
    BY <1>0, <1>c, KeptIs, EmptySequence
  <2> QED
    BY <2>1, <2>2
<1>2. Kept(c)' = Kept(c) \ (Kept(c) \ Kept(c)') /\ \A d \in Cids \ {c} : Kept(d)' = Kept(d)
  BY <1>1
<1>3. Serves(h) = c /\ Serves(h)' = "no account" /\ \A g \in Handles \ {h} : Serves(g)' = Serves(g)
  <2>1. "gone" \notin Held /\ handle[h].pc \in Held
    BY <1>0 DEF Held, Opening
  <2> QED
    BY <1>0, <1>c, <2>1 DEF Serves
<1>4. [d \in Cids |-> Kept(d)]' = [[d \in Cids |-> Kept(d)] EXCEPT ![c] = @ \ (Kept(c) \ Kept(c)')]
  BY <1>2
<1>5. [g \in Handles |-> Serves(g)]' = [[g \in Handles |-> Serves(g)] EXCEPT ![h] = "no account"]
  BY <1>3
<1>6. c # "no account"
  BY NoneIsApart
<1>7. PICK S \in SUBSET Kept(c) :
          [d \in Cids |-> Kept(d)]' = [[d \in Cids |-> Kept(d)] EXCEPT ![c] = @ \ S]
  BY <1>4
<1>8. Promise!Close(h) <=>
        /\ Serves(h) # "no account"
        /\ [g \in Handles |-> Serves(g)]' = [[g \in Handles |-> Serves(g)] EXCEPT ![h] = "no account"]
        /\ \E T \in SUBSET [d \in Cids |-> Kept(d)][Serves(h)] :
              [d \in Cids |-> Kept(d)]' = [[d \in Cids |-> Kept(d)] EXCEPT ![Serves(h)] = @ \ T]
        /\ read' = read
  BY DEF Promise!Close, Promise!NoCid, Serves
<1> QED
  BY <1>0, <1>3, <1>5, <1>6, <1>7, <1>8

\* What an ILM takes from its channel is read and kept nowhere else.
LEMMA NextMessageMaps ==
    ASSUME Inv, NEW h \in Handles, NextMessage(h)
    PROVE  \E c \in Cids, f \in Frames : Promise!Read(c, f)
<1>c. PICK c \in Cids : c = handle[h].cid
  BY DEF NextMessage, Inv, Calls
<1>a. /\ handle[h].inbox \in Seq(Frames) /\ handle[h].inbox # <<>> /\ Injective(handle[h].inbox)
      /\ handle[h].pc = "live"
  BY DEF NextMessage, Inv, Shapes, HandleRecords, FrameOnce
<1>x. PICK x \in Frames : x = Head(handle[h].inbox)
  BY <1>a, TailParts
<1>0. /\ hand' = hand /\ pending' = pending /\ read' = [read EXCEPT ![c] = @ \cup {x}]
      /\ \A g \in Handles \ {h} : handle'[g] = handle[g]
      /\ handle'[h].cid = c /\ handle'[h].pc = "live"
      /\ handle'[h].taken = handle[h].taken /\ handle'[h].inbox = Tail(handle[h].inbox)
  BY <1>c, <1>x DEF NextMessage, Inv, Shapes, HandleRecords
<1>1. Range(handle'[h].inbox) = Range(handle[h].inbox) \ {x} /\ x \in Range(handle[h].inbox)
  BY <1>0, <1>a, <1>x, RangeTail
<1>2. /\ \A d \in Cids : x \notin Range(pending[d])
      /\ hand # None => hand.frame # x
      /\ \A g \in Handles : x \notin Range(handle[g].taken) /\ (g # h => x \notin Range(handle[g].inbox))
  <2>1. <<h, "inbox">> \in Places /\ x \in Contents[<<h, "inbox">>]
    BY <1>1, ContentsAre
  <2>2. \A p \in Places : p # <<h, "inbox">> => x \notin Contents[p]
    BY <2>1 DEF Inv, FrameOnce, Apart
  <2>3. \A d \in Cids : x \notin Contents[<<d, "pending">>]
    BY <2>2, ContentsAre
  <2>4. hand # None => x \notin Contents[<<None, "hand">>]
    BY <2>2, ContentsAre
  <2>5. \A g \in Handles : x \notin Contents[<<g, "taken">>] /\ (g # h => x \notin Contents[<<g, "inbox">>])
    BY <2>2, ContentsAre
  <2> QED
    BY <2>3, <2>4, <2>5, ContentsAre
<1>3. ASSUME NEW d \in Cids, NEW y
      PROVE  y \in Kept(d)' <=> y \in Kept(d) /\ ~(d = c /\ y = x)
  <2>1. \A g \in Handles : /\ handle'[g].cid = handle[g].cid
                           /\ handle'[g].taken = handle[g].taken
                           /\ g # h => handle'[g].inbox = handle[g].inbox
    BY <1>0, <1>c
  <2>2. CASE y # x
    <3>1. \A g \in Handles : y \in Range(handle'[g].inbox) <=> y \in Range(handle[g].inbox)
      BY <1>1, <2>1, <2>2
    <3> QED
      BY <1>0, <2>1, <2>2, <3>1, KeptIs
  <2>3. CASE y = x /\ d = c
    BY <1>0, <1>1, <1>2, <2>1, <2>3, KeptIs
  <2>4. CASE y = x /\ d # c
    BY <1>0, <1>1, <1>2, <1>c, <2>1, <2>4, KeptIs
  <2> QED
    BY <2>2, <2>3, <2>4
<1>4. Kept(c)' = Kept(c) \ {x} /\ \A d \in Cids \ {c} : Kept(d)' = Kept(d)
  BY <1>3
<1>5. [d \in Cids |-> Kept(d)]' = [[d \in Cids |-> Kept(d)] EXCEPT ![c] = @ \ {x}]
  BY <1>4
<1>6. \A g \in Handles : Serves(g)' = Serves(g)
  BY <1>0, <1>a, <1>c DEF Serves
<1>7. [g \in Handles |-> Serves(g)]' = [g \in Handles |-> Serves(g)]
  BY <1>6
<1>8. Serves(h) = c
  BY <1>a, <1>c DEF Serves, Held
<1>9. x \in Kept(c)
  BY <1>1, <1>c, KeptIs
<1>10. Promise!Read(c, x) <=>
         /\ x \in [d \in Cids |-> Kept(d)][c]
         /\ \E g \in Handles : [k \in Handles |-> Serves(k)][g] = c
         /\ [d \in Cids |-> Kept(d)]' = [[d \in Cids |-> Kept(d)] EXCEPT ![c] = @ \ {x}]
         /\ read' = [read EXCEPT ![c] = @ \cup {x}]
         /\ [g \in Handles |-> Serves(g)]' = [g \in Handles |-> Serves(g)]
  BY DEF Promise!Read, Serves
<1>11. Promise!Read(c, x)
  BY <1>0, <1>5, <1>7, <1>8, <1>9, <1>10
<1> QED
  BY <1>11

\* The frame at the head of the wire is neither kept nor read yet.
LEMMA HeadIsNew ==
    ASSUME Inv, net # <<>>, Head(net).kind = "notification"
    PROVE  \A d \in Cids : Head(net).id \notin Kept(d) \cup read[d]
<1>x. PICK x : x = Head(net).id
  OBVIOUS
<1>1. x \in Contents[<<None, "net">>]
  <2>1. net \in Seq(NetMsgs) /\ NoTwice(net)
    BY DEF Inv, Shapes, RequestOnce
  <2>2. x \in FramesOf(net)
    BY <1>x, <2>1, FramesTail
  <2> QED
    BY <2>2, ContentsAre
<1>2. \A p \in Places : p # <<None, "net">> => x \notin Contents[p]
  BY <1>1, ContentsAre DEF Inv, FrameOnce, Apart
<1>3. \A d \in Cids : x \notin Contents[<<d, "pending">>] /\ x \notin Contents[<<d, "read">>]
  BY <1>2, ContentsAre
<1>4. x \notin Contents[<<None, "hand">>]
  BY <1>2, ContentsAre
<1>5. \A g \in Handles : x \notin Contents[<<g, "taken">>] /\ x \notin Contents[<<g, "inbox">>]
  BY <1>2, ContentsAre
<1>6. /\ \A d \in Cids : x \notin Range(pending[d]) /\ x \notin read[d]
      /\ hand # None => hand.frame # x
      /\ \A g \in Handles : x \notin Range(handle[g].taken) /\ x \notin Range(handle[g].inbox)
  BY <1>3, <1>4, <1>5, ContentsAre
<1> QED
  BY <1>6, <1>x, KeptIs

\* A frame that becomes kept for one account has arrived there.
LEMMA ArriveMaps ==
    ASSUME NEW c \in Cids, NEW x \in Frames, \A d \in Cids : x \notin Kept(d) \cup read[d],
           \A d \in Cids : Kept(d)' = IF d = c THEN Kept(d) \cup {x} ELSE Kept(d),
           read' = read, \A h \in Handles : Serves(h)' = Serves(h)
    PROVE  Promise!Arrive(c, x)
<1>1. [d \in Cids |-> Kept(d)]' = [[d \in Cids |-> Kept(d)] EXCEPT ![c] = @ \cup {x}]
  OBVIOUS
<1>2. [g \in Handles |-> Serves(g)]' = [g \in Handles |-> Serves(g)]
  OBVIOUS
<1>3. Promise!Arrive(c, x) <=>
        /\ \A d \in Cids : x \notin [e \in Cids |-> Kept(e)][d] \cup read[d]
        /\ [d \in Cids |-> Kept(d)]' = [[d \in Cids |-> Kept(d)] EXCEPT ![c] = @ \cup {x}]
        /\ read' = read
        /\ [g \in Handles |-> Serves(g)]' = [g \in Handles |-> Serves(g)]
  BY DEF Promise!Arrive, Serves
<1> QED
  BY <1>1, <1>2, <1>3

\* Routing a frame, to its handle, its queue or the router's hand, is its
\* arrival; anything else the router hears is nothing to the mailbox.
LEMMA RouteFrameMaps ==
    ASSUME Inv, RouteFrame
    PROVE  UNCHANGED Promise!vars \/ \E c \in Cids, f \in Frames : Promise!Arrive(c, f)
<1>0. /\ Running /\ net # <<>> /\ Head(net).kind = "notification" /\ read' = read
  BY DEF RouteFrame, Hear
<1>x. PICK x \in Frames : x = Head(net).id
  BY <1>0, Heard, NetIs DEF Inv
<1>c. PICK c \in Cids : c = Head(net).cid
  BY <1>0, Heard, NetIs DEF Inv
<1>f. \A d \in Cids : x \notin Kept(d) \cup read[d]
  BY <1>0, <1>x, HeadIsNew
<1>1. CASE UNCHANGED <<handle, pending, hand>>
  BY <1>0, <1>1, Elsewhere
<1>2. CASE /\ routes[c] # None /\ UNCHANGED <<pending, hand>>
           /\ handle' = [handle EXCEPT ![routes[c]].inbox = Append(@, x)]
  <2>h. PICK h \in Handles : h = routes[c]
    BY <1>2 DEF Inv, Shapes
  <2>a. /\ handle[h].inbox \in Seq(Frames) /\ handle \in [Handles -> HandleRecords]
        /\ handle' = [handle EXCEPT ![h].inbox = Append(@, x)] /\ handle[h].cid = c
    BY <1>2, <2>h DEF Inv, Shapes, HandleRecords, Owned
  <2>1. /\ handle'[h].pc = handle[h].pc /\ handle'[h].taken = handle[h].taken
        /\ handle'[h].cid = c /\ handle'[h].inbox = Append(handle[h].inbox, x)
        /\ \A g \in Handles \ {h} : handle'[g] = handle[g]
    BY <2>a DEF HandleRecords
  <2>2. Range(handle'[h].inbox) = Range(handle[h].inbox) \cup {x}
    BY <2>1, <2>a, RangeAppend
  <2>3. ASSUME NEW d \in Cids, NEW y PROVE y \in Kept(d)' <=> y \in Kept(d) \/ (d = c /\ y = x)
    <3>1. \A g \in Handles : handle'[g].cid = handle[g].cid /\ handle'[g].taken = handle[g].taken
      BY <2>1, <2>a
    <3>2. \A g \in Handles : y \in Range(handle'[g].inbox) <=> y \in Range(handle[g].inbox) \/ (g = h /\ y = x)
      BY <2>1, <2>2
    <3> QED
      BY <1>2, <2>a, <3>1, <3>2, KeptIs
  <2>4. \A d \in Cids : Kept(d)' = IF d = c THEN Kept(d) \cup {x} ELSE Kept(d)
    BY <2>3
  <2>5. \A g \in Handles : Serves(g)' = Serves(g)
    BY <2>1, <2>a DEF Serves
  <2> QED
    BY <1>0, <1>f, <2>4, <2>5, ArriveMaps
<1>3. CASE pending' = [pending EXCEPT ![c] = Append(@, x)] /\ UNCHANGED <<handle, hand>>
  <2>1. pending[c] \in Seq(Frames)
    BY DEF Inv, Shapes
  <2>2. pending'[c] = Append(pending[c], x) /\ \A d \in Cids \ {c} : pending'[d] = pending[d]
    BY <1>3, <2>1 DEF Inv, Shapes
  <2>3. Range(pending'[c]) = Range(pending[c]) \cup {x}
    BY <2>1, <2>2, RangeAppend
  <2>4. ASSUME NEW d \in Cids, NEW y PROVE y \in Kept(d)' <=> y \in Kept(d) \/ (d = c /\ y = x)
    BY <1>3, <2>2, <2>3, KeptIs
  <2>5. \A d \in Cids : Kept(d)' = IF d = c THEN Kept(d) \cup {x} ELSE Kept(d)
    BY <2>4
  <2>6. \A g \in Handles : Serves(g)' = Serves(g)
    BY <1>3 DEF Serves
  <2> QED
    BY <1>0, <1>f, <2>5, <2>6, ArriveMaps
<1>4. CASE hand' = [cid |-> c, frame |-> x] /\ UNCHANGED <<handle, pending>>
  <2>1. hand = None /\ hand' # None /\ hand'.cid = c /\ hand'.frame = x
    BY <1>0, <1>4, NoneIs DEF Running
  <2>2. ASSUME NEW d \in Cids, NEW y PROVE y \in Kept(d)' <=> y \in Kept(d) \/ (d = c /\ y = x)
    BY <1>4, <2>1, KeptIs
  <2>3. \A d \in Cids : Kept(d)' = IF d = c THEN Kept(d) \cup {x} ELSE Kept(d)
    BY <2>2
  <2>4. \A g \in Handles : Serves(g)' = Serves(g)
    BY <1>4 DEF Serves
  <2> QED
    BY <1>0, <1>f, <2>3, <2>4, ArriveMaps
<1> QED
  BY <1>1, <1>2, <1>3, <1>4, <1>x, <1>c DEF RouteFrame

\* The frame in hand stays kept when it joins the queue.
LEMMA QueueFrameMaps ==
    ASSUME Inv, QueueFrame
    PROVE  UNCHANGED Promise!vars
<1>0. /\ hand # None /\ hand \in [cid : Cids, frame : Frames] /\ hand' = None
      /\ UNCHANGED <<handle, read>>
  BY DEF QueueFrame, Inv, Shapes
<1>c. PICK c \in Cids : c = hand.cid
  BY <1>0
<1>x. PICK x \in Frames : x = hand.frame
  BY <1>0
<1>1. pending[c] \in Seq(Frames) /\ pending' = [pending EXCEPT ![c] = Append(@, x)]
  BY <1>c, <1>x DEF QueueFrame, Inv, Shapes
<1>2. pending'[c] = Append(pending[c], x) /\ \A d \in Cids \ {c} : pending'[d] = pending[d]
  BY <1>1 DEF Inv, Shapes
<1>3. Range(pending'[c]) = Range(pending[c]) \cup {x}
  BY <1>1, <1>2, RangeAppend
<1>4. ASSUME NEW d \in Cids, NEW y PROVE y \in Kept(d)' <=> y \in Kept(d)
  <2>1. CASE d = c
    BY <1>0, <1>3, <1>c, <1>x, <2>1, KeptIs
  <2>2. CASE d # c
    BY <1>0, <1>2, <1>c, <2>2, KeptIs
  <2> QED
    BY <2>1, <2>2
<1>5. \A d \in Cids : Kept(d)' = Kept(d)
  BY <1>4
<1>6. \A g \in Handles : Serves(g)' = Serves(g)
  BY <1>0 DEF Serves
<1> QED
  BY <1>0, <1>5, <1>6, Unnoticed

LEMMA CallProgressMaps ==
    ASSUME Inv, NEW h \in Handles, NewBackend(h) \/ Load(h)
    PROVE  UNCHANGED Promise!vars
<1>1. UNCHANGED <<pending, hand, read>> /\ handle[h].pc \in Held /\ handle[h] \in HandleRecords
  BY DEF NewBackend, Load, Held, Opening, Inv, Shapes
<1>2. PICK p \in Held : handle' = [handle EXCEPT ![h].pc = p]
  BY DEF NewBackend, Load, Held, Opening
<1>3. \A g \in Handles \ {h} : handle'[g] = handle[g]
  BY <1>2 DEF Inv, Shapes
<1>4. /\ handle'[h].pc = p /\ handle'[h].cid = handle[h].cid
      /\ handle'[h].inbox = handle[h].inbox /\ handle'[h].taken = handle[h].taken
  BY <1>1, <1>2 DEF Inv, Shapes, HandleRecords
<1> QED
  BY <1>1, <1>3, <1>4, Elsewhere

\* Every step of the messenger is a step of the mailbox or nothing to it.
LEMMA NextMaps == Inv /\ [Next]_vars => [Promise!Next]_(Promise!vars)
<1> SUFFICES ASSUME Inv, [Next]_vars PROVE Promise!Next \/ UNCHANGED Promise!vars
  OBVIOUS
<1>a. ASSUME UNCHANGED <<handle, pending, hand, read>> PROVE UNCHANGED Promise!vars
  BY <1>a, Elsewhere
<1>f. 1..MaxTraffic = Frames
  BY DEF Frames
<1>1. CASE UNCHANGED vars
  BY <1>1, <1>a DEF vars
<1>2. CASE Outbound \/ SkipUnreadable \/ Reply \/ StreamEnds \/ Abandon
  BY <1>2, <1>a DEF Outbound, SkipUnreadable, Reply, StreamEnds, Abandon
<1>3. CASE RouteFrame
  BY <1>3, <1>f, RouteFrameMaps DEF Promise!Next
<1>4. CASE QueueFrame
  BY <1>4, QueueFrameMaps
<1>5. CASE Poll \/ LinkFails \/ AppStops
  BY <1>5, <1>a DEF Poll, LinkFails, AppStops
<1>6. ASSUME NEW h \in Handles, SendRequest(h) \/ Register(h) PROVE UNCHANGED Promise!vars
  BY <1>6, <1>a DEF SendRequest, Register
<1>7. ASSUME NEW h \in Handles, NextMessage(h) PROVE Promise!Next
  BY <1>7, <1>f, NextMessageMaps DEF Promise!Next
<1>8. ASSUME NEW h \in Handles, Drop(h) PROVE Promise!Next
  BY <1>8, DropMaps DEF Promise!Next
<1>9. ASSUME NEW h \in Handles, NEW c \in Cids, Open(h, c) PROVE Promise!Next
  BY <1>9, OpenMaps DEF Promise!Next
<1>10. ASSUME NEW h \in Handles, Caller(h) PROVE Promise!Next \/ UNCHANGED Promise!vars
  BY <1>10, <1>6, <1>7, TakePendingMaps, FlushMaps, CallProgressMaps DEF Caller
<1>11. ASSUME NEW h \in Handles, NEW p \in Payloads, NEW e \in Extensions, SendMessage(h, p, e)
       PROVE  UNCHANGED Promise!vars
  BY <1>11, <1>a DEF SendMessage
<1>12. ASSUME NEW m, AgentSends(m) PROVE UNCHANGED Promise!vars
  BY <1>12, <1>a DEF AgentSends
<1>13. ASSUME NEW m, NEW S, AgentAnswers(m, S) PROVE UNCHANGED Promise!vars
  BY <1>13, <1>a DEF AgentAnswers
<1> QED
  BY <1>1, <1>2, <1>3, <1>4, <1>5, <1>6, <1>8, <1>9, <1>10, <1>11, <1>12, <1>13 DEF Next, Task

\* The messenger implements the mailbox, for every set of accounts and any
\* number of handles: however multiplex calls, drops and arrivals interleave, a
\* routed frame is read at most once and is given up only with a handle that
\* closes (mod.rs, multiplex, the inbound task and the drop of a handle).
THEOREM KeepsThePromise == Spec => KeepsItsPromise
<1>1. Inv /\ [Next]_vars => [Promise!Next]_(Promise!vars)
  BY NextMaps
<1> QED
  BY <1>1, InitMaps, InvHolds, PTL DEF Spec, KeepsItsPromise, Promise!Spec
=============================================================================
