------------------------------ MODULE Commands -------------------------------
(* What two agents say to each other about a conversation, and what one      *)
(* writes down: the CBOR of a P2P command, which command a payload is, and   *)
(* the stored form of a page.  Nothing here has state; the assumptions are   *)
(* evaluated by TLC.  An error, and an absent value, is <<>>.                *)
EXTENDS Integers, Sequences, FiniteSets

-----------------------------------------------------------------------------
(* CBOR values.  A header keeps its width: the bytes after the initial one.  *)

Widths == {0, 1, 2, 4, 8}
U32_MAX == 2147483646   \* TLC's largest number is one more, so that there is one

minimal(n) == CASE n < 24 -> 0 [] n < 256 -> 1 [] n < 65536 -> 2 [] OTHER -> 4

Uint(n, w) == [t |-> "uint", n |-> n, w |-> w]
Nint(n, w) == [t |-> "nint", n |-> n, w |-> w]
text(s) == [t |-> "text", s |-> s]
ByteString(s) == [t |-> "bytes", s |-> s]
Array(items) == [t |-> "array", items |-> items]
Map(entries, w) == [t |-> "map", entries |-> entries, w |-> w]
Tag(n, inner) == [t |-> "tag", n |-> n, inner |-> inner]
Bool(b) == [t |-> "bool", b |-> b]
Null == [t |-> "null"]
Undefined == [t |-> "undefined"]
Float(f) == [t |-> "float", f |-> f]

bigint(n) == Uint(n, 8)
number(x) ==
    CASE x >= 0 /\ x <= U32_MAX -> Uint(x, minimal(x))
      [] x < 0 /\ x >= -U32_MAX -> Nint(-1 - x, minimal(-1 - x))
      [] OTHER -> Float(x)
object(fields) == Map([i \in 1 .. Len(fields) |-> <<text(fields[i][1]), fields[i][2]>>], 2)

\* The first entry under the text key.
get(v, key) ==
    LET at == {i \in 1 .. Len(v.entries) : v.entries[i][1] = text(key)}
    IN  IF v.t # "map" THEN <<>>
        ELSE IF at = {} THEN <<>> ELSE <<v.entries[CHOOSE i \in at : \A j \in at : i <= j][2]>>

as_str(o) == IF o # <<>> /\ o[1].t = "text" THEN <<o[1].s>> ELSE <<>>
as_number(o) ==
    IF o = <<>> THEN <<>>
    ELSE CASE o[1].t = "uint" /\ o[1].w # 8 -> <<o[1].n>>
           [] o[1].t = "nint" /\ o[1].w # 8 -> <<-1 - o[1].n>>
           [] o[1].t = "float" -> <<o[1].f>>
           [] OTHER -> <<>>
as_bigint(o) == IF o # <<>> /\ o[1].t = "uint" /\ o[1].w = 8 THEN <<o[1].n>> ELSE <<>>
as_bool(o) == IF o # <<>> /\ o[1].t = "bool" THEN <<o[1].b>> ELSE <<>>

-----------------------------------------------------------------------------
(* Bytes *)

\* Big endian; no number here needs more than four bytes.
be_bytes(n, k) == [i \in 1 .. k |-> IF k - i > 3 THEN 0 ELSE (n \div (256 ^ (k - i))) % 256]
from_be_bytes(b) ==
    LET low == IF Len(b) > 4 THEN SubSeq(b, Len(b) - 3, Len(b)) ELSE b
        f[i \in 0 .. 4] == IF i = 0 THEN 0 ELSE IF i > Len(low) THEN f[i - 1] ELSE f[i - 1] * 256 + low[i]
    IN  f[4]

Info(w, n) == CASE w = 0 -> n [] w = 1 -> 24 [] w = 2 -> 25 [] w = 4 -> 26 [] OTHER -> 27
head(major, n, w) == <<major * 32 + Info(w, n)>> \o be_bytes(n, w)

RECURSIVE write(_), writeAll(_)
writeAll(items) == IF items = <<>> THEN <<>> ELSE write(Head(items)) \o writeAll(Tail(items))
write(v) ==
    CASE v.t = "uint" -> head(0, v.n, v.w)
      [] v.t = "nint" -> head(1, v.n, v.w)
      [] v.t = "bytes" -> head(2, Len(v.s), minimal(Len(v.s))) \o v.s
      [] v.t = "text" -> head(3, Len(v.s), minimal(Len(v.s))) \o v.s
      [] v.t = "array" -> head(4, Len(v.items), minimal(Len(v.items))) \o writeAll(v.items)
      [] v.t = "map" -> head(5, Len(v.entries), v.w)
                        \o writeAll([i \in 1 .. (2 * Len(v.entries)) |-> v.entries[(i + 1) \div 2][2 - (i % 2)]])
      [] v.t = "tag" -> head(6, v.n, minimal(v.n)) \o write(v.inner)
      [] v.t = "bool" -> IF v.b THEN <<245>> ELSE <<244>>
      [] v.t = "null" -> <<246>>
      [] v.t = "undefined" -> <<247>>
      [] OTHER -> <<251>> \o be_bytes(v.f, 8)

MAX_DEPTH == 3   \* 64 in the code

\* [at, v]: what was taken from at on and where it ended.
take(bytes, at, n) == IF at + n <= Len(bytes) THEN <<[at |-> at + n, v |-> SubSeq(bytes, at + 1, at + n)]>> ELSE <<>>

argument(bytes, at, info) ==
    LET wide(w) == LET b == take(bytes, at, w)
                   IN  IF b = <<>> THEN <<>> ELSE <<[at |-> b[1].at, n |-> from_be_bytes(b[1].v), w |-> w]>>
    IN  CASE info < 24 -> <<[at |-> at, n |-> info, w |-> 0]>>
          [] info = 24 -> wide(1) [] info = 25 -> wide(2) [] info = 26 -> wide(4) [] info = 27 -> wide(8)
          [] OTHER -> <<>>

\* No more elements than bytes are left.
length(bytes, at, info) ==
    LET a == argument(bytes, at, info)
    IN  IF a = <<>> \/ (a # <<>> /\ a[1].n > Len(bytes) - a[1].at) THEN <<>> ELSE a

RECURSIVE value(_, _, _), values(_, _, _, _)
values(bytes, at, n, depth) ==
    IF n = 0 THEN <<[at |-> at, v |-> <<>>]>>
    ELSE LET first == value(bytes, at, depth)
             rest == values(bytes, first[1].at, n - 1, depth)
         IN  IF first = <<>> THEN <<>>
             ELSE IF rest = <<>> THEN <<>> ELSE <<[at |-> rest[1].at, v |-> <<first[1].v>> \o rest[1].v]>>
value(bytes, at, depth) ==
    LET major == bytes[at + 1] \div 32
        info == bytes[at + 1] % 32
        a == argument(bytes, at + 1, info)
        l == length(bytes, at + 1, info)
        b == take(bytes, l[1].at, l[1].n)
        items == values(bytes, l[1].at, IF major = 5 THEN 2 * l[1].n ELSE l[1].n, depth + 1)
        inner == value(bytes, a[1].at, depth + 1)
        f == take(bytes, at + 1, 8)
        ok(end, v) == <<[at |-> end, v |-> v]>>
    IN  IF depth > MAX_DEPTH \/ at >= Len(bytes) THEN <<>>
        ELSE CASE major = 0 -> IF a = <<>> THEN <<>> ELSE ok(a[1].at, Uint(a[1].n, a[1].w))
               [] major = 1 -> IF a = <<>> THEN <<>> ELSE ok(a[1].at, Nint(a[1].n, a[1].w))
               [] major \in {2, 3} ->
                    IF l = <<>> THEN <<>>
                    ELSE IF b = <<>> THEN <<>>
                    ELSE ok(b[1].at, IF major = 2 THEN ByteString(b[1].v) ELSE text(b[1].v))
               [] major \in {4, 5} ->
                    IF l = <<>> THEN <<>>
                    ELSE IF items = <<>> THEN <<>>
                    ELSE ok(items[1].at, IF major = 4 THEN Array(items[1].v)
                            ELSE Map([i \in 1 .. l[1].n |-> <<items[1].v[2 * i - 1], items[1].v[2 * i]>>], l[1].w))
               [] major = 6 ->
                    IF a = <<>> THEN <<>> ELSE IF inner = <<>> THEN <<>> ELSE ok(inner[1].at, Tag(a[1].n, inner[1].v))
               [] OTHER ->
                    CASE info = 20 -> ok(at + 1, Bool(FALSE)) [] info = 21 -> ok(at + 1, Bool(TRUE))
                      [] info = 22 -> ok(at + 1, Null) [] info = 23 -> ok(at + 1, Undefined)
                      [] info = 27 -> IF f = <<>> THEN <<>> ELSE ok(f[1].at, Float(from_be_bytes(f[1].v)))
                      [] OTHER -> <<>>

\* One whole value; what follows it is an error.
decode(bytes) ==
    LET v == value(bytes, 0, 0)
    IN  IF v = <<>> \/ (v # <<>> /\ v[1].at # Len(bytes)) THEN <<>> ELSE <<v[1].v>>

Leaves ==
    {Uint(n, w) : n \in {0, 23}, w \in Widths} \cup {Uint(n, minimal(n)) : n \in {24, 255, 256, 65535, 65536}}
    \cup {number(-1), number(-300), text(<<7>>), text(<<>>), ByteString(<<1, 2>>), Bool(TRUE), Null, Undefined, Float(5)}
Nested(S) ==
    {Array(<<>>), Map(<<>>, 2)} \cup {Array(<<x, y>>) : x, y \in S} \cup {Map(<<<<text(<<7>>), x>>>>, 2) : x \in S}
    \cup {Map(<<<<x, x>>, <<text(<<8>>), x>>>>, 0) : x \in S} \cup {Tag(64, x) : x \in S}
Deep == LET f[d \in 0 .. 6] == IF d = 0 THEN Null ELSE Array(<<f[d - 1]>>) IN f

\* What is written is read back as it was, with the width it had; cut short or
\* followed by anything, nested too deep or with a length past its end, it is an
\* error and never a value (cbor.rs, cbor_decode.rs).
ASSUME WrittenIsRead ==
    /\ \A v \in Leaves \cup Nested(Leaves) \cup Nested({Array(<<Null>>), Map(<<<<text(<<7>>), Undefined>>>>, 2)}) :
          /\ decode(write(v)) = <<v>>
          /\ decode(write(v) \o <<0>>) = <<>>
          /\ \A n \in 1 .. (Len(write(v)) - 1) : decode(SubSeq(write(v), 1, n)) = <<>>
    /\ \A d \in 0 .. 6 : (decode(write(Deep[d])) # <<>>) <=> (d <= MAX_DEPTH)
    /\ \A major \in 2 .. 5, n \in {1, 23, 300} : decode(head(major, n, minimal(n))) = <<>>

\* An identity is never taken for a number, nor a number for an identity, and a
\* number is itself again whatever form it takes (cbor.rs).
ASSUME NumbersKeepTheirKind ==
    \A x \in {0, 23, 24, 70000, U32_MAX, U32_MAX + 1, -1, -70000, -U32_MAX - 1} :
        /\ as_number(<<number(x)>>) = <<x>> /\ as_bigint(<<number(x)>>) = <<>>
        /\ x >= 0 => as_bigint(<<bigint(x)>>) = <<x>> /\ as_number(<<bigint(x)>>) = <<>>

-----------------------------------------------------------------------------
(* Commands: built by one agent, read by the other *)

opt_text(o) == IF o = <<>> THEN Undefined ELSE text(o[1])

messaging_layer(layer, e) ==
    object(<<<<"type", text("MessagingLayerCommand")>>,
             <<"payload", object(<<<<"layer", layer>>, <<"sender_cid", bigint(e.sender_cid)>>,
                                   <<"recipient_cid", bigint(e.recipient_cid)>>, <<"message_id", text(e.message_id)>>,
                                   <<"index", number(e.index)>>, <<"reply_to", opt_text(e.reply_to)>>>>)>>>>)
message_layer(contents, at) == object(<<<<"type", text("Message")>>, <<"contents", text(contents)>>, <<"timestamp", number(at)>>>>)
edit_layer(target, contents, at) ==
    object(<<<<"type", text("MessageEdit")>>, <<"message_id", text(target)>>, <<"contents", text(contents)>>,
             <<"edited_at", number(at)>>>>)
delete_layer(target, at) == object(<<<<"type", text("MessageDelete")>>, <<"message_id", text(target)>>, <<"deleted_at", number(at)>>>>)
reaction_layer(target, emoji, active, at) ==
    object(<<<<"type", text("MessageReaction")>>, <<"message_id", text(target)>>, <<"emoji", text(emoji)>>,
             <<"active", Bool(active)>>, <<"reacted_at", number(at)>>>>)
check_state_response == object(<<<<"type", text("CheckStateResponse")>>, <<"ready", Bool(TRUE)>>>>)
ack(kind, id, at) ==
    object(<<<<"type", text("MessageAck")>>,
             <<"payload", object(<<<<"ack_type", text(kind)>>, <<"message_id", text(id)>>, <<"timestamp", number(at)>>,
                                   <<"error", Undefined>>>>)>>>>)

envelope(p) ==
    LET sender == as_bigint(get(p, "sender_cid"))
        recipient == as_bigint(get(p, "recipient_cid"))
        id == as_str(get(p, "message_id"))
        index == as_number(get(p, "index"))
    IN  IF <<>> \in {sender, recipient} \/ id = <<>> THEN <<>>
        ELSE <<[sender_cid |-> sender[1], recipient_cid |-> recipient[1], message_id |-> id[1],
                index |-> IF index = <<>> THEN 0 ELSE index[1], reply_to |-> as_str(get(p, "reply_to"))]>>

ForAWindow == [kind |-> "ForAWindow"]

ReadLayer(p, layer) ==
    LET kind == as_str(get(layer, "type"))
        target == as_str(get(layer, "message_id"))
        contents == as_str(get(layer, "contents"))
        e == envelope(p)
    IN  IF kind = <<>> THEN <<>>
        ELSE CASE kind[1] = "Message" ->
                    LET at == as_number(get(layer, "timestamp"))
                    IN  IF e = <<>> \/ contents = <<>> \/ at = <<>> THEN <<>>
                        ELSE <<[kind |-> "Message", envelope |-> e[1], contents |-> contents[1], at |-> at[1]]>>
               [] kind[1] = "MessageEdit" ->
                    LET at == as_number(get(layer, "edited_at"))
                    IN  IF target = <<>> \/ contents = <<>> \/ at = <<>> THEN <<>>
                        ELSE <<[kind |-> "Edit", target |-> target[1], contents |-> contents[1], at |-> at[1]]>>
               [] kind[1] = "MessageDelete" -> IF target = <<>> THEN <<>> ELSE <<[kind |-> "Delete", target |-> target[1]]>>
               [] kind[1] = "MessageReaction" ->
                    LET emoji == as_str(get(layer, "emoji"))
                        active == as_bool(get(layer, "active"))
                        at == as_number(get(layer, "reacted_at"))
                    IN  IF target = <<>> \/ emoji = <<>> \/ active = <<>> \/ at = <<>> THEN <<>>
                        ELSE <<[kind |-> "Reaction", target |-> target[1], emoji |-> emoji[1], active |-> active[1], at |-> at[1]]>>
               [] kind[1] = "ScreenshotNotice" ->
                    IF e = <<>> THEN <<>> ELSE <<[kind |-> "Screenshot", envelope |-> e[1], at |-> as_number(get(layer, "taken_at"))]>>
               [] kind[1] = "CheckState" -> <<[kind |-> "CheckState"]>>
               [] kind[1] \in {"Typing", "Away", "Online", "Offline", "CustomState", "CheckStateResponse"} -> <<[kind |-> "Ephemeral"]>>
               [] OTHER -> <<ForAWindow>>

read(command) ==
    LET payload == get(command, "payload")
        type == as_str(get(command, "type"))
    IN  IF payload = <<>> \/ type = <<>> THEN <<>>
        ELSE CASE type[1] = "MessageAck" ->
                    LET kind == as_str(get(payload[1], "ack_type"))
                        id == as_str(get(payload[1], "message_id"))
                    IN  IF kind = <<>> THEN <<>>
                        ELSE IF kind[1] \notin {"delivered", "read", "failed"} THEN <<ForAWindow>>
                        ELSE IF id = <<>> THEN <<>> ELSE <<[kind |-> "Ack", ack |-> kind[1], id |-> id[1]]>>
               [] type[1] = "CallSignal" -> <<[kind |-> "Ephemeral"]>>
               [] type[1] = "MessagingLayerCommand" ->
                    IF get(payload[1], "layer") = <<>> THEN <<>> ELSE ReadLayer(payload[1], get(payload[1], "layer")[1])
               [] OTHER -> <<ForAWindow>>

\* What becomes of an arriving payload: taken by the store, or by a window, and
\* then handled only if there is one; answered, or shown and forgotten.
delivered(inbound, windows, stored) ==
    IF inbound = <<>> THEN windows > 0
    ELSE CASE inbound[1].kind = "ForAWindow" -> windows > 0
           [] inbound[1].kind \in {"Ephemeral", "CheckState"} -> TRUE
           [] OTHER -> stored

AnEnvelope == [sender_cid |-> 5, recipient_cid |-> 6, message_id |-> "m", index |-> 70000, reply_to |-> <<"r">>]
Without(v, key) == Map(SelectSeq(v.entries, LAMBDA e : e[1] # text(key)), v.w)
ALayer == {message_layer("c", 9), edit_layer("t", "c", 9), delete_layer("t", 9), reaction_layer("t", "e", FALSE, 9)}

\* Every command one agent builds is the one the other reads, whole; one that
\* lacks what its kind needs changes no conversation and is left to a window
\* (command.rs, command_build.rs, inbound.rs).
ASSUME BuiltIsUnderstood ==
    /\ read(messaging_layer(message_layer("c", 9), AnEnvelope)) = <<[kind |-> "Message", envelope |-> AnEnvelope, contents |-> "c", at |-> 9]>>
    /\ read(messaging_layer(edit_layer("t", "c", 9), AnEnvelope)) = <<[kind |-> "Edit", target |-> "t", contents |-> "c", at |-> 9]>>
    /\ read(messaging_layer(delete_layer("t", 9), AnEnvelope)) = <<[kind |-> "Delete", target |-> "t"]>>
    /\ read(messaging_layer(reaction_layer("t", "e", FALSE, 9), AnEnvelope))
          = <<[kind |-> "Reaction", target |-> "t", emoji |-> "e", active |-> FALSE, at |-> 9]>>
    /\ read(messaging_layer(check_state_response, AnEnvelope)) = <<[kind |-> "Ephemeral"]>>
    /\ \A kind \in {"delivered", "read", "failed"} : read(ack(kind, "m", 9)) = <<[kind |-> "Ack", ack |-> kind, id |-> "m"]>>
    /\ \A layer \in ALayer : \A key \in {"type", "message_id", "contents", "timestamp", "edited_at", "emoji", "active", "reacted_at"} :
          Without(layer, key) # layer =>
             LET inbound == read(messaging_layer(Without(layer, key), AnEnvelope))
             IN  inbound = <<>> /\ ~delivered(inbound, 0, TRUE) /\ delivered(inbound, 1, FALSE)

-----------------------------------------------------------------------------
(* The stored form of a page *)

\* A reaction's list inside a page: bytes, or nothing where there is none.
encode_reactions(list) ==
    IF list = <<>> THEN <<>>
    ELSE <<Array([i \in 1 .. Len(list) |->
             object(<<<<"emoji", text(list[i].emoji)>>, <<"reactorCid", bigint(list[i].reactor_cid)>>,
                      <<"at", number(list[i].at)>>, <<"active", Bool(list[i].active)>>>>)])>>

\* An entry that is not whole is dropped.
decode_reactions(v) ==
    LET whole(x) == /\ as_str(get(x, "emoji")) # <<>> /\ as_bigint(get(x, "reactorCid")) # <<>>
                    /\ as_number(get(x, "at")) # <<>> /\ as_bool(get(x, "active")) # <<>>
        items == SelectSeq(v.items, whole)
    IN  IF v.t # "array" THEN <<>>
        ELSE IF items = <<>> THEN <<>>
        ELSE <<[i \in 1 .. Len(items) |->
                  [emoji |-> as_str(get(items[i], "emoji"))[1], reactor_cid |-> as_bigint(get(items[i], "reactorCid"))[1],
                   at |-> as_number(get(items[i], "at"))[1], active |-> as_bool(get(items[i], "active"))[1]]]>>

\* A CID is written as a decimal string; older writers also wrote a number.
cid_to_string(cid) == [string |-> <<cid>>, number |-> <<>>]
AsOldWriters(cid) == [string |-> <<>>, number |-> <<cid>>]
cid_from_string(v) == IF v.string # <<>> THEN v.string[1] ELSE v.number[1]

encode_page(page) ==
    [peerCid |-> cid_to_string(page.peer),
     messages |-> [i \in 1 .. Len(page.messages) |->
        [senderCid |-> cid_to_string(page.messages[i].sender),
         reactions |-> IF page.messages[i].reactions = <<>> THEN <<>> ELSE encode_reactions(page.messages[i].reactions[1])]]]

decode_page(v) ==
    [peer |-> cid_from_string(v.peerCid),
     messages |-> [i \in 1 .. Len(v.messages) |->
        [sender |-> cid_from_string(v.messages[i].senderCid),
         reactions |-> IF v.messages[i].reactions = <<>> THEN <<>> ELSE decode_reactions(v.messages[i].reactions[1])]]]

encode_metadata(meta) == [peerCid |-> cid_to_string(meta.peer), ownerCid |-> IF meta.owner = <<>> THEN <<>> ELSE <<cid_to_string(meta.owner[1])>>]
decode_metadata(v) == [peer |-> cid_from_string(v.peerCid), owner |-> IF v.ownerCid = <<>> THEN <<>> ELSE <<cid_from_string(v.ownerCid[1])>>]

AReaction == [emoji |-> "e", reactor_cid |-> 5, at |-> U32_MAX + 1, active |-> TRUE]
APage(reactions) == [peer |-> 6, messages |-> <<[sender |-> 5, reactions |-> reactions], [sender |-> 6, reactions |-> <<>>]>>]

\* A page is read as it was written, its owner and its parties by either writer's
\* form; an empty list of reactions is none, and a broken entry costs only itself (stored.rs).
ASSUME PagesSurvive ==
    /\ \A reactions \in {<<>>, <<<<AReaction>>>>, <<<<AReaction, [AReaction EXCEPT !.active = FALSE]>>>>} :
          decode_page(encode_page(APage(reactions))) = APage(reactions)
    /\ decode_page(encode_page(APage(<<<<>>>>))) = APage(<<>>)
    /\ decode_page([encode_page(APage(<<>>)) EXCEPT !.peerCid = AsOldWriters(6)]) = APage(<<>>)
    /\ \A owner \in {<<>>, <<5>>} : decode_metadata(encode_metadata([peer |-> 6, owner |-> owner])) = [peer |-> 6, owner |-> owner]
    /\ LET items == encode_reactions(<<AReaction, AReaction>>)[1].items
       IN  decode_reactions(Array(<<Without(items[1], "at"), items[2]>>)) = <<<<AReaction>>>>
=============================================================================
