------------------------------- MODULE Groups -------------------------------
(* The groups of one session: the channels it holds, the departures it hears *)
(* of on two paths, the invitations it keeps, and the session's entry and    *)
(* SDK session coming and going under them.                                  *)
EXTENDS Naturals, Sequences

CONSTANTS
    GroupKeys,
    MaxChannels, \* channels the SDK opens
    Callers,     \* requests of the windows at once
    MaxCalls,    \* requests of the windows
    MaxNews,     \* invitations, departures and leaves' answers from the server
    MaxSdk       \* SDK sessions

VARIABLES
    entry,       \* the session in the map: "none", "up", "reconnecting"
    sdk, epoch,  \* is there an SDK session, and which
    chan,        \* every channel: its key, SDK session and whether it was asked for
    member,      \* server: the channel it counts the session a member by, 0 none
    groups,      \* Connection.groups: the channel of each key, 0 none
    departed,    \* channels whose departure flag is set
    receiving,   \* channels with a receiver task
    waiting,     \* channels whose GroupChannelCreated is at the kernel
    toRx,        \* departures in the channels
    toKernel,    \* events on the kernel's path
    telling,     \* channels whose departure is flagged and not yet told
    told,        \* channels the windows were told this session is out of
    late,        \* channels a send was let through to after that
    left,        \* channels dropped while their SDK session lived: LeaveRoom
    invites,     \* pending_group_invites: the keys kept
    owed,        \* keys invited to with no answer given or under way
    ask,         \* each caller's request
    calls, news

vars == <<entry, sdk, epoch, chan, member, groups, departed, receiving, waiting, toRx, toKernel,
          telling, told, late, left, invites, owed, ask, calls, news>>

Idle == [kind |-> "idle", key |-> CHOOSE k \in GroupKeys : TRUE, chan |-> 0, yes |-> FALSE]
NoGroups == [k \in GroupKeys |-> 0]

Init ==
    /\ entry = "up" /\ sdk = TRUE /\ epoch = 1
    /\ chan = <<>>
    /\ member = NoGroups /\ groups = NoGroups
    /\ departed = {} /\ receiving = {} /\ waiting = {}
    /\ toRx = {} /\ toKernel = {}
    /\ telling = {} /\ told = {} /\ late = {} /\ left = {}
    /\ invites = {} /\ owed = {}
    /\ ask = [a \in Callers |-> Idle]
    /\ calls = 0 /\ news = 0

sessionVars == <<entry, sdk, epoch>>
channelVars == <<chan, member, waiting, left>>
mapVars == <<groups, departed, receiving>>
newsVars == <<toRx, toKernel, telling, told, news>>
inviteVars == <<invites, owed>>
askVars == <<ask, calls, late>>

-----------------------------------------------------------------------------
(* GroupChannels and PendingGroupInvites *)

Departed(c) == c \in departed
get(k) == IF groups[k] # 0 /\ ~Departed(groups[k]) THEN groups[k] ELSE 0
keys == {k \in GroupKeys : get(k) # 0}

\* Every insert sweeps the entries that were left.
insert(k, c) ==
    [j \in GroupKeys |-> IF j = k THEN c ELSE IF Departed(groups[j]) THEN 0 ELSE groups[j]]

\* What the kernel's path marks: the entry of the key, whichever channel it is.
mark_departed(k) == IF get(k) = 0 THEN {} ELSE {get(k)}

\* One invitation a group, the last; their order is the windows' to show.
record(k) == invites \cup {k}
settle(k) == invites \ {k}
unanswered(joined) == invites \ joined

list_joined == [groups |-> keys, pending_invites |-> unanswered(keys)]

-----------------------------------------------------------------------------
(* Channels *)

\* add_group_channel and the receiver task, given the new entry's own flag.
adopt(k, c, of) ==
    /\ groups' = insert(k, c)
    /\ receiving' = IF of = epoch /\ sdk THEN receiving \cup {c} ELSE receiving
    /\ UNCHANGED departed

opened(k, asked) == Append(chan, [key |-> k, epoch |-> epoch, asked |-> asked])

\* No session to adopt an asked-for channel: its receiver is dropped, and the
\* SDK leaves the group with it.
adopt_or_drop(k, c) ==
    IF entry # "none"
    THEN adopt(k, c, epoch) /\ member' = [member EXCEPT ![k] = c] /\ UNCHANGED left
    ELSE /\ left' = left \cup {c}
         /\ member' = [member EXCEPT ![k] = 0]
         /\ UNCHANGED mapVars

\* A member of another SDK session, or of none, is given a channel of this one.
Joinable(k) ==
    /\ sdk /\ Len(chan) < MaxChannels
    /\ (member[k] # 0 => chan[member[k]].epoch # epoch)

\* The server restores a membership or admits a joiner: nobody waits for it.
ServerOpens(k) ==
    /\ Joinable(k)
    /\ chan' = opened(k, FALSE)
    /\ member' = [member EXCEPT ![k] = Len(chan')]
    /\ waiting' = waiting \cup {Len(chan')}
    /\ UNCHANGED <<sessionVars, mapVars, newsVars, inviteVars, askVars, left>>

GroupChannelCreated(c) ==
    /\ c \in waiting /\ entry # "none"
    /\ waiting' = waiting \ {c}
    /\ adopt(chan[c].key, c, chan[c].epoch)
    /\ UNCHANGED <<sessionVars, newsVars, inviteVars, askVars, chan, member, left>>

parkDropping(c) ==
    /\ c \in waiting /\ entry = "none"
    /\ waiting' = waiting \ {c}
    /\ left' = IF sdk /\ chan[c].epoch = epoch THEN left \cup {c} ELSE left
    /\ UNCHANGED <<sessionVars, mapVars, newsVars, inviteVars, askVars, chan, member>>

\* Never mapped in time: held, so that its drop does not leave the group.
park(c) ==
    /\ c \in waiting /\ entry = "none"
    /\ waiting' = waiting \ {c}
    /\ UNCHANGED <<sessionVars, mapVars, newsVars, inviteVars, askVars, chan, member, left>>

-----------------------------------------------------------------------------
(* Requests *)

Begin(a, kind, k, c, yes) ==
    /\ ask[a] = Idle /\ calls < MaxCalls
    /\ ask' = [ask EXCEPT ![a] = [kind |-> kind, key |-> k, chan |-> c, yes |-> yes]]
    /\ calls' = calls + 1
    /\ UNCHANGED <<sessionVars, channelVars, mapVars, newsVars, invites, late>>

answered(a) == ask' = [ask EXCEPT ![a] = Idle] /\ UNCHANGED calls
done(a) == answered(a) /\ UNCHANGED late

\* The sender is cloned and the map let go.
GroupMessage(a, k) ==
    /\ entry # "none" /\ get(k) # 0
    /\ Begin(a, "message", k, get(k), FALSE)
    /\ UNCHANGED owed

GroupInvite(a, k) == GroupMessage(a, k)
GroupKick(a, k) == GroupMessage(a, k)

\* reject_if_departed, then the SDK takes it or refuses it.
send_message(a) ==
    /\ ask[a].kind = "message"
    /\ late' = IF Departed(ask[a].chan) THEN late ELSE late \cup ({ask[a].chan} \cap told)
    /\ answered(a)
    /\ UNCHANGED <<sessionVars, channelVars, mapVars, newsVars, inviteVars>>

GroupLeave(a, k) ==
    /\ entry # "none" /\ get(k) # 0
    /\ Begin(a, "leave", k, get(k), FALSE)
    /\ UNCHANGED owed

GroupEnd(a, k) ==
    /\ entry # "none" /\ get(k) # 0
    /\ Begin(a, "leave", k, get(k), TRUE)
    /\ UNCHANGED owed

\* What the server says to a member that leaves, or that ends the group: a
\* LeaveRoomResponse comes to the kernel, an EndResponse to it or to the channel.
serverAnswers(c, k, ends) ==
    /\ news < MaxNews /\ news' = news + 1
    /\ \/ ends /\ toRx' = toRx \cup {[chan |-> c, what |-> "end"]} /\ UNCHANGED toKernel
       \/ ends /\ toKernel' = toKernel \cup {[what |-> "end", key |-> k]} /\ UNCHANGED toRx
       \/ ~ends /\ toKernel' = toKernel \cup {[what |-> "left", key |-> k, chan |-> c]} /\ UNCHANGED toRx

\* The SDK takes the leave, and the server, which knows the group and not the
\* channel, acts on it; refused, nothing changes.
leave(a) ==
    /\ ask[a].kind = "leave"
    /\ LET c == ask[a].chan
           k == ask[a].key
       IN  \/ /\ sdk /\ chan[c].epoch = epoch
              /\ member' = [member EXCEPT ![k] = 0]
              /\ IF member[k] # 0 THEN serverAnswers(c, k, ask[a].yes) ELSE UNCHANGED <<toRx, toKernel, news>>
              /\ ask' = [ask EXCEPT ![a].kind = "flag"]
              /\ UNCHANGED <<calls, late>>
           \/ done(a) /\ UNCHANGED <<member, toRx, toKernel, news>>
    /\ UNCHANGED <<sessionVars, mapVars, inviteVars, chan, waiting, left, telling, told>>

\* The flag, then the answer.
LeaveSuccess(a) ==
    /\ ask[a].kind = "flag"
    /\ departed' = departed \cup {ask[a].chan}
    /\ told' = told \cup {ask[a].chan}
    /\ done(a)
    /\ UNCHANGED <<sessionVars, channelVars, inviteVars, groups, receiving, toRx, toKernel, telling, news>>

\* GroupRespondRequest to an invitation.  From here the key is being answered.
GroupRespondRequest(a, k, accept) ==
    /\ entry # "none" /\ k \in invites
    /\ Begin(a, "respond", k, epoch, accept)
    /\ owed' = owed \ {k}

Answering(k, others) == \E a \in others : ask[a].kind = "respond" /\ ask[a].key = k
owedAgain(a) ==
    LET k == ask[a].key
    IN  IF k \in invites /\ ~Answering(k, Callers \ {a}) THEN owed \cup {k} ELSE owed

\* Outcomes that settle: the channel, a yes from the server, a subscription
\* that ended.  When nothing came in time the invitation is owed again.
ChannelCreated(a) ==
    LET k == ask[a].key IN
    /\ ask[a].kind = "respond" /\ ask[a].yes /\ ask[a].chan = epoch
    /\ Joinable(k)
    /\ chan' = opened(k, TRUE)
    /\ adopt_or_drop(k, Len(chan'))
    /\ invites' = IF entry # "none" THEN settle(k) ELSE invites
    /\ done(a)
    /\ UNCHANGED <<sessionVars, newsVars, waiting, owed>>

MembershipAnswered(a, success) ==
    /\ ask[a].kind = "respond"
    /\ invites' = IF entry # "none" /\ success THEN settle(ask[a].key) ELSE invites
    /\ owed' = IF success THEN owed \ {ask[a].key} ELSE owedAgain(a)
    /\ done(a)
    /\ UNCHANGED <<sessionVars, channelVars, mapVars, newsVars>>

Ended(a) ==
    /\ ask[a].kind = "respond"
    /\ invites' = IF entry # "none" THEN settle(ask[a].key) ELSE invites
    /\ done(a)
    /\ UNCHANGED <<sessionVars, channelVars, mapVars, newsVars, owed>>
TimedOut(a) ==
    /\ ask[a].kind = "respond"
    /\ owed' = owedAgain(a)
    /\ done(a)
    /\ UNCHANGED <<sessionVars, channelVars, mapVars, newsVars, invites>>

\* These need no entry to begin.
GroupCreate(a, k) == Begin(a, "create", k, epoch, TRUE) /\ UNCHANGED owed
GroupCreateAppTopic(a, k) == GroupCreate(a, k)

create_with(a) ==
    /\ ask[a].kind = "create"
    /\ LET k == ask[a].key
       IN  \/ /\ Joinable(k) /\ ask[a].chan = epoch
              /\ chan' = opened(k, TRUE)
              /\ adopt_or_drop(k, Len(chan'))
           \/ UNCHANGED <<chan, member, left, mapVars>>
    /\ done(a)
    /\ UNCHANGED <<sessionVars, newsVars, inviteVars, waiting>>

\* The first of the events that end a wait; nothing came, or the subscription
\* ended, otherwise.
first_terminal(events, whats, ended) ==
    LET terminal == SelectSeq(events, LAMBDA e : e.what \in whats)
    IN  IF terminal # <<>> THEN terminal[1]
        ELSE [what |-> IF ended THEN "Ended" ELSE "TimedOut", success |-> FALSE]

await_join_outcome(events, ended) ==
    first_terminal(events, {"RequestJoinPending", "AcceptMembershipResponse", "GroupNonExists"}, ended)
await_invitation_outcome(events, ended) ==
    first_terminal(events, {"GroupChannelCreated", "AcceptMembershipResponse",
                            "DeclineMembershipResponse"}, ended)

\* GroupRequestJoin changes no state: only what it is answered with.
GroupRequestJoin(events, ended) ==
    LET outcome == await_join_outcome(events, ended)
    IN  outcome.success /\ outcome.what # "GroupNonExists"

-----------------------------------------------------------------------------
(* What the server says *)

Told(e) == toKernel' = toKernel \cup {e} /\ news' = news + 1

Invites(k) ==
    /\ sdk /\ news < MaxNews
    /\ Told([what |-> "invitation", key |-> k])
    /\ UNCHANGED <<sessionVars, channelVars, mapVars, inviteVars, askVars, toRx, telling, told>>

\* A kick, or the group's end: through the channel, if the SDK has one.
ServerRemoves(k, what) ==
    /\ sdk /\ news < MaxNews
    /\ IF member[k] # 0 /\ chan[member[k]].epoch = epoch
       THEN /\ what # "nonexists"
            /\ toRx' = toRx \cup {[chan |-> member[k], what |-> what]}
            /\ member' = [member EXCEPT ![k] = 0]
            /\ news' = news + 1
            /\ UNCHANGED toKernel
       ELSE /\ Told([what |-> what, key |-> k])
            /\ UNCHANGED <<toRx, member>>
    /\ UNCHANGED <<sessionVars, mapVars, inviteVars, askVars, chan, waiting, left, telling, told>>

\* The receiver task has the flag and not the map: first the flag.
ReceiverFlags(e) ==
    /\ e \in toRx /\ e.chan \in receiving
    /\ toRx' = toRx \ {e}
    /\ departed' = departed \cup {e.chan}
    /\ telling' = telling \cup {e.chan}
    /\ UNCHANGED <<sessionVars, channelVars, inviteVars, askVars, groups, receiving, toKernel, told, news>>

ReceiverTells(c) ==
    /\ c \in telling
    /\ telling' = telling \ {c}
    /\ told' = told \cup {c}
    /\ UNCHANGED <<sessionVars, channelVars, mapVars, inviteVars, askVars, toRx, toKernel, news>>

\* A LeaveRoomResponse ("left") is only passed on to the windows.
GroupEvent(e) ==
    /\ e \in toKernel /\ entry # "none"
    /\ toKernel' = toKernel \ {e}
    /\ IF e.what = "invitation"
       THEN /\ invites' = record(e.key)
            /\ owed' = IF Answering(e.key, Callers) THEN owed ELSE owed \cup {e.key}
       ELSE IF e.what \in {"end", "nonexists"}
       THEN invites' = settle(e.key) /\ owed' = owed \ {e.key}
       ELSE UNCHANGED inviteVars
    /\ LET gone == IF e.what \in {"end", "disconnected"} THEN mark_departed(e.key) ELSE {}
       IN  departed' = departed \cup gone /\ told' = told \cup gone
    /\ UNCHANGED <<sessionVars, channelVars, askVars, groups, receiving, toRx, telling, news>>

\* The session was not mapped in time.
EventLetGo(e) ==
    /\ e \in toKernel /\ entry = "none"
    /\ toKernel' = toKernel \ {e}
    /\ UNCHANGED <<sessionVars, channelVars, mapVars, inviteVars, askVars, toRx, telling, told, news>>

-----------------------------------------------------------------------------
(* The session *)

removed == groups' = NoGroups /\ invites' = {} /\ owed' = {}

SignOut ==
    /\ entry # "none" /\ entry' = "none"
    /\ removed
    /\ UNCHANGED <<sdk, epoch, channelVars, departed, receiving, newsVars, askVars>>

\* The SDK session goes, and with it the receivers of its channels.
LinkDrops ==
    /\ sdk /\ sdk' = FALSE
    /\ receiving' = {} /\ toRx' = {}
    /\ UNCHANGED <<entry, epoch, channelVars, groups, departed, toKernel, telling, told, news,
                   inviteVars, askVars>>

\* begin: the entry stays, its channels go, its invitations stay.
DropReported ==
    /\ entry = "up" /\ ~sdk
    /\ \/ /\ entry' = "reconnecting"
          /\ groups' = NoGroups
          /\ UNCHANGED inviteVars
       \/ entry' = "none" /\ removed
    /\ UNCHANGED <<sdk, epoch, channelVars, departed, receiving, newsVars, askVars>>

Connects ==
    /\ ~sdk /\ entry # "up" /\ epoch < MaxSdk
    /\ sdk' = TRUE /\ epoch' = epoch + 1
    /\ UNCHANGED <<entry, channelVars, mapVars, newsVars, inviteVars, askVars>>

Mapped ==
    /\ sdk /\ entry # "up"
    /\ entry' = "up"
    /\ UNCHANGED <<sdk, epoch, channelVars, mapVars, newsVars, inviteVars, askVars>>

Next ==
    \/ \E k \in GroupKeys :
          \/ ServerOpens(k) \/ Invites(k)
          \/ \E what \in {"end", "disconnected", "nonexists"} : ServerRemoves(k, what)
    \/ \E c \in waiting : GroupChannelCreated(c) \/ park(c)
    \/ \E a \in Callers, k \in GroupKeys :
          \/ GroupMessage(a, k) \/ GroupInvite(a, k) \/ GroupKick(a, k)
          \/ GroupLeave(a, k) \/ GroupEnd(a, k) \/ GroupCreate(a, k) \/ GroupCreateAppTopic(a, k)
          \/ \E accept \in BOOLEAN : GroupRespondRequest(a, k, accept)
    \/ \E a \in Callers :
          \/ send_message(a) \/ leave(a) \/ LeaveSuccess(a) \/ create_with(a)
          \/ ChannelCreated(a) \/ Ended(a) \/ TimedOut(a)
          \/ \E success \in BOOLEAN : MembershipAnswered(a, success)
    \/ \E e \in toRx : ReceiverFlags(e)
    \/ \E c \in telling : ReceiverTells(c)
    \/ \E e \in toKernel : GroupEvent(e) \/ EventLetGo(e)
    \/ SignOut \/ LinkDrops \/ DropReported \/ Connects \/ Mapped

Spec == Init /\ [][Next]_vars

-----------------------------------------------------------------------------
\* Once the windows were told that the session is out of a group - by its leave's
\* own answer, by the channel's receiver or by the kernel's end or disconnect - no
\* lookup finds that channel, and a sender cloned before is refused (group_channels.rs).
ToldMeansLeft == late = {} /\ \A k \in GroupKeys : get(k) \notin told

\* A LeaveRoomResponse, which the windows are shown as it comes and which marks
\* nothing, is of a channel that is flagged or whose leave, taken by the SDK, is
\* about to flag it (group_event.rs, group_channels.rs).
LeaveNoticeHasLeave ==
    \A e \in toKernel : e.what = "left" =>
        Departed(e.chan) \/ \E a \in Callers : ask[a].kind = "flag" /\ ask[a].chan = e.chan

\* An invitation that came while its group was not being answered stays listed
\* until an answer succeeds, the group is gone or the session is removed; a
\* reconnect keeps it (pending_group_invites.rs).
InviteKept ==
    \A k \in owed : k \in list_joined.groups \cup list_joined.pending_invites

\* A membership the SDK restored by itself is never given up because the event
\* came before, between or after sessions (session_wait.rs, park).
RestoredNotLeft == \A c \in left : chan[c].asked

\* All four: windows are told the truth about the channels they left and their
\* invitations, and no restored membership is given up (group_channels.rs,
\* pending_group_invites.rs).
GroupsSound == ToldMeansLeft /\ LeaveNoticeHasLeave /\ InviteKept /\ RestoredNotLeft

-----------------------------------------------------------------------------
(* What does not hold; see the README. *)

\* A message begun before a leave may be sent after it.
NothingSentAfterLeave ==
    \A a, b \in Callers : ask[a].kind = "flag" /\ ask[b].kind = "message"
        => ask[b].chan # ask[a].chan

\* A LeaveRoomResponse names the group: the windows are shown it while a lookup still
\* finds the channel, its flag not stored yet, or one of a later join.
LeaveNoticeIsCurrent ==
    \A e \in toKernel : e.what = "left" /\ entry # "none" => get(e.key) = 0

\* A late event of the kernel's path marks the channel that came after it.
MemberIsLive ==
    \A k \in GroupKeys : sdk /\ entry = "up" /\ member[k] # 0 /\ groups[k] = member[k]
        => ~Departed(groups[k])

\* An asked-for channel that finds no session is dropped with its group.
NoneLeft == left = {}

\* An entry is received from.
EntryReceives == \A k \in GroupKeys : sdk /\ get(k) # 0 => get(k) \in receiving
=============================================================================
