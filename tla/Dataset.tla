------------------------------- MODULE Dataset -------------------------------
(***************************************************************************)
(* What cmd/seed generates, as functions of what its random source draws:  *)
(* rosters, and one session after another into the rooms of each event,    *)
(* each given to the first candidate who is free.  Times are counted in    *)
(* half hours; names, titles and descriptions are left out.                *)
(***************************************************************************)
EXTENDS Naturals, Sequences, FiniteSets, SequencesExt

CONSTANTS
    Users,       \* users.ID in the order they are generated, demo identities first
    DemoRole,    \* the roles of the demo identities, by user
    External,    \* the shuffled pool of every user id
    Events,      \* what is generated, in order (see Event)
    Seats,       \* how many seats of each role an event gets, a set of draws
    Invited,     \* invitations per event
    Nobody

NoFixture == <<>>
People == ToSet(Users)
SeatRoles == {"admin", "contributor", "attendee"}

\* An event: when it opens, its rooms, how many sessions are spread over them;
\* or, for the two DST events, when the one session of its first room begins and
\* ends, the other room taking two.
Event == [name : STRING, opens : Nat, rooms : Seq(STRING), total : Nat,
          fixture : Seq(Nat), demo : BOOLEAN]

\* The demo identities are the first users.
DemoIdentities == SubSeq(Users, 1, Cardinality(DOMAIN DemoRole))

\* roomName: an event does not name two rooms alike.
ASSUME DatasetAssumption ==
    /\ Users \in Seq(STRING) /\ ToSet(External) = People /\ Nobody \notin People
    /\ External \in Seq(People)
    /\ DOMAIN DemoRole \subseteq People /\ ToSet(DemoIdentities) = DOMAIN DemoRole
    /\ Events \in Seq(Event) /\ \E i \in DOMAIN Events : Events[i].demo
    /\ \A i, j \in DOMAIN Events : Events[i].name = Events[j].name => i = j
    /\ \A i \in DOMAIN Events :
          /\ Events[i].rooms # <<>>
          /\ \A k, l \in DOMAIN Events[i].rooms : Events[i].rooms[k] = Events[i].rooms[l] => k = l
          /\ Events[i].fixture # NoFixture =>
                /\ Len(Events[i].rooms) = 2 /\ Len(Events[i].fixture) = 2
                /\ Events[i].fixture[1] < Events[i].fixture[2]
    /\ Invited \in Nat /\ (Invited * 8) \div 10 <= Len(Users)

-----------------------------------------------------------------------------
(* Members: distinct users, no more than there are.                          *)

PickDistinctUsers(n, exclude) ==
    {picked \in SUBSET (People \ exclude) :
        Cardinality(picked) = n \/ (Cardinality(picked) < n /\ picked = People \ exclude)}

DemoMembers(ev) == IF ev.demo THEN DOMAIN DemoRole ELSE {}

\* The rosters an event may be given: user -> role.
Rosters(ev) ==
    UNION {UNION {UNION {
        {[u \in DemoMembers(ev) \cup a \cup c \cup t |->
            IF u \in DemoMembers(ev) THEN DemoRole[u]
            ELSE IF u \in a THEN "admin" ELSE IF u \in c THEN "contributor" ELSE "attendee"] :
            t \in PickDistinctUsers(n.attendee, DemoMembers(ev) \cup a \cup c)} :
          c \in PickDistinctUsers(n.contributor, DemoMembers(ev) \cup a)} :
        a \in PickDistinctUsers(n.admin, DemoMembers(ev))} : n \in Seats}

-----------------------------------------------------------------------------
(* Sessions: the slots in the order they are filled, and who speaks.         *)

\* distributeSessions: room k of n gets its share, the first ones one more.
Share(total, n, k) == total \div n + (IF k <= total % n THEN 1 ELSE 0)

RoomSlots(ev, k, count) ==
    [j \in 1..count |-> [event |-> ev.name, room |-> <<ev.name, ev.rooms[k]>>,
                         opens |-> ev.opens + 18, fixture |-> NoFixture]]

SlotsOf(ev) ==
    IF ev.fixture = NoFixture
    THEN FlattenSeq([k \in 1..Len(ev.rooms) |->
                        RoomSlots(ev, k, Share(ev.total, Len(ev.rooms), k))])
    ELSE <<[event |-> ev.name, room |-> <<ev.name, ev.rooms[1]>>, opens |-> ev.opens,
            fixture |-> ev.fixture]>> \o RoomSlots(ev, 2, 2)

Slots == FlattenSeq([i \in 1..Len(Events) |-> SlotsOf(Events[i])])

\* A draw: the half hours the session takes, whether any user may speak, and the
\* order its event's members are asked in.
Candidates(draw) == (IF draw.direct THEN <<>> ELSE draw.order) \o External

\* speakerSchedule: what is placed so far, of every event.
\* Mutant: sessions that begin together are seen, those that overlap are not.
Coincides(placed, u, starts, ends) ==
    \E i \in DOMAIN placed : placed[i].speaker = u /\ placed[i].starts = starts
Overlaps(placed, u, starts, ends) ==
    \E i \in DOMAIN placed : /\ placed[i].speaker = u
                             /\ starts < placed[i].ends /\ placed[i].starts < ends

\* The first candidate who is free; the program panics when there is none.
PickSpeaker(candidates, placed, starts, ends) ==
    LET free == {k \in DOMAIN candidates : ~Overlaps(placed, candidates[k], starts, ends)}
    IN  IF free = {} THEN Nobody ELSE candidates[Min(free)]

\* Back to back with half an hour between two sessions of a room.
Cursor(placed, slot) ==
    LET there == {i \in DOMAIN placed : placed[i].room = slot.room}
    IN  IF there = {} THEN slot.opens ELSE placed[Max(there)].ends + 1

Place(placed, slot, draw) ==
    LET starts == IF slot.fixture = NoFixture THEN Cursor(placed, slot) ELSE slot.fixture[1]
        ends   == IF slot.fixture = NoFixture THEN starts + draw.length ELSE slot.fixture[2]
    IN  Append(placed, [event |-> slot.event, room |-> slot.room,
                        speaker |-> PickSpeaker(Candidates(draw), placed, starts, ends),
                        starts |-> starts, ends |-> ends])

Sessions(draws) ==
    LET placed[n \in 0..Len(Slots)] ==
            IF n = 0 THEN <<>> ELSE Place(placed[n - 1], Slots[n], draws[n])
    IN  placed[Len(Slots)]

Panics(sessions) == \E i \in DOMAIN sessions : sessions[i].speaker = Nobody

\* Four in five go to distinct users (here the first ones), the others to
\* addresses counted per event.
Invitations(ev) ==
    LET real == (Invited * 8) \div 10
    IN  {<<ev.name, "user", Users[i]>> : i \in 1..real}
          \cup {<<ev.name, "external", n>> : n \in 1..(Invited - real)}

-----------------------------------------------------------------------------
(* noSpeakerOrRoomOverlap, which the tests hold the generator to: sorted by   *)
(* their start, no two neighbours of a room or speaker overlap.               *)

\* i may come right before j in the group they share, sorted by start (not
\* stably: of those that begin together any may be first).
Neighbours(sessions, key, i, j) ==
    /\ i # j /\ sessions[i][key] = sessions[j][key] /\ sessions[i].starts <= sessions[j].starts
    /\ \A k \in DOMAIN sessions :
          sessions[k][key] = sessions[i][key] =>
             sessions[k].starts <= sessions[i].starts \/ sessions[j].starts <= sessions[k].starts

NoOverlapByKey(sessions, key) ==
    \A i, j \in DOMAIN sessions :
        Neighbours(sessions, key, i, j) => sessions[i].ends <= sessions[j].starts

NoSpeakerOrRoomOverlap(sessions) ==
    NoOverlapByKey(sessions, "room") /\ NoOverlapByKey(sessions, "speaker")
=============================================================================
