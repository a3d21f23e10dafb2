----------------------------- MODULE VenueProofs -----------------------------
(***************************************************************************)
(* Proofs about Venue.tla for every set of requests, events, rooms, names, *)
(* inputs and initial tables.                                              *)
(***************************************************************************)
EXTENDS Venue, FiniteSetTheorems, TLAPS

(***************************************************************************)
(* The inductive invariant.  UniqueNames and ReferencesHold speak of       *)
(* committed rows; the checks they rest on were made one or two statements *)
(* before the commit.  Secured(r, p) is what they have left behind for r   *)
(* at statement p: what r has locked is still what r matched, the name r   *)
(* has put in the index is nobody else's, and the room r refers to is not  *)
(* being deleted.                                                          *)
(***************************************************************************)
\* r runs the statements of its own operation.
OnTrack(r, p) ==
    /\ p \in {"write", "diagnose", "current"} => ~OnSession(r) /\ req[r].op # "room-create"
    /\ p = "name" => req[r].op \in {"room-create", "room-update"}
    /\ p \in {"lookup", "series", "insert", "refer"} => OnSession(r)

\* Nobody else has written r's row since it matched.
RowHeld(r) == Matches(r) /\ \A u \in Requests \ {r} : ~Holds(u, Key(r))

\* The id of a room that is being created is nobody else's.
IdFresh(r) == rooms[r] = NoRoom /\ audit[r] = << >>

NameHeld(r) ==
    /\ \A x \in RoomIds \ {Key(r)} : rooms[x] # NoRoom => ~SameName(rooms[x], WrittenRoom(r))
    /\ \A u \in Requests \ {r} : Named(u) => ~SameName(WrittenRoom(u), WrittenRoom(r))

RoomHeld(r) ==
    /\ FoundRoom(r)
    /\ \A u \in Requests : pc[u] = "commit" /\ req[u].op = "room-delete" => Key(u) # Key(r)

Unused(r) ==
    /\ \A w \in uses : w.room # Key(r)
    /\ \A u \in Requests : ~Refers(u, Key(r))

Secured(r, p) ==
    /\ OnTrack(r, p)
    /\ p \in {"name", "commit"} /\ ~OnSession(r) /\ req[r].op # "room-create" => RowHeld(r)
    /\ p # "done" /\ req[r].op = "room-create" => IdFresh(r)
    /\ p = "commit" /\ req[r].op \in {"room-create", "room-update"} => NameHeld(r)
    /\ p = "refer" /\ rooms[Key(r)] # NoRoom => FoundRoom(r)
    /\ p = "commit" /\ OnSession(r) => RoomHeld(r)
    /\ p = "commit" /\ req[r].op = "room-delete" => Unused(r)

AllSecured == \A r \in Requests : Secured(r, pc[r])

Inv ==
    /\ TypeOK
    /\ AllSecured
    /\ UniqueNames
    /\ ReferencesHold

(***************************************************************************)
(* The shape of requests and of what they write.                           *)
(***************************************************************************)
\* What an operation carries.
LEMMA RequestShape ==
    ASSUME TypeOK, NEW r \in Requests
    PROVE  /\ req[r].op \in {"event-update", "event-delete", "room-create", "room-update",
                             "room-delete", "session", "series"}
           /\ req[r].event \in Events
           /\ OnEvent(r) => req[r].version \in Nat \ {0}
           /\ req[r].op = "room-create" => req[r].name \in Names
           /\ req[r].op = "room-update" => req[r].name \in Names \cup {Keep}
           /\ req[r].op \in {"room-update", "room-delete"} =>
                req[r].room \in RoomIds \ Requests /\ req[r].version \in Nat \ {0}
           /\ OnSession(r) => req[r].room \in RoomIds \ Requests
<1>1. req[r] \in EventRequest \cup RoomRequest \cup SessionRequest
    BY VenueAssumption DEF TypeOK
<1>2. CASE req[r] \in EventRequest
    BY <1>2 DEF EventRequest, OnEvent, OnSession
<1>3. CASE req[r] \in RoomRequest
    BY <1>3 DEF RoomRequest, OnEvent, OnSession
<1>4. CASE req[r] \in SessionRequest
    BY <1>4 DEF SessionRequest, OnEvent, OnSession
<1>5. QED
    BY <1>1, <1>2, <1>3, <1>4

\* A request's row is one of its own kind; a new room's is its own.
LEMMA KeyShape ==
    ASSUME TypeOK, NEW r \in Requests
    PROVE  /\ OnEvent(r) => Key(r) = req[r].event /\ Key(r) \in Events /\ Key(r) \notin RoomIds
           /\ ~OnEvent(r) => Key(r) \in RoomIds /\ Key(r) \notin Events
           /\ req[r].op = "room-create" => Key(r) = r
           /\ ~OnEvent(r) /\ req[r].op # "room-create" => Key(r) = req[r].room /\ Key(r) \notin Requests
BY RequestShape, VenueAssumption DEF Key, OnEvent, OnSession

\* What a room request leaves behind.
LEMMA RoomWritten ==
    ASSUME TypeOK, NEW r \in Requests, ~OnEvent(r), ~OnSession(r),
           req[r].op = "room-update" => FoundRoom(r)
    PROVE  /\ req[r].op = "room-delete" => WrittenRoom(r) = NoRoom
           /\ req[r].op = "room-create" =>
                /\ WrittenRoom(r) \in RoomRow
                /\ WrittenRoom(r) = [event |-> req[r].event, name |-> req[r].name, version |-> 1]
           /\ req[r].op = "room-update" =>
                /\ rooms[Key(r)] \in RoomRow
                /\ WrittenRoom(r) \in RoomRow
                /\ WrittenRoom(r).event = rooms[Key(r)].event
                /\ WrittenRoom(r).name = IF Renames(r) THEN req[r].name ELSE rooms[Key(r)].name
                /\ WrittenRoom(r).version = rooms[Key(r)].version + 1
<1>1. CASE req[r].op = "room-delete"
    BY <1>1 DEF WrittenRoom
<1>2. CASE req[r].op = "room-create"
    BY <1>2, RequestShape DEF WrittenRoom, RoomRow
<1>3. CASE req[r].op = "room-update"
    <2>1. Key(r) = req[r].room /\ Key(r) \in RoomIds
        BY <1>3, KeyShape
    <2>2. rooms[Key(r)] \in RoomRow
        BY <1>3, <2>1 DEF TypeOK, FoundRoom
    <2>3. Renames(r) => req[r].name \in Names
        BY <1>3, RequestShape DEF Renames
    <2>4. WrittenRoom(r) =
            LET bumped == [rooms[Key(r)] EXCEPT !.version = @ + 1] IN
            IF Renames(r) THEN [bumped EXCEPT !.name = req[r].name] ELSE bumped
        BY <1>3, <2>1 DEF WrittenRoom
    <2> DEFINE bumped == [rooms[Key(r)] EXCEPT !.version = @ + 1]
    <2>5. /\ bumped \in RoomRow
          /\ bumped.event = rooms[Key(r)].event /\ bumped.name = rooms[Key(r)].name
          /\ bumped.version = rooms[Key(r)].version + 1
        BY <2>2 DEF RoomRow
    <2> HIDE DEF bumped
    <2>6. CASE Renames(r)
        <3>1. WrittenRoom(r) = [bumped EXCEPT !.name = req[r].name]
            BY <2>4, <2>6 DEF bumped
        <3>2. /\ WrittenRoom(r) \in RoomRow
              /\ WrittenRoom(r).event = bumped.event /\ WrittenRoom(r).name = req[r].name
              /\ WrittenRoom(r).version = bumped.version
            BY <3>1, <2>3, <2>5, <2>6 DEF RoomRow
        <3>3. QED
            BY <3>2, <2>2, <2>5, <2>6, <1>3
    <2>7. CASE ~Renames(r)
        BY <2>4, <2>7, <2>2, <2>5, <1>3 DEF bumped
    <2>8. QED
        BY <2>6, <2>7
<1>4. QED
    BY <1>1, <1>2, <1>3, RequestShape DEF OnEvent, OnSession

\* What an event request leaves behind.
LEMMA EventWritten ==
    ASSUME TypeOK, NEW r \in Requests, OnEvent(r)
    PROVE  /\ WrittenEvent(r) \in EventRow
           /\ WrittenEvent(r).version = events[req[r].event].version + 1
           /\ req[r].op = "event-update" => WrittenEvent(r).live = events[req[r].event].live
           /\ req[r].op = "event-delete" => WrittenEvent(r).live = FALSE
<1>1. events[req[r].event] \in EventRow
    BY RequestShape DEF TypeOK
<1> DEFINE bumped == [events[req[r].event] EXCEPT !.version = @ + 1]
<1>2. /\ bumped \in EventRow /\ bumped.live = events[req[r].event].live
      /\ bumped.version = events[req[r].event].version + 1
    BY <1>1 DEF EventRow
<1>3. WrittenEvent(r) = IF req[r].op = "event-delete" THEN [bumped EXCEPT !.live = FALSE] ELSE bumped
    BY DEF WrittenEvent
<1> HIDE DEF bumped
<1>4. CASE req[r].op = "event-delete"
    BY <1>2, <1>3, <1>4 DEF EventRow
<1>5. CASE req[r].op = "event-update"
    BY <1>2, <1>3, <1>5
<1>6. QED
    BY <1>4, <1>5 DEF OnEvent

(***************************************************************************)
(* Steps that leave the tables alone.                                      *)
(***************************************************************************)
PCs == {"write", "name", "diagnose", "current", "lookup", "series", "insert", "refer", "commit", "done"}

\* What r asks for and has found is as it was.
Same(r) ==
    /\ Key(r)' = Key(r) /\ OnSession(r)' = OnSession(r)
    /\ Matches(r)' = Matches(r) /\ FoundRoom(r)' = FoundRoom(r)
    /\ IdFresh(r)' = IdFresh(r) /\ WrittenRoom(r)' = WrittenRoom(r)

LEMMA SameStill ==
    ASSUME UNCHANGED <<db, req>>, NEW r \in Requests
    PROVE  Same(r)
BY DEF Same, db, Matches, Found, FoundEvent, FoundRoom, OnSession, OnEvent, Row, Key, IdFresh, WrittenRoom, Renames

\* A request may go on to p once it has secured what p needs; the others
\* keep what they have.
LEMMA AdvanceStep ==
    ASSUME Inv, UNCHANGED <<db, req>>,
           NEW r \in Requests, NEW p \in PCs, Secured(r, p),
           pc' = [pc EXCEPT ![r] = p],
           reply' \in [Requests -> Replies],
           shown' \in [Requests -> EventRow \cup RoomRow \cup {NoRoom}]
    PROVE  Inv'
<1>1. TypeOK'
    BY DEF Inv, TypeOK, db, PCs
<1>2. UniqueNames' /\ ReferencesHold'
    BY DEF Inv, UniqueNames, ReferencesHold, NamesUnique, RoomsFound, SameName, db
<1>3. \A u \in Requests : pc'[u] = IF u = r THEN p ELSE pc[u]
    BY DEF Inv, TypeOK
<1>4. ASSUME NEW u \in Requests PROVE Secured(u, pc[u])'
    <2>1. PICK q \in PCs : Secured(u, q) /\ pc'[u] = q /\ (u = r => q = p) /\ (u # r => pc[u] = q)
        BY <1>3 DEF Inv, AllSecured, TypeOK, PCs
    <2>2. OnTrack(u, q)'
        BY <2>1 DEF Secured, OnTrack, OnSession, db
    <2>3. Same(u) /\ Same(r) /\ \A w \in Requests : Same(w)
        BY SameStill
    <2>4. ASSUME q \in {"name", "commit"}, ~OnSession(u), req[u].op # "room-create"
          PROVE  RowHeld(u)'
        <3>1. RowHeld(u)
            BY <2>1, <2>4 DEF Secured
        <3>2. ASSUME NEW w \in Requests \ {u}, Holds(w, Key(u))' PROVE FALSE
            <4>1. w = r /\ p \in {"name", "commit"} /\ ~OnSession(r) /\ req[r].op # "room-create" /\ Key(r) = Key(u)
                BY <3>1, <3>2, <2>3, <1>3 DEF RowHeld, Holds, Same, db
            <4>2. RowHeld(r)
                BY <4>1 DEF Secured
            <4>3. Holds(u, Key(r))
                BY <4>1, <2>1, <2>4, <3>2 DEF Holds
            <4>4. QED
                BY <4>1, <4>2, <4>3, <3>2 DEF RowHeld
        <3>3. QED
            BY <3>1, <3>2, <2>3 DEF RowHeld, Same
    <2>5. ASSUME q = "commit", req[u].op \in {"room-create", "room-update"}
          PROVE  NameHeld(u)'
        <3>1. NameHeld(u)
            BY <2>1, <2>5 DEF Secured
        <3>2. ASSUME NEW w \in Requests \ {u}, Named(w)', SameName(WrittenRoom(w), WrittenRoom(u))
              PROVE  FALSE
            <4>1. w = r /\ p = "commit" /\ req[r].op \in {"room-create", "room-update"}
                BY <3>1, <3>2, <1>3 DEF NameHeld, Named, db
            <4>2. NameHeld(r)
                BY <4>1 DEF Secured
            <4>3. Named(u)
                BY <4>1, <2>1, <2>5, <3>2 DEF Named
            <4>4. QED
                BY <4>1, <4>2, <4>3, <3>2 DEF NameHeld, SameName
        <3>3. QED
            BY <3>1, <3>2, <2>3 DEF NameHeld, Same, SameName, db
    <2>6. ASSUME q = "commit", OnSession(u)
          PROVE  RoomHeld(u)'
        <3>1. RoomHeld(u)
            BY <2>1, <2>6 DEF Secured
        <3>2. ASSUME NEW w \in Requests, pc'[w] = "commit", req[w].op = "room-delete", Key(w) = Key(u)
              PROVE  FALSE
            <4>1. w = r /\ p = "commit" /\ u # r
                BY <3>1, <3>2, <2>6, <1>3 DEF RoomHeld, OnSession
            <4>2. Unused(r) /\ Refers(u, Key(r))
                BY <4>1, <3>2, <2>1, <2>6 DEF Secured, Refers
            <4>3. QED
                BY <4>2 DEF Unused
        <3>3. QED
            BY <3>1, <3>2, <2>3 DEF RoomHeld, Same, db
    <2>7. ASSUME q = "commit", req[u].op = "room-delete"
          PROVE  Unused(u)'
        <3>1. Unused(u)
            BY <2>1, <2>7 DEF Secured
        <3>2. ASSUME NEW w \in Requests, OnSession(w), pc'[w] = "commit", Key(w) = Key(u)
              PROVE  FALSE
            <4>1. w = r /\ p = "commit" /\ u # r
                BY <3>1, <3>2, <2>7, <1>3 DEF Unused, Refers, OnSession
            <4>2. RoomHeld(r)
                BY <4>1, <3>2 DEF Secured
            <4>3. QED
                BY <4>1, <4>2, <3>2, <2>1, <2>7 DEF RoomHeld
        <3>3. QED
            BY <3>1, <3>2, <2>3 DEF Unused, Refers, Same, db
    <2>8. QED
        BY <2>1, <2>2, <2>3, <2>4, <2>5, <2>6, <2>7 DEF Secured, Same, db
<1>5. QED
    BY <1>1, <1>2, <1>4 DEF Inv, AllSecured

\* A request that gives up, or has only read, has nothing to secure.
LEMMA RetireStep ==
    ASSUME Inv, NEW r \in Requests, UNCHANGED <<db, req>>,
           NEW p \in {"done", "diagnose", "current", "lookup", "series", "insert"}, OnTrack(r, p),
           req[r].op = "room-create" => p = "done",
           pc' = [pc EXCEPT ![r] = p],
           reply' \in [Requests -> Replies],
           shown' \in [Requests -> EventRow \cup RoomRow \cup {NoRoom}]
    PROVE  Inv'
<1>1. Secured(r, p) /\ p \in PCs
    BY DEF Secured, PCs, OnTrack
<1>2. QED
    BY <1>1, AdvanceStep

\* An answer without a write.
LEMMA AnswerStep ==
    ASSUME Inv, NEW r \in Requests, UNCHANGED <<db, req>>, NEW code \in Replies, Answer(r, code)
    PROVE  Inv'
<1>1. reply' \in [Requests -> Replies] /\ shown' \in [Requests -> EventRow \cup RoomRow \cup {NoRoom}]
    BY DEF Inv, TypeOK, Answer
<1>2. OnTrack(r, "done") /\ pc' = [pc EXCEPT ![r] = "done"]
    BY DEF OnTrack, Answer
<1>3. QED
    BY <1>1, <1>2, RetireStep

\* A further statement of the request.
LEMMA GoToStep ==
    ASSUME Inv, NEW r \in Requests, UNCHANGED <<db, req>>, NEW p \in PCs, GoTo(r, p), Secured(r, p)
    PROVE  Inv'
<1>1. reply' \in [Requests -> Replies] /\ shown' \in [Requests -> EventRow \cup RoomRow \cup {NoRoom}]
    BY DEF Inv, TypeOK, GoTo
<1>2. pc' = [pc EXCEPT ![r] = p]
    BY DEF GoTo
<1>3. QED
    BY <1>1, <1>2, AdvanceStep

\* The UPDATE of an event: nobody holds the row it has matched.
LEMMA UpdateEventStep ==
    ASSUME Inv, NEW r \in Requests, UpdateEvent(r)
    PROVE  Inv'
<1>1. RowHeld(r)
    BY DEF UpdateEvent, Unblocked, Blockers, RowHeld
<1>2. ~OnSession(r) /\ req[r].op \in {"event-update", "event-delete"}
    BY DEF UpdateEvent, OnEvent, OnSession
<1>3. Secured(r, "commit")
    BY <1>1, <1>2 DEF Secured, OnTrack
<1>4. QED
    BY <1>3, GoToStep DEF UpdateEvent, PCs

\* The UPDATE of a room that keeps its name has it in the index as well.
LEMMA UpdateRoomStep ==
    ASSUME Inv, NEW r \in Requests, UpdateRoom(r)
    PROVE  Inv'
<1>1. RowHeld(r)
    BY DEF UpdateRoom, Unblocked, Blockers, RowHeld
<1>2. ~OnSession(r) /\ ~OnEvent(r) /\ req[r].op = "room-update"
    BY DEF UpdateRoom, OnEvent, OnSession
<1>3. CASE Renames(r)
    <2>1. Secured(r, "name") /\ GoTo(r, "name")
        BY <1>1, <1>2, <1>3 DEF Secured, OnTrack, UpdateRoom
    <2>2. QED
        BY <2>1, GoToStep DEF UpdateRoom, PCs
<1>4. CASE ~Renames(r)
    <2>1. Key(r) \in RoomIds /\ Key(r) = req[r].room /\ Key(r) \notin Requests
        BY <1>2, KeyShape DEF Inv
    <2>2. FoundRoom(r)
        BY <1>1, <1>2 DEF RowHeld, Matches, Found
    <2>3. SameName(WrittenRoom(r), rooms[Key(r)]) /\ rooms[Key(r)] # NoRoom
        BY <1>2, <1>4, <2>1, <2>2, RoomWritten DEF Inv, SameName, FoundRoom
    <2>4. \A x \in RoomIds \ {Key(r)} : rooms[x] # NoRoom => ~SameName(rooms[x], WrittenRoom(r))
        BY <2>1, <2>3 DEF Inv, UniqueNames, NamesUnique, SameName
    <2>5. ASSUME NEW u \in Requests \ {r}, Named(u), SameName(WrittenRoom(u), WrittenRoom(r))
          PROVE  FALSE
        <3>1. NameHeld(u)
            BY <2>5 DEF Inv, AllSecured, Secured, Named
        <3>2. Key(u) # Key(r)
            <4>1. CASE req[u].op = "room-create"
                BY <4>1, <2>1, KeyShape DEF Inv
            <4>2. CASE req[u].op = "room-update"
                BY <4>2, <2>5, <1>1 DEF RowHeld, Holds, Named, OnSession
            <4>3. QED
                BY <4>1, <4>2, <2>5 DEF Named
        <3>3. QED
            BY <3>1, <3>2, <2>1, <2>3, <2>5 DEF NameHeld, SameName
    <2>6. NameHeld(r)
        BY <2>4, <2>5 DEF NameHeld
    <2>7. Secured(r, "commit") /\ GoTo(r, "commit")
        BY <1>1, <1>2, <1>4, <2>6 DEF Secured, OnTrack, UpdateRoom
    <2>8. QED
        BY <2>7, GoToStep DEF UpdateRoom, PCs
<1>5. QED
    BY <1>3, <1>4

\* The DELETE of a room: nobody refers to it, committed or not.
LEMMA DeleteRoomStep ==
    ASSUME Inv, NEW r \in Requests, DeleteRoom(r)
    PROVE  Inv'
<1>1. RowHeld(r) /\ req[r].op = "room-delete" /\ ~OnSession(r)
    BY DEF DeleteRoom, Unblocked, Blockers, RowHeld, OnSession
<1>2. CASE \E w \in uses : w.room = Key(r)
    <2>1. Answer(r, "room_in_use")
        BY <1>1, <1>2 DEF DeleteRoom, Conflict
    <2>2. QED
        BY <2>1, AnswerStep DEF DeleteRoom, Replies
<1>3. CASE ~\E w \in uses : w.room = Key(r)
    <2>1. ASSUME NEW u \in Requests, Refers(u, Key(r)) PROVE FALSE
        <3>1. u # r
            BY <1>1, <2>1 DEF Refers
        <3>2. QED
            BY <3>1, <1>1, <2>1 DEF DeleteRoom, Unblocked, Blockers
    <2>2. Secured(r, "commit")
        BY <1>1, <1>3, <2>1 DEF Secured, OnTrack, Unused
    <2>3. GoTo(r, "commit")
        BY <1>3 DEF DeleteRoom
    <2>4. QED
        BY <2>2, <2>3, GoToStep DEF DeleteRoom, PCs
<1>4. QED
    BY <1>2, <1>3

\* The unique index: neither a room nor an open transaction has the name.
LEMMA TakeNameStep ==
    ASSUME Inv, NEW r \in Requests, TakeName(r)
    PROVE  Inv'
<1>1. Secured(r, "name") /\ req[r].op \in {"room-create", "room-update"} /\ ~OnSession(r)
    BY DEF Inv, AllSecured, Secured, OnTrack, TakeName, OnSession
<1>2. CASE \E x \in RoomIds \ {Key(r)} : rooms[x] # NoRoom /\ SameName(rooms[x], WrittenRoom(r))
    <2>1. Answer(r, "room_name_taken")
        BY <1>1, <1>2 DEF TakeName, Conflict
    <2>2. QED
        BY <2>1, AnswerStep DEF TakeName, Replies
<1>3. CASE ~\E x \in RoomIds \ {Key(r)} : rooms[x] # NoRoom /\ SameName(rooms[x], WrittenRoom(r))
    <2>1. NameHeld(r)
        BY <1>3 DEF NameHeld, TakeName, Unblocked, Blockers
    <2>2. Secured(r, "commit")
        BY <1>1, <2>1 DEF Secured, OnTrack
    <2>3. GoTo(r, "commit")
        BY <1>3 DEF TakeName
    <2>4. QED
        BY <2>2, <2>3, GoToStep DEF TakeName, PCs
<1>4. QED
    BY <1>2, <1>3

\* The foreign key: the room is there, and nobody is deleting it.
LEMMA ReferStep ==
    ASSUME Inv, NEW r \in Requests, Refer(r)
    PROVE  Inv'
<1>1. Secured(r, "refer") /\ OnSession(r)
    BY DEF Inv, AllSecured, Secured, OnTrack, Refer
<1>2. ~OnEvent(r) /\ req[r].op \notin {"room-create", "room-update", "room-delete"}
    BY <1>1 DEF OnEvent, OnSession
<1>3. Key(r) = req[r].room
    BY <1>2, KeyShape DEF Inv
<1>4. CASE rooms[req[r].room] = NoRoom
    BY <1>4, AnswerStep DEF Refer, Replies
<1>5. CASE rooms[req[r].room] # NoRoom
    <2>1. ASSUME NEW u \in Requests, pc[u] = "commit", req[u].op = "room-delete", Key(u) = Key(r)
          PROVE  FALSE
        <3>1. HoldsKey(u, Key(r)) /\ u # r
            BY <2>1, <1>2 DEF HoldsKey, Holds, OnSession
        <3>2. QED
            BY <3>1 DEF Refer, Unblocked, Blockers
    <2>2. RoomHeld(r)
        BY <1>1, <1>3, <1>5, <2>1 DEF Secured, RoomHeld
    <2>3. Secured(r, "commit")
        BY <1>1, <1>2, <2>2 DEF Secured, OnTrack
    <2>4. QED
        BY <1>5, <2>3, GoToStep DEF Refer, PCs
<1>6. QED
    BY <1>4, <1>5

\* The statements that only read.
LEMMA ReadStep ==
    ASSUME Inv, NEW r \in Requests,
           WriteMiss(r) \/ Diagnose(r) \/ ShowCurrent(r) \/ LookUpEvent(r) \/ Insert(r)
    PROVE  Inv'
<1>1. OnTrack(r, pc[r])
    BY DEF Inv, AllSecured, Secured
<1>2. CASE WriteMiss(r)
    <2>1. Secured(r, "diagnose")
        BY <1>1, <1>2 DEF WriteMiss, Secured, OnTrack
    <2>2. QED
        BY <1>2, <2>1, GoToStep DEF WriteMiss, PCs
<1>3. CASE Diagnose(r)
    <2>1. Secured(r, "current")
        BY <1>1, <1>3 DEF Diagnose, Secured, OnTrack
    <2>2. QED
        BY <1>3, <2>1, GoToStep, AnswerStep DEF Diagnose, PCs, Replies
<1>4. CASE ShowCurrent(r)
    <2>1. (IF Found(r) THEN Row(r) ELSE NoRoom) \in EventRow \cup RoomRow \cup {NoRoom}
        BY RequestShape, KeyShape DEF Inv, TypeOK, Row
    <2>2. /\ reply' \in [Requests -> Replies]
          /\ shown' \in [Requests -> EventRow \cup RoomRow \cup {NoRoom}]
        BY <1>4, <2>1 DEF ShowCurrent, Inv, TypeOK, Replies
    <2>3. OnTrack(r, "done")
        BY DEF OnTrack
    <2>4. QED
        BY <1>4, <2>2, <2>3, RetireStep DEF ShowCurrent
<1>5. CASE LookUpEvent(r)
    <2>1. req[r].op = "series" => Secured(r, "series")
        BY <1>1, <1>5 DEF LookUpEvent, Secured, OnTrack, OnSession
    <2>2. Secured(r, "insert")
        BY <1>1, <1>5 DEF LookUpEvent, Secured, OnTrack, OnSession
    <2>3. QED
        BY <1>5, <2>1, <2>2, GoToStep, AnswerStep DEF LookUpEvent, PCs, Replies
<1>6. CASE Insert(r)
    <2>1. FoundRoom(r) => Secured(r, "refer")
        BY <1>1, <1>6 DEF Insert, Secured, OnTrack, OnSession
    <2>2. QED
        BY <1>6, <2>1, GoToStep, AnswerStep DEF Insert, PCs, Replies
<1>7. QED
    BY <1>2, <1>3, <1>4, <1>5, <1>6

(***************************************************************************)
(* Steps that change the tables.                                           *)
(***************************************************************************)
\* A new reference to a room that is there and is not being deleted.
LEMMA UseStep ==
    ASSUME Inv, NEW r \in Requests, OnSession(r),
           NEW w \in UseRow, w.room = Key(r), rooms[Key(r)] # NoRoom,
           w.table = "sessions" => rooms[Key(r)].event = w.event,
           \A u \in Requests : pc[u] = "commit" /\ req[u].op = "room-delete" => Key(u) # Key(r),
           NEW p \in {"insert", "done"}, pc' = [pc EXCEPT ![r] = p],
           reply' \in [Requests -> Replies],
           uses' = uses \cup {w}, UNCHANGED <<events, rooms, audit, req, shown>>
    PROVE  Inv'
<1>1. TypeOK'
    BY DEF Inv, TypeOK
<1>2. UniqueNames'
    BY DEF Inv, UniqueNames, NamesUnique, SameName
<1>3. ReferencesHold'
    BY DEF Inv, ReferencesHold, RoomsFound
<1>4. \A u \in Requests : pc'[u] = IF u = r THEN p ELSE pc[u]
    BY DEF Inv, TypeOK
<1>5. \A u \in Requests : Same(u)
    BY DEF Same, Matches, Found, FoundEvent, FoundRoom, OnSession, OnEvent, Row, Key, IdFresh, WrittenRoom, Renames
<1>6. ASSUME NEW u \in Requests PROVE Secured(u, pc[u])'
    <2>1. CASE u = r
        BY <1>4, <2>1, <1>5 DEF Secured, OnTrack, OnSession, Same
    <2>2. CASE u # r
        <3>1. PICK q \in PCs : Secured(u, q) /\ pc[u] = q /\ pc'[u] = q
            BY <1>4, <2>2 DEF Inv, AllSecured, TypeOK, PCs
        <3>2. OnTrack(u, q)'
            BY <3>1 DEF Secured, OnTrack, OnSession
        <3>3. RowHeld(u) => RowHeld(u)'
            BY <1>4, <1>5 DEF RowHeld, Holds, Same
        <3>4. NameHeld(u) => NameHeld(u)'
            BY <1>4, <1>5 DEF NameHeld, Named, Same, SameName
        <3>5. RoomHeld(u) => RoomHeld(u)'
            BY <1>4, <1>5 DEF RoomHeld, Same
        <3>6. q = "commit" /\ req[u].op = "room-delete" /\ Unused(u) => Unused(u)'
            BY <1>4, <1>5, <3>1 DEF Unused, Refers, Same
        <3>7. QED
            BY <3>1, <3>2, <3>3, <3>4, <3>5, <3>6, <1>5 DEF Secured, Same
    <2>3. QED
        BY <2>1, <2>2
<1>7. QED
    BY <1>1, <1>2, <1>3, <1>6 DEF Inv, AllSecured

\* The row of a series refers to whatever room the request names.
LEMMA InsertSeriesStep ==
    ASSUME Inv, NEW r \in Requests, InsertSeries(r)
    PROVE  Inv'
<1>1. OnSession(r) /\ OnTrack(r, "series")
    BY DEF Inv, AllSecured, Secured, OnTrack, InsertSeries
<1>2. Key(r) = req[r].room /\ req[r].room \in RoomIds \ Requests /\ req[r].event \in Events
    BY <1>1, KeyShape, RequestShape DEF Inv, OnSession, OnEvent
<1>3. CASE rooms[req[r].room] = NoRoom
    <2>1. Answer(r, "internal") /\ UNCHANGED <<db, req>>
        BY <1>3 DEF InsertSeries, db
    <2>2. QED
        BY <2>1, AnswerStep DEF Replies
<1>4. CASE rooms[req[r].room] # NoRoom
    <2> DEFINE w == [table |-> "session_series", by |-> r, event |-> req[r].event, room |-> req[r].room]
    <2>1. w \in UseRow /\ w.room = Key(r) /\ w.table = "session_series"
        BY <1>2, VenueAssumption DEF UseRow
    <2>2. ASSUME NEW u \in Requests, pc[u] = "commit", req[u].op = "room-delete", Key(u) = Key(r)
          PROVE  FALSE
        <3>1. HoldsKey(u, Key(r)) /\ u # r
            BY <2>2, <1>1 DEF HoldsKey, Holds, OnSession
        <3>2. QED
            BY <3>1 DEF InsertSeries, Unblocked, Blockers
    <2>3. /\ uses' = uses \cup {w} /\ pc' = [pc EXCEPT ![r] = "insert"]
          /\ UNCHANGED <<events, rooms, audit, req, shown>> /\ reply' \in [Requests -> Replies]
        BY <1>4 DEF InsertSeries, GoTo, Inv, TypeOK
    <2> HIDE DEF w
    <2>4. QED
        BY <1>1, <1>2, <1>4, <2>1, <2>2, <2>3, UseStep
<1>5. QED
    BY <1>3, <1>4

\* A session that is committed: its room was locked and is still there.
LEMMA SessionStep ==
    ASSUME Inv, NEW r \in Requests, pc[r] = "commit", OnSession(r), Apply(r),
           pc' = [pc EXCEPT ![r] = "done"], reply' \in [Requests -> Replies],
           UNCHANGED <<req, shown>>
    PROVE  Inv'
<1>1. RoomHeld(r)
    BY DEF Inv, AllSecured, Secured
<1>2. Key(r) = req[r].room /\ req[r].room \in RoomIds \ Requests /\ req[r].event \in Events
    BY KeyShape, RequestShape DEF Inv, OnSession, OnEvent
<1> DEFINE w == [table |-> "sessions", by |-> r, event |-> req[r].event, room |-> req[r].room]
<1>3. w \in UseRow /\ w.room = Key(r) /\ w.event = req[r].event
    BY <1>2, VenueAssumption DEF UseRow
<1>4. uses' = uses \cup {w} /\ UNCHANGED <<events, rooms, audit>>
    BY DEF Apply
<1> HIDE DEF w
<1>5. QED
    BY <1>1, <1>2, <1>3, <1>4, UseStep DEF RoomHeld, FoundRoom

\* Two open transactions write different rows.
LEMMA KeysApart ==
    ASSUME Inv, NEW r \in Requests, NEW u \in Requests \ {r},
           pc[r] = "commit", ~OnSession(r),
           pc[u] \in {"name", "commit"}, ~OnSession(u)
    PROVE  Key(u) # Key(r)
<1>1. CASE req[u].op = "room-create"
    BY <1>1, KeyShape, VenueAssumption DEF Inv, OnEvent
<1>2. CASE req[r].op = "room-create"
    BY <1>2, KeyShape, VenueAssumption DEF Inv, OnEvent
<1>3. CASE req[u].op # "room-create" /\ req[r].op # "room-create"
    <2>1. RowHeld(r)
        BY <1>3 DEF Inv, AllSecured, Secured
    <2>2. QED
        BY <1>3, <2>1 DEF RowHeld, Holds
<1>4. QED
    BY <1>1, <1>2, <1>3

\* What a commit writes, and the row of the audit log that goes with it.
Written(r) == IF OnEvent(r) THEN WrittenEvent(r) ELSE WrittenRoom(r)

Entry(r) == [actor |-> r, action |-> ActionName(req[r].op), before |-> Row(r), after |-> Written(r)]

LEMMA AuditType ==
    ASSUME Inv, NEW r \in Requests, ~OnSession(r), pc[r] = "commit", Apply(r)
    PROVE  /\ Entry(r) \in AuditEntry
           /\ audit' \in [Events \cup RoomIds -> Seq(AuditEntry)]
           /\ \A x \in Events \cup RoomIds :
                audit'[x] = IF x = Key(r) THEN Append(audit[x], Entry(r)) ELSE audit[x]
           /\ audit'[Key(r)] # << >>
<1>1. Key(r) \in Events \cup RoomIds
    BY KeyShape DEF Inv
<1>2. Row(r) \in EventRow \cup RoomRow \cup {NoRoom}
    BY RequestShape, KeyShape DEF Inv, TypeOK, Row
<1>3. ActionName(req[r].op) \in {"create", "update", "delete"}
    BY RequestShape DEF Inv, ActionName, OnSession
<1>4. req[r].op = "room-update" => FoundRoom(r)
    BY DEF Inv, AllSecured, Secured, RowHeld, Matches, Found, OnEvent
<1>5. Written(r) \in EventRow \cup RoomRow \cup {NoRoom}
    <2>1. CASE OnEvent(r)
        BY <2>1, EventWritten DEF Inv, Written
    <2>2. CASE ~OnEvent(r)
        BY <2>2, <1>4, RoomWritten, RequestShape DEF Inv, OnEvent, OnSession, Written
    <2>3. QED
        BY <2>1, <2>2
<1>6. audit' = [audit EXCEPT ![Key(r)] = Append(@, Entry(r))]
    BY DEF Apply, Entry, Written
<1>7. Entry(r) \in AuditEntry
    BY <1>2, <1>3, <1>5 DEF AuditEntry, Entry
<1>8. audit[Key(r)] \in Seq(AuditEntry)
    BY <1>1 DEF Inv, TypeOK
<1>9. Append(audit[Key(r)], Entry(r)) \in Seq(AuditEntry) /\ Append(audit[Key(r)], Entry(r)) # << >>
    BY <1>7, <1>8
<1>10. QED
    BY <1>1, <1>6, <1>7, <1>9 DEF Inv, TypeOK

\* A committed write of an event changes nothing others rely on.
LEMMA EventStep ==
    ASSUME Inv, NEW r \in Requests, pc[r] = "commit", OnEvent(r), Apply(r),
           pc' = [pc EXCEPT ![r] = "done"], reply' \in [Requests -> Replies],
           UNCHANGED <<req, shown>>
    PROVE  Inv'
<1>1. ~OnSession(r) /\ req[r].op # "room-create"
    BY DEF OnEvent, OnSession
<1>2. Key(r) = req[r].event /\ Key(r) \in Events /\ Key(r) \notin RoomIds
    BY KeyShape DEF Inv
<1>3. /\ events' = [events EXCEPT ![Key(r)] = WrittenEvent(r)] /\ UNCHANGED <<rooms, uses>>
      /\ WrittenEvent(r) \in EventRow
    BY <1>1, EventWritten DEF Apply, Inv
<1>4. TypeOK'
    BY <1>1, <1>2, <1>3, AuditType DEF Inv, TypeOK
<1>5. UniqueNames' /\ ReferencesHold'
    BY <1>3 DEF Inv, UniqueNames, ReferencesHold, NamesUnique, RoomsFound, SameName
<1>6. \A u \in Requests : pc'[u] = IF u = r THEN "done" ELSE pc[u]
    BY DEF Inv, TypeOK
<1>7. \A u \in Requests : /\ Key(u)' = Key(u) /\ OnSession(u)' = OnSession(u) /\ OnEvent(u)' = OnEvent(u)
                          /\ FoundRoom(u)' = FoundRoom(u) /\ WrittenRoom(u)' = WrittenRoom(u)
    BY <1>3 DEF Key, OnSession, OnEvent, FoundRoom, WrittenRoom, Renames
<1>8. ASSUME NEW u \in Requests PROVE Secured(u, pc[u])'
    <2>1. CASE u = r
        BY <1>6, <1>1, <1>7, <2>1 DEF Secured, OnTrack
    <2>2. CASE u # r
        <3>1. PICK q \in PCs : Secured(u, q) /\ pc[u] = q /\ pc'[u] = q
            BY <1>6, <2>2 DEF Inv, AllSecured, TypeOK, PCs
        <3>2. OnTrack(u, q)'
            BY <3>1 DEF Secured, OnTrack, OnSession
        <3>3. ASSUME q \in {"name", "commit"}, ~OnSession(u), req[u].op # "room-create"
              PROVE  RowHeld(u)'
            <4>1. RowHeld(u) /\ Key(u) # Key(r)
                BY <1>1, <2>2, <3>1, <3>3, KeysApart DEF Secured
            <4>2. Matches(u)' = Matches(u)
                BY <1>3, <1>7, <4>1, RequestShape, KeyShape
                   DEF Inv, TypeOK, Matches, Found, FoundEvent, Row
            <4>3. QED
                BY <1>6, <1>7, <4>1, <4>2 DEF RowHeld, Holds
        <3>4. req[u].op = "room-create" => IdFresh(u)' = IdFresh(u)
            BY <1>1, <1>2, <1>3, AuditType, VenueAssumption DEF IdFresh
        <3>5. NameHeld(u) => NameHeld(u)'
            BY <1>3, <1>6, <1>7 DEF NameHeld, Named, SameName
        <3>6. RoomHeld(u) => RoomHeld(u)'
            BY <1>6, <1>7 DEF RoomHeld
        <3>7. Unused(u) => Unused(u)'
            BY <1>3, <1>6, <1>7 DEF Unused, Refers
        <3>8. QED
            BY <3>1, <3>2, <3>3, <3>4, <3>5, <3>6, <3>7, <1>3, <1>7 DEF Secured
    <2>3. QED
        BY <2>1, <2>2
<1>9. QED
    BY <1>4, <1>5, <1>8 DEF Inv, AllSecured

\* What a committed write of a room finds and leaves.
LEMMA RoomParts ==
    ASSUME Inv, NEW r \in Requests, pc[r] = "commit", ~OnEvent(r), ~OnSession(r), Apply(r)
    PROVE  /\ Key(r) \in RoomIds /\ Key(r) \notin Events
           /\ rooms' = [rooms EXCEPT ![Key(r)] = WrittenRoom(r)] /\ UNCHANGED <<events, uses>>
           /\ WrittenRoom(r) \in RoomRow \cup {NoRoom}
           /\ req[r].op = "room-create" =>
                /\ Key(r) = r /\ IdFresh(r) /\ WrittenRoom(r) \in RoomRow
           /\ req[r].op = "room-update" =>
                /\ Key(r) \notin Requests /\ RowHeld(r) /\ rooms[Key(r)] \in RoomRow
                /\ WrittenRoom(r) \in RoomRow /\ WrittenRoom(r).event = rooms[Key(r)].event
           /\ req[r].op = "room-delete" =>
                /\ Key(r) \notin Requests /\ RowHeld(r) /\ Unused(r) /\ WrittenRoom(r) = NoRoom
                /\ rooms[Key(r)] \in RoomRow
           /\ req[r].op \in {"room-create", "room-update"} => NameHeld(r)
           /\ req[r].op \in {"room-create", "room-update", "room-delete"}
<1>1. Secured(r, "commit")
    BY DEF Inv, AllSecured
<1>2. req[r].op \in {"room-create", "room-update", "room-delete"}
    BY RequestShape DEF Inv, OnEvent, OnSession
<1>3. req[r].op \in {"room-update", "room-delete"} => RowHeld(r) /\ FoundRoom(r) /\ Key(r) = req[r].room
    BY <1>1, KeyShape DEF Secured, RowHeld, Matches, Found, Inv
<1>4. Key(r) \in RoomIds /\ Key(r) \notin Events
    BY KeyShape DEF Inv
<1>5. req[r].op \in {"room-update", "room-delete"} => rooms[Key(r)] \in RoomRow
    BY <1>3, <1>4 DEF Inv, TypeOK, FoundRoom
<1>6. rooms' = [rooms EXCEPT ![Key(r)] = WrittenRoom(r)] /\ UNCHANGED <<events, uses>>
    BY DEF Apply
<1>7. QED
    BY <1>1, <1>2, <1>3, <1>4, <1>5, <1>6, RoomWritten, KeyShape DEF Secured, Inv

\* A committed write of a room: its name is free, and whoever relies on the
\* room still finds it.
LEMMA RoomStep ==
    ASSUME Inv, NEW r \in Requests, pc[r] = "commit", ~OnEvent(r), ~OnSession(r), Apply(r),
           pc' = [pc EXCEPT ![r] = "done"], reply' \in [Requests -> Replies],
           UNCHANGED <<req, shown>>
    PROVE  Inv'
<1> DEFINE k == Key(r)
           new == WrittenRoom(r)
<1>1. k \in RoomIds /\ rooms' = [rooms EXCEPT ![k] = new] /\ UNCHANGED <<events, uses>>
    BY RoomParts
<1>2. \A x \in RoomIds : rooms'[x] = IF x = k THEN new ELSE rooms[x]
    BY <1>1 DEF Inv, TypeOK
<1>3. TypeOK'
    BY <1>1, RoomParts, AuditType DEF Inv, TypeOK
<1>4. UniqueNames'
    <2>1. new # NoRoom => NameHeld(r)
        BY RoomParts
    <2>2. QED
        BY <1>2, <2>1 DEF Inv, UniqueNames, NamesUnique, NameHeld, SameName
<1>5. ReferencesHold'
    <2>1. ASSUME NEW w \in uses, w.room = k
          PROVE  new # NoRoom /\ new.event = rooms[k].event
        <3>1. rooms[k] # NoRoom
            BY <2>1 DEF Inv, ReferencesHold, RoomsFound
        <3>2. req[r].op = "room-update"
            BY <2>1, <3>1, RoomParts DEF IdFresh, Unused
        <3>3. QED
            BY <3>2, RoomParts, VenueAssumption
    <2>2. \A w \in uses : w.room \in RoomIds
        BY DEF Inv, TypeOK, UseRow
    <2>3. QED
        BY <1>1, <1>2, <2>1, <2>2 DEF Inv, ReferencesHold, RoomsFound
<1>6. \A u \in Requests : pc'[u] = IF u = r THEN "done" ELSE pc[u]
    BY DEF Inv, TypeOK
<1>7. \A u \in Requests : Key(u)' = Key(u) /\ OnSession(u)' = OnSession(u) /\ OnEvent(u)' = OnEvent(u)
    BY DEF Key, OnSession, OnEvent
<1>8. \A u \in Requests \ {r} :
        pc[u] \in {"name", "commit"} /\ req[u].op \in {"room-create", "room-update"} =>
            WrittenRoom(u)' = WrittenRoom(u)
    <2> TAKE u \in Requests \ {r}
    <2>1. CASE req[u].op = "room-create"
        BY <2>1 DEF WrittenRoom
    <2>2. CASE req[u].op = "room-update" /\ pc[u] \in {"name", "commit"}
        <3>1. Key(u) # k /\ Key(u) = req[u].room /\ Key(u) \in RoomIds
            BY <2>2, KeysApart, KeyShape DEF OnSession, OnEvent, Inv
        <3>2. rooms'[req[u].room] = rooms[req[u].room]
            BY <1>2, <3>1
        <3>3. Renames(u)' = Renames(u)
            BY <3>1, <3>2, <1>7 DEF Renames, Row, OnEvent
        <3>4. QED
            BY <2>2, <3>2, <3>3 DEF WrittenRoom
    <2>3. QED
        BY <2>1, <2>2
<1>9. ASSUME NEW u \in Requests, OnSession(u), FoundRoom(u), rooms'[Key(u)] # NoRoom
      PROVE  FoundRoom(u)'
    <2>1. Key(u) = req[u].room /\ Key(u) \in RoomIds \ Requests
        BY <1>9, KeyShape, RequestShape DEF Inv, OnSession, OnEvent
    <2>2. CASE Key(u) # k
        BY <1>2, <1>9, <2>1, <2>2 DEF FoundRoom
    <2>3. CASE Key(u) = k
        <3>1. req[r].op = "room-update"
            BY <1>2, <1>9, <2>1, <2>3, RoomParts
        <3>2. QED
            BY <1>2, <1>9, <2>1, <2>3, <3>1, RoomParts DEF FoundRoom
    <2>4. QED
        BY <2>2, <2>3
<1>10. ASSUME NEW u \in Requests PROVE Secured(u, pc[u])'
    <2>1. CASE u = r
        BY <1>6, <1>7, <2>1 DEF Secured, OnTrack
    <2>2. CASE u # r
        <3>1. PICK q \in PCs : Secured(u, q) /\ pc[u] = q /\ pc'[u] = q
            BY <1>6, <2>2 DEF Inv, AllSecured, TypeOK, PCs
        <3>2. OnTrack(u, q)'
            BY <3>1 DEF Secured, OnTrack, OnSession
        <3>3. ASSUME q \in {"name", "commit"}, ~OnSession(u), req[u].op # "room-create"
              PROVE  RowHeld(u)'
            <4>1. RowHeld(u) /\ Key(u) # k
                BY <2>2, <3>1, <3>3, KeysApart DEF Secured
            <4>2. Matches(u)' = Matches(u)
                BY <1>1, <1>2, <1>7, <3>3, <4>1, KeyShape
                   DEF Inv, Matches, Found, FoundEvent, FoundRoom, Row
            <4>3. QED
                BY <1>6, <1>7, <4>1, <4>2 DEF RowHeld, Holds
        <3>4. q # "done" /\ req[u].op = "room-create" => IdFresh(u)'
            <4> SUFFICES ASSUME q # "done", req[u].op = "room-create" PROVE IdFresh(u)'
                OBVIOUS
            <4>1. IdFresh(u) /\ u # k /\ u \in RoomIds
                BY <2>2, <3>1, RoomParts, VenueAssumption DEF Secured
            <4>2. QED
                BY <1>2, <4>1, AuditType DEF IdFresh
        <3>5. ASSUME q = "commit", req[u].op \in {"room-create", "room-update"}
              PROVE  NameHeld(u)'
            <4>1. NameHeld(u) /\ WrittenRoom(u)' = WrittenRoom(u)
                BY <1>8, <2>2, <3>1, <3>5 DEF Secured
            <4>2. new # NoRoom => ~SameName(new, WrittenRoom(u))
                <5>1. new # NoRoom => Named(r)
                    BY RoomParts DEF Named
                <5>2. QED
                    BY <4>1, <5>1, <2>2 DEF NameHeld
            <4>3. \A x \in RoomIds \ {Key(u)} :
                    rooms'[x] # NoRoom => ~SameName(rooms'[x], WrittenRoom(u))
                BY <1>2, <4>1, <4>2 DEF NameHeld
            <4>4. \A w \in Requests \ {u} : Named(w)' =>
                    Named(w) /\ WrittenRoom(w)' = WrittenRoom(w)
                BY <1>6, <1>8 DEF Named
            <4>5. QED
                BY <1>7, <4>1, <4>3, <4>4 DEF NameHeld, SameName
        <3>6. ASSUME q = "commit", OnSession(u)
              PROVE  RoomHeld(u)'
            <4>1. RoomHeld(u) /\ Key(u) = req[u].room /\ Key(u) \in RoomIds
                BY <3>1, <3>6, KeyShape DEF Secured, Inv, OnSession, OnEvent
            <4>2. rooms'[Key(u)] # NoRoom
                <5>1. CASE Key(u) # k
                    BY <1>2, <4>1, <5>1 DEF RoomHeld, FoundRoom
                <5>2. CASE Key(u) = k
                    <6>1. req[r].op # "room-delete"
                        BY <4>1, <5>2 DEF RoomHeld
                    <6>2. QED
                        BY <1>2, <4>1, <5>2, <6>1, RoomParts, VenueAssumption
                <5>3. QED
                    BY <5>1, <5>2
            <4>3. FoundRoom(u)'
                BY <1>9, <3>6, <4>1, <4>2 DEF RoomHeld
            <4>4. QED
                BY <1>6, <1>7, <4>1, <4>3 DEF RoomHeld
        <3>7. q = "refer" /\ rooms'[Key(u)] # NoRoom => FoundRoom(u)'
            <4> SUFFICES ASSUME q = "refer", rooms'[Key(u)] # NoRoom PROVE FoundRoom(u)'
                OBVIOUS
            <4>1. OnSession(u) /\ Key(u) \in RoomIds \ Requests /\ (rooms[Key(u)] # NoRoom => FoundRoom(u))
                BY <3>1, KeyShape, RequestShape DEF Secured, OnTrack, Inv, OnSession, OnEvent
            <4>2. rooms[Key(u)] # NoRoom
                BY <1>2, <4>1, RoomParts, VenueAssumption
            <4>3. QED
                BY <1>9, <4>1, <4>2
        <3>8. Unused(u) => Unused(u)'
            BY <1>1, <1>6, <1>7 DEF Unused, Refers
        <3>9. QED
            BY <3>1, <3>2, <3>3, <3>4, <3>5, <3>6, <3>7, <3>8, <1>7 DEF Secured
    <2>3. QED
        BY <2>1, <2>2
<1>11. QED
    BY <1>3, <1>4, <1>5, <1>10 DEF Inv, AllSecured

\* The end of a transaction that is committed, whoever hears of it.
LEMMA ApplyStep ==
    ASSUME Inv, NEW r \in Requests, NEW code \in Replies,
           pc[r] = "commit", Apply(r), Answer(r, code), UNCHANGED req
    PROVE  Inv'
<1>1. pc' = [pc EXCEPT ![r] = "done"] /\ reply' \in [Requests -> Replies] /\ UNCHANGED shown
    BY DEF Answer, Inv, TypeOK
<1>2. CASE OnSession(r)
    BY <1>1, <1>2, SessionStep
<1>3. CASE OnEvent(r)
    BY <1>1, <1>3, EventStep
<1>4. CASE ~OnEvent(r) /\ ~OnSession(r)
    BY <1>1, <1>4, RoomStep
<1>5. QED
    BY <1>2, <1>3, <1>4

(***************************************************************************)
(* The invariant is inductive.                                             *)
(***************************************************************************)
\* The initial tables are consistent and nobody has secured anything.
LEMMA InitInv == Init => Inv
<1> SUFFICES ASSUME Init PROVE Inv
    OBVIOUS
<1>1. \A r \in Requests : req[r] \in EventRequest \cup RoomRequest \cup SessionRequest
    BY VenueAssumption DEF Init
<1>2. \A r \in Requests :
        /\ req[r].op \in {"event-update", "event-delete", "room-create", "room-update",
                          "room-delete", "session", "series"}
        /\ pc[r] = FirstStatement(req[r].op)
    BY <1>1 DEF Init, EventRequest, RoomRequest, SessionRequest
<1>3. pc \in [Requests -> PCs]
    BY <1>2 DEF Init, PCs, FirstStatement
<1>4. audit \in [Events \cup RoomIds -> Seq(AuditEntry)]
    <2>1. ASSUME NEW row \in EventRow \cup RoomRow
          PROVE  <<[actor |-> NoOne, action |-> "create", before |-> NoRoom, after |-> row]>> \in Seq(AuditEntry)
        BY DEF AuditEntry
    <2>2. \A e \in Events : events[e] \in EventRow
        BY DEF Init, EventRow
    <2>3. \A x \in RoomIds : rooms[x] \in RoomRow \cup {NoRoom}
        BY VenueAssumption DEF Init
    <2>4. << >> \in Seq(AuditEntry)
        OBVIOUS
    <2>5. QED
        BY <2>1, <2>2, <2>3, <2>4 DEF Init
<1>5. TypeOK
    <2>1. events \in [Events -> EventRow]
        BY DEF Init, EventRow
    <2>2. rooms \in [RoomIds -> RoomRow \cup {NoRoom}] /\ uses \subseteq UseRow
        BY VenueAssumption DEF Init
    <2>3. reply \in [Requests -> Replies] /\ shown \in [Requests -> EventRow \cup RoomRow \cup {NoRoom}]
        BY DEF Init, Replies
    <2>4. req \in [Requests -> Inputs]
        BY DEF Init
    <2>5. QED
        BY <1>3, <1>4, <2>1, <2>2, <2>3, <2>4 DEF TypeOK, PCs
<1>6. UniqueNames /\ ReferencesHold
    BY VenueAssumption DEF Init, UniqueNames, ReferencesHold
<1>7. ASSUME NEW r \in Requests PROVE Secured(r, pc[r])
    <2>1. r \in RoomIds /\ r \notin Events /\ rooms[r] = NoRoom
        BY VenueAssumption DEF Init
    <2>2. IdFresh(r)
        BY <2>1 DEF Init, IdFresh
    <2>3. OnTrack(r, pc[r])
        BY <1>2 DEF OnTrack, FirstStatement, OnSession
    <2>4. pc[r] \notin {"commit", "refer"} /\ (pc[r] = "name" => req[r].op = "room-create")
        BY <1>2 DEF FirstStatement
    <2>5. QED
        BY <2>2, <2>3, <2>4 DEF Secured
<1>8. QED
    BY <1>5, <1>6, <1>7 DEF Inv, AllSecured

\* Every step keeps the invariant.
LEMMA NextInv == Inv /\ [Next]_vars => Inv'
<1> SUFFICES ASSUME Inv, [Next]_vars PROVE Inv'
    OBVIOUS
<1>1. CASE UNCHANGED vars
    <2>1. UNCHANGED <<db, req>> /\ UNCHANGED pc
        BY <1>1 DEF vars, db
    <2>2. TypeOK' /\ UniqueNames' /\ ReferencesHold'
        BY <1>1 DEF vars, db, Inv, TypeOK, UniqueNames, ReferencesHold, NamesUnique, RoomsFound, SameName
    <2>3. \A u \in Requests : Same(u)
        BY <2>1, SameStill
    <2>4. ASSUME NEW u \in Requests PROVE Secured(u, pc[u])'
        <3>1. OnTrack(u, pc[u])' = OnTrack(u, pc[u])
            BY <2>1 DEF OnTrack, OnSession
        <3>2. RowHeld(u)' = RowHeld(u)
            BY <2>1, <2>3 DEF RowHeld, Holds, Same
        <3>3. NameHeld(u)' = NameHeld(u)
            BY <2>1, <2>3 DEF NameHeld, Named, SameName, Same, db
        <3>4. RoomHeld(u)' = RoomHeld(u) /\ Unused(u)' = Unused(u)
            BY <2>1, <2>3 DEF RoomHeld, Unused, Refers, Same, db
        <3>5. Secured(u, pc[u])
            BY DEF Inv, AllSecured
        <3>6. QED
            BY <2>1, <2>3, <3>1, <3>2, <3>3, <3>4, <3>5 DEF Secured, Same, db
    <2>5. QED
        BY <2>2, <2>4 DEF Inv, AllSecured
<1>2. ASSUME NEW r \in Requests, Step(r) PROVE Inv'
    <2>1. CASE WriteMiss(r) \/ Diagnose(r) \/ ShowCurrent(r) \/ LookUpEvent(r) \/ Insert(r)
        BY <2>1, ReadStep
    <2>2. CASE UpdateEvent(r)
        BY <2>2, UpdateEventStep
    <2>3. CASE UpdateRoom(r)
        BY <2>3, UpdateRoomStep
    <2>4. CASE DeleteRoom(r)
        BY <2>4, DeleteRoomStep
    <2>5. CASE TakeName(r)
        BY <2>5, TakeNameStep
    <2>6. CASE InsertSeries(r)
        BY <2>6, InsertSeriesStep
    <2>7. CASE Refer(r)
        BY <2>7, ReferStep
    <2>8. CASE Commit(r)
        <3>1. Success(req[r].op) \in Replies
            BY RequestShape DEF Inv, Success, Replies
        <3>2. QED
            BY <2>8, <3>1, ApplyStep DEF Commit
    <2>9. CASE DeadlockDetected(r)
        BY <2>9, AnswerStep DEF DeadlockDetected, Replies
    <2>10. QED
        BY <1>2, <2>1, <2>2, <2>3, <2>4, <2>5, <2>6, <2>7, <2>8, <2>9 DEF Step
<1>3. ASSUME NEW r \in Requests, HangUp(r) PROVE Inv'
    BY <1>3, AnswerStep DEF HangUp, Replies
<1>4. ASSUME NEW r \in Requests, HangUpInCommit(r) PROVE Inv'
    BY <1>4, ApplyStep DEF HangUpInCommit, Replies
<1>5. QED
    BY <1>1, <1>2, <1>3, <1>4 DEF Next, Idle

(***************************************************************************)
(* The abstract floor plan.                                                *)
(***************************************************************************)
\* The plan shows the event and the name of a room, and tells rooms apart
\* by both.
LEMMA OnPlanShape ==
    /\ OnPlan(NoRoom) = NoRoom
    /\ \A a \in RoomRow :
         /\ OnPlan(a) \in [event : Events, name : Names] /\ OnPlan(a) # NoRoom
         /\ OnPlan(a).event = a.event
         /\ \A b \in RoomRow : OnPlan(a) = OnPlan(b) => SameName(a, b)
<1>1. \A a \in RoomRow : OnPlan(a) = [event |-> a.event, name |-> a.name]
    BY VenueAssumption DEF OnPlan
<1>2. OnPlan(NoRoom) = NoRoom
    BY DEF OnPlan
<1>3. \A a \in RoomRow : a.event \in Events /\ a.name \in Names
    BY DEF RoomRow
<1>4. \A a \in RoomRow : OnPlan(a) \in [event : Events, name : Names]
    BY <1>1, <1>3
<1>5. \A a, b \in RoomRow : OnPlan(a) = OnPlan(b) => SameName(a, b)
    <2> TAKE a, b \in RoomRow
    <2>1. OnPlan(a).event = a.event /\ OnPlan(a).name = a.name /\ OnPlan(b).event = b.event /\ OnPlan(b).name = b.name
        BY <1>1
    <2>2. QED
        BY <2>1 DEF SameName
<1>6. QED
    BY <1>1, <1>2, <1>4, <1>5, VenueAssumption

\* A new reference uses a room.
LEMMA UseIsPlanStep ==
    ASSUME Inv, NEW w \in UseRow, rooms[w.room] # NoRoom,
           uses' = uses \cup {w}, UNCHANGED <<events, rooms, audit>>
    PROVE  Plan!Next
<1>1. UNCHANGED <<PlanRooms, ClosedRooms, RunningEvents>>
    BY DEF PlanRooms, ClosedRooms, RunningEvents
<1>2. UsedRooms' = UsedRooms \cup {w.room}
    BY DEF UsedRooms
<1>3. w.room \in RoomIds
    BY DEF UseRow
<1>4. PlanRooms[w.room] # NoRoom
    BY <1>3, OnPlanShape DEF PlanRooms, Inv, TypeOK
<1>5. Plan!Use(w.room)
    BY <1>1, <1>2, <1>4 DEF Plan!Use
<1>6. QED
    BY <1>3, <1>5 DEF Plan!Next

\* A commit furnishes, renames, tears down, uses or calls off, or changes
\* nothing the plan shows.
LEMMA CommitIsPlanStep ==
    ASSUME Inv, NEW r \in Requests, pc[r] = "commit", Apply(r)
    PROVE  [Plan!Next]_(Plan!plan)
<1>1. CASE OnSession(r)
    <2> DEFINE w == [table |-> "sessions", by |-> r, event |-> req[r].event, room |-> req[r].room]
    <2>1. req[r].room \in RoomIds /\ req[r].event \in Events
        BY <1>1, RequestShape DEF Inv
    <2>2. w \in UseRow /\ w.room = req[r].room
        BY <2>1 DEF UseRow
    <2>3. rooms[req[r].room] # NoRoom
        BY <1>1 DEF Inv, AllSecured, Secured, RoomHeld, FoundRoom
    <2>4. uses' = uses \cup {w} /\ UNCHANGED <<events, rooms, audit>>
        BY <1>1 DEF Apply
    <2> HIDE DEF w
    <2>5. QED
        BY <2>2, <2>3, <2>4, UseIsPlanStep
<1>2. CASE OnEvent(r)
    <2>1. ~OnSession(r) /\ req[r].op # "room-create" /\ req[r].op \in {"event-update", "event-delete"}
        BY <1>2 DEF OnEvent, OnSession
    <2>2. Key(r) = req[r].event /\ Key(r) \in Events /\ Key(r) \notin RoomIds
        BY <1>2, KeyShape DEF Inv
    <2>3. events' = [events EXCEPT ![req[r].event] = WrittenEvent(r)] /\ UNCHANGED <<rooms, uses>>
        BY <1>2, <2>1, <2>2 DEF Apply
    <2>4. UNCHANGED <<PlanRooms, ClosedRooms, UsedRooms>>
        BY <2>1, <2>2, <2>3, AuditType DEF PlanRooms, ClosedRooms, UsedRooms
    <2>5. events[req[r].event].live
        BY <1>2, <2>1 DEF Inv, AllSecured, Secured, RowHeld, Matches, Found, FoundEvent
    <2>6. \A e \in Events : events'[e] = IF e = req[r].event THEN WrittenEvent(r) ELSE events[e]
        BY <2>3 DEF Inv, TypeOK
    <2>7. CASE req[r].op = "event-update"
        <3>1. RunningEvents' = RunningEvents
            BY <1>2, <2>5, <2>6, <2>7, EventWritten DEF RunningEvents, Inv
        <3>2. QED
            BY <2>4, <3>1 DEF Plan!plan
    <2>8. CASE req[r].op = "event-delete"
        <3>1. RunningEvents' = RunningEvents \ {req[r].event}
            BY <1>2, <2>6, <2>8, EventWritten DEF RunningEvents, Inv
        <3>2. req[r].event \in RunningEvents
            BY <2>2, <2>5 DEF RunningEvents
        <3>3. Plan!CallOff(req[r].event)
            BY <2>4, <3>1, <3>2 DEF Plan!CallOff
        <3>4. QED
            BY <2>2, <3>3 DEF Plan!Next
    <2>9. QED
        BY <2>1, <2>7, <2>8
<1>3. CASE ~OnEvent(r) /\ ~OnSession(r)
    <2> DEFINE k == Key(r)
               new == WrittenRoom(r)
    <2>1. k \in RoomIds /\ rooms' = [rooms EXCEPT ![k] = new] /\ UNCHANGED <<events, uses>>
        BY <1>3, RoomParts
    <2>2. \A x \in RoomIds : rooms'[x] = IF x = k THEN new ELSE rooms[x]
        BY <2>1 DEF Inv, TypeOK
    <2>3. PlanRooms' = [PlanRooms EXCEPT ![k] = OnPlan(new)] /\ PlanRooms'[k] = OnPlan(new) /\ PlanRooms[k] = OnPlan(rooms[k])
        <3>1. PlanRooms' = [x \in RoomIds |-> OnPlan(rooms'[x])]
            BY DEF PlanRooms, OnPlan
        <3>2. \A x \in RoomIds : PlanRooms'[x] = IF x = k THEN OnPlan(new) ELSE PlanRooms[x]
            BY <2>2, <3>1 DEF PlanRooms
        <3>3. DOMAIN PlanRooms = RoomIds /\ PlanRooms = [x \in RoomIds |-> PlanRooms[x]]
            BY DEF PlanRooms
        <3>4. PlanRooms' = [x \in RoomIds |-> PlanRooms'[x]]
            BY <3>1
        <3>5. QED
            BY <2>1, <3>2, <3>3, <3>4 DEF PlanRooms
    <2>4. UsedRooms' = UsedRooms /\ RunningEvents' = RunningEvents
        BY <2>1 DEF UsedRooms, RunningEvents
    <2>5. \A x \in RoomIds : x # k => audit'[x] = audit[x]
        BY <1>3, AuditType
    <2>6. audit'[k] # << >>
        BY <1>3, AuditType
    <2>7. new \in RoomRow => ClosedRooms' = ClosedRooms \ {k}
        BY <2>2, <2>5, VenueAssumption DEF ClosedRooms
    <2>8. ASSUME req[r].op \in {"room-create", "room-update"}
          PROVE  Plan!NameFree(k, OnPlan(new))
        <3>1. NameHeld(r) /\ new \in RoomRow
            BY <1>3, <2>8, RoomParts
        <3>2. ASSUME NEW y \in RoomIds \ {k} PROVE PlanRooms[y] # OnPlan(new)
            <4>1. CASE rooms[y] = NoRoom
                BY <3>1, <4>1, OnPlanShape DEF PlanRooms
            <4>2. CASE rooms[y] # NoRoom
                <5>1. rooms[y] \in RoomRow /\ ~SameName(rooms[y], new)
                    BY <3>1, <4>2 DEF Inv, TypeOK, NameHeld
                <5>2. QED
                    BY <3>1, <5>1, OnPlanShape DEF PlanRooms
            <4>3. QED
                BY <4>1, <4>2
        <3>3. QED
            BY <3>2 DEF Plan!NameFree
    <2>9. CASE req[r].op = "room-create"
        <3>1. new \in RoomRow /\ rooms[k] = NoRoom /\ audit[k] = << >>
            BY <1>3, <2>9, RoomParts DEF IdFresh
        <3>2. k \notin ClosedRooms /\ ClosedRooms' = ClosedRooms
            BY <2>7, <3>1 DEF ClosedRooms
        <3>3. OnPlan(new) \in [event : Events, name : Names] /\ PlanRooms[k] = NoRoom
            BY <2>3, <3>1, OnPlanShape
        <3>4. Plan!Furnish(k, OnPlan(new))
            BY <2>3, <2>4, <2>8, <2>9, <3>2, <3>3 DEF Plan!Furnish
        <3>5. QED
            BY <2>1, <2>3, <3>4 DEF Plan!Next
    <2>10. CASE req[r].op = "room-update"
        <3>1. new \in RoomRow /\ rooms[k] \in RoomRow /\ new.event = rooms[k].event
            BY <1>3, <2>10, RoomParts
        <3>2. k \notin ClosedRooms /\ ClosedRooms' = ClosedRooms
            BY <2>7, <3>1, VenueAssumption DEF ClosedRooms
        <3>3. /\ OnPlan(new) \in [event : Events, name : Names] /\ PlanRooms[k] # NoRoom
              /\ OnPlan(new).event = PlanRooms[k].event
            BY <2>3, <3>1, OnPlanShape
        <3>4. OnPlan(new) \in [event : {PlanRooms[k].event}, name : Names]
            BY <3>3
        <3>5. Plan!Rename(k, OnPlan(new))
            BY <2>3, <2>4, <2>8, <2>10, <3>2, <3>3, <3>4 DEF Plan!Rename
        <3>6. QED
            BY <2>1, <2>3, <3>5 DEF Plan!Next
    <2>11. CASE req[r].op = "room-delete"
        <3>1. new = NoRoom /\ rooms[k] \in RoomRow /\ \A w \in uses : w.room # k
            BY <1>3, <2>11, RoomParts DEF Unused
        <3>2. PlanRooms[k] # NoRoom /\ OnPlan(new) = NoRoom /\ k \notin UsedRooms
            BY <2>3, <3>1, OnPlanShape DEF UsedRooms
        <3>3. ClosedRooms' = ClosedRooms \cup {k}
            BY <2>1, <2>2, <2>5, <2>6, <3>1 DEF ClosedRooms
        <3>4. Plan!TearDown(k)
            BY <2>3, <2>4, <3>2, <3>3 DEF Plan!TearDown
        <3>5. QED
            BY <2>1, <3>4 DEF Plan!Next
    <2>12. QED
        BY <1>3, <2>9, <2>10, <2>11, RoomParts
<1>4. QED
    BY <1>1, <1>2, <1>3

\* What the other steps leave alone shows on no plan.
LEMMA QuietStep ==
    ASSUME UNCHANGED db
    PROVE  UNCHANGED Plan!plan
BY DEF db, Plan!plan, PlanRooms, ClosedRooms, UsedRooms, RunningEvents

\* Every step is one of the plan's, or none.
LEMMA NextPlan == Inv /\ [Next]_vars => [Plan!Next]_(Plan!plan)
<1> SUFFICES ASSUME Inv, [Next]_vars PROVE [Plan!Next]_(Plan!plan)
    OBVIOUS
<1>1. CASE UNCHANGED db
    BY <1>1, QuietStep
<1>2. CASE \E r \in Requests : Commit(r) \/ HangUpInCommit(r)
    BY <1>2, CommitIsPlanStep DEF Commit, HangUpInCommit
<1>3. ASSUME NEW r \in Requests, InsertSeries(r), ~UNCHANGED db
      PROVE  Plan!Next
    <2> DEFINE w == [table |-> "session_series", by |-> r, event |-> req[r].event, room |-> req[r].room]
    <2>1. req[r].room \in RoomIds /\ req[r].event \in Events
        BY <1>3, RequestShape DEF Inv, AllSecured, Secured, OnTrack, InsertSeries
    <2>2. w \in UseRow /\ w.room = req[r].room
        BY <2>1 DEF UseRow
    <2>3. rooms[req[r].room] # NoRoom /\ uses' = uses \cup {w} /\ UNCHANGED <<events, rooms, audit>>
        BY <1>3 DEF InsertSeries, db
    <2> HIDE DEF w
    <2>4. QED
        BY <2>2, <2>3, UseIsPlanStep
<1>4. ASSUME NEW r \in Requests, Step(r) \/ HangUp(r), ~Commit(r), ~InsertSeries(r)
      PROVE  UNCHANGED db
    BY <1>4 DEF Step, HangUp, WriteMiss, UpdateEvent, UpdateRoom, DeleteRoom, TakeName, Diagnose, ShowCurrent,
                LookUpEvent, Insert, Refer, DeadlockDetected
<1>5. UNCHANGED vars => UNCHANGED db
    BY DEF vars, db
<1>6. QED
    BY <1>1, <1>2, <1>3, <1>4, <1>5 DEF Next, Idle

\* The initial tables make an initial plan.
LEMMA InitPlan == Init => Plan!Init
<1> SUFFICES ASSUME Init PROVE Plan!Init
    OBVIOUS
<1>1. rooms \in [RoomIds -> RoomRow \cup {NoRoom}] /\ NamesUnique(rooms) /\ RoomsFound(rooms, uses) /\ uses \subseteq UseRow
    BY VenueAssumption DEF Init
<1>2. PlanRooms \in [RoomIds -> [event : Events, name : Names] \cup {NoRoom}]
    BY <1>1, OnPlanShape DEF PlanRooms
<1>3. \A x \in RoomIds : PlanRooms[x] # NoRoom => rooms[x] \in RoomRow
    BY <1>1, OnPlanShape DEF PlanRooms
<1>4. \A x \in RoomIds : rooms[x] \in RoomRow => PlanRooms[x] # NoRoom
    BY OnPlanShape DEF PlanRooms
<1>5. ASSUME NEW x \in RoomIds, PlanRooms[x] # NoRoom
      PROVE  Plan!NameFree(x, PlanRooms[x])
    <2>1. \A y \in RoomIds \ {x} : PlanRooms[y] # PlanRooms[x]
        BY <1>1, <1>3, <1>5, OnPlanShape, VenueAssumption DEF PlanRooms, NamesUnique, SameName
    <2>2. QED
        BY <2>1 DEF Plan!NameFree
<1>6. ClosedRooms = {}
    BY VenueAssumption DEF ClosedRooms, Init
<1>7. UsedRooms \subseteq {x \in RoomIds : PlanRooms[x] # NoRoom}
    <2>1. \A w \in uses : w.room \in RoomIds /\ rooms[w.room] \in RoomRow
        BY <1>1 DEF RoomsFound, UseRow
    <2>2. QED
        BY <1>4, <2>1 DEF UsedRooms
<1>8. RunningEvents \subseteq Events
    BY DEF RunningEvents
<1>9. QED
    BY <1>2, <1>5, <1>6, <1>7, <1>8 DEF Plan!Init

(***************************************************************************)
(* The audit log.  AuditTrail tells of each log by itself what Story says, *)
(* and a log that ends with a delete belongs to a row nobody can match.    *)
(***************************************************************************)
\* A log that accounts for a row.
Story(log, row) ==
    /\ IF log = << >> THEN row = NoRoom ELSE row = log[Len(log)].after
    /\ \A n \in 1 .. Len(log) :
         /\ log[n].action = "create" <=> n = 1
         /\ log[n].before = IF n = 1 THEN NoRoom ELSE log[n - 1].after
         /\ log[n].action = "delete" => n = Len(log)
         /\ log[n].after # NoRoom => log[n].after.version = n

RowOf(x) == IF x \in Events THEN events[x] ELSE rooms[x]

\* A deleted row is not there for anybody.
Ended(x) == IF x \in Events THEN ~events[x].live ELSE rooms[x] = NoRoom

History ==
    \A x \in Events \cup RoomIds :
        /\ Story(audit[x], RowOf(x))
        /\ audit[x] # << >> /\ Last(x).action = "delete" => Ended(x)

\* A log goes on from where it was, one version further.
LEMMA StoryGoesOn ==
    ASSUME NEW log \in Seq(AuditEntry), NEW row, Story(log, row),
           NEW entry \in AuditEntry, entry.before = row,
           entry.action = "create" <=> log = << >>,
           log # << >> => log[Len(log)].action # "delete",
           entry.after # NoRoom => entry.after.version = Len(log) + 1
    PROVE  Story(Append(log, entry), entry.after)
<1> DEFINE long == Append(log, entry)
<1>1. /\ Len(log) \in Nat /\ Len(long) = Len(log) + 1
      /\ long # << >> /\ long[Len(log) + 1] = entry
      /\ \A n \in 1 .. Len(log) : long[n] = log[n]
    OBVIOUS
<1>2. log = << >> <=> Len(log) = 0
    OBVIOUS
<1> HIDE DEF long
<1>3. ASSUME NEW n \in 1 .. Len(log) + 1
      PROVE  /\ long[n].action = "create" <=> n = 1
             /\ long[n].before = IF n = 1 THEN NoRoom ELSE long[n - 1].after
             /\ long[n].action = "delete" => n = Len(log) + 1
             /\ long[n].after # NoRoom => long[n].after.version = n
    <2>1. CASE n \in 1 .. Len(log)
        <3>1. long[n] = log[n] /\ (n # 1 => long[n - 1] = log[n - 1])
            BY <1>1, <2>1
        <3>2. log[n].action = "delete" => n = Len(log)
            BY <2>1 DEF Story
        <3>3. log[n].action # "delete"
            BY <1>1, <1>2, <2>1, <3>2
        <3>4. QED
            BY <2>1, <3>1, <3>3 DEF Story
    <2>2. CASE n = Len(log) + 1
        <3>1. long[n] = entry
            BY <1>1, <2>2
        <3>2. n = 1 <=> log = << >>
            BY <1>1, <1>2, <2>2
        <3>3. n # 1 => long[n - 1] = log[Len(log)]
            BY <1>1, <2>2
        <3>4. QED
            BY <2>2, <3>1, <3>2, <3>3 DEF Story
    <2>3. QED
        BY <1>1, <2>1, <2>2
<1>4. QED
    BY <1>1, <1>3 DEF Story, long

\* A row has as many versions as its log has entries.
LEMMA VersionCounts ==
    ASSUME NEW log \in Seq(AuditEntry), NEW row, Story(log, row), row # NoRoom
    PROVE  log # << >> /\ row.version = Len(log)
<1>1. log # << >>
    BY DEF Story
<1>2. Len(log) \in 1 .. Len(log)
    BY <1>1
<1>3. QED
    BY <1>1, <1>2 DEF Story

\* The entry a commit adds is of the row it has kept others from writing.
LEMMA HistoryGrows ==
    ASSUME Inv, History, NEW r \in Requests, pc[r] = "commit", ~OnSession(r), Apply(r)
    PROVE  History'
<1>1. /\ Key(r) \in Events \cup RoomIds /\ Row(r) = RowOf(Key(r))
      /\ OnEvent(r) <=> Key(r) \in Events
    BY KeyShape DEF Inv, Row, RowOf
<1>2. /\ Entry(r) \in AuditEntry
      /\ \A x \in Events \cup RoomIds :
           audit'[x] = IF x = Key(r) THEN Append(audit[x], Entry(r)) ELSE audit[x]
    BY AuditType
<1>3. \A x \in Events \cup RoomIds :
        (IF x \in Events THEN events'[x] ELSE rooms'[x]) = IF x = Key(r) THEN Written(r) ELSE RowOf(x)
    <2>1. CASE OnEvent(r)
        BY <1>1, <2>1 DEF Apply, Written, RowOf, Inv, TypeOK
    <2>2. CASE ~OnEvent(r)
        BY <1>1, <2>2 DEF Apply, Written, RowOf, Inv, TypeOK
    <2>3. QED
        BY <2>1, <2>2
<1>4. Story(audit[Key(r)], Row(r)) /\ audit[Key(r)] \in Seq(AuditEntry)
    BY <1>1 DEF History, Inv, TypeOK
<1>5. Entry(r).before = Row(r) /\ Entry(r).after = Written(r) /\ Entry(r).action = ActionName(req[r].op)
    BY DEF Entry
<1>6. /\ Entry(r).action = "create" <=> audit[Key(r)] = << >>
      /\ audit[Key(r)] # << >> => Last(Key(r)).action # "delete"
      /\ Written(r) # NoRoom => Written(r).version = Len(audit[Key(r)]) + 1
      /\ Entry(r).action = "delete" => IF Key(r) \in Events THEN ~Written(r).live ELSE Written(r) = NoRoom
    <2>1. CASE req[r].op = "room-create"
        <3>1. ~OnEvent(r) /\ IdFresh(r) /\ Key(r) = r /\ Written(r).version = 1
            BY <2>1, KeyShape, RoomWritten DEF Inv, AllSecured, Secured, OnEvent, Written
        <3>2. audit[Key(r)] = << >> /\ Len(audit[Key(r)]) = 0 /\ Entry(r).action = "create"
            BY <2>1, <3>1, <1>5 DEF IdFresh, ActionName
        <3>3. QED
            BY <3>1, <3>2
    <2>2. CASE OnEvent(r)
        <3>1. /\ req[r].op \in {"event-update", "event-delete"} /\ Key(r) = req[r].event /\ Key(r) \in Events
              /\ FoundEvent(r)
            BY <2>2, KeyShape DEF Inv, AllSecured, Secured, OnEvent, OnSession, RowHeld, Matches, Found
        <3>2. Row(r) = events[Key(r)] /\ Row(r) \in EventRow /\ ~Ended(Key(r))
            BY <2>2, <3>1 DEF Row, Ended, FoundEvent, Inv, TypeOK
        <3>3. audit[Key(r)] # << >> /\ Row(r).version = Len(audit[Key(r)])
            BY <1>4, <3>2, VersionCounts, VenueAssumption
        <3>4. Last(Key(r)).action # "delete"
            BY <1>1, <3>2, <3>3 DEF History
        <3>5. Entry(r).action = (IF req[r].op = "event-delete" THEN "delete" ELSE "update")
            BY <3>1, <1>5 DEF ActionName
        <3>6. Written(r).version = Row(r).version + 1 /\ (req[r].op = "event-delete" => ~Written(r).live)
            BY <2>2, <3>1, <3>2, EventWritten DEF Written, Inv
        <3>7. QED
            BY <3>1, <3>3, <3>4, <3>5, <3>6
    <2>3. CASE ~OnEvent(r) /\ req[r].op # "room-create"
        <3>1. req[r].op \in {"room-update", "room-delete"} /\ Key(r) \in RoomIds /\ Key(r) \notin Events
            BY <2>3, RoomParts
        <3>2. Row(r) = rooms[Key(r)] /\ Row(r) \in RoomRow /\ Row(r) # NoRoom /\ ~Ended(Key(r))
            BY <2>3, <3>1, RoomParts, VenueAssumption DEF Row, Ended
        <3>3. audit[Key(r)] # << >> /\ Row(r).version = Len(audit[Key(r)])
            BY <1>4, <3>2, VersionCounts
        <3>4. Last(Key(r)).action # "delete"
            BY <1>1, <3>2, <3>3 DEF History
        <3>5. Entry(r).action = (IF req[r].op = "room-delete" THEN "delete" ELSE "update")
            BY <3>1, <1>5 DEF ActionName
        <3>6. req[r].op = "room-update" => FoundRoom(r)
            BY <2>3 DEF Inv, AllSecured, Secured, RowHeld, Matches, Found
        <3>7. /\ req[r].op = "room-update" => Written(r).version = Row(r).version + 1
              /\ req[r].op = "room-delete" => Written(r) = NoRoom
            BY <2>3, <3>2, <3>6, RoomWritten DEF Written, Inv
        <3>8. QED
            BY <3>1, <3>3, <3>5, <3>4, <3>7
    <2>4. QED
        BY <2>1, <2>2, <2>3
<1>7. Story(Append(audit[Key(r)], Entry(r)), Written(r))
    BY <1>2, <1>4, <1>5, <1>6, StoryGoesOn DEF Last
<1>8. Append(audit[Key(r)], Entry(r))[Len(Append(audit[Key(r)], Entry(r)))] = Entry(r)
    BY <1>2, <1>4
<1>9. ASSUME NEW x \in Events \cup RoomIds
      PROVE  /\ Story(audit'[x], RowOf(x)')
             /\ audit'[x] # << >> /\ audit'[x][Len(audit'[x])].action = "delete" => Ended(x)'
    <2>1. CASE x = Key(r)
        <3>1. audit'[x] = Append(audit[x], Entry(r)) /\ RowOf(x)' = Written(r)
            BY <1>2, <1>3, <2>1 DEF RowOf
        <3>2. Entry(r).action = "delete" => Ended(x)'
            BY <1>3, <1>6, <2>1 DEF Ended
        <3>3. QED
            BY <1>7, <1>8, <2>1, <3>1, <3>2
    <2>2. CASE x # Key(r)
        <3>1. audit'[x] = audit[x] /\ RowOf(x)' = RowOf(x)
            BY <1>2, <1>3, <2>2 DEF RowOf
        <3>2. Ended(x)' <=> Ended(x)
            BY <1>3, <2>2 DEF Ended, RowOf
        <3>3. QED
            BY <3>1, <3>2 DEF History, Last
    <2>3. QED
        BY <2>1, <2>2
<1>10. QED
    BY <1>9 DEF History, Last, Story

\* Every log begins with the creation of its row.
LEMMA InitHistory == Init => History
<1> SUFFICES ASSUME Init, NEW x \in Events \cup RoomIds
             PROVE  /\ Story(audit[x], RowOf(x))
                    /\ audit[x] # << >> /\ Last(x).action = "delete" => Ended(x)
    BY DEF History
<1>1. CASE audit[x] = << >>
    <2>1. RowOf(x) = NoRoom
        BY <1>1 DEF Init, RowOf
    <2>2. QED
        BY <1>1, <2>1 DEF Story
<1>2. CASE audit[x] # << >>
    <2>1. audit[x] = <<[actor |-> NoOne, action |-> "create", before |-> NoRoom, after |-> RowOf(x)]>>
        BY <1>2 DEF Init, RowOf
    <2>2. RowOf(x) # NoRoom => RowOf(x).version = 1
        BY VenueAssumption DEF Init, RowOf
    <2>3. Len(audit[x]) = 1 /\ audit[x][1].action = "create" /\ audit[x][1].before = NoRoom /\ audit[x][1].after = RowOf(x)
        BY <2>1
    <2>4. QED
        BY <1>2, <2>2, <2>3 DEF Story, Last
<1>3. QED
    BY <1>1, <1>2

\* Only commits add to the log.
LEMMA NextHistory == Inv /\ History /\ [Next]_vars => History'
<1> SUFFICES ASSUME Inv, History, [Next]_vars PROVE History'
    OBVIOUS
<1>1. CASE UNCHANGED <<events, rooms, audit>>
    BY <1>1 DEF History, Story, RowOf, Last, Ended
<1>2. ASSUME NEW r \in Requests, Commit(r) \/ HangUpInCommit(r), ~UNCHANGED <<events, rooms, audit>>
      PROVE  History'
    <2>1. pc[r] = "commit" /\ Apply(r)
        BY <1>2 DEF Commit, HangUpInCommit
    <2>2. ~OnSession(r)
        BY <1>2, <2>1 DEF Apply
    <2>3. QED
        BY <2>1, <2>2, HistoryGrows
<1>3. ASSUME NEW r \in Requests, Step(r) \/ HangUp(r), ~Commit(r)
      PROVE  UNCHANGED <<events, rooms, audit>>
    BY <1>3 DEF Step, HangUp, WriteMiss, UpdateEvent, UpdateRoom, DeleteRoom, TakeName, Diagnose, ShowCurrent,
                LookUpEvent, Insert, InsertSeries, Refer, DeadlockDetected, db
<1>4. UNCHANGED vars => UNCHANGED <<events, rooms, audit>>
    BY DEF vars, db
<1>5. QED
    BY <1>1, <1>2, <1>3, <1>4 DEF Next, Idle

(***************************************************************************)
(* The theorems.                                                           *)
(***************************************************************************)
\* The inductive invariant holds in every state of every behaviour.
THEOREM InvHolds == Spec => []Inv
<1>1. Init => Inv
    BY InitInv
<1>2. Inv /\ [Next]_vars => Inv'
    BY NextInv
<1>3. QED
    BY <1>1, <1>2, PTL DEF Spec

\* Type correctness of the tables and of every goroutine's state.
THEOREM TypeCorrect == Spec => []TypeOK
<1>1. Inv => TypeOK
    BY DEF Inv
<1>2. QED
    BY <1>1, InvHolds, PTL

\* Whoever creates, renames (also with each other) and deletes rooms at once,
\* the rooms of an event have different names.
THEOREM NamesStayUnique == Spec => []UniqueNames
<1>1. Inv => UniqueNames
    BY DEF Inv
<1>2. QED
    BY <1>1, InvHolds, PTL

\* Whatever is deleted while sessions and series are made, each refers to a
\* room that exists, a session to one of its own event.
THEOREM NoDanglingReference == Spec => []ReferencesHold
<1>1. Inv => ReferencesHold
    BY DEF Inv
<1>2. QED
    BY <1>1, InvHolds, PTL

\* No lost update: the audit rows of an event or a room are its whole
\* history, and the version counts them.
THEOREM AuditIsComplete == Spec => []AuditTrail
<1>1. Init => Inv /\ History
    BY InitInv, InitHistory
<1>2. Inv /\ History /\ [Next]_vars => (Inv /\ History)'
    BY NextInv, NextHistory
<1>3. Inv /\ History => AuditTrail
    BY DEF History, Story, RowOf, AuditTrail, Last
<1>4. QED
    BY <1>1, <1>2, <1>3, PTL DEF Spec

\* The event and room endpoints implement the abstract floor plan.
THEOREM VenueImplementsFloorPlan == Spec => ImplementsFloorPlan
<1>1. Init => Plan!Init
    BY InitPlan
<1>2. Inv /\ [Next]_vars => [Plan!Next]_(Plan!plan)
    BY NextPlan
<1>3. QED
    BY <1>1, <1>2, InvHolds, PTL DEF Spec, ImplementsFloorPlan, Plan!Spec

(***************************************************************************)
(* The answers.  A request writes once, in its last statement, so until it *)
(* has answered nothing is its own; and what a request reported missing or *)
(* in use stays so, because ids are not given twice, a delete is for good  *)
(* and a room that something refers to is not deleted.                     *)
(***************************************************************************)
\* What the error answers of r claim, and which operations give them.
ClaimsHold(r) ==
    /\ reply[r] = "not_found" =>
         req[r].op # "room-create" /\ IF OnSession(r) THEN ~FoundEvent(r) ELSE ~Found(r)
    /\ reply[r] = "room_not_found" => OnSession(r) /\ ~FoundRoom(r)
    /\ reply[r] = "room_in_use" =>
         req[r].op = "room-delete" /\ rooms[Key(r)] # NoRoom /\ \E w \in uses : w.room = Key(r)

Counted(r) ==
    Cardinality(WritesBy(r)) \in
        (IF reply[r] = "gone" THEN {0, 1} ELSE IF reply[r] \in {"created", "ok", "no_content"} THEN {1} ELSE {0})

Truthful(r) ==
    /\ pc[r] # "done" => reply[r] = "none" /\ WritesBy(r) = {}
    /\ ClaimsHold(r)
    /\ Counted(r)

AllTruthful == \A r \in Requests : Truthful(r)

Successes == {"created", "ok", "no_content"}

\* Truthful requests are what AnswersTellTruth asks for.
LEMMA TruthfulSuffices == AllTruthful => AnswersTellTruth
BY DEF AllTruthful, Truthful, ClaimsHold, Counted, AnswersTellTruth

\* What is gone does not come back, under its own id at least.
NothingReturns ==
    /\ \A e \in Events : events'[e].live => events[e].live
    /\ \A x \in RoomIds \ Requests :
          rooms'[x] # NoRoom => rooms[x] # NoRoom /\ rooms'[x].event = rooms[x].event
    /\ uses \subseteq uses'

\* A commit of a live event, or of a room under its id, brings nothing back.
LEMMA CommitReturnsNothing ==
    ASSUME Inv, NEW r \in Requests, pc[r] = "commit", Apply(r)
    PROVE  NothingReturns
<1>1. CASE OnSession(r)
    BY <1>1 DEF Apply, NothingReturns
<1>2. CASE OnEvent(r)
    <2>1. ~OnSession(r) /\ req[r].op # "room-create"
        BY <1>2 DEF OnEvent, OnSession
    <2>2. Key(r) = req[r].event /\ Key(r) \in Events
        BY <1>2, KeyShape DEF Inv
    <2>3. events[Key(r)].live
        <3>1. RowHeld(r)
            BY <2>1 DEF Inv, AllSecured, Secured
        <3> QED
            BY <1>2, <2>2, <3>1 DEF RowHeld, Matches, Found, FoundEvent
    <2>4. events' = [events EXCEPT ![Key(r)] = WrittenEvent(r)] /\ rooms' = rooms /\ uses' = uses
        BY <1>2, <2>1 DEF Apply
    <2>5. \A e \in Events \ {Key(r)} : events'[e] = events[e]
        BY <2>4 DEF Inv, TypeOK
    <2> QED
        BY <2>3, <2>4, <2>5 DEF NothingReturns
<1>3. CASE ~OnEvent(r) /\ ~OnSession(r)
    <2>1. /\ rooms' = [rooms EXCEPT ![Key(r)] = WrittenRoom(r)] /\ UNCHANGED <<events, uses>>
          /\ Key(r) \in RoomIds
          /\ req[r].op = "room-create" => Key(r) \in Requests
          /\ req[r].op = "room-update" =>
               rooms[Key(r)] \in RoomRow /\ WrittenRoom(r).event = rooms[Key(r)].event
          /\ req[r].op = "room-delete" => WrittenRoom(r) = NoRoom
          /\ req[r].op \in {"room-create", "room-update", "room-delete"}
        BY <1>3, RoomParts
    <2>2. \A x \in RoomIds : rooms'[x] = IF x = Key(r) THEN WrittenRoom(r) ELSE rooms[x]
        BY <2>1 DEF Inv, TypeOK
    <2>3. \A row \in RoomRow : row # NoRoom
        BY VenueAssumption
    <2> QED
        BY <2>1, <2>2, <2>3 DEF NothingReturns
<1> QED
    BY <1>1, <1>2, <1>3

\* So what an answer claimed stays true.
LEMMA ClaimsLast ==
    ASSUME Inv, Inv', NothingReturns, req' = req, NEW u \in Requests, reply'[u] = reply[u], ClaimsHold(u)
    PROVE  ClaimsHold(u)'
<1>1. OnSession(u)' = OnSession(u) /\ OnEvent(u)' = OnEvent(u) /\ Key(u)' = Key(u)
    BY DEF OnSession, OnEvent, Key
<1>2. ~FoundEvent(u) => ~FoundEvent(u)'
    BY RequestShape DEF NothingReturns, FoundEvent, Inv
<1>3. ~OnEvent(u) /\ req[u].op # "room-create" => req[u].room \in RoomIds \ Requests
    BY RequestShape DEF Inv, OnEvent, OnSession
<1>4. ~OnEvent(u) /\ req[u].op # "room-create" /\ ~FoundRoom(u) => ~FoundRoom(u)'
    BY <1>3 DEF NothingReturns, FoundRoom
<1>5. OnSession(u) => ~OnEvent(u) /\ req[u].op # "room-create"
    BY DEF OnSession, OnEvent
<1>6. (\E w \in uses : w.room = Key(u)) => rooms'[Key(u)] # NoRoom /\ \E w \in uses' : w.room = Key(u)
    BY DEF NothingReturns, Inv, ReferencesHold, RoomsFound
<1>7. (Found(u) <=> IF OnEvent(u) THEN FoundEvent(u) ELSE FoundRoom(u))
      /\ (Found(u)' <=> IF OnEvent(u)' THEN FoundEvent(u)' ELSE FoundRoom(u)')
    BY DEF Found
<1>8. reply'[u] = "not_found" =>
         req'[u].op # "room-create" /\ IF OnSession(u)' THEN ~FoundEvent(u)' ELSE ~Found(u)'
    <2>1. CASE OnSession(u)
        BY <1>1, <1>2, <2>1 DEF ClaimsHold
    <2>2. CASE ~OnSession(u)
        BY <1>1, <1>2, <1>4, <1>7, <2>2 DEF ClaimsHold
    <2> QED
        BY <2>1, <2>2
<1>9. reply'[u] = "room_not_found" => OnSession(u)' /\ ~FoundRoom(u)'
    BY <1>1, <1>4, <1>5 DEF ClaimsHold
<1>10. reply'[u] = "room_in_use" =>
          req'[u].op = "room-delete" /\ rooms'[Key(u)'] # NoRoom /\ \E w \in uses' : w.room = Key(u)'
    BY <1>1, <1>6 DEF ClaimsHold
<1> QED
    BY <1>8, <1>9, <1>10 DEF ClaimsHold

\* Somebody's writes are the places of the log that name him and the
\* sessions that are his.
LEMMA WritesInTables ==
    ASSUME NEW u
    PROVE  /\ \A w : w \in WritesBy(u) <=>
                \/ \E x \in Events \cup RoomIds : \E m \in 1 .. Len(audit[x]) : w = <<x, m>> /\ audit[x][m].actor = u
                \/ w \in uses /\ w.table = "sessions" /\ w.by = u
           /\ \A w : w \in WritesBy(u)' <=>
                \/ \E x \in Events \cup RoomIds : \E m \in 1 .. Len(audit'[x]) : w = <<x, m>> /\ audit'[x][m].actor = u
                \/ w \in uses' /\ w.table = "sessions" /\ w.by = u
BY DEF WritesBy

\* A request whose own part is left alone stays truthful.
LEMMA StaysTruthful ==
    ASSUME Inv, Inv', NothingReturns, req' = req, NEW u \in Requests, Truthful(u),
           pc'[u] = pc[u], reply'[u] = reply[u], WritesBy(u)' = WritesBy(u)
    PROVE  Truthful(u)'
<1>1. ClaimsHold(u)'
    BY ClaimsLast DEF Truthful
<1>2. Counted(u)'
    BY DEF Truthful, Counted
<1> QED
    BY <1>1, <1>2 DEF Truthful

\* A request that goes on, or answers an error whose claim is true, stays
\* truthful.
LEMMA QuietAnswer ==
    ASSUME Inv, Inv', AllTruthful, NEW r \in Requests, pc[r] # "done",
           NEW code, reply' = [reply EXCEPT ![r] = code], code \notin Successes,
           NEW p, pc' = [pc EXCEPT ![r] = p], p # "done" => code = "none",
           UNCHANGED <<events, rooms, audit, req>>, uses \subseteq uses',
           \A w \in uses' \ uses : w.table # "sessions",
           code \notin {"not_found", "room_not_found", "room_in_use"} \/ ClaimsHold(r)'
    PROVE  AllTruthful'
<1>1. NothingReturns
    BY DEF NothingReturns
<1>2. ASSUME NEW u \in Requests PROVE WritesBy(u)' = WritesBy(u)
    <2>1. \A w : w \in WritesBy(u)' <=> w \in WritesBy(u)
        BY WritesInTables
    <2> QED
        BY <2>1
<1>3. ASSUME NEW u \in Requests \ {r} PROVE Truthful(u)'
    <2>1. pc'[u] = pc[u] /\ reply'[u] = reply[u] /\ Truthful(u) /\ WritesBy(u)' = WritesBy(u)
        BY <1>2 DEF Inv, TypeOK, AllTruthful
    <2> QED
        BY <1>1, <2>1, StaysTruthful
<1>4. Truthful(r)'
    <2>1. pc'[r] = p /\ reply'[r] = code /\ WritesBy(r)' = {}
        BY <1>2 DEF Inv, TypeOK, AllTruthful, Truthful
    <2>2. Counted(r)'
        BY <2>1, FS_EmptySet DEF Counted, Successes
    <2>3. ClaimsHold(r)'
        BY <2>1 DEF ClaimsHold
    <2> QED
        BY <2>1, <2>2, <2>3 DEF Truthful
<1> QED
    BY <1>3, <1>4 DEF AllTruthful

\* The row a session or the audit entry another request commits is its one
\* write and nobody else's.
LEMMA CommitWrites ==
    ASSUME Inv, NEW r \in Requests, pc[r] = "commit", Apply(r), WritesBy(r) = {}
    PROVE  /\ \E w : WritesBy(r)' = {w}
           /\ \A u \in Requests \ {r} : WritesBy(u)' = WritesBy(u)
<1>1. CASE OnSession(r)
    <2> DEFINE row == [table |-> "sessions", by |-> r, event |-> req[r].event, room |-> req[r].room]
    <2>1. uses' = uses \cup {row} /\ audit' = audit
        BY <1>1 DEF Apply
    <2>2. row.table = "sessions" /\ row.by = r
        OBVIOUS
    <2> HIDE DEF row
    <2>3. \A w : w \in WritesBy(r)' <=> w \in {row}
        BY <2>1, <2>2, WritesInTables
    <2>4. WritesBy(r)' = {row}
        BY <2>3
    <2>5. ASSUME NEW u \in Requests \ {r} PROVE WritesBy(u)' = WritesBy(u)
        <3>1. \A w : w \in WritesBy(u)' <=> w \in WritesBy(u)
            BY <2>1, <2>2, WritesInTables
        <3> QED
            BY <3>1
    <2> QED
        BY <2>4, <2>5
<1>2. CASE ~OnSession(r)
    <2> DEFINE k == Key(r)
               n == Len(audit[k]) + 1
               e == Entry(r)
    <2>1. e.actor = r /\ e \in AuditEntry
        BY <1>2, AuditType DEF Entry
    <2>2. k \in Events \cup RoomIds /\ audit[k] \in Seq(AuditEntry) /\ uses' = uses
        BY <1>2, KeyShape DEF Inv, TypeOK, Apply
    <2>3. \A x \in Events \cup RoomIds : audit'[x] = IF x = k THEN Append(audit[x], e) ELSE audit[x]
        BY <1>2, AuditType
    <2> HIDE DEF k, e
    <2>4. audit'[k] = Append(audit[k], e) /\ Len(audit[k]) \in Nat
        <3>1. audit'[k] = Append(audit[k], e)
            BY <2>2, <2>3, Zenon
        <3>2. Len(audit[k]) \in Nat
            BY <2>2
        <3> QED
            BY <3>1, <3>2
    <2>5. /\ Len(audit'[k]) = n /\ audit'[k][n] = e /\ n \in 1 .. n
          /\ \A m \in 1 .. n : m # n => m \in 1 .. Len(audit[k]) /\ audit'[k][m] = audit[k][m]
          /\ \A m \in 1 .. Len(audit[k]) : m \in 1 .. n /\ m # n /\ audit'[k][m] = audit[k][m]
        <3>1. Len(audit'[k]) = n /\ audit'[k][n] = e
            BY <2>1, <2>2, <2>4
        <3>2. \A m \in 1 .. Len(audit[k]) : audit'[k][m] = audit[k][m]
            BY <2>1, <2>2, <2>4
        <3> QED
            BY <2>4, <3>1, <3>2
    <2> HIDE DEF n
    <2> DEFINE At(log, x, m, u) == m \in 1 .. Len(log[x]) /\ log[x][m].actor = u
    <2>6. ASSUME NEW u, NEW x \in Events \cup RoomIds, NEW m
          PROVE  At(audit', x, m, u) <=> At(audit, x, m, u) \/ (x = k /\ m = n /\ e.actor = u)
        <3>1. CASE x # k
            BY <2>3, <3>1
        <3>2. CASE x = k
            BY <2>5, <3>2
        <3> QED
            BY <3>1, <3>2
    <2>7. ASSUME NEW u, NEW w
           PROVE  w \in WritesBy(u)' <=> w \in WritesBy(u) \/ (w = <<k, n>> /\ e.actor = u)
        <3>1. w \in WritesBy(u) <=>
                \/ \E x \in Events \cup RoomIds : \E m : w = <<x, m>> /\ At(audit, x, m, u)
                \/ w \in uses /\ w.table = "sessions" /\ w.by = u
            BY WritesInTables
        <3>2. w \in WritesBy(u)' <=>
                \/ \E x \in Events \cup RoomIds : \E m : w = <<x, m>> /\ At(audit', x, m, u)
                \/ w \in uses /\ w.table = "sessions" /\ w.by = u
            BY <2>2, WritesInTables
        <3> HIDE DEF At
        <3> QED
            BY <2>2, <2>6, <3>1, <3>2
    <2> HIDE DEF At
    <2>8. \A w : w \in WritesBy(r)' <=> w \in {<<k, n>>}
        BY <2>1, <2>7
    <2>9. WritesBy(r)' = {<<k, n>>}
        BY <2>8
    <2>10. ASSUME NEW u \in Requests \ {r} PROVE WritesBy(u)' = WritesBy(u)
        <3>1. \A w : w \in WritesBy(u)' <=> w \in WritesBy(u)
            BY <2>1, <2>7
        <3> QED
            BY <3>1
    <2> QED
        BY <2>9, <2>10
<1> QED
    BY <1>1, <1>2

\* Whoever commits, told or not, has written once; the others stay truthful.
LEMMA CommitAnswer ==
    ASSUME Inv, Inv', AllTruthful, NEW r \in Requests, Commit(r) \/ HangUpInCommit(r)
    PROVE  AllTruthful'
<1>1. pc[r] = "commit" /\ Apply(r) /\ req' = req /\ pc' = [pc EXCEPT ![r] = "done"] /\ WritesBy(r) = {}
    BY DEF Commit, HangUpInCommit, Answer, AllTruthful, Truthful
<1>2. NothingReturns
    BY <1>1, CommitReturnsNothing
<1>3. /\ \E w : WritesBy(r)' = {w}
      /\ \A u \in Requests \ {r} : WritesBy(u)' = WritesBy(u)
    BY <1>1, CommitWrites
<1>4. PICK code \in Successes \cup {"gone"} : reply' = [reply EXCEPT ![r] = code]
    BY RequestShape DEF Inv, Commit, HangUpInCommit, Answer, Success, Successes, OnSession
<1>5. ASSUME NEW u \in Requests \ {r} PROVE Truthful(u)'
    <2>1. pc'[u] = pc[u] /\ reply'[u] = reply[u] /\ Truthful(u) /\ WritesBy(u)' = WritesBy(u)
        BY <1>1, <1>3, <1>4 DEF Inv, TypeOK, AllTruthful
    <2> QED
        BY <1>1, <1>2, <2>1, StaysTruthful
<1>6. Truthful(r)'
    <2>1. pc'[r] = "done" /\ reply'[r] = code
        BY <1>1, <1>4 DEF Inv, TypeOK
    <2>2. Counted(r)'
        BY <1>3, <2>1, FS_Singleton DEF Counted, Successes
    <2>3. ClaimsHold(r)'
        BY <2>1 DEF ClaimsHold, Successes
    <2> QED
        BY <2>1, <2>2, <2>3 DEF Truthful
<1> QED
    BY <1>5, <1>6 DEF AllTruthful

\* Nobody has written or been told anything.
LEMMA InitTruthful == Init => AllTruthful
<1> SUFFICES ASSUME Init, NEW r \in Requests PROVE Truthful(r)
    BY DEF AllTruthful
<1>1. reply[r] = "none"
    BY DEF Init
<1>2. \A x \in Events \cup RoomIds : \A m \in 1 .. Len(audit[x]) : audit[x][m].actor # r
    <2> SUFFICES ASSUME NEW x \in Events \cup RoomIds, NEW m \in 1 .. Len(audit[x]) PROVE audit[x][m].actor # r
        OBVIOUS
    <2>1. CASE audit[x] = << >>
        BY <2>1
    <2>2. CASE audit[x] # << >>
        <3>1. PICK row : audit[x] = <<[actor |-> NoOne, action |-> "create", before |-> NoRoom, after |-> row]>>
            BY <2>2 DEF Init
        <3>2. m = 1 /\ audit[x][1].actor = NoOne
            BY <3>1
        <3> QED
            BY <3>2, VenueAssumption
    <2> QED
        BY <2>1, <2>2
<1>3. \A w \in uses : w.by # r
    BY VenueAssumption DEF Init
<1>4. \A w : w \notin WritesBy(r)
    BY <1>2, <1>3, WritesInTables
<1>5. WritesBy(r) = {}
    BY <1>4
<1>6. Counted(r) /\ ClaimsHold(r)
    BY <1>1, <1>5, FS_EmptySet DEF Counted, ClaimsHold
<1> QED
    BY <1>1, <1>5, <1>6 DEF Truthful

\* A further statement of a request answers nothing yet.
LEMMA QuietGoTo ==
    ASSUME Inv, Inv', AllTruthful, NEW r \in Requests, pc[r] # "done",
           NEW p, GoTo(r, p), UNCHANGED <<events, rooms, audit, req>>, uses \subseteq uses',
           \A w \in uses' \ uses : w.table # "sessions"
    PROVE  AllTruthful'
<1>1. reply[r] = "none"
    BY DEF AllTruthful, Truthful
<1>2. reply' = [reply EXCEPT ![r] = "none"] /\ pc' = [pc EXCEPT ![r] = p]
    BY <1>1 DEF GoTo, Inv, TypeOK
<1> QED
    BY <1>2, QuietAnswer DEF Successes

\* An error claims something only if it is one of the three that do.
LEMMA ErrorAnswer ==
    ASSUME Inv, Inv', AllTruthful, NEW r \in Requests, pc[r] # "done",
           NEW code, code \in Replies \ Successes, Answer(r, code), UNCHANGED <<db, req>>,
           code = "not_found" =>
             req[r].op # "room-create" /\ IF OnSession(r) THEN ~FoundEvent(r) ELSE ~Found(r),
           code = "room_not_found" => OnSession(r) /\ ~FoundRoom(r),
           code = "room_in_use" =>
             req[r].op = "room-delete" /\ rooms[Key(r)] # NoRoom /\ \E w \in uses : w.room = Key(r)
    PROVE  AllTruthful'
<1>1. reply' = [reply EXCEPT ![r] = code] /\ pc' = [pc EXCEPT ![r] = "done"]
    BY DEF Answer
<1>2. reply'[r] = code
    BY <1>1 DEF Inv, TypeOK
<1>3. /\ OnSession(r)' = OnSession(r) /\ Found(r)' = Found(r) /\ FoundEvent(r)' = FoundEvent(r)
      /\ FoundRoom(r)' = FoundRoom(r) /\ Key(r)' = Key(r)
    BY DEF OnSession, Found, FoundEvent, FoundRoom, Key, OnEvent, db
<1>4. ClaimsHold(r)'
    BY <1>2, <1>3 DEF ClaimsHold, db
<1>5. UNCHANGED <<events, rooms, audit, req>> /\ uses' = uses
    BY DEF db
<1> QED
    BY <1>1, <1>4, <1>5, QuietAnswer DEF Successes

\* A request in a cycle of waiters waits for somebody, in a statement of its
\* own.
LEMMA WaiterRuns ==
    ASSUME NEW r \in Requests, InCycle(r)
    PROVE  pc[r] # "done"
<1>1. Blockers(r) # {}
    BY DEF InCycle, Unblocked
<1> QED
    BY <1>1 DEF Blockers

\* What a rejection claims is what its statement has just seen.
LEMMA NextTruthful == Inv /\ Inv' /\ AllTruthful /\ [Next]_vars => AllTruthful'
<1> SUFFICES ASSUME Inv, Inv', AllTruthful, [Next]_vars PROVE AllTruthful'
    OBVIOUS
<1>1. CASE UNCHANGED vars
    <2>1. NothingReturns /\ req' = req
        BY <1>1 DEF vars, NothingReturns
    <2>2. ASSUME NEW u \in Requests PROVE Truthful(u)'
        <3>1. Truthful(u) /\ pc'[u] = pc[u] /\ reply'[u] = reply[u]
            BY <1>1 DEF vars, AllTruthful
        <3>2. \A w : w \in WritesBy(u)' <=> w \in WritesBy(u)
            BY <1>1, WritesInTables DEF vars
        <3>3. WritesBy(u)' = WritesBy(u)
            BY <3>2
        <3> QED
            BY <2>1, <3>1, <3>3, StaysTruthful
    <2> QED
        BY <2>2 DEF AllTruthful
<1>2. ASSUME NEW r \in Requests, Commit(r) \/ HangUpInCommit(r) PROVE AllTruthful'
    BY <1>2, CommitAnswer
<1>3. ASSUME NEW r \in Requests, Step(r) \/ HangUp(r), ~Commit(r) PROVE AllTruthful'
    <2>1. OnTrack(r, pc[r])
        BY DEF Inv, AllSecured, Secured
    <2>2. CASE WriteMiss(r) \/ UpdateEvent(r)
        BY <2>2, QuietGoTo DEF WriteMiss, UpdateEvent, db
    <2>3. CASE UpdateRoom(r)
        BY <2>3, QuietGoTo DEF UpdateRoom, db
    <2>4. CASE DeleteRoom(r)
        <3>1. CASE \E w \in uses : w.room = Key(r)
            <4>1. Answer(r, "room_in_use") /\ pc[r] # "done" /\ UNCHANGED <<db, req>> /\ req[r].op = "room-delete"
                BY <2>4, <3>1 DEF DeleteRoom, Conflict
            <4>2. rooms[Key(r)] # NoRoom
                BY <2>4, <4>1 DEF DeleteRoom, Matches, Found, FoundRoom, Key, OnEvent
            <4> QED
                BY <3>1, <4>1, <4>2, ErrorAnswer DEF Replies, Successes
        <3>2. CASE ~ \E w \in uses : w.room = Key(r)
            BY <2>4, <3>2, QuietGoTo DEF DeleteRoom, db
        <3> QED
            BY <3>1, <3>2
    <2>5. CASE TakeName(r)
        <3>1. pc[r] = "name" /\ UNCHANGED <<db, req>> /\ Conflict(req[r].op) = "room_name_taken"
            BY <2>1, <2>5 DEF TakeName, OnTrack, Conflict
        <3>2. Answer(r, "room_name_taken") \/ GoTo(r, "commit")
            BY <2>5, <3>1 DEF TakeName
        <3>3. CASE Answer(r, "room_name_taken")
            BY <3>1, <3>3, ErrorAnswer DEF Replies, Successes
        <3>4. CASE GoTo(r, "commit")
            BY <3>1, <3>4, QuietGoTo DEF db
        <3> QED
            BY <3>2, <3>3, <3>4
    <2>6. CASE Diagnose(r)
        <3>1. pc[r] = "diagnose" /\ UNCHANGED <<db, req>> /\ ~OnSession(r) /\ req[r].op # "room-create"
            BY <2>1, <2>6 DEF Diagnose, OnTrack
        <3>2. CASE Found(r)
            BY <2>6, <3>1, <3>2, QuietGoTo DEF Diagnose, db
        <3>3. CASE ~Found(r)
            BY <2>6, <3>1, <3>3, ErrorAnswer DEF Diagnose, Replies, Successes
        <3> QED
            BY <3>2, <3>3
    <2>7. CASE ShowCurrent(r)
        <3>1. pc[r] # "done" /\ reply' = [reply EXCEPT ![r] = "version_conflict"] /\ pc' = [pc EXCEPT ![r] = "done"]
            BY <2>7 DEF ShowCurrent
        <3>2. UNCHANGED <<events, rooms, audit, req>> /\ uses' = uses
            BY <2>7 DEF ShowCurrent, db
        <3>3. uses \subseteq uses' /\ \A w \in uses' \ uses : w.table # "sessions"
            BY <3>2
        <3>4. "version_conflict" \notin Successes \cup {"not_found", "room_not_found", "room_in_use"}
            BY DEF Successes
        <3> QED
            BY <3>1, <3>2, <3>3, <3>4, QuietAnswer
    <2>8. CASE LookUpEvent(r)
        <3>1. pc[r] = "lookup" /\ UNCHANGED <<db, req>> /\ OnSession(r) /\ req[r].op # "room-create"
            BY <2>1, <2>8 DEF LookUpEvent, OnTrack, OnSession
        <3>2. CASE FoundEvent(r)
            <4>1. GoTo(r, IF req[r].op = "series" THEN "series" ELSE "insert")
                BY <2>8, <3>2 DEF LookUpEvent, FoundEvent
            <4> QED
                BY <3>1, <4>1, QuietGoTo DEF db
        <3>3. CASE ~FoundEvent(r)
            <4>1. Answer(r, "not_found")
                BY <2>8, <3>3 DEF LookUpEvent, FoundEvent
            <4> QED
                BY <3>1, <3>3, <4>1, ErrorAnswer DEF Replies, Successes
        <3> QED
            BY <3>2, <3>3
    <2>9. CASE InsertSeries(r)
        <3>1. pc[r] # "done" /\ UNCHANGED <<events, rooms, audit, req>>
            BY <2>9 DEF InsertSeries
        <3>2. CASE rooms[req[r].room] # NoRoom
            <4> DEFINE row == [table |-> "session_series", by |-> r, event |-> req[r].event, room |-> req[r].room]
            <4>1. uses' = uses \cup {row} /\ GoTo(r, "insert") /\ row.table # "sessions"
                BY <2>9, <3>2 DEF InsertSeries
            <4> HIDE DEF row
            <4>2. uses \subseteq uses' /\ \A w \in uses' \ uses : w.table # "sessions"
                BY <4>1
            <4> QED
                BY <3>1, <4>1, <4>2, QuietGoTo
        <3>3. CASE rooms[req[r].room] = NoRoom
            <4>1. Answer(r, "internal") /\ UNCHANGED <<db, req>>
                BY <2>9, <3>3 DEF InsertSeries, db
            <4> QED
                BY <3>1, <4>1, ErrorAnswer DEF Replies, Successes
        <3> QED
            BY <3>2, <3>3
    <2>10. CASE Insert(r)
        <3>1. pc[r] = "insert" /\ UNCHANGED <<db, req>> /\ OnSession(r)
            BY <2>1, <2>10 DEF Insert, OnTrack
        <3>2. CASE FoundRoom(r)
            BY <2>10, <3>1, <3>2, QuietGoTo DEF Insert, db
        <3>3. CASE ~FoundRoom(r)
            BY <2>10, <3>1, <3>3, ErrorAnswer DEF Insert, Replies, Successes
        <3> QED
            BY <3>2, <3>3
    <2>11. CASE Refer(r)
        <3>1. pc[r] = "refer" /\ UNCHANGED <<db, req>> /\ (GoTo(r, "commit") \/ Answer(r, "internal"))
            BY <2>11 DEF Refer
        <3>2. CASE GoTo(r, "commit")
            BY <3>1, <3>2, QuietGoTo DEF db
        <3>3. CASE Answer(r, "internal")
            BY <3>1, <3>3, ErrorAnswer DEF Replies, Successes
        <3> QED
            BY <3>1, <3>2, <3>3
    <2>12. CASE DeadlockDetected(r)
        BY <2>12, WaiterRuns, ErrorAnswer DEF DeadlockDetected, Replies, Successes
    <2>13. CASE HangUp(r)
        BY <2>13, ErrorAnswer DEF HangUp, Replies, Successes
    <2> QED
        BY <1>3, <2>2, <2>3, <2>4, <2>5, <2>6, <2>7, <2>8, <2>9, <2>10, <2>11, <2>12, <2>13 DEF Step
<1> QED
    BY <1>1, <1>2, <1>3 DEF Next, Idle

\* Whatever its client was told stays true: a success was written once, a
\* rejection never, and what was missing or in use remains so.
THEOREM AnswersAreTrue == Spec => []AnswersTellTruth
<1>1. Init => AllTruthful
    BY InitTruthful
<1>2. Inv /\ Inv' /\ AllTruthful /\ [Next]_vars => AllTruthful'
    BY NextTruthful
<1>3. AllTruthful => AnswersTellTruth
    BY TruthfulSuffices
<1> QED
    BY <1>1, <1>2, <1>3, InvHolds, PTL DEF Spec
=============================================================================
