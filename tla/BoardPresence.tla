---------------------------- MODULE BoardPresence ----------------------------
(***************************************************************************)
(* Who is viewing a board: BoardGateway and PresenceService over Redis, and *)
(* the list of viewers each BoardPage shows.  The handlers of one socket    *)
(* run concurrently, those of different sockets possibly in different       *)
(* server processes; a step is one round trip to Redis, with what the       *)
(* handler does before its next await.  BoardPage opens a socket of its own *)
(* for one board, and a reconnection is a new socket, so each joins once.   *)
(***************************************************************************)
EXTENDS Integers, FiniteSets

CONSTANTS
    Sockets,      \* socket ids
    Users,
    UserOf,       \* the user of a socket
    HashOf,       \* where a user's hash falls in the palette
    PaletteSize,  \* number of COLLABORATOR_COLORS
    First,        \* the socket of the first page
    Nil,          \* no handler, no metadata
    MaxOddBeats   \* bound: heartbeats that are missed, or overlap another step

ASSUME FirstIsSocket == First \in Sockets
ASSUME UserOfType == UserOf \in [Sockets -> Users]
ASSUME PaletteType == PaletteSize \in Nat \ {0} /\ HashOf \in [Users -> 0 .. PaletteSize - 1]
ASSUME OddBeatsAreNat == MaxOddBeats \in Nat

\* A colour of the palette, or the hue computed when all of them are taken.
Hsl == PaletteSize
Colours == 0 .. Hsl

VARIABLES
    score,     \* presence:board:{id}:active: the age of each socket's heartbeat
    meta,      \* presence:board:{id}:meta: each socket's entry, its colour here
    listed,    \* the board is in presence:active_boards
    conn,      \* the connection, as its client knows it
    current,   \* client.data.currentBoardId is the board
    room,      \* sockets in the board's room
    join,      \* handleBoardJoin in progress
    leave,     \* handleBoardLeave in progress
    bye,       \* handleDisconnect in progress
    beat,      \* sockets whose heartbeat is on its way to Redis
    sweep,     \* cleanupStaleEntries
    shown,     \* the users a page shows as viewers
    oddBeats,  \* heartbeats missed or on their way so far
    history    \* what overlapped, for the properties

redis == <<score, meta, listed>>
pages == <<conn, shown>>
vars == <<redis, pages, current, room, join, leave, bye, beat, sweep, oddBeats, history>>

JoinSteps == {"guard", "viewers", "add", "roster", "announce"}
Join == [step : JoinSteps, seen : SUBSET Sockets, colour : Colours \cup {Nil}]
RemoveSteps == {"remove", "srem"}
Removal == [step : RemoveSteps, had : BOOLEAN]
SweepSteps == {"idle", "check", "prune", "srem"}

ASSUME NilIsNothing == Nil \notin Sockets \cup Colours \cup Join \cup Removal

\* raced: an entry appeared while a removal was taking the board off the list,
\* or a heartbeat re-created one.  blurred: users one of whose sockets joined
\* beside another one, unseen by a page reading its list, or missed heartbeats.
\* Also blurred: users whose socket left while it was still joining, or whose
\* process died between the removal of the entry and the departure event.
\* clashed: two sockets chose a colour before either had an entry.
History == [raced : BOOLEAN, blurred : SUBSET Users, clashed : BOOLEAN]

TypeOK ==
    /\ score \in [Sockets -> {"absent", "fresh", "stale"}]
    /\ meta \in [Sockets -> Colours \cup {Nil}]
    /\ listed \in BOOLEAN
    /\ conn \in [Sockets -> {"new", "up", "closing", "gone"}]
    /\ current \in [Sockets -> BOOLEAN]
    /\ room \subseteq Sockets
    /\ join \in [Sockets -> Join \cup {Nil}]
    /\ leave \in [Sockets -> Removal \cup {Nil}]
    /\ bye \in [Sockets -> Removal \cup {Nil}]
    /\ beat \subseteq Sockets
    /\ sweep \in [step : SweepSteps, stale : SUBSET Sockets]
    /\ shown \in [Sockets -> SUBSET Users]
    /\ oddBeats \in 0 .. MaxOddBeats
    /\ history \in History

\* One page is joining: its colour is chosen and its entry not yet added.
Init ==
    /\ score = [s \in Sockets |-> "absent"]
    /\ meta = [s \in Sockets |-> Nil]
    /\ listed = FALSE
    /\ conn = [s \in Sockets |-> IF s = First THEN "up" ELSE "new"]
    /\ current = [s \in Sockets |-> s = First]
    /\ room = {First}
    /\ join = [s \in Sockets |-> IF s = First
                  THEN [step |-> "add", seen |-> {}, colour |-> HashOf[UserOf[First]]] ELSE Nil]
    /\ leave = [s \in Sockets |-> Nil]
    /\ bye = [s \in Sockets |-> Nil]
    /\ beat = {}
    /\ sweep = [step |-> "idle", stale |-> {}]
    /\ shown = [s \in Sockets |-> {}]
    /\ oddBeats = 0
    /\ history = [raced |-> FALSE, blurred |-> {}, clashed |-> FALSE]

-----------------------------------------------------------------------------
(* Redis and the room *)

Active == {s \in Sockets : score[s] # "absent"}
FreshIn(S) == {s \in S : score[s] = "fresh"}
WithMeta(S) == {s \in S : meta[s] # Nil}
UsersOf(S) == {UserOf[s] : s \in S}
Up == {s \in Sockets : conn[s] = "up"}

\* A removal has counted no sockets and is about to take the board off the list.
Unlisting ==
    \/ sweep.step = "srem"
    \/ \E s \in Sockets : \/ leave[s] # Nil /\ leave[s].step = "srem"
                          \/ bye[s] # Nil /\ bye[s].step = "srem"

\* What the pages in the room, but for the sender's, do on board:presence.
Announced(u, s) == [t \in Sockets |-> IF t \in room \ {s} THEN shown[t] \cup {u} ELSE shown[t]]
Departed(U, s) == [t \in Sockets |-> IF t \in room \ {s} THEN shown[t] \ U ELSE shown[t]]

Blur(U) == history' = [history EXCEPT !.blurred = @ \cup U]
Race(b) == history' = [history EXCEPT !.raced = @ \/ b]

-----------------------------------------------------------------------------
(* The page *)

\* The connect handler of the page sends board:join.
BoardPageConnects(s) ==
    /\ conn[s] = "new"
    /\ conn' = [conn EXCEPT ![s] = "up"]
    /\ join' = [join EXCEPT ![s] = [step |-> "guard", seen |-> {}, colour |-> Nil]]
    /\ Blur({UserOf[s]} \cap UsersOf({t \in Sockets \ {s} : conn[t] # "new"}))
    /\ UNCHANGED <<redis, current, room, leave, bye, beat, sweep, shown, oddBeats>>

\* handleConnection finds no token, or one that is expired or revoked.
ConnectionRefused(s) ==
    /\ conn[s] = "new"
    /\ conn' = [conn EXCEPT ![s] = "gone"]
    /\ UNCHANGED <<redis, shown, current, room, join, leave, bye, beat, sweep, oddBeats, history>>

\* The clean-up of the page sends board:leave, and then disconnects.
BoardPageLeaves(s) ==
    /\ conn[s] = "up"
    /\ conn' = [conn EXCEPT ![s] = "closing"]
    /\ shown' = [shown EXCEPT ![s] = {}]
    /\ leave' = [leave EXCEPT ![s] = [step |-> "remove", had |-> FALSE]]
    /\ room' = room \ {s}
    /\ UNCHANGED <<redis, current, join, bye, beat, sweep, oddBeats, history>>

\* By the page or by the network; Socket.IO has left the rooms by then.
HandleDisconnect(s) ==
    /\ conn[s] \in {"up", "closing"}
    /\ conn' = [conn EXCEPT ![s] = "gone"]
    /\ shown' = [shown EXCEPT ![s] = {}]
    /\ room' = room \ {s}
    /\ bye' = [bye EXCEPT ![s] = IF current[s] THEN [step |-> "remove", had |-> FALSE] ELSE Nil]
    /\ current' = [current EXCEPT ![s] = FALSE]
    /\ UNCHANGED <<redis, join, leave, beat, sweep, oddBeats, history>>

\* The server process of the socket dies, and its handlers with it.
Crash(s) ==
    /\ conn[s] \in {"up", "closing"}
    /\ conn' = [conn EXCEPT ![s] = "gone"]
    /\ shown' = [shown EXCEPT ![s] = {}]
    /\ room' = room \ {s}
    /\ join' = [join EXCEPT ![s] = Nil]
    /\ leave' = [leave EXCEPT ![s] = Nil]
    /\ beat' = beat \ {s}
    /\ current' = [current EXCEPT ![s] = FALSE]
    /\ Blur(IF leave[s] # Nil /\ leave[s].step = "srem" THEN {UserOf[s]} ELSE {})
    /\ UNCHANGED <<redis, bye, sweep, oddBeats>>

-----------------------------------------------------------------------------
(* handleBoardJoin *)

Joining(s, step) == join[s] # Nil /\ join[s].step = step

ToJoin(s, step, seen, colour) ==
    join' = [join EXCEPT ![s] = [step |-> step, seen |-> seen, colour |-> colour]]

DropJoin(s) ==
    /\ Joining(s, "guard")
    /\ join' = [join EXCEPT ![s] = Nil]
    /\ UNCHANGED <<redis, pages, current, room, leave, bye, beat, sweep, oddBeats, history>>

\* More than ten joins of the user in a minute, whichever socket made them.
JoinRateLimited(s) == DropJoin(s)

\* The board is archived, or the user is no member of its workspace.
JoinDenied(s) == DropJoin(s)

\* The guards answered; the handler runs whether or not the socket is still there
\* (what its own page would show, or its currentBoardId, is then of no use).
JoinRoom(s) ==
    /\ Joining(s, "guard")
    /\ room' = room \cup ({s} \cap Up)
    /\ current' = [current EXCEPT ![s] = conn[s] # "gone"]
    /\ ToJoin(s, "viewers", {}, Nil)
    /\ UNCHANGED <<redis, pages, leave, bye, beat, sweep, oddBeats, history>>

\* Mutant: the palette is not searched.
ColourOf_Hash(u, seen) == HashOf[u]

\* getCollaboratorColor: the user's own, the first free one from the hash on,
\* or a hue of their own.
ColourOf(u, seen) ==
    LET own == {meta[t] : t \in {t \in seen : UserOf[t] = u}}
        taken == {meta[t] : t \in seen}
        free == {k \in 0 .. PaletteSize - 1 : (HashOf[u] + k) % PaletteSize \notin taken}
    IN  IF own # {} THEN CHOOSE c \in own : TRUE
        ELSE IF free = {} THEN Hsl
        ELSE (HashOf[u] + CHOOSE k \in free : \A j \in free : k <= j) % PaletteSize

\* getBoardViewers: ZRANGEBYSCORE and HMGET; an entry removed between the two
\* is left out, as if it had been removed before.
Viewers == WithMeta(FreshIn(Sockets))

ChooseColour(s) ==
    /\ Joining(s, "viewers")
    /\ ToJoin(s, "add", {}, ColourOf(UserOf[s], Viewers))
    /\ UNCHANGED <<redis, pages, current, room, leave, bye, beat, sweep, oddBeats, history>>

\* Sockets that have chosen a colour and have no entry yet.
Choosing == {t \in Sockets : Joining(t, "add")}

RecordAdd(s) ==
    history' = [history EXCEPT !.raced = @ \/ Unlisting, !.clashed = @ \/ Choosing # {s}]

\* Mutant: the board is not added to the list.
AddPresence_Unlisted(s) ==
    /\ Joining(s, "add")
    /\ score' = [score EXCEPT ![s] = "fresh"]
    /\ meta' = [meta EXCEPT ![s] = join[s].colour]
    /\ ToJoin(s, "roster", {}, Nil)
    /\ RecordAdd(s)
    /\ UNCHANGED <<listed, pages, current, room, leave, bye, beat, sweep, oddBeats>>

AddPresence(s) ==
    /\ Joining(s, "add")
    /\ listed' = TRUE
    /\ score' = [score EXCEPT ![s] = "fresh"]
    /\ meta' = [meta EXCEPT ![s] = join[s].colour]
    /\ ToJoin(s, "roster", {}, Nil)
    /\ RecordAdd(s)
    /\ UNCHANGED <<pages, current, room, leave, bye, beat, sweep, oddBeats>>

\* getBoardViewers again: ZRANGEBYSCORE; HMGET is the next step.
ReadRoster(s) ==
    /\ Joining(s, "roster")
    /\ ToJoin(s, "announce", FreshIn(Sockets), Nil)
    /\ UNCHANGED <<redis, pages, current, room, leave, bye, beat, sweep, oddBeats, history>>

\* Mutant: the others are not told.
SendRoster_Quiet(s) ==
    /\ Joining(s, "announce")
    /\ shown' = IF conn[s] = "up"
                THEN [shown EXCEPT ![s] = UsersOf(WithMeta(join[s].seen))] ELSE shown
    /\ join' = [join EXCEPT ![s] = Nil]
    /\ UNCHANGED <<redis, conn, current, room, leave, bye, beat, sweep, oddBeats, history>>

\* board:joined to the page, which replaces its list; board:presence to the room.
SendRoster(s) ==
    /\ Joining(s, "announce")
    /\ LET told == Announced(UserOf[s], s) IN
       shown' = IF conn[s] = "up"
                THEN [told EXCEPT ![s] = UsersOf(WithMeta(join[s].seen))] ELSE told
    /\ join' = [join EXCEPT ![s] = Nil]
    /\ Blur(IF \E t \in Sockets \ {s} : Joining(t, "announce") /\ s \notin join[t].seen
            THEN {UserOf[s]} ELSE {})
    /\ UNCHANGED <<redis, conn, current, room, leave, bye, beat, sweep, oddBeats>>

-----------------------------------------------------------------------------
(* removePresence, for handleBoardLeave and handleDisconnect *)

\* The pipeline HGET, ZREM, HDEL; ZCARD then tells whether the board is empty.
RemoveEntry(s) ==
    /\ score' = [score EXCEPT ![s] = "absent"]
    /\ meta' = [meta EXCEPT ![s] = Nil]
    /\ UNCHANGED listed

LastOut(S) == Active \ S = {}

LeftWhileJoining(s) == Blur(IF join[s] # Nil THEN {UserOf[s]} ELSE {})

\* The pages are told only if an entry with metadata was removed.
LeaveRemoves(s) ==
    /\ leave[s] # Nil /\ leave[s].step = "remove"
    /\ RemoveEntry(s)
    /\ IF LastOut({s})
       THEN /\ leave' = [leave EXCEPT ![s] = [step |-> "srem", had |-> meta[s] # Nil]]
            /\ UNCHANGED <<current, shown>>
       ELSE /\ leave' = [leave EXCEPT ![s] = Nil]
            /\ current' = [current EXCEPT ![s] = FALSE]
            /\ shown' = IF meta[s] # Nil THEN Departed({UserOf[s]}, s) ELSE shown
    /\ LeftWhileJoining(s)
    /\ UNCHANGED <<conn, room, join, bye, beat, sweep, oddBeats>>

LeaveUnlists(s) ==
    /\ leave[s] # Nil /\ leave[s].step = "srem"
    /\ listed' = FALSE
    /\ leave' = [leave EXCEPT ![s] = Nil]
    /\ current' = [current EXCEPT ![s] = FALSE]
    /\ shown' = IF leave[s].had THEN Departed({UserOf[s]}, s) ELSE shown
    /\ UNCHANGED <<score, meta, conn, room, join, bye, beat, sweep, oddBeats, history>>

ByeRemoves(s) ==
    /\ bye[s] # Nil /\ bye[s].step = "remove"
    /\ RemoveEntry(s)
    /\ IF LastOut({s})
       THEN /\ bye' = [bye EXCEPT ![s] = [step |-> "srem", had |-> meta[s] # Nil]]
            /\ UNCHANGED shown
       ELSE /\ bye' = [bye EXCEPT ![s] = Nil]
            /\ shown' = IF meta[s] # Nil THEN Departed({UserOf[s]}, s) ELSE shown
    /\ LeftWhileJoining(s)
    /\ UNCHANGED <<conn, current, room, join, leave, beat, sweep, oddBeats>>

ByeUnlists(s) ==
    /\ bye[s] # Nil /\ bye[s].step = "srem"
    /\ listed' = FALSE
    /\ bye' = [bye EXCEPT ![s] = Nil]
    /\ shown' = IF bye[s].had THEN Departed({UserOf[s]}, s) ELSE shown
    /\ UNCHANGED <<score, meta, conn, current, room, join, leave, beat, sweep, oddBeats, history>>

-----------------------------------------------------------------------------
(* Heartbeats and the sweep *)

\* Every 30 s, if the socket has joined.  One that is over before anything else
\* happens keeps the score fresh: those are not counted.
HandleHeartbeat(s) ==
    /\ conn[s] = "up" /\ current[s] /\ s \notin beat
    /\ oddBeats < MaxOddBeats
    /\ oddBeats' = oddBeats + 1
    /\ beat' = beat \cup {s}
    /\ UNCHANGED <<redis, pages, current, room, join, leave, bye, sweep, history>>

\* ZADD adds the socket if it is no longer there.
UpdateHeartbeat(s) ==
    /\ s \in beat
    /\ beat' = beat \ {s}
    /\ score' = [score EXCEPT ![s] = "fresh"]
    /\ Race(score[s] = "absent")
    /\ UNCHANGED <<meta, listed, pages, current, room, join, leave, bye, sweep, oddBeats>>

\* 90 s without a heartbeat: longer than any handler.
GoesStale(s) ==
    /\ score[s] = "fresh" /\ s \notin beat
    /\ join[s] = Nil /\ leave[s] = Nil /\ bye[s] = Nil
    /\ conn[s] = "gone"
    /\ score' = [score EXCEPT ![s] = "stale"]
    /\ UNCHANGED <<meta, listed, pages, current, room, join, leave, bye, beat, sweep, oddBeats, history>>

\* The machine sleeps: the connection is there, the heartbeats are not.
Lapse(s) ==
    /\ conn[s] = "up" /\ score[s] = "fresh" /\ s \notin beat
    /\ join[s] = Nil
    /\ oddBeats < MaxOddBeats
    /\ oddBeats' = oddBeats + 1
    /\ score' = [score EXCEPT ![s] = "stale"]
    /\ Blur({UserOf[s]})
    /\ UNCHANGED <<meta, listed, pages, current, room, join, leave, bye, beat, sweep>>

ToSweep(step, S) == sweep' = [step |-> step, stale |-> S]

\* The interval fires and SMEMBERS has the board; a run that would find nothing
\* is left out.
SweepLists ==
    /\ sweep.step = "idle"
    /\ listed
    /\ \E s \in Sockets : score[s] = "stale"
    /\ ToSweep("check", {})
    /\ UNCHANGED <<redis, pages, current, room, join, leave, bye, beat, oddBeats, history>>

\* Mutant: a single stale socket is not enough.
SweepChecks_MoreThanOne ==
    /\ sweep.step = "check"
    /\ LET old == {s \in Sockets : score[s] = "stale"} IN
       ToSweep(IF Cardinality(old) <= 1 THEN "idle" ELSE "prune", old)
    /\ UNCHANGED <<redis, pages, current, room, join, leave, bye, beat, oddBeats, history>>

SweepChecks ==
    /\ sweep.step = "check"
    /\ LET old == {s \in Sockets : score[s] = "stale"} IN
       ToSweep(IF old = {} THEN "idle" ELSE "prune", old)
    /\ UNCHANGED <<redis, pages, current, room, join, leave, bye, beat, oddBeats, history>>

Pruned(S) == [s \in Sockets |-> IF s \in S THEN "absent" ELSE score[s]]

\* The sockets that were stale one round trip ago.  The pages are told once the
\* run has ended, of those that had metadata.
SweepPrunes ==
    /\ sweep.step = "prune"
    /\ LET S == sweep.stale IN
       /\ score' = Pruned(S)
       /\ meta' = [s \in Sockets |-> IF s \in S THEN Nil ELSE meta[s]]
       /\ IF LastOut(S)
          THEN ToSweep("srem", WithMeta(S)) /\ UNCHANGED shown
          ELSE ToSweep("idle", {}) /\ shown' = Departed(UsersOf(WithMeta(S)), Nil)
       /\ Blur(UsersOf({s \in S : conn[s] = "up"}))
    /\ UNCHANGED <<listed, conn, current, room, join, leave, bye, beat, oddBeats>>

SweepUnlists ==
    /\ sweep.step = "srem"
    /\ listed' = FALSE
    /\ shown' = Departed(UsersOf(sweep.stale), Nil)
    /\ ToSweep("idle", {})
    /\ UNCHANGED <<score, meta, conn, current, room, join, leave, bye, beat, oddBeats, history>>

-----------------------------------------------------------------------------
JoinStep(s) ==
    JoinRoom(s) \/ ChooseColour(s) \/ AddPresence(s)
        \/ ReadRoster(s) \/ SendRoster(s)
RemovalStep(s) == LeaveRemoves(s) \/ LeaveUnlists(s) \/ ByeRemoves(s) \/ ByeUnlists(s)
SweepStep == SweepLists \/ SweepChecks \/ SweepPrunes \/ SweepUnlists

Next ==
    \/ \E s \in Sockets :
        \/ BoardPageConnects(s) \/ ConnectionRefused(s) \/ BoardPageLeaves(s) \/ HandleDisconnect(s) \/ Crash(s)
        \/ JoinRateLimited(s) \/ JoinDenied(s) \/ JoinStep(s) \/ RemovalStep(s)
        \/ HandleHeartbeat(s) \/ UpdateHeartbeat(s) \/ GoesStale(s) \/ Lapse(s)
    \/ SweepStep

\* A started handler ends, the interval fires, and time passes.
Fairness ==
    /\ \A s \in Sockets : /\ WF_vars(JoinStep(s)) /\ WF_vars(RemovalStep(s))
                          /\ WF_vars(UpdateHeartbeat(s)) /\ WF_vars(GoesStale(s))
    /\ WF_vars(SweepStep)

Spec == Init /\ [][Next]_vars /\ Fairness

-----------------------------------------------------------------------------
(* Properties *)

\* A board with viewers is in the set the sweep reads, unless one joined
\* between another removal's count and its SREM, or a heartbeat re-created an
\* entry after its removal: then stale entries stay for ever.
ListedWhileViewed == Active # {} /\ ~history.raced => listed

\* A socket that is gone, in whatever order its join, leave, disconnect and
\* heartbeat ended and whichever process died, eventually has no entry, unless
\* the board was taken off the list with viewers on it.
GhostsLeave ==
    \A s \in Sockets : conn[s] = "gone" ~> (score[s] = "absent" \/ history.raced)

\* Nobody is joining or leaving and no entry is a socket's that is gone.
Settled ==
    /\ \A s \in Sockets : /\ join[s] = Nil /\ leave[s] = Nil /\ bye[s] = Nil
                          /\ conn[s] = "gone" => score[s] = "absent"
    /\ sweep.step = "idle" /\ beat = {}

\* The sockets on the board, whatever Redis says: connected, and joined.
Viewing == {s \in Sockets : conn[s] = "up" /\ current[s]}

\* Once everything has settled, the pages on the board show who is on it:
\* nobody is missing and nobody stays on after a late join, a crash or a sweep,
\* except users with a second socket (whose departure removes the user),
\* users who joined while a page was reading its list, users who left while
\* their join was running (it announces them last) or whose process died before
\* it announced them, and users who missed heartbeats (and lost their metadata).
RosterSettles ==
    Settled => \A s \in Viewing : \A u \in Users \ history.blurred :
        u \in shown[s] <=> u \in UsersOf(Viewing)

\* "deterministic, collision-free collaborator color" (board.gateway.ts): two
\* users in the list of viewers have different colours while the palette
\* lasts, unless they chose at the same time, from lists without each other,
\* or missed heartbeats.
DistinctColours ==
    \A s, t \in WithMeta(FreshIn(Sockets)) :
        /\ UserOf[s] # UserOf[t] /\ meta[s] = meta[t] /\ meta[s] # Hsl
        => history.clashed \/ {UserOf[s], UserOf[t]} \cap history.blurred # {}
=============================================================================
