---------------------------- MODULE BoardClient ----------------------------
(***************************************************************************)
(* An open board page (frontend/src/pages/BoardPage.tsx): what it shows    *)
(* against what the server stores, while its user and others change the    *)
(* board.  The page loads the board when it opens, when a handler of its   *)
(* own succeeded, and when a broadcast arrives; in the table, calendar and *)
(* timeline views a broadcast only raises the banner "Updated - refresh".  *)
(*                                                                         *)
(* The board is the number of changes it has gone through.  Broadcasts of  *)
(* different server processes come over Redis, in any order.               *)
(***************************************************************************)
EXTENDS BoardEvents, Integers, Bags

CONSTANTS
    MaxChanges,  \* bound: changes of the board
    MaxLoads,    \* bound: loads on their way at once
    MaxDrops     \* bound: broken connections and refused joins

ASSUME ClientBounds == {MaxChanges, MaxLoads, MaxDrops} \subseteq Nat

VARIABLES
    db,        \* changes stored
    requests,  \* requests that have stored their change and are not over
    conn,      \* the socket: "off", "on" (connected) or "in" (the room)
    sock,      \* broadcasts on their way to the page
    drops,     \* faults so far
    loads,     \* bag of the GET requests on their way
    mode,      \* activeView: "board" or another view
    shown,     \* what the board and the view show
    banner,    \* hasViewUpdates
    last,      \* lastUpdatedAtRef of the card: the latest stamp, and its change
    excused    \* history variable: a known reason for an old board or view

clientVars == <<db, requests, conn, sock, drops, loads, mode, shown, banner, last, excused>>

Parts   == {"board", "view"}
NotRead == -1
Stamps  == 1..2   \* bound: updatedAt, read off the clock of some server process

Note    == [stamp : {0} \cup Stamps, change : Nat]
Load    == [part : Parts, read : Int]

ClientTypeOK ==
    /\ db \in 0..MaxChanges
    /\ conn \in {"off", "on", "in"} /\ drops \in 0..MaxDrops
    /\ \A n \in sock : n \in Note
    /\ IsABag(loads) /\ BagCardinality(loads) <= MaxLoads
    /\ \A l \in BagToSet(loads) : l \in Load
    /\ mode \in {"board", "table"} /\ banner \in BOOLEAN
    /\ shown \in [Parts -> 0..MaxChanges] /\ excused \in [Parts -> BOOLEAN]
    /\ last \in [stamp : {0} \cup Stamps, change : 0..MaxChanges]

NewLoads(parts) == SetToBag({[part |-> p, read |-> NotRead] : p \in parts})

\* The page has just opened: it loads the board, and its socket connects.
ClientInit ==
    /\ db = 0 /\ requests = {}
    /\ conn = "off" /\ sock = {} /\ drops = 0
    /\ loads = NewLoads({"board"})
    /\ mode = "board" /\ banner = FALSE
    /\ shown = [p \in Parts |-> 0]
    /\ last = [stamp |-> 0, change |-> 0]
    /\ excused = [p \in Parts |-> FALSE]

\* These parts may be old from now on, and the page does not know.
Excuse(parts) == excused' = [p \in Parts |-> excused[p] \/ p \in parts]

\* The page sends the GET requests for these parts.
StartLoads(old, parts) ==
    /\ loads' = old (+) NewLoads(parts)
    /\ BagCardinality(loads') <= MaxLoads

-----------------------------------------------------------------------------
(* Changes of the board *)

\* Somebody, or the user of the page, changes the board: the row is
\* written; the event is emitted after the write was awaited.  The page's
\* handler loads its parts again when the answer comes.
Change(op, parts, stamp) ==
    /\ db' = db + 1
    /\ requests' = requests \cup
         {[change |-> db + 1, parts |-> parts, answered |-> FALSE,
           silent |-> op \in NothingEmitted,
           notes |-> {[stamp |-> IF Stamped(n) THEN stamp ELSE 0, change |-> db + 1] :
                        n \in Notes(op)}]}
    /\ UNCHANGED <<conn, sock, drops, loads, mode, shown, banner, last, excused>>

ByOther(op, stamp) == Change(op, {}, stamp)

ByPage(op, stamp) == \E parts \in Reloads(op, mode) : Change(op, {parts}, stamp)

\* The event is emitted, the relay sends it to the room, the caller is answered.
Relayed(r) ==
    /\ ~r.answered
    /\ sock' = IF conn = "in" THEN sock \cup r.notes ELSE sock
    /\ requests' = (requests \ {r}) \cup {x \in {[r EXCEPT !.answered = TRUE]} : r.parts # {}}
    /\ IF IF r.silent THEN r.parts = {} ELSE conn # "in"
       THEN Excuse(Parts) ELSE UNCHANGED excused
    /\ UNCHANGED <<db, conn, drops, loads, mode, shown, banner, last>>

\* The handler goes on; what it does not load may stay old.
Answer(r) ==
    /\ r.answered
    /\ \E parts \in r.parts :
         LET now == IF mode = "board" THEN parts \ {"view"} ELSE parts IN
         /\ StartLoads(loads, now)
         /\ IF r.silent THEN Excuse(Parts \ now) ELSE UNCHANGED excused
    /\ requests' = requests \ {r}
    /\ UNCHANGED <<db, conn, sock, drops, mode, shown, banner, last>>

\* The answer is lost: the handler reports an error and loads nothing.
AnswerLost(r) ==
    /\ r.answered /\ drops < MaxDrops
    /\ drops' = drops + 1
    /\ requests' = requests \ {r}
    /\ IF r.silent THEN Excuse(Parts) ELSE UNCHANGED excused
    /\ UNCHANGED <<db, conn, sock, loads, mode, shown, banner, last>>

-----------------------------------------------------------------------------
(* The socket *)

\* The connect handler asks for the board's room, and loads nothing.
Connect ==
    /\ conn = "off" /\ conn' = "on"
    /\ UNCHANGED <<db, requests, sock, drops, loads, mode, shown, banner, last, excused>>

Joined ==
    /\ conn = "on" /\ conn' = "in"
    /\ UNCHANGED <<db, requests, sock, drops, loads, mode, shown, banner, last, excused>>

\* What was on its way is lost, and nothing asks for it again.
Disconnect ==
    /\ conn # "off" /\ drops < MaxDrops
    /\ conn' = "off" /\ sock' = {} /\ drops' = drops + 1
    /\ IF sock # {} THEN Excuse(Parts) ELSE UNCHANGED excused
    /\ UNCHANGED <<db, requests, loads, mode, shown, banner, last>>

\* The handler of the broadcasts: one that is not newer than the card's
\* last is dropped.
OnEntityEvent(n) ==
    /\ n \in sock
    /\ sock' = sock \ {n}
    /\ IF n.stamp # 0 /\ n.stamp <= last.stamp
       THEN /\ IF n.change > last.change THEN Excuse(Parts) ELSE UNCHANGED excused
            /\ UNCHANGED <<loads, banner, last>>
       ELSE /\ last' = IF n.stamp # 0 THEN n ELSE last
            /\ IF mode = "board"
               THEN StartLoads(loads, {"board"}) /\ UNCHANGED <<banner, excused>>
               ELSE banner' = TRUE /\ Excuse({"board"}) /\ UNCHANGED loads
    /\ UNCHANGED <<db, requests, conn, drops, mode, shown>>

-----------------------------------------------------------------------------
(* loadBoard, and the load of a view *)

LoadRead(l) ==
    /\ l.read = NotRead
    /\ loads' = (loads (-) SetToBag({l})) (+) SetToBag({[l EXCEPT !.read = db]})
    /\ UNCHANGED <<db, requests, conn, sock, drops, mode, shown, banner, last, excused>>

\* Whatever arrives is shown, also when something newer was shown before.
LoadDone(l) ==
    /\ l.read # NotRead
    /\ shown' = [shown EXCEPT ![l.part] = l.read]
    /\ excused' = [excused EXCEPT ![l.part] = l.read # db /\ (@ \/ l.read < shown[l.part])]
    /\ loads' = loads (-) SetToBag({l})
    /\ UNCHANGED <<db, requests, conn, sock, drops, mode, banner, last>>

\* res.success is false: the page keeps what it shows.
LoadFailed(l) ==
    /\ drops < MaxDrops /\ drops' = drops + 1
    /\ loads' = loads (-) SetToBag({l})
    /\ Excuse({l.part})
    /\ UNCHANGED <<db, requests, conn, sock, mode, shown, banner, last>>

\* A view that closes ignores the answers of its loads.
BoardLoads == [l \in {x \in BagToSet(loads) : x.part = "board"} |-> loads[l]]

\* handleViewChange: the view that opens loads itself, the board does not.
\* A click on the view that is open only takes the banner away.
HandleViewChange(m) ==
    /\ mode' = m /\ banner' = FALSE
    /\ shown' = IF m = "board" THEN [shown EXCEPT !["view"] = 0] ELSE shown
    /\ IF m = "table" /\ mode = "board"
       THEN /\ StartLoads(loads, {"view"})
            /\ excused' = [excused EXCEPT !["view"] = FALSE]
       ELSE /\ loads' = IF m = "board" THEN BoardLoads ELSE loads
            /\ IF m = mode /\ banner THEN Excuse({"view"}) ELSE UNCHANGED excused
    /\ UNCHANGED <<db, requests, conn, sock, drops, last>>

\* handleRefreshView: the view is mounted anew, and the board is loaded.
HandleRefreshView ==
    /\ mode = "table" /\ banner
    /\ banner' = FALSE
    /\ StartLoads(BoardLoads, Parts)
    /\ UNCHANGED <<db, requests, conn, sock, drops, mode, shown, last, excused>>

ClientNext ==
    \/ db < MaxChanges /\ \E op \in Changes :
        \E s \in IF <<op, "card.updated">> \in Emits THEN Stamps ELSE {0} :
            ByOther(op, s) \/ ByPage(op, s)
    \/ \E r \in requests : Relayed(r) \/ Answer(r) \/ AnswerLost(r)
    \/ Connect \/ Joined \/ Disconnect
    \/ \E n \in sock : OnEntityEvent(n)
    \/ \E l \in BagToSet(loads) : LoadRead(l) \/ LoadDone(l) \/ LoadFailed(l)
    \/ \E m \in {"board", "table"} : HandleViewChange(m)
    \/ HandleRefreshView

-----------------------------------------------------------------------------
\* A page at rest, connected and in the room, shows the board as it is
\* stored (or, in another view, says that it does not), whatever the order
\* of changes, answers, broadcasts and loads.  The exceptions: it was not in
\* the room when a change was broadcast and nothing makes it load again
\* after a reconnection; the change is not broadcast at all; a card update
\* carried a stamp that is not newer than the last; an older load finished
\* after a newer one; a load or an answer failed; the board was behind a
\* view that got the broadcast; the banner was taken away by a click.
ScreenFresh ==
    conn = "in" /\ requests = {} /\ sock = {} /\ loads = EmptyBag
        => IF mode = "board" THEN shown["board"] = db \/ excused["board"]
           ELSE shown["view"] = db \/ banner \/ excused["view"]

=============================================================================
