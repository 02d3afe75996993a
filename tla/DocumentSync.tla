---------------------------- MODULE DocumentSync ----------------------------
(***************************************************************************)
(* One document edited from several browser tabs: the gateway              *)
(* (src/modules/document/realtime/document.gateway.ts), the editor list it *)
(* keeps (editor-presence.service.ts) and the editor in the browser        *)
(* (frontend/src/components/document/DocumentEditor.tsx).                  *)
(*                                                                         *)
(* A Y.Doc is the set of updates merged into it.  A tab's updates carry    *)
(* consecutive clocks and Yjs shows an update only when all the earlier    *)
(* ones of the same author are there; until then it is kept as pending.    *)
(* Every connection of a tab is a socket of its own, <<tab, n>>, with one  *)
(* channel in each direction; messages of a lost connection are lost.  The *)
(* server may notice that a socket is gone after the tab has already come  *)
(* back on the next one.  How the server saves and reloads the document    *)
(* is DocumentManager's subject: here it is saved in one step, and what    *)
(* was not saved is gone when the process restarts.                        *)
(***************************************************************************)
EXTENDS Naturals, Sequences, FiniteSets, Functions

CONSTANTS
    Tabs,        \* mounted DocumentEditors, all on the same document
    UserOf,      \* the user each tab is signed in as
    MaxEdits,    \* bound: edits in the tabs and snapshots restored
    MaxConnects, \* bound: connections opened
    MaxFaults    \* bound: rejected messages and server restarts

ASSUME SyncBounds ==
    {MaxEdits, MaxFaults} \subseteq Nat /\ MaxConnects \in Nat \ {0}

Server  == "server"
Users   == {UserOf[t] : t \in Tabs}
Sockets == Tabs \X (1..MaxConnects)
Updates == (Tabs \cup {Server}) \X (1..MaxEdits)

VARIABLES
    ydoc,      \* ydocRef of each tab
    editors,   \* users each tab lists as editing
    edits,     \* edits made in each tab, snapshots restored at the server
    connects,  \* connections each tab has opened
    online,    \* tabs whose socket is connected
    closed,    \* unmounted tabs
    up,        \* messages on their way to the server, per socket
    down,      \* messages on their way to the tab, per socket
    alive,     \* sockets the server holds
    joining,   \* sockets whose handleJoin awaits, with the state vector sent
    room,      \* sockets in the room of the document
    current,   \* sockets whose data.currentDocumentId is set
    present,   \* sockets in the entry's connections and the editor list
    serverDoc, \* the Y.Doc of the server
    saved,     \* documents.yjs_state
    faults,    \* faults so far
    missed,    \* history: updates that never reached the server, or that it lost
    ghosts     \* history: sockets that went away while their join awaited

tabVars    == <<ydoc, editors, edits, connects, online, closed>>
linkVars   == <<up, down>>
gateVars   == <<alive, joining, room, current, present>>
docVars    == <<serverDoc, saved>>
history    == <<missed, ghosts>>
vars       == <<tabVars, linkVars, gateVars, docVars, faults, history>>

\* A total that the bounds limit.
Total(f) == FoldFunction(+, 0, f)

Socket(t)  == <<t, connects[t]>>
UserAt(s)  == UserOf[s[1]]

UpMessage ==
    [kind : {"join"}, vector : SUBSET Updates]
        \cup [kind : {"update"}, update : Updates]
        \cup [kind : {"leave"}]

DownMessage ==
    [kind : {"joined"}, state : SUBSET Updates, editors : SUBSET Users]
        \cup [kind : {"update"}, state : SUBSET Updates]
        \cup [kind : {"editor-joined", "editor-left"}, user : Users]

TypeOK ==
    /\ ydoc \in [Tabs -> SUBSET Updates]
    /\ editors \in [Tabs -> SUBSET Users]
    /\ edits \in [Tabs \cup {Server} -> 0..MaxEdits]
    /\ connects \in [Tabs -> 0..MaxConnects]
    /\ online \in SUBSET {t \in Tabs : connects[t] > 0}
    /\ closed \in SUBSET (Tabs \ online)
    /\ \A s \in Sockets : up[s] \in Seq(UpMessage) /\ down[s] \in Seq(DownMessage)
    /\ alive \in SUBSET Sockets
    /\ \A j \in joining : j.socket \in Sockets /\ j.vector \in SUBSET Updates
    /\ room \in SUBSET Sockets
    /\ current \in SUBSET Sockets
    /\ present \in SUBSET Sockets
    /\ serverDoc \in SUBSET Updates
    /\ saved \in SUBSET serverDoc
    /\ faults \in 0..MaxFaults
    /\ missed \in SUBSET Updates
    /\ ghosts \in SUBSET Sockets

\* The page has mounted the editors and they have joined the document, which
\* is still empty.
Init ==
    /\ ydoc = [t \in Tabs |-> {}]
    /\ editors = [t \in Tabs |-> Users]
    /\ edits = [a \in Tabs \cup {Server} |-> 0]
    /\ connects = [t \in Tabs |-> 1]
    /\ online = Tabs
    /\ closed = {}
    /\ up = [s \in Sockets |-> <<>>]
    /\ down = [s \in Sockets |-> <<>>]
    /\ alive = Tabs \X {1}
    /\ joining = {}
    /\ room = Tabs \X {1}
    /\ current = Tabs \X {1}
    /\ present = Tabs \X {1}
    /\ serverDoc = {}
    /\ saved = {}
    /\ faults = 0
    /\ missed = {}
    /\ ghosts = {}

-----------------------------------------------------------------------------
(* Yjs and Socket.IO *)

\* What Yjs integrates of a set of updates: no gap in the author's clock.
Text(doc) == {u \in doc : \A n \in 1..u[2] : <<u[1], n>> \in doc}

EncodeDiff_Swapped(vector) == Text(vector) \ serverDoc

\* encodeStateAsUpdate against a state vector: what the vector does not cover,
\* pending updates included.
EncodeDiff(vector) == serverDoc \ Text(vector)

Sent(t, m) == up' = [up EXCEPT ![Socket(t)] = Append(@, m)]

\* A frame to the sockets ss; what is written to a dead socket goes nowhere.
Emit(ss, m) ==
    [s \in Sockets |->
        IF s \in ss /\ s = Socket(s[1]) /\ s[1] \in online
        THEN Append(down[s], m) ELSE down[s]]

InFlight(s) ==
    {up[s][i].update : i \in {k \in DOMAIN up[s] : up[s][k].kind = "update"}}

-----------------------------------------------------------------------------
(* The editor in the browser *)

\* createAuthedSocket: Socket.IO connects, and reconnects by itself.
MayConnect(t) ==
    /\ t \notin online \cup closed
    /\ Total(connects) < MaxConnects /\ <<t, connects[t] + 1>> \in Sockets

\* connect: also after every reconnection.
Connect(t) ==
    /\ MayConnect(t)
    /\ connects' = [connects EXCEPT ![t] = @ + 1]
    /\ online' = online \cup {t}
    /\ alive' = alive \cup {<<t, connects[t] + 1>>}
    /\ up' = [up EXCEPT ![<<t, connects[t] + 1>>] =
                <<[kind |-> "join", vector |-> ydoc[t]]>>]
    /\ UNCHANGED <<ydoc, editors, edits, closed, down, joining, room, current,
                   present, docVars, faults, history>>

\* handleTextChange replaces the whole text in one transaction: one update.
Typed(t) == <<t, edits[t] + 1>>

\* handleTextChange and insertMarkdown: one transaction of the Y.Doc, whose
\* update is sent only while the socket is connected.
Edit(t) ==
    LET u == Typed(t)
    IN  /\ t \notin closed
        /\ Total(edits) < MaxEdits
        /\ edits' = [edits EXCEPT ![t] = @ + 1]
        /\ ydoc' = [ydoc EXCEPT ![t] = @ \cup {u}]
        /\ \/ /\ t \in online
              /\ Sent(t, [kind |-> "update", update |-> u])
              /\ UNCHANGED missed
           \/ /\ t \notin online
              /\ missed' = missed \cup {u}
              /\ UNCHANGED up
        /\ UNCHANGED <<editors, connects, online, closed, down, gateVars,
                       docVars, faults, ghosts>>

\* doc:joined replaces the editor list and merges the state.
OnJoined(t, m) ==
    /\ ydoc' = [ydoc EXCEPT ![t] = @ \cup m.state]
    /\ editors' = [editors EXCEPT ![t] = m.editors]

\* doc:update merges, from a peer or from the server after a save.
OnUpdate(t, m) ==
    /\ ydoc' = [ydoc EXCEPT ![t] = @ \cup m.state]
    /\ UNCHANGED editors

\* doc:editor-joined and doc:editor-left go by user, not by socket.
OnEditorJoined(t, m) ==
    /\ editors' = [editors EXCEPT ![t] = @ \cup {m.user}]
    /\ UNCHANGED ydoc

OnEditorLeft_Kept(t, m) == UNCHANGED <<ydoc, editors>>

OnEditorLeft(t, m) ==
    /\ editors' = [editors EXCEPT ![t] = @ \ {m.user}]
    /\ UNCHANGED ydoc

Deliver(t) ==
    LET s == Socket(t) IN
    /\ t \in online
    /\ down[s] # <<>>
    /\ LET m == Head(down[s]) IN
       \/ m.kind = "joined" /\ OnJoined(t, m)
       \/ m.kind = "update" /\ OnUpdate(t, m)
       \/ m.kind = "editor-joined" /\ OnEditorJoined(t, m)
       \/ m.kind = "editor-left" /\ OnEditorLeft(t, m)
    /\ down' = [down EXCEPT ![s] = Tail(@)]
    /\ UNCHANGED <<edits, connects, online, closed, up, gateVars, docVars,
                   faults, history>>

\* The connection breaks: what is in flight either way is lost.
Drop(t) ==
    LET s == Socket(t) IN
    /\ t \in online
    /\ online' = online \ {t}
    /\ missed' = missed \cup InFlight(s)
    /\ up' = [up EXCEPT ![s] = <<>>]
    /\ down' = [down EXCEPT ![s] = <<>>]
    /\ UNCHANGED <<ydoc, editors, edits, connects, closed, gateVars, docVars,
                   faults, ghosts>>

\* The effect's cleanup: doc:leave, then disconnect.  What was sent before
\* still arrives, because the disconnect packet follows it.
Unmount(t) ==
    /\ t \notin closed
    /\ closed' = closed \cup {t}
    /\ online' = online \ {t}
    /\ \/ t \in online /\ Sent(t, [kind |-> "leave"])
       \/ t \notin online /\ UNCHANGED up
    /\ down' = [s \in Sockets |-> IF s[1] = t THEN <<>> ELSE down[s]]
    /\ ydoc' = [ydoc EXCEPT ![t] = {}]
    /\ editors' = [editors EXCEPT ![t] = {}]
    /\ UNCHANGED <<edits, connects, gateVars, docVars, faults,
                   history>>

-----------------------------------------------------------------------------
(* The gateway *)

\* EditorPresenceService.getEditors.
GetEditors(ss) == {UserAt(s) : s \in ss}

Take(s) == up' = [up EXCEPT ![s] = Tail(@)]

NextIs(s, kind) == s \in alive /\ up[s] # <<>> /\ Head(up[s]).kind = kind

\* handleJoin up to its database reads.
JoinStart(s) ==
    /\ NextIs(s, "join")
    /\ Take(s)
    /\ joining' = joining \cup {[socket |-> s, vector |-> Head(up[s]).vector]}
    /\ UNCHANGED <<tabVars, down, alive, room, current, present, docVars,
                   faults, history>>

\* The rate limit, the document or the membership check refuses the join.
JoinRefused(s) ==
    /\ faults < MaxFaults
    /\ faults' = faults + 1
    /\ \/ NextIs(s, "join") /\ Take(s) /\ UNCHANGED joining
       \/ /\ \E j \in joining : j.socket = s /\ joining' = joining \ {j}
          /\ UNCHANGED up
    /\ UNCHANGED <<tabVars, down, alive, room, current, present, docVars,
                   history>>

\* EditorPresenceService keeps editors by socket.
AddEditor(s) == present' = present \cup {s}

RemoveEditor(s) == present' = present \ {s}

\* handleJoin after its last read, without another await that lets a message
\* in: the socket enters the room whether or not it still is connected.
JoinFinish(j) ==
    LET s == j.socket IN
    /\ joining' = joining \ {j}
    /\ room' = room \cup {s}
    /\ current' = current \cup {s}
    /\ AddEditor(s)
    /\ down' = [Emit(room \ {s}, [kind |-> "editor-joined", user |-> UserAt(s)])
                EXCEPT ![s] = Emit({s}, [kind |-> "joined",
                                         state |-> EncodeDiff(j.vector),
                                         editors |-> GetEditors(present')])[s]]
    /\ UNCHANGED <<tabVars, up, alive, docVars, faults, history>>

\* handleUpdate: merged and relayed to the others in the room.  Whether the
\* sender's own join has finished does not matter.
HandleUpdate(s) ==
    LET u == Head(up[s]).update IN
    /\ NextIs(s, "update")
    /\ Take(s)
    /\ serverDoc' = serverDoc \cup {u}
    /\ down' = Emit(room \ {s}, [kind |-> "update", state |-> {u}])
    /\ UNCHANGED <<tabVars, gateVars, saved, faults, history>>

\* WsRateLimitGuard rejects the message: the update is not applied.
RejectUpdate(s) ==
    /\ faults < MaxFaults
    /\ NextIs(s, "update")
    /\ Take(s)
    /\ faults' = faults + 1
    /\ missed' = missed \cup {Head(up[s]).update}
    /\ UNCHANGED <<tabVars, down, gateVars, docVars, ghosts>>

LeaveDocument_Stays(s) ==
    /\ down' = IF s \in present
               THEN Emit(room \ {s}, [kind |-> "editor-left", user |-> UserAt(s)])
               ELSE down
    /\ current' = current \ {s}
    /\ room' = room \ {s}
    /\ UNCHANGED present

\* leaveDocument: connection and editor are removed, the room is told.
LeaveDocument(s) ==
    /\ RemoveEditor(s)
    /\ down' = IF s \in present
               THEN Emit(room \ {s}, [kind |-> "editor-left", user |-> UserAt(s)])
               ELSE down
    /\ current' = current \ {s}
    /\ room' = room \ {s}

HandleLeave(s) ==
    /\ NextIs(s, "leave")
    /\ Take(s)
    /\ LeaveDocument(s)
    /\ UNCHANGED <<tabVars, alive, joining, docVars, faults, history>>

\* handleDisconnect, once nothing more arrives on the socket: only a socket
\* whose join has finished is known to be in the document.  Socket.IO takes
\* it out of its rooms in any case.
HandleDisconnect(s) ==
    /\ s \in alive
    /\ s # Socket(s[1]) \/ s[1] \notin online
    /\ up[s] = <<>>
    /\ alive' = alive \ {s}
    /\ \/ s \in current /\ LeaveDocument(s)
       \/ s \notin current /\ room' = room \ {s} /\ UNCHANGED <<current, present, down>>
    /\ ghosts' = IF \E j \in joining : j.socket = s THEN ghosts \cup {s} ELSE ghosts
    /\ UNCHANGED <<tabVars, up, joining, docVars, faults, missed>>

-----------------------------------------------------------------------------
(* The server's copy *)

\* handleDocumentSaved: after a save the whole state goes to the whole room.
HandleDocumentSaved == down' = Emit(room, [kind |-> "update", state |-> serverDoc])

Persist_WhenEmpty ==
    /\ saved # serverDoc
    /\ room = {}
    /\ saved' = serverDoc
    /\ HandleDocumentSaved
    /\ UNCHANGED <<tabVars, up, gateVars, serverDoc, faults, history>>

\* A dirty document is saved.
Persist ==
    /\ saved # serverDoc
    /\ saved' = serverDoc
    /\ HandleDocumentSaved
    /\ UNCHANGED <<tabVars, up, gateVars, serverDoc, faults, history>>

\* SnapshotService.restore: replaceState edits the server's Y.Doc; the tabs
\* hear of it from the save that follows.
Restore ==
    /\ Total(edits) < MaxEdits
    /\ edits' = [edits EXCEPT ![Server] = @ + 1]
    /\ serverDoc' = serverDoc \cup {<<Server, edits[Server] + 1>>}
    /\ UNCHANGED <<ydoc, editors, connects, online, closed, linkVars, gateVars,
                   saved, faults, history>>

\* The process dies and another one takes over: memory and sockets are gone.
Restart ==
    /\ faults < MaxFaults
    /\ faults' = faults + 1
    /\ serverDoc' = saved
    /\ missed' = missed \cup (serverDoc \ saved)
                        \cup UNION {InFlight(s) : s \in Sockets}
    /\ online' = {}
    /\ alive' = {}
    /\ joining' = {}
    /\ room' = {}
    /\ current' = {}
    /\ present' = {}
    /\ up' = [s \in Sockets |-> <<>>]
    /\ down' = [s \in Sockets |-> <<>>]
    /\ UNCHANGED <<ydoc, editors, edits, connects, closed, saved, ghosts>>

-----------------------------------------------------------------------------
Next ==
    \/ \E t \in Tabs : Connect(t)
    \/ \E t \in Tabs : Edit(t)
    \/ \E t \in Tabs : Deliver(t)
    \/ \E t \in Tabs : Drop(t)
    \/ \E t \in Tabs : Unmount(t)
    \/ \E s \in Sockets : JoinStart(s)
    \/ \E s \in Sockets : JoinRefused(s)
    \/ \E j \in joining : JoinFinish(j)
    \/ \E s \in Sockets : HandleUpdate(s)
    \/ \E s \in Sockets : RejectUpdate(s)
    \/ \E s \in Sockets : HandleLeave(s)
    \/ \E s \in Sockets : HandleDisconnect(s)
    \/ Persist
    \/ Restore
    \/ Restart

\* A message or a join the gateway can serve, or a frame a tab can take.
Handle ==
    \/ \E t \in Tabs : Deliver(t)
    \/ \E s \in Sockets : JoinStart(s) \/ HandleUpdate(s) \/ HandleLeave(s)
    \/ \E j \in joining : JoinFinish(j)

\* The event loops serve what has arrived, and the save timer fires.
Fairness == WF_vars(Handle) /\ WF_vars(Persist)

Spec == Init /\ [][Next]_vars /\ Fairness

-----------------------------------------------------------------------------
(* Properties *)

Quiet == joining = {} /\ \A s \in Sockets : up[s] = <<>> /\ down[s] = <<>>

Joined(t) == t \in online /\ Socket(t) \in room

\* Convergence: when every message has arrived and the server has saved, a tab
\* in the room has everything the server has, whatever joins, reconnections,
\* restores and relayed edits went before, and the server has everything the
\* tab has except the edits that were made offline, in flight on a connection
\* that broke, rejected, or lost with the process.  Without those both show
\* the same text.
Converges ==
    Quiet /\ saved = serverDoc =>
        \A t \in Tabs : Joined(t) =>
            /\ serverDoc \subseteq ydoc[t]
            /\ ydoc[t] \ missed \subseteq serverDoc
            /\ missed = {} => Text(ydoc[t]) = Text(serverDoc)

\* What docs/05-realtime-engine.md and the offline-merge test case promise:
\* edits made offline are merged after the reconnection, so that both sides
\* show the same text once everything has settled.
OfflineEditsMerge ==
    Quiet /\ saved = serverDoc =>
        \A t \in Tabs : Joined(t) => Text(ydoc[t]) = Text(serverDoc)

\* A tab lists nobody who has left: when everything has arrived, each user it
\* shows has a socket in the document, although joins, leaves, late detection
\* of dead sockets and reconnections overlap.
NoPhantomEditors ==
    Quiet => \A t \in Tabs : Joined(t) => editors[t] \subseteq GetEditors(present)

\* A socket that is gone is no longer counted as a connection or listed as an
\* editor (which would keep the document in memory for ever), except when it
\* went away while its join was awaiting.
OnlyLateJoinsLinger == present \subseteq alive \cup ghosts

\* A tab that stays in the room catches up with the server again and again:
\* from the relay, from the join's answer, or, for a restored snapshot, from
\* the broadcast after the save.
CatchesUp ==
    \A t \in Tabs : []<>(serverDoc \subseteq ydoc[t] \/ ~Joined(t))

\* The editors of a document, on the server and in every tab, are users who
\* are there, apart from the joins that outlive their socket.
EditorsRight == NoPhantomEditors /\ OnlyLateJoinsLinger

=============================================================================
