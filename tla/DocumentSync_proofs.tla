------------------------ MODULE DocumentSync_proofs ------------------------
(***************************************************************************)
(* Proofs about DocumentSync: tabs and server agree once everything has    *)
(* arrived, and nobody is listed as an editor who has left, for any tabs,  *)
(* edits, reconnections, rejected messages and restarts.                   *)
(***************************************************************************)
EXTENDS DocumentSync, SequenceTheorems, TLAPS

-----------------------------------------------------------------------------
(* The inductive invariant *)

\* Updates, and the messages that carry them, without the bounds.
AnyUpdate == (Tabs \cup {Server}) \X Nat

UpFrame ==
    [kind : {"join"}, vector : SUBSET AnyUpdate]
        \cup [kind : {"update"}, update : AnyUpdate]
        \cup [kind : {"leave"}]

DownFrame ==
    [kind : {"joined"}, state : SUBSET AnyUpdate, editors : SUBSET Users]
        \cup [kind : {"update"}, state : SUBSET AnyUpdate]
        \cup [kind : {"editor-joined", "editor-left"}, user : Users]

TabsTyped ==
    /\ ydoc \in [Tabs -> SUBSET AnyUpdate]
    /\ editors \in [Tabs -> SUBSET Users]
    /\ edits \in [Tabs \cup {Server} -> Nat]
    /\ connects \in [Tabs -> Nat]
    /\ online \subseteq Tabs
    /\ \A t \in online : Socket(t) \in Sockets

LinksTyped ==
    /\ up \in [Sockets -> Seq(UpFrame)]
    /\ down \in [Sockets -> Seq(DownFrame)]

ServerTyped ==
    /\ \A j \in joining : j.socket \in Sockets /\ j.vector \in SUBSET AnyUpdate
    /\ room \subseteq Sockets
    /\ present \subseteq Sockets
    /\ serverDoc \in SUBSET AnyUpdate
    /\ saved \subseteq serverDoc

SyncTyped == TabsTyped /\ LinksTyped /\ ServerTyped

\* The server has only met sockets the tabs have opened.
Opened(s) == s[2] <= connects[s[1]]
NoneAhead ==
    /\ \A s \in room : Opened(s)
    /\ \A j \in joining : Opened(j.socket)
    /\ \A s \in Sockets : Opened(s) \/ up[s] = <<>>

\* What the frames on their way down will bring.
Brings(m, x) == m.kind \in {"joined", "update"} /\ x \in m.state
Coming(q, x) == \E i \in 1 .. Len(q) : Brings(q[i], x)

\* What the frames on their way up will bring.
Carries(m, x) == m.kind = "update" /\ x = m.update
Going(q, x) == \E i \in 1 .. Len(q) : Carries(q[i], x)

\* Every update is at the server, missed or on its way there.
Known(x) == x \in serverDoc \/ x \in missed \/ \E s \in Sockets : Going(up[s], x)
AllKnown ==
    /\ \A t \in Tabs : \A x \in ydoc[t] : Known(x)
    /\ \A s \in Sockets : \A x : Coming(down[s], x) => Known(x)

\* A tab has what it has sent.
Sends(m, doc) ==
    /\ m.kind = "update" => m.update \in doc
    /\ m.kind = "join" => m.vector \subseteq doc
TabSent(t) ==
    /\ \A i \in 1 .. Len(up[Socket(t)]) : Sends(up[Socket(t)][i], ydoc[t])
    /\ \A j \in joining : j.socket = Socket(t) => j.vector \subseteq ydoc[t]
OwnSent == \A t \in online : TabSent(t)

\* A tab in the room has, or will get, what has been saved.
TabGets(t) ==
    Socket(t) \in room =>
        \A x \in saved : x \in ydoc[t] \/ Coming(down[Socket(t)], x)
GetsSaved == \A t \in online : TabGets(t)

\* A frame puts the user on the list, or takes the user off.
Adds(m, v) ==
    \/ m.kind = "joined" /\ v \in m.editors
    \/ m.kind = "editor-joined" /\ v = m.user
Takes(m, v) ==
    \/ m.kind = "joined" /\ v \notin m.editors
    \/ m.kind = "editor-left" /\ v = m.user

\* The user is on the list E once the frames q have arrived.
Lists(E, q, v) ==
    \E i \in 0 .. Len(q) :
        /\ IF i = 0 THEN v \in E ELSE Adds(q[i], v)
        /\ \A k \in (i + 1) .. Len(q) : ~Takes(q[k], v)

\* Whoever a tab in the room lists, once everything has arrived, is there.
TabLists(t) ==
    Socket(t) \in room =>
        \A v : Lists(editors[t], down[Socket(t)], v) => v \in GetEditors(present)
ListsPresent == \A t \in online : TabLists(t)

\* A socket is in the editor list just when it knows its document, and whoever
\* joins or has joined is connected, or went away during the join.
Lingering ==
    /\ present = current
    /\ present \subseteq alive \cup ghosts
    /\ \A j \in joining : j.socket \in alive \cup ghosts

SyncInv ==
    /\ SyncTyped /\ NoneAhead /\ AllKnown /\ OwnSent /\ GetsSaved /\ ListsPresent /\ Lingering

-----------------------------------------------------------------------------
(* Queues *)

LEMMA AppendParts ==
  ASSUME NEW S, NEW q \in Seq(S), NEW m \in S
  PROVE  /\ Append(q, m) \in Seq(S) /\ Len(q) \in Nat
         /\ Len(Append(q, m)) = Len(q) + 1
         /\ \A i \in 1 .. Len(q) : Append(q, m)[i] = q[i]
         /\ Append(q, m)[Len(q) + 1] = m
OBVIOUS

LEMMA TailParts ==
  ASSUME NEW S, NEW q \in Seq(S), q # <<>>
  PROVE  /\ Tail(q) \in Seq(S) /\ Len(q) \in Nat \ {0}
         /\ Len(Tail(q)) = Len(q) - 1
         /\ \A i \in 1 .. Len(q) - 1 : Tail(q)[i] = q[i + 1]
         /\ Head(q) = q[1] /\ Head(q) \in S
OBVIOUS

LEMMA ComingAppend ==
  ASSUME NEW S, NEW q \in Seq(S), NEW m \in S, NEW x
  PROVE  Coming(Append(q, m), x) <=> Coming(q, x) \/ Brings(m, x)
<1>. DEFINE a == Append(q, m)
<1>1. /\ Len(q) \in Nat /\ Len(a) = Len(q) + 1
      /\ \A i \in 1 .. Len(q) : a[i] = q[i]
      /\ a[Len(q) + 1] = m
  BY AppendParts
<1>. HIDE DEF a
<1>2. ASSUME Coming(a, x) PROVE Coming(q, x) \/ Brings(m, x)
  <2>1. PICK i \in 1 .. Len(a) : Brings(a[i], x)
    BY <1>2 DEF Coming
  <2>. QED
    BY <1>1, <2>1 DEF Coming
<1>3. ASSUME Coming(q, x) PROVE Coming(a, x)
  <2>1. PICK i \in 1 .. Len(q) : Brings(q[i], x)
    BY <1>3 DEF Coming
  <2>2. i \in 1 .. Len(a) /\ a[i] = q[i]
    BY <1>1, <2>1
  <2>. QED
    BY <2>1, <2>2 DEF Coming
<1>4. ASSUME Brings(m, x) PROVE Coming(a, x)
  <2>1. Len(q) + 1 \in 1 .. Len(a)
    BY <1>1
  <2>. QED
    BY <1>1, <1>4, <2>1 DEF Coming
<1>. QED
  BY <1>2, <1>3, <1>4 DEF a

LEMMA ComingTail ==
  ASSUME NEW S, NEW q \in Seq(S), q # <<>>, NEW x
  PROVE  Coming(q, x) <=> Brings(Head(q), x) \/ Coming(Tail(q), x)
<1>. DEFINE r == Tail(q)
            h == Head(q)
<1>1. /\ Len(q) \in Nat \ {0} /\ Len(r) = Len(q) - 1 /\ h = q[1]
      /\ \A i \in 1 .. Len(q) - 1 : r[i] = q[i + 1]
  BY TailParts
<1>. HIDE DEF r, h
<1>2. ASSUME Coming(q, x) PROVE Brings(h, x) \/ Coming(r, x)
  <2>1. PICK i \in 1 .. Len(q) : Brings(q[i], x)
    BY <1>2 DEF Coming
  <2>2. CASE i = 1
    BY <1>1, <2>1, <2>2
  <2>3. CASE i # 1
    <3>1. i - 1 \in 1 .. Len(r) /\ r[i - 1] = q[i]
      BY <1>1, <2>1, <2>3
    <3>. QED
      BY <2>1, <3>1 DEF Coming
  <2>. QED
    BY <2>2, <2>3
<1>3. ASSUME Coming(r, x) PROVE Coming(q, x)
  <2>1. PICK i \in 1 .. Len(r) : Brings(r[i], x)
    BY <1>3 DEF Coming
  <2>2. i + 1 \in 1 .. Len(q) /\ r[i] = q[i + 1]
    BY <1>1, <2>1
  <2>. QED
    BY <2>1, <2>2 DEF Coming
<1>4. ASSUME Brings(h, x) PROVE Coming(q, x)
  <2>1. 1 \in 1 .. Len(q)
    BY <1>1
  <2>. QED
    BY <1>1, <1>4, <2>1 DEF Coming
<1>. QED
  BY <1>2, <1>3, <1>4 DEF r, h

LEMMA GoingAppend ==
  ASSUME NEW S, NEW q \in Seq(S), NEW m \in S, NEW x
  PROVE  Going(Append(q, m), x) <=> Going(q, x) \/ Carries(m, x)
<1>. DEFINE a == Append(q, m)
<1>1. /\ Len(q) \in Nat /\ Len(a) = Len(q) + 1
      /\ \A i \in 1 .. Len(q) : a[i] = q[i]
      /\ a[Len(q) + 1] = m
  BY AppendParts
<1>. HIDE DEF a
<1>2. ASSUME Going(a, x) PROVE Going(q, x) \/ Carries(m, x)
  <2>1. PICK i \in 1 .. Len(a) : Carries(a[i], x)
    BY <1>2 DEF Going
  <2>. QED
    BY <1>1, <2>1 DEF Going
<1>3. ASSUME Going(q, x) PROVE Going(a, x)
  <2>1. PICK i \in 1 .. Len(q) : Carries(q[i], x)
    BY <1>3 DEF Going
  <2>2. i \in 1 .. Len(a) /\ a[i] = q[i]
    BY <1>1, <2>1
  <2>. QED
    BY <2>1, <2>2 DEF Going
<1>4. ASSUME Carries(m, x) PROVE Going(a, x)
  <2>1. Len(q) + 1 \in 1 .. Len(a)
    BY <1>1
  <2>. QED
    BY <1>1, <1>4, <2>1 DEF Going
<1>. QED
  BY <1>2, <1>3, <1>4 DEF a

LEMMA GoingTail ==
  ASSUME NEW S, NEW q \in Seq(S), q # <<>>, NEW x
  PROVE  Going(q, x) <=> Carries(Head(q), x) \/ Going(Tail(q), x)
<1>. DEFINE r == Tail(q)
            h == Head(q)
<1>1. /\ Len(q) \in Nat \ {0} /\ Len(r) = Len(q) - 1 /\ h = q[1]
      /\ \A i \in 1 .. Len(q) - 1 : r[i] = q[i + 1]
  BY TailParts
<1>. HIDE DEF r, h
<1>2. ASSUME Going(q, x) PROVE Carries(h, x) \/ Going(r, x)
  <2>1. PICK i \in 1 .. Len(q) : Carries(q[i], x)
    BY <1>2 DEF Going
  <2>2. CASE i = 1
    BY <1>1, <2>1, <2>2
  <2>3. CASE i # 1
    <3>1. i - 1 \in 1 .. Len(r) /\ r[i - 1] = q[i]
      BY <1>1, <2>1, <2>3
    <3>. QED
      BY <2>1, <3>1 DEF Going
  <2>. QED
    BY <2>2, <2>3
<1>3. ASSUME Going(r, x) PROVE Going(q, x)
  <2>1. PICK i \in 1 .. Len(r) : Carries(r[i], x)
    BY <1>3 DEF Going
  <2>2. i + 1 \in 1 .. Len(q) /\ r[i] = q[i + 1]
    BY <1>1, <2>1
  <2>. QED
    BY <2>1, <2>2 DEF Going
<1>4. ASSUME Carries(h, x) PROVE Going(q, x)
  <2>1. 1 \in 1 .. Len(q)
    BY <1>1
  <2>. QED
    BY <1>1, <1>4, <2>1 DEF Going
<1>. QED
  BY <1>2, <1>3, <1>4 DEF r, h

LEMMA ListsAppend ==
  ASSUME NEW S, NEW q \in Seq(S), NEW m \in S, NEW E, NEW v, Lists(E, Append(q, m), v)
  PROVE  Adds(m, v) \/ (Lists(E, q, v) /\ ~Takes(m, v))
<1>. DEFINE a == Append(q, m)
<1>1. /\ Len(q) \in Nat /\ Len(a) = Len(q) + 1
      /\ \A i \in 1 .. Len(q) : a[i] = q[i]
      /\ a[Len(q) + 1] = m
  BY AppendParts
<1>0. Lists(E, a, v)
  OBVIOUS
<1>. HIDE DEF a
<1>2. PICK i \in 0 .. Len(a) : /\ IF i = 0 THEN v \in E ELSE Adds(a[i], v)
                               /\ \A k \in (i + 1) .. Len(a) : ~Takes(a[k], v)
  BY <1>0 DEF Lists
<1>3. CASE i = Len(q) + 1
  BY <1>1, <1>2, <1>3
<1>4. CASE i # Len(q) + 1
  <2>1. i \in 0 .. Len(q)
    BY <1>1, <1>2, <1>4
  <2>2. ~Takes(m, v)
    BY <1>1, <1>2, <2>1
  <2>3. IF i = 0 THEN v \in E ELSE Adds(q[i], v)
    BY <1>1, <1>2, <2>1
  <2>4. \A k \in (i + 1) .. Len(q) : ~Takes(q[k], v)
    BY <1>1, <1>2, <2>1
  <2>. QED
    BY <2>1, <2>2, <2>3, <2>4 DEF Lists
<1>. QED
  BY <1>3, <1>4

\* Taking a frame from the queue and changing the list accordingly.
LEMMA ListsTail ==
  ASSUME NEW S, NEW q \in Seq(S), q # <<>>, NEW E, NEW F, NEW v,
         v \in F => Adds(Head(q), v) \/ (v \in E /\ ~Takes(Head(q), v)),
         Lists(F, Tail(q), v)
  PROVE  Lists(E, q, v)
<1>. DEFINE r == Tail(q)
            h == Head(q)
<1>1. /\ Len(q) \in Nat \ {0} /\ Len(r) = Len(q) - 1 /\ h = q[1]
      /\ \A i \in 1 .. Len(q) - 1 : r[i] = q[i + 1]
  BY TailParts
<1>0. Lists(F, r, v) /\ (v \in F => Adds(h, v) \/ (v \in E /\ ~Takes(h, v)))
  OBVIOUS
<1>. HIDE DEF r, h
<1>2. PICK i \in 0 .. Len(r) : /\ IF i = 0 THEN v \in F ELSE Adds(r[i], v)
                               /\ \A k \in (i + 1) .. Len(r) : ~Takes(r[k], v)
  BY <1>0 DEF Lists
<1>3. \A k \in (i + 2) .. Len(q) : ~Takes(q[k], v)
  <2>. TAKE k \in (i + 2) .. Len(q)
  <2>1. k - 1 \in (i + 1) .. Len(r) /\ r[k - 1] = q[k]
    BY <1>1, <1>2
  <2>. QED
    BY <1>2, <2>1
<1>4. CASE i # 0 \/ Adds(h, v)
  <2>1. i + 1 \in 0 .. Len(q) /\ i + 1 # 0
    BY <1>1, <1>2
  <2>2. Adds(q[i + 1], v)
    BY <1>1, <1>2, <1>4
  <2>3. \A k \in ((i + 1) + 1) .. Len(q) : ~Takes(q[k], v)
    BY <1>1, <1>2, <1>3
  <2>. QED
    BY <2>1, <2>2, <2>3 DEF Lists
<1>5. CASE i = 0 /\ ~Adds(h, v)
  <2>1. v \in E /\ ~Takes(q[1], v)
    BY <1>0, <1>1, <1>2, <1>5
  <2>2. \A k \in (0 + 1) .. Len(q) : ~Takes(q[k], v)
    BY <1>1, <1>3, <1>5, <2>1
  <2>3. 0 \in 0 .. Len(q)
    BY <1>1
  <2>. QED
    BY <2>1, <2>2, <2>3 DEF Lists
<1>. QED
  BY <1>4, <1>5

-----------------------------------------------------------------------------
(* Types *)

\* The messages of the gateway and of the tabs.
LEMMA Frames ==
  /\ \A S \in SUBSET AnyUpdate : /\ [kind |-> "join", vector |-> S] \in UpFrame
                                 /\ [kind |-> "update", state |-> S] \in DownFrame
  /\ \A S \in SUBSET AnyUpdate, E \in SUBSET Users :
       [kind |-> "joined", state |-> S, editors |-> E] \in DownFrame
  /\ \A u \in AnyUpdate : [kind |-> "update", update |-> u] \in UpFrame
  /\ [kind |-> "leave"] \in UpFrame
  /\ \A v \in Users : /\ [kind |-> "editor-joined", user |-> v] \in DownFrame
                      /\ [kind |-> "editor-left", user |-> v] \in DownFrame
BY DEF UpFrame, DownFrame

\* What is in a message.
LEMMA FrameParts ==
  /\ \A m \in UpFrame : /\ m.kind = "join" => m.vector \in SUBSET AnyUpdate
                        /\ m.kind = "update" => m.update \in AnyUpdate
  /\ \A m \in DownFrame : /\ m.kind \in {"joined", "update"} => m.state \in SUBSET AnyUpdate
                          /\ m.kind = "joined" => m.editors \in SUBSET Users
                          /\ m.kind \in {"editor-joined", "editor-left"} => m.user \in Users
BY DEF UpFrame, DownFrame

LEMMA SocketUsers ==
  /\ \A s \in Sockets : s[1] \in Tabs /\ s[2] \in Nat /\ UserAt(s) \in Users /\ s = <<s[1], s[2]>>
  /\ \A S \in SUBSET Sockets : GetEditors(S) \in SUBSET Users
<1>1. \A s \in Sockets : s[1] \in Tabs /\ s[2] \in Nat /\ UserAt(s) \in Users /\ s = <<s[1], s[2]>>
  BY SyncBounds DEF Sockets, UserAt, Users
<1>. QED
  BY <1>1 DEF GetEditors

\* What a frame of the server reaches: the open connections among the sockets.
Reaches(ss, s) == s \in ss /\ s[1] \in online /\ s = Socket(s[1])

LEMMA EmitParts ==
  ASSUME LinksTyped, NEW ss, NEW m \in DownFrame
  PROVE  /\ Emit(ss, m) \in [Sockets -> Seq(DownFrame)]
         /\ \A s \in Sockets : Emit(ss, m)[s] = IF Reaches(ss, s) THEN Append(down[s], m) ELSE down[s]
<1>1. \A s \in Sockets : Append(down[s], m) \in Seq(DownFrame)
  BY AppendParts DEF LinksTyped
<1>. QED
  BY <1>1 DEF Emit, Reaches, LinksTyped

LEMMA TakeParts ==
  ASSUME LinksTyped, NEW s \in Sockets, NEW kind, NextIs(s, kind), Take(s)
  PROVE  /\ up[s] # <<>> /\ up[s] \in Seq(UpFrame) /\ Head(up[s]) \in UpFrame
         /\ Head(up[s]).kind = kind /\ s \in alive
         /\ up' \in [Sockets -> Seq(UpFrame)]
         /\ up'[s] = Tail(up[s])
         /\ \A r \in Sockets \ {s} : up'[r] = up[r]
<1>1. up[s] # <<>> /\ up[s] \in Seq(UpFrame) /\ Head(up[s]).kind = kind /\ s \in alive
  BY DEF NextIs, LinksTyped
<1>2. Tail(up[s]) \in Seq(UpFrame) /\ Head(up[s]) \in UpFrame
  BY <1>1, TailParts
<1>. QED
  BY <1>1, <1>2 DEF Take, LinksTyped

LEMMA SentParts ==
  ASSUME TabsTyped, LinksTyped, NEW t \in online, NEW m \in UpFrame, Sent(t, m)
  PROVE  /\ up' \in [Sockets -> Seq(UpFrame)]
         /\ Socket(t) \in Sockets
         /\ up'[Socket(t)] = Append(up[Socket(t)], m)
         /\ \A r \in Sockets \ {Socket(t)} : up'[r] = up[r]
<1>1. Socket(t) \in Sockets
  BY DEF TabsTyped
<1>2. Append(up[Socket(t)], m) \in Seq(UpFrame)
  BY <1>1, AppendParts DEF LinksTyped
<1>. QED
  BY <1>1, <1>2 DEF Sent, LinksTyped

LEMMA DeliverParts ==
  ASSUME TabsTyped, LinksTyped, NEW t \in Tabs, Deliver(t)
  PROVE  LET s == Socket(t)
             m == Head(down[s])
         IN  /\ t \in online /\ s \in Sockets /\ down[s] # <<>> /\ down[s] \in Seq(DownFrame)
             /\ m \in DownFrame
             /\ down' \in [Sockets -> Seq(DownFrame)]
             /\ down'[s] = Tail(down[s])
             /\ \A r \in Sockets \ {s} : down'[r] = down[r]
<1>1. t \in online /\ Socket(t) \in Sockets /\ down[Socket(t)] # <<>>
  BY DEF Deliver, TabsTyped
<1>2. /\ down[Socket(t)] \in Seq(DownFrame) /\ Tail(down[Socket(t)]) \in Seq(DownFrame)
      /\ Head(down[Socket(t)]) \in DownFrame
  BY <1>1, TailParts DEF LinksTyped
<1>3. down' = [down EXCEPT ![Socket(t)] = Tail(@)]
  BY DEF Deliver
<1>. QED
  BY <1>1, <1>2, <1>3 DEF LinksTyped

\* What a delivered frame does to the tab: it merges what it brings.
LEMMA DeliverMerges ==
  ASSUME TabsTyped, LinksTyped, NEW t \in Tabs, Deliver(t)
  PROVE  LET m == Head(down[Socket(t)])
         IN  /\ \A x : x \in ydoc'[t] <=> x \in ydoc[t] \/ Brings(m, x)
             /\ \A r \in Tabs \ {t} : ydoc'[r] = ydoc[r] /\ editors'[r] = editors[r]
             /\ \A v : v \in editors'[t] => Adds(m, v) \/ (v \in editors[t] /\ ~Takes(m, v))
             /\ ydoc' \in [Tabs -> SUBSET AnyUpdate] /\ editors' \in [Tabs -> SUBSET Users]
<1>. DEFINE m == Head(down[Socket(t)])
<1>1. m \in DownFrame
  BY DeliverParts
<1>2. \/ m.kind = "joined" /\ OnJoined(t, m)
      \/ m.kind = "update" /\ OnUpdate(t, m)
      \/ m.kind = "editor-joined" /\ OnEditorJoined(t, m)
      \/ m.kind = "editor-left" /\ OnEditorLeft(t, m)
  BY DEF Deliver
<1>. HIDE DEF m
<1>3. \A x : x \in ydoc'[t] <=> x \in ydoc[t] \/ Brings(m, x)
  BY <1>2 DEF OnJoined, OnUpdate, OnEditorJoined, OnEditorLeft, Brings, TabsTyped
<1>4. \A r \in Tabs \ {t} : ydoc'[r] = ydoc[r] /\ editors'[r] = editors[r]
  BY <1>2 DEF OnJoined, OnUpdate, OnEditorJoined, OnEditorLeft, TabsTyped
<1>5. \A v : v \in editors'[t] => Adds(m, v) \/ (v \in editors[t] /\ ~Takes(m, v))
  BY <1>2 DEF OnJoined, OnUpdate, OnEditorJoined, OnEditorLeft, Adds, Takes, TabsTyped
<1>6. ydoc' \in [Tabs -> SUBSET AnyUpdate]
  BY <1>1, <1>2, FrameParts DEF OnJoined, OnUpdate, OnEditorJoined, OnEditorLeft, TabsTyped
<1>7. editors' \in [Tabs -> SUBSET Users]
  BY <1>1, <1>2, FrameParts DEF OnJoined, OnUpdate, OnEditorJoined, OnEditorLeft, TabsTyped
<1>. QED
  BY <1>3, <1>4, <1>5, <1>6, <1>7 DEF m

LEMMA TabsStayTyped == SyncTyped /\ [Next]_vars => TabsTyped'
<1>. SUFFICES ASSUME SyncTyped, [Next]_vars PROVE TabsTyped'
  OBVIOUS
<1>. USE DEF tabVars, linkVars, gateVars, docVars, history
<1>0. TabsTyped /\ LinksTyped
  BY DEF SyncTyped
<1>same. ASSUME UNCHANGED tabVars PROVE TabsTyped'
  BY <1>0, <1>same DEF TabsTyped, Socket
<1>1. ASSUME NEW t \in Tabs, Connect(t) PROVE TabsTyped'
  <2>1. \A r \in Tabs \ {t} : Socket(r)' = Socket(r)
    BY <1>0, <1>1 DEF Connect, TabsTyped, Socket
  <2>2. Socket(t)' \in Sockets
    BY <1>0, <1>1 DEF Connect, MayConnect, TabsTyped, Socket
  <2>. QED
    BY <1>0, <1>1, <2>1, <2>2 DEF Connect, TabsTyped
<1>2. ASSUME NEW t \in Tabs, Edit(t) PROVE TabsTyped'
  <2>1. Typed(t) \in AnyUpdate
    BY <1>0 DEF Typed, TabsTyped, AnyUpdate
  <2>2. \A r \in Tabs : Socket(r)' = Socket(r)
    BY <1>2 DEF Edit, Socket
  <2>3. /\ ydoc' = [ydoc EXCEPT ![t] = @ \cup {Typed(t)}]
        /\ edits' = [edits EXCEPT ![t] = @ + 1]
        /\ UNCHANGED <<editors, connects, online>>
    BY <1>2 DEF Edit
  <2>. QED
    BY <1>0, <2>1, <2>2, <2>3 DEF TabsTyped
<1>3. ASSUME NEW t \in Tabs, Deliver(t) PROVE TabsTyped'
  <2>1. ydoc' \in [Tabs -> SUBSET AnyUpdate] /\ editors' \in [Tabs -> SUBSET Users]
    BY <1>0, <1>3, DeliverMerges
  <2>2. \A r \in Tabs : Socket(r)' = Socket(r)
    BY <1>3 DEF Deliver, Socket
  <2>3. UNCHANGED <<edits, connects, online>>
    BY <1>3 DEF Deliver
  <2>. QED
    BY <1>0, <2>1, <2>2, <2>3 DEF TabsTyped
<1>4. ASSUME NEW t \in Tabs, Drop(t) PROVE TabsTyped'
  <2>1. UNCHANGED <<ydoc, editors, edits, connects>> /\ online' = online \ {t}
    BY <1>4 DEF Drop
  <2>. QED
    BY <1>0, <2>1 DEF TabsTyped, Socket
<1>11. ASSUME NEW t \in Tabs, Unmount(t) PROVE TabsTyped'
  <2>1. /\ UNCHANGED <<edits, connects>> /\ online' = online \ {t}
        /\ ydoc' = [ydoc EXCEPT ![t] = {}] /\ editors' = [editors EXCEPT ![t] = {}]
    BY <1>11 DEF Unmount
  <2>. QED
    BY <1>0, <2>1 DEF TabsTyped, Socket
<1>5. ASSUME NEW s \in Sockets,
             \/ JoinStart(s) \/ JoinRefused(s) \/ HandleUpdate(s) \/ RejectUpdate(s)
             \/ HandleLeave(s) \/ HandleDisconnect(s)
      PROVE  TabsTyped'
  BY <1>5, <1>same DEF JoinStart, JoinRefused, HandleUpdate, RejectUpdate, HandleLeave, HandleDisconnect
<1>6. ASSUME NEW j \in joining, JoinFinish(j) PROVE TabsTyped'
  BY <1>6, <1>same DEF JoinFinish
<1>7. CASE Persist
  BY <1>7, <1>same DEF Persist
<1>8. CASE Restore
  <2>2. \A r \in Tabs : Socket(r)' = Socket(r)
    BY <1>8 DEF Restore, Socket
  <2>. QED
    BY <1>0, <1>8, <2>2 DEF Restore, TabsTyped
<1>9. CASE Restart
  BY <1>0, <1>9 DEF Restart, TabsTyped
<1>10. CASE UNCHANGED vars
  BY <1>10, <1>same DEF vars
<1>. QED
  BY <1>1, <1>2, <1>3, <1>4, <1>5, <1>6, <1>7, <1>8, <1>9, <1>10, <1>11 DEF Next

\* What the answer to a join and its announcement put on the links.
LEMMA JoinFinishParts ==
  ASSUME SyncTyped, NEW j \in joining, JoinFinish(j)
  PROVE  LET s == j.socket
             joined == [kind |-> "joined", state |-> EncodeDiff(j.vector),
                        editors |-> GetEditors(present')]
             news == [kind |-> "editor-joined", user |-> UserAt(s)]
         IN  /\ s \in Sockets /\ joined \in DownFrame /\ news \in DownFrame
             /\ down' \in [Sockets -> Seq(DownFrame)]
             /\ down'[s] = IF Reaches({s}, s) THEN Append(down[s], joined) ELSE down[s]
             /\ \A r \in Sockets \ {s} :
                  down'[r] = IF Reaches(room, r) THEN Append(down[r], news) ELSE down[r]
<1>. DEFINE s == j.socket
            joined == [kind |-> "joined", state |-> EncodeDiff(j.vector),
                       editors |-> GetEditors(present')]
            news == [kind |-> "editor-joined", user |-> UserAt(s)]
<1>1. s \in Sockets /\ LinksTyped
  BY DEF SyncTyped, ServerTyped
<1>2. EncodeDiff(j.vector) \in SUBSET AnyUpdate
  BY DEF EncodeDiff, SyncTyped, ServerTyped
<1>3. joined \in DownFrame
  <2>1. present' \in SUBSET Sockets
    BY <1>1 DEF JoinFinish, AddEditor, SyncTyped, ServerTyped
  <2>2. GetEditors(present') \in SUBSET Users
    BY <2>1, SocketUsers
  <2>. QED
    BY <1>2, <2>2, Frames
<1>4. news \in DownFrame
  BY <1>1, SocketUsers, Frames
<1>5. down' = [Emit(room \ {s}, news) EXCEPT ![s] = Emit({s}, joined)[s]]
  BY DEF JoinFinish
<1>. HIDE DEF joined, news, s
<1>6. /\ Emit(room \ {s}, news) \in [Sockets -> Seq(DownFrame)]
      /\ \A r \in Sockets \ {s} : Emit(room \ {s}, news)[r] =
           IF Reaches(room, r) THEN Append(down[r], news) ELSE down[r]
  BY <1>1, <1>4, EmitParts DEF Reaches
<1>7. /\ Emit({s}, joined)[s] = IF Reaches({s}, s) THEN Append(down[s], joined) ELSE down[s]
      /\ Emit({s}, joined)[s] \in Seq(DownFrame)
  BY <1>1, <1>3, EmitParts
<1>. QED
  BY <1>1, <1>3, <1>4, <1>5, <1>6, <1>7 DEF joined, news, s

\* Leaving tells the others who are connected, if the socket was an editor.
LEMMA LeaveParts ==
  ASSUME SyncTyped, NEW s \in Sockets, LeaveDocument(s)
  PROVE  LET left == [kind |-> "editor-left", user |-> UserAt(s)]
         IN  /\ left \in DownFrame
             /\ down' \in [Sockets -> Seq(DownFrame)]
             /\ \A r \in Sockets :
                  down'[r] = IF s \in present /\ Reaches(room \ {s}, r)
                             THEN Append(down[r], left) ELSE down[r]
<1>. DEFINE left == [kind |-> "editor-left", user |-> UserAt(s)]
<1>1. left \in DownFrame
  BY SocketUsers, Frames
<1>2. LinksTyped /\ down \in [Sockets -> Seq(DownFrame)]
  BY DEF SyncTyped, LinksTyped
<1>3. down' = IF s \in present THEN Emit(room \ {s}, left) ELSE down
  BY DEF LeaveDocument
<1>. HIDE DEF left
<1>4. /\ Emit(room \ {s}, left) \in [Sockets -> Seq(DownFrame)]
      /\ \A r \in Sockets : Emit(room \ {s}, left)[r] =
           IF Reaches(room \ {s}, r) THEN Append(down[r], left) ELSE down[r]
  BY <1>1, <1>2, EmitParts
<1>. QED
  BY <1>1, <1>2, <1>3, <1>4 DEF left

\* What an update handled puts on the links, and what it takes.
LEMMA HandleUpdateParts ==
  ASSUME SyncTyped, NEW s \in Sockets, HandleUpdate(s)
  PROVE  LET u == Head(up[s]).update
             relay == [kind |-> "update", state |-> {u}]
         IN  /\ u \in AnyUpdate /\ relay \in DownFrame
             /\ NextIs(s, "update") /\ Take(s) /\ Head(up[s]).kind = "update"
             /\ serverDoc' = serverDoc \cup {u}
             /\ down' \in [Sockets -> Seq(DownFrame)]
             /\ \A r \in Sockets :
                  down'[r] = IF Reaches(room \ {s}, r) THEN Append(down[r], relay) ELSE down[r]
<1>. DEFINE u == Head(up[s]).update
            relay == [kind |-> "update", state |-> {u}]
<1>1. NextIs(s, "update") /\ Take(s) /\ LinksTyped
  BY DEF HandleUpdate, SyncTyped
<1>2. Head(up[s]) \in UpFrame /\ Head(up[s]).kind = "update"
  BY <1>1, TakeParts
<1>3. u \in AnyUpdate
  BY <1>2, FrameParts
<1>4. relay \in DownFrame
  BY <1>3, Frames
<1>5. down' = Emit(room \ {s}, relay) /\ serverDoc' = serverDoc \cup {u}
  BY DEF HandleUpdate
<1>. HIDE DEF relay
<1>6. /\ Emit(room \ {s}, relay) \in [Sockets -> Seq(DownFrame)]
      /\ \A r \in Sockets : Emit(room \ {s}, relay)[r] =
           IF Reaches(room \ {s}, r) THEN Append(down[r], relay) ELSE down[r]
  BY <1>1, <1>4, EmitParts
<1>. QED
  BY <1>1, <1>2, <1>3, <1>4, <1>5, <1>6 DEF relay

\* What a save puts on the links.
LEMMA PersistParts ==
  ASSUME SyncTyped, Persist
  PROVE  LET all == [kind |-> "update", state |-> serverDoc]
         IN  /\ all \in DownFrame
             /\ down' \in [Sockets -> Seq(DownFrame)]
             /\ \A r \in Sockets :
                  down'[r] = IF Reaches(room, r) THEN Append(down[r], all) ELSE down[r]
<1>. DEFINE all == [kind |-> "update", state |-> serverDoc]
<1>1. all \in DownFrame /\ LinksTyped
  BY Frames DEF SyncTyped, ServerTyped
<1>2. down' = Emit(room, all)
  BY DEF Persist, HandleDocumentSaved
<1>. HIDE DEF all
<1>3. /\ Emit(room, all) \in [Sockets -> Seq(DownFrame)]
      /\ \A r \in Sockets : Emit(room, all)[r] =
           IF Reaches(room, r) THEN Append(down[r], all) ELSE down[r]
  BY <1>1, EmitParts
<1>. QED
  BY <1>1, <1>2, <1>3 DEF all

\* An edit appends its update to the open connection, or is missed.
LEMMA EditParts ==
  ASSUME SyncTyped, NEW t \in Tabs, Edit(t)
  PROVE  LET u == Typed(t)
             m == [kind |-> "update", update |-> u]
         IN  /\ u \in AnyUpdate /\ m \in UpFrame
             /\ up' \in [Sockets -> Seq(UpFrame)]
             /\ \A s \in Sockets : up'[s] = IF t \in online /\ s = Socket(t)
                                            THEN Append(up[s], m) ELSE up[s]
             /\ t \in online => Socket(t) \in Sockets /\ missed' = missed
             /\ t \notin online => missed' = missed \cup {u}
             /\ ydoc'[t] = ydoc[t] \cup {u}
             /\ \A r \in Tabs \ {t} : ydoc'[r] = ydoc[r]
<1>. DEFINE u == Typed(t)
            m == [kind |-> "update", update |-> u]
<1>1. TabsTyped /\ LinksTyped
  BY DEF SyncTyped
<1>2. u \in AnyUpdate
  BY <1>1 DEF Typed, TabsTyped, AnyUpdate
<1>3. m \in UpFrame
  BY <1>2, Frames
<1>4. \/ t \in online /\ Sent(t, m) /\ missed' = missed
      \/ t \notin online /\ missed' = missed \cup {u} /\ up' = up
  BY DEF Edit
<1>5. ydoc'[t] = ydoc[t] \cup {u} /\ \A r \in Tabs \ {t} : ydoc'[r] = ydoc[r]
  BY <1>1 DEF Edit, TabsTyped
<1>. HIDE DEF m, u
<1>6. CASE t \in online
  <2>1. Sent(t, m)
    BY <1>4, <1>6
  <2>2. /\ up' \in [Sockets -> Seq(UpFrame)] /\ Socket(t) \in Sockets
        /\ up'[Socket(t)] = Append(up[Socket(t)], m)
        /\ \A r \in Sockets \ {Socket(t)} : up'[r] = up[r]
    BY <1>1, <1>3, <1>6, <2>1, SentParts
  <2>. QED
    BY <1>2, <1>3, <1>4, <1>5, <1>6, <2>2 DEF m, u
<1>7. CASE t \notin online
  BY <1>1, <1>2, <1>3, <1>4, <1>5, <1>7 DEF m, u, LinksTyped
<1>. QED
  BY <1>6, <1>7

\* Unmounting appends the leave to the open connection.
LEMMA UnmountParts ==
  ASSUME SyncTyped, NEW t \in Tabs, Unmount(t)
  PROVE  /\ [kind |-> "leave"] \in UpFrame
         /\ up' \in [Sockets -> Seq(UpFrame)]
         /\ \A s \in Sockets : up'[s] = IF t \in online /\ s = Socket(t)
                                        THEN Append(up[s], [kind |-> "leave"]) ELSE up[s]
         /\ down' \in [Sockets -> Seq(DownFrame)]
         /\ \A s \in Sockets : down'[s] = IF s[1] = t THEN <<>> ELSE down[s]
<1>. DEFINE m == [kind |-> "leave"]
<1>1. TabsTyped /\ LinksTyped /\ m \in UpFrame
  BY Frames DEF SyncTyped
<1>2. \/ t \in online /\ Sent(t, m)
      \/ t \notin online /\ up' = up
  BY DEF Unmount
<1>3. down' = [s \in Sockets |-> IF s[1] = t THEN <<>> ELSE down[s]]
  BY DEF Unmount
<1>4. /\ down' \in [Sockets -> Seq(DownFrame)]
      /\ \A s \in Sockets : down'[s] = IF s[1] = t THEN <<>> ELSE down[s]
  BY <1>1, <1>3, EmptySeq DEF LinksTyped
<1>. HIDE DEF m
<1>5. CASE t \in online
  <2>1. Sent(t, m)
    BY <1>2, <1>5
  <2>2. /\ up' \in [Sockets -> Seq(UpFrame)] /\ Socket(t) \in Sockets
        /\ up'[Socket(t)] = Append(up[Socket(t)], m)
        /\ \A r \in Sockets \ {Socket(t)} : up'[r] = up[r]
    BY <1>1, <1>5, <2>1, SentParts
  <2>. QED
    BY <1>1, <1>4, <1>5, <2>2 DEF m
<1>6. CASE t \notin online
  BY <1>1, <1>2, <1>4, <1>6 DEF m, LinksTyped
<1>. QED
  BY <1>5, <1>6

LEMMA LinksStayTyped == SyncTyped /\ [Next]_vars => LinksTyped'
<1>. SUFFICES ASSUME SyncTyped, [Next]_vars PROVE LinksTyped'
  OBVIOUS
<1>0. TabsTyped /\ LinksTyped
  BY DEF SyncTyped
<1>1. ASSUME NEW t \in Tabs, Connect(t) PROVE LinksTyped'
  <2>1. [kind |-> "join", vector |-> ydoc[t]] \in UpFrame
    BY <1>0, Frames DEF TabsTyped
  <2>2. <<[kind |-> "join", vector |-> ydoc[t]]>> \in Seq(UpFrame)
    BY <2>1
  <2>3. /\ up' = [up EXCEPT ![<<t, connects[t] + 1>>] = <<[kind |-> "join", vector |-> ydoc[t]]>>]
        /\ down' = down
    BY <1>1 DEF Connect
  <2>. QED
    BY <1>0, <2>2, <2>3 DEF LinksTyped
<1>2. ASSUME NEW t \in Tabs, Edit(t) PROVE LinksTyped'
  <2>1. down' = down
    BY <1>2 DEF Edit
  <2>. QED
    BY <1>0, <1>2, <2>1, EditParts DEF LinksTyped
<1>3. ASSUME NEW t \in Tabs, Deliver(t) PROVE LinksTyped'
  <2>1. up' = up
    BY <1>3 DEF Deliver
  <2>. QED
    BY <1>0, <1>3, <2>1, DeliverParts DEF LinksTyped
<1>4. ASSUME NEW t \in Tabs, Drop(t) PROVE LinksTyped'
  BY <1>0, <1>4, EmptySeq DEF LinksTyped, Drop
<1>5. ASSUME NEW t \in Tabs, Unmount(t) PROVE LinksTyped'
  BY <1>5, UnmountParts DEF LinksTyped
<1>6. ASSUME NEW s \in Sockets, JoinStart(s) \/ RejectUpdate(s) PROVE LinksTyped'
  <2>1. down' = down /\ Take(s) /\ \E kind : NextIs(s, kind)
    BY <1>6 DEF JoinStart, RejectUpdate
  <2>. QED
    BY <1>0, <2>1, TakeParts DEF LinksTyped
<1>7. ASSUME NEW s \in Sockets, JoinRefused(s) PROVE LinksTyped'
  <2>1. down' = down /\ (up' = up \/ (Take(s) /\ NextIs(s, "join")))
    BY <1>7 DEF JoinRefused
  <2>. QED
    BY <1>0, <2>1, TakeParts DEF LinksTyped
<1>8. ASSUME NEW j \in joining, JoinFinish(j) PROVE LinksTyped'
  <2>1. up' = up
    BY <1>8 DEF JoinFinish
  <2>. QED
    BY <1>0, <1>8, <2>1, JoinFinishParts DEF LinksTyped
<1>9. ASSUME NEW s \in Sockets, HandleUpdate(s) PROVE LinksTyped'
  <2>1. Take(s) /\ NextIs(s, "update")
    BY <1>9 DEF HandleUpdate
  <2>2. up' \in [Sockets -> Seq(UpFrame)]
    BY <1>0, <2>1, TakeParts
  <2>. QED
    BY <1>9, <2>2, HandleUpdateParts DEF LinksTyped
<1>10. ASSUME NEW s \in Sockets, HandleLeave(s) PROVE LinksTyped'
  <2>1. Take(s) /\ NextIs(s, "leave") /\ LeaveDocument(s)
    BY <1>10 DEF HandleLeave
  <2>2. up' \in [Sockets -> Seq(UpFrame)]
    BY <1>0, <2>1, TakeParts
  <2>. QED
    BY <2>1, <2>2, LeaveParts DEF LinksTyped
<1>11. ASSUME NEW s \in Sockets, HandleDisconnect(s) PROVE LinksTyped'
  <2>1. up' = up /\ (LeaveDocument(s) \/ down' = down)
    BY <1>11 DEF HandleDisconnect
  <2>. QED
    BY <1>0, <2>1, LeaveParts DEF LinksTyped
<1>12. CASE Persist
  <2>1. up' = up
    BY <1>12 DEF Persist
  <2>. QED
    BY <1>0, <1>12, <2>1, PersistParts DEF LinksTyped
<1>13. CASE Restore
  BY <1>0, <1>13 DEF Restore, linkVars, LinksTyped
<1>14. CASE Restart
  BY <1>0, <1>14, EmptySeq DEF Restart, LinksTyped
<1>15. CASE UNCHANGED vars
  BY <1>0, <1>15 DEF vars, linkVars, LinksTyped
<1>. QED
  BY <1>1, <1>2, <1>3, <1>4, <1>5, <1>6, <1>7, <1>8, <1>9, <1>10, <1>11, <1>12,
     <1>13, <1>14, <1>15 DEF Next

LEMMA ServerStaysTyped == SyncTyped /\ [Next]_vars => ServerTyped'
<1>. SUFFICES ASSUME SyncTyped, [Next]_vars PROVE ServerTyped'
  OBVIOUS
<1>. USE DEF tabVars, linkVars, gateVars, docVars, history
<1>0. TabsTyped /\ LinksTyped /\ ServerTyped
  BY DEF SyncTyped
<1>same. ASSUME UNCHANGED <<joining, room, present, docVars>> PROVE ServerTyped'
  BY <1>0, <1>same DEF ServerTyped
<1>1. ASSUME NEW t \in Tabs, Connect(t) \/ Edit(t) \/ Deliver(t) \/ Drop(t) \/ Unmount(t)
      PROVE  ServerTyped'
  BY <1>1, <1>same DEF Connect, Edit, Deliver, Drop, Unmount
<1>2. ASSUME NEW s \in Sockets, JoinStart(s) PROVE ServerTyped'
  <2>1. NextIs(s, "join") /\ Take(s)
    BY <1>2 DEF JoinStart
  <2>2. Head(up[s]).vector \in SUBSET AnyUpdate
    BY <1>0, <2>1, TakeParts, FrameParts
  <2>3. /\ UNCHANGED <<room, present, docVars>>
        /\ joining' = joining \cup {[socket |-> s, vector |-> Head(up[s]).vector]}
    BY <1>2 DEF JoinStart
  <2>. QED
    BY <1>0, <2>2, <2>3 DEF ServerTyped
<1>3. ASSUME NEW s \in Sockets, JoinRefused(s) PROVE ServerTyped'
  <2>1. UNCHANGED <<room, present, docVars>> /\ joining' \subseteq joining
    BY <1>3 DEF JoinRefused
  <2>. QED
    BY <1>0, <2>1 DEF ServerTyped
<1>4. ASSUME NEW j \in joining, JoinFinish(j) PROVE ServerTyped'
  BY <1>0, <1>4 DEF JoinFinish, AddEditor, ServerTyped
<1>5. ASSUME NEW s \in Sockets, HandleUpdate(s) PROVE ServerTyped'
  <2>1. UNCHANGED <<joining, room, present, saved>>
    BY <1>5 DEF HandleUpdate
  <2>2. \E u \in AnyUpdate : serverDoc' = serverDoc \cup {u}
    BY <1>5, HandleUpdateParts
  <2>. QED
    BY <1>0, <2>1, <2>2 DEF ServerTyped
<1>6. ASSUME NEW s \in Sockets, RejectUpdate(s) PROVE ServerTyped'
  BY <1>6, <1>same DEF RejectUpdate
<1>7. ASSUME NEW s \in Sockets, HandleLeave(s) \/ HandleDisconnect(s) PROVE ServerTyped'
  <2>1. UNCHANGED <<joining, docVars>> /\ room' \subseteq room /\ present' \subseteq present
    BY <1>7 DEF HandleLeave, HandleDisconnect, LeaveDocument, RemoveEditor
  <2>. QED
    BY <1>0, <2>1 DEF ServerTyped
<1>8. CASE Persist
  BY <1>0, <1>8 DEF Persist, ServerTyped
<1>9. CASE Restore
  <2>1. <<Server, edits[Server] + 1>> \in AnyUpdate
    BY <1>0 DEF TabsTyped, AnyUpdate
  <2>2. UNCHANGED <<joining, room, present, saved>>
    BY <1>9 DEF Restore
  <2>3. serverDoc' = serverDoc \cup {<<Server, edits[Server] + 1>>}
    BY <1>9 DEF Restore
  <2>. QED
    BY <1>0, <2>1, <2>2, <2>3 DEF ServerTyped
<1>10. CASE Restart
  BY <1>0, <1>10 DEF Restart, ServerTyped
<1>11. CASE UNCHANGED vars
  BY <1>11, <1>same DEF vars
<1>. QED
  BY <1>1, <1>2, <1>3, <1>4, <1>5, <1>6, <1>7, <1>8, <1>9, <1>10, <1>11 DEF Next

LEMMA StaysTyped == SyncTyped /\ [Next]_vars => SyncTyped'
BY TabsStayTyped, LinksStayTyped, ServerStaysTyped DEF SyncTyped

-----------------------------------------------------------------------------
(* Nothing is lost unnoticed *)

LEMMA NoneAheadStays ==
  ASSUME SyncTyped, NoneAhead, [Next]_vars PROVE NoneAhead'
<1>. USE DEF tabVars, linkVars, gateVars, docVars, history
<1>0. TabsTyped /\ LinksTyped /\ ServerTyped
  BY DEF SyncTyped
<1>1. ASSUME NEW t \in Tabs, Connect(t) PROVE NoneAhead'
  <2>1. /\ connects' = [connects EXCEPT ![t] = @ + 1] /\ UNCHANGED <<room, joining>>
        /\ up' = [up EXCEPT ![<<t, connects[t] + 1>>] = <<[kind |-> "join", vector |-> ydoc[t]]>>]
    BY <1>1 DEF Connect
  <2>2. \A s \in Sockets : Opened(s) => Opened(s)'
    BY <1>0, <2>1, SocketUsers DEF Opened, TabsTyped
  <2>3. \A s \in Sockets : s # <<t, connects[t] + 1>> => up'[s] = up[s]
    BY <1>0, <2>1 DEF LinksTyped
  <2>4. \A s \in Sockets : s = <<t, connects[t] + 1>> => Opened(s)'
    BY <1>0, <2>1 DEF Opened, TabsTyped
  <2>. QED
    BY <1>0, <2>1, <2>2, <2>3, <2>4 DEF NoneAhead, ServerTyped
<1>2. ASSUME NEW t \in Tabs, Edit(t) PROVE NoneAhead'
  <2>1. UNCHANGED <<connects, room, joining>>
    BY <1>2 DEF Edit
  <2>2. \A s \in Sockets : s # Socket(t) => up'[s] = up[s]
    BY <1>2, EditParts
  <2>3. \A s \in Sockets : s = Socket(t) => Opened(s)
    BY <1>0 DEF Opened, Socket, TabsTyped
  <2>. QED
    BY <2>1, <2>2, <2>3 DEF NoneAhead, Opened
<1>3. ASSUME NEW t \in Tabs, Deliver(t) PROVE NoneAhead'
  BY <1>3 DEF Deliver, NoneAhead, Opened
<1>4. ASSUME NEW t \in Tabs, Drop(t) PROVE NoneAhead'
  <2>1. UNCHANGED <<connects, room, joining>>
    BY <1>4 DEF Drop
  <2>2. \A s \in Sockets : up'[s] = up[s] \/ up'[s] = <<>>
    BY <1>0, <1>4 DEF Drop, LinksTyped
  <2>. QED
    BY <2>1, <2>2 DEF NoneAhead, Opened
<1>5. ASSUME NEW t \in Tabs, Unmount(t) PROVE NoneAhead'
  <2>1. UNCHANGED <<connects, room, joining>>
    BY <1>5 DEF Unmount
  <2>2. \A s \in Sockets : s # Socket(t) => up'[s] = up[s]
    BY <1>5, UnmountParts
  <2>3. \A s \in Sockets : s = Socket(t) => Opened(s)
    BY <1>0 DEF Opened, Socket, TabsTyped
  <2>. QED
    BY <2>1, <2>2, <2>3 DEF NoneAhead, Opened
<1>6. ASSUME NEW s \in Sockets, NEW kind, NextIs(s, kind), Take(s), connects' = connects,
             room' \subseteq room,
             \A j \in joining' : j \in joining \/ j.socket = s
      PROVE  NoneAhead'
  <2>1. up[s] # <<>> /\ \A r \in Sockets \ {s} : up'[r] = up[r]
    BY <1>0, <1>6, TakeParts
  <2>2. Opened(s)
    BY <2>1 DEF NoneAhead
  <2>. QED
    BY <1>6, <2>1, <2>2 DEF NoneAhead, Opened
<1>7. ASSUME NEW s \in Sockets, JoinStart(s) PROVE NoneAhead'
  <2>1. /\ NextIs(s, "join") /\ Take(s) /\ UNCHANGED <<connects, room>>
        /\ joining' = joining \cup {[socket |-> s, vector |-> Head(up[s]).vector]}
    BY <1>7 DEF JoinStart
  <2>. QED
    BY <2>1, <1>6
<1>8. ASSUME NEW s \in Sockets, JoinRefused(s) PROVE NoneAhead'
  <2>1. /\ UNCHANGED <<connects, room>> /\ joining' \subseteq joining
        /\ (NextIs(s, "join") /\ Take(s)) \/ up' = up
    BY <1>8 DEF JoinRefused
  <2>2. CASE up' = up
    BY <2>1, <2>2 DEF NoneAhead, Opened
  <2>. QED
    BY <2>1, <2>2, <1>6
<1>9. ASSUME NEW j \in joining, JoinFinish(j) PROVE NoneAhead'
  BY <1>9 DEF JoinFinish, NoneAhead, Opened
<1>10. ASSUME NEW s \in Sockets, HandleUpdate(s) \/ RejectUpdate(s) PROVE NoneAhead'
  <2>1. NextIs(s, "update") /\ Take(s) /\ UNCHANGED <<connects, room, joining>>
    BY <1>10 DEF HandleUpdate, RejectUpdate
  <2>. QED
    BY <2>1, <1>6
<1>11. ASSUME NEW s \in Sockets, HandleLeave(s) PROVE NoneAhead'
  <2>1. NextIs(s, "leave") /\ Take(s) /\ UNCHANGED <<connects, joining>> /\ room' \subseteq room
    BY <1>11 DEF HandleLeave, LeaveDocument
  <2>. QED
    BY <2>1, <1>6
<1>12. ASSUME NEW s \in Sockets, HandleDisconnect(s) PROVE NoneAhead'
  <2>1. UNCHANGED <<connects, joining, up>> /\ room' \subseteq room
    BY <1>12 DEF HandleDisconnect, LeaveDocument
  <2>. QED
    BY <2>1 DEF NoneAhead, Opened
<1>13. CASE Persist \/ Restore \/ UNCHANGED vars
  <2>1. UNCHANGED <<connects, joining, up, room>>
    BY <1>13 DEF Persist, Restore, vars
  <2>. QED
    BY <2>1 DEF NoneAhead, Opened
<1>14. CASE Restart
  BY <1>14 DEF Restart, NoneAhead
<1>. QED
  BY <1>1, <1>2, <1>3, <1>4, <1>5, <1>7, <1>8, <1>9, <1>10, <1>11, <1>12, <1>13, <1>14 DEF Next

LEMMA GoingInFlight ==
  ASSUME LinksTyped, NEW s \in Sockets, NEW x, Going(up[s], x)
  PROVE  x \in InFlight(s)
<1>1. up[s] \in Seq(UpFrame)
  BY DEF LinksTyped
<1>2. PICK i \in 1 .. Len(up[s]) : Carries(up[s][i], x)
  BY DEF Going
<1>3. i \in DOMAIN up[s]
  BY <1>1, <1>2
<1>. QED
  BY <1>2, <1>3 DEF InFlight, Carries

\* Taking a message that is no update, or one whose update is kept account of.
LEMMA TakeKeepsKnown ==
  ASSUME LinksTyped, NEW s \in Sockets, NEW kind, NextIs(s, kind), Take(s), NEW x,
         kind = "update" => Head(up[s]).update \in serverDoc' \cup missed',
         serverDoc \subseteq serverDoc', missed \subseteq missed', Known(x)
  PROVE  Known(x)'
<1>1. /\ up[s] # <<>> /\ up[s] \in Seq(UpFrame) /\ Head(up[s]).kind = kind
      /\ up'[s] = Tail(up[s])
      /\ \A r \in Sockets \ {s} : up'[r] = up[r]
  BY TakeParts
<1>2. Going(up[s], x) => Carries(Head(up[s]), x) \/ Going(Tail(up[s]), x)
  BY <1>1, GoingTail
<1>3. Going(up[s], x) => x \in serverDoc' \cup missed' \/ Going(up'[s], x)
  BY <1>1, <1>2 DEF Carries
<1>. QED
  BY <1>1, <1>3 DEF Known

LEMMA KnownStays ==
  ASSUME SyncTyped, NoneAhead, [Next]_vars, NEW x, Known(x) PROVE Known(x)'
<1>. USE DEF tabVars, linkVars, gateVars, docVars, history
<1>0. TabsTyped /\ LinksTyped /\ ServerTyped
  BY DEF SyncTyped
<1>same. ASSUME UNCHANGED <<up, missed>>, serverDoc \subseteq serverDoc' PROVE Known(x)'
  BY <1>same DEF Known
<1>1. ASSUME NEW t \in Tabs, Connect(t) PROVE Known(x)'
  <2>1. /\ up' = [up EXCEPT ![<<t, connects[t] + 1>>] = <<[kind |-> "join", vector |-> ydoc[t]]>>]
        /\ UNCHANGED <<serverDoc, missed>>
    BY <1>1 DEF Connect
  <2>2. ~Opened(<<t, connects[t] + 1>>)
    BY <1>0 DEF Opened, TabsTyped
  <2>3. \A s \in Sockets : up'[s] = up[s] \/ up[s] = <<>>
    BY <1>0, <2>1, <2>2 DEF NoneAhead, LinksTyped
  <2>4. ~Going(<<>>, x)
    BY DEF Going
  <2>. QED
    BY <2>1, <2>3, <2>4 DEF Known
<1>2. ASSUME NEW t \in Tabs, Edit(t) PROVE Known(x)'
  <2>. DEFINE m == [kind |-> "update", update |-> Typed(t)]
  <2>1. serverDoc' = serverDoc
    BY <1>2 DEF Edit
  <2>2. /\ m \in UpFrame /\ missed \subseteq missed'
        /\ \A s \in Sockets : up'[s] = up[s] \/ up'[s] = Append(up[s], m)
    BY <1>2, EditParts
  <2>. HIDE DEF m
  <2>3. \A s \in Sockets : Going(up[s], x) => Going(Append(up[s], m), x)
    BY <1>0, <2>2, GoingAppend DEF LinksTyped
  <2>. QED
    BY <2>1, <2>2, <2>3 DEF Known
<1>3. ASSUME NEW t \in Tabs, Deliver(t) PROVE Known(x)'
  BY <1>3, <1>same DEF Deliver
<1>4. ASSUME NEW t \in Tabs, Drop(t) PROVE Known(x)'
  <2>1. /\ serverDoc' = serverDoc /\ missed' = missed \cup InFlight(Socket(t))
        /\ up' = [up EXCEPT ![Socket(t)] = <<>>] /\ t \in online
    BY <1>4 DEF Drop
  <2>2. Socket(t) \in Sockets /\ \A r \in Sockets \ {Socket(t)} : up'[r] = up[r]
    BY <1>0, <2>1 DEF TabsTyped, LinksTyped
  <2>3. Going(up[Socket(t)], x) => x \in missed'
    BY <1>0, <2>1, <2>2, GoingInFlight
  <2>. QED
    BY <2>1, <2>2, <2>3 DEF Known
<1>5. ASSUME NEW t \in Tabs, Unmount(t) PROVE Known(x)'
  <2>. DEFINE m == [kind |-> "leave"]
  <2>1. UNCHANGED <<serverDoc, missed>>
    BY <1>5 DEF Unmount
  <2>2. /\ m \in UpFrame
        /\ \A s \in Sockets : up'[s] = up[s] \/ up'[s] = Append(up[s], m)
    BY <1>5, UnmountParts
  <2>. HIDE DEF m
  <2>3. \A s \in Sockets : Going(up[s], x) => Going(Append(up[s], m), x)
    BY <1>0, <2>2, GoingAppend DEF LinksTyped
  <2>. QED
    BY <2>1, <2>2, <2>3 DEF Known
<1>6. ASSUME NEW s \in Sockets, JoinStart(s) PROVE Known(x)'
  <2>1. NextIs(s, "join") /\ Take(s) /\ UNCHANGED <<serverDoc, missed>>
    BY <1>6 DEF JoinStart
  <2>. QED
    BY <1>0, <2>1, TakeKeepsKnown
<1>7. ASSUME NEW s \in Sockets, JoinRefused(s) PROVE Known(x)'
  <2>1. /\ (NextIs(s, "join") /\ Take(s)) \/ up' = up
        /\ UNCHANGED <<serverDoc, missed>>
    BY <1>7 DEF JoinRefused
  <2>2. CASE up' = up
    BY <1>same, <2>1, <2>2
  <2>. QED
    BY <1>0, <2>1, <2>2, TakeKeepsKnown
<1>8. ASSUME NEW j \in joining, JoinFinish(j) PROVE Known(x)'
  BY <1>8, <1>same DEF JoinFinish
<1>9. ASSUME NEW s \in Sockets, HandleUpdate(s) PROVE Known(x)'
  <2>1. /\ NextIs(s, "update") /\ Take(s) /\ missed' = missed
        /\ serverDoc' = serverDoc \cup {Head(up[s]).update}
    BY <1>9 DEF HandleUpdate
  <2>. QED
    BY <1>0, <2>1, TakeKeepsKnown
<1>10. ASSUME NEW s \in Sockets, RejectUpdate(s) PROVE Known(x)'
  <2>1. /\ NextIs(s, "update") /\ Take(s) /\ serverDoc' = serverDoc
        /\ missed' = missed \cup {Head(up[s]).update}
    BY <1>10 DEF RejectUpdate
  <2>. QED
    BY <1>0, <2>1, TakeKeepsKnown
<1>11. ASSUME NEW s \in Sockets, HandleLeave(s) PROVE Known(x)'
  <2>1. NextIs(s, "leave") /\ Take(s) /\ UNCHANGED <<serverDoc, missed>>
    BY <1>11 DEF HandleLeave
  <2>. QED
    BY <1>0, <2>1, TakeKeepsKnown
<1>12. ASSUME NEW s \in Sockets, HandleDisconnect(s) PROVE Known(x)'
  BY <1>12, <1>same DEF HandleDisconnect
<1>13. CASE Persist
  BY <1>13, <1>same DEF Persist
<1>14. CASE Restore
  <2>1. UNCHANGED <<up, missed>> /\ serverDoc \subseteq serverDoc'
    BY <1>14 DEF Restore
  <2>. QED
    BY <2>1, <1>same
<1>15. CASE Restart
  <2>1. /\ serverDoc' = saved
        /\ missed' = missed \cup (serverDoc \ saved) \cup UNION {InFlight(s) : s \in Sockets}
    BY <1>15 DEF Restart
  <2>2. ASSUME NEW s \in Sockets, Going(up[s], x) PROVE x \in missed'
    <3>1. x \in InFlight(s)
      BY <1>0, <2>2, GoingInFlight
    <3>. QED
      BY <2>1, <3>1
  <2>. QED
    BY <2>1, <2>2 DEF Known
<1>16. CASE UNCHANGED vars
  BY <1>16, <1>same DEF vars
<1>. QED
  BY <1>1, <1>2, <1>3, <1>4, <1>5, <1>6, <1>7, <1>8, <1>9, <1>10, <1>11, <1>12,
     <1>13, <1>14, <1>15, <1>16 DEF Next

\* Links that bring nothing new: each is as before, shorter or emptied, or got
\* a frame that brings only updates accounted for.
LEMMA NothingNew ==
  ASSUME SyncTyped, NoneAhead, AllKnown, [Next]_vars,
         \A t \in Tabs : \A x \in ydoc'[t] : x \in ydoc[t] \/ Known(x)',
         \A s \in Sockets : \A x : Coming(down'[s], x) => Coming(down[s], x) \/ Known(x)'
  PROVE  AllKnown'
<1>1. \A x : Known(x) => Known(x)'
  BY KnownStays
<1>. QED
  BY <1>1 DEF AllKnown

\* A link that a frame was written to, or not.
LEMMA WrittenLink ==
  ASSUME LinksTyped, NEW s \in Sockets, NEW m \in DownFrame, NEW x,
         down'[s] = down[s] \/ down'[s] = Append(down[s], m)
  PROVE  /\ Coming(down'[s], x) => Coming(down[s], x) \/ Brings(m, x)
         /\ Coming(down[s], x) => Coming(down'[s], x)
<1>1. Coming(Append(down[s], m), x) <=> Coming(down[s], x) \/ Brings(m, x)
  BY ComingAppend DEF LinksTyped
<1>. QED
  BY <1>1

LEMMA AllKnownStays ==
  ASSUME SyncTyped, NoneAhead, AllKnown, [Next]_vars PROVE AllKnown'
<1>. USE DEF tabVars, linkVars, gateVars, docVars, history
<1>0. TabsTyped /\ LinksTyped /\ ServerTyped
  BY DEF SyncTyped
<1>same. ASSUME UNCHANGED <<ydoc, down>> PROVE AllKnown'
  BY <1>same, NothingNew
<1>1. ASSUME NEW t \in Tabs, Connect(t) PROVE AllKnown'
  BY <1>1, <1>same DEF Connect
<1>2. ASSUME NEW t \in Tabs, Edit(t) PROVE AllKnown'
  <2>. DEFINE u == Typed(t)
              m == [kind |-> "update", update |-> u]
  <2>1. down' = down
    BY <1>2 DEF Edit
  <2>2. /\ m \in UpFrame
        /\ t \in online => Socket(t) \in Sockets /\ up'[Socket(t)] = Append(up[Socket(t)], m)
        /\ t \notin online => missed' = missed \cup {u}
        /\ ydoc'[t] = ydoc[t] \cup {u}
        /\ \A r \in Tabs \ {t} : ydoc'[r] = ydoc[r]
    BY <1>2, EditParts
  <2>3. Carries(m, u)
    BY DEF Carries
  <2>. HIDE DEF m, u
  <2>4. t \in online => Going(Append(up[Socket(t)], m), u)
    BY <1>0, <2>2, <2>3, GoingAppend DEF LinksTyped
  <2>5. \A x : x = u => Known(x)'
    BY <2>2, <2>4 DEF Known
  <2>. QED
    BY <2>1, <2>2, <2>5, NothingNew
<1>3. ASSUME NEW t \in Tabs, Deliver(t) PROVE AllKnown'
  <2>. DEFINE s == Socket(t)
              m == Head(down[s])
  <2>1. /\ s \in Sockets /\ down[s] # <<>> /\ down[s] \in Seq(DownFrame)
        /\ down'[s] = Tail(down[s])
        /\ \A r \in Sockets \ {s} : down'[r] = down[r]
    BY <1>0, <1>3, DeliverParts
  <2>2. /\ \A x : x \in ydoc'[t] <=> x \in ydoc[t] \/ Brings(m, x)
        /\ \A r \in Tabs \ {t} : ydoc'[r] = ydoc[r]
    BY <1>0, <1>3, DeliverMerges
  <2>3. \A x : Coming(down[s], x) <=> Brings(m, x) \/ Coming(Tail(down[s]), x)
    BY <2>1, ComingTail
  <2>. HIDE DEF s, m
  <2>4. \A x : Brings(m, x) => Known(x)
    BY <2>1, <2>3 DEF AllKnown
  <2>5. \A x : Brings(m, x) => Known(x)'
    BY <2>4, KnownStays
  <2>6. \A r \in Sockets : \A x : Coming(down'[r], x) => Coming(down[r], x)
    BY <2>1, <2>3
  <2>7. \A r \in Tabs : \A x \in ydoc'[r] : x \in ydoc[r] \/ Known(x)'
    BY <2>2, <2>5
  <2>. QED
    BY <2>6, <2>7, NothingNew
<1>4. ASSUME NEW t \in Tabs, Drop(t) \/ Unmount(t) PROVE AllKnown'
  <2>1. \A r \in Sockets : down'[r] = down[r] \/ down'[r] = <<>>
    <3>1. CASE Drop(t)
      BY <1>0, <3>1 DEF Drop, LinksTyped
    <3>2. CASE Unmount(t)
      BY <3>2, UnmountParts
    <3>. QED
      BY <1>4, <3>1, <3>2
  <2>2. \A r \in Tabs : ydoc'[r] = ydoc[r] \/ ydoc'[r] = {}
    <3>1. CASE Drop(t)
      BY <3>1 DEF Drop
    <3>2. CASE Unmount(t)
      BY <1>0, <3>2 DEF Unmount, TabsTyped
    <3>. QED
      BY <1>4, <3>1, <3>2
  <2>3. \A x : ~Coming(<<>>, x)
    BY DEF Coming
  <2>. QED
    BY <2>1, <2>2, <2>3, NothingNew
<1>5. ASSUME NEW s \in Sockets, JoinStart(s) \/ JoinRefused(s) \/ RejectUpdate(s) PROVE AllKnown'
  BY <1>5, <1>same DEF JoinStart, JoinRefused, RejectUpdate
<1>6. ASSUME NEW j \in joining, JoinFinish(j) PROVE AllKnown'
  <2>. DEFINE s == j.socket
              joined == [kind |-> "joined", state |-> EncodeDiff(j.vector),
                         editors |-> GetEditors(present')]
              news == [kind |-> "editor-joined", user |-> UserAt(s)]
  <2>1. /\ s \in Sockets /\ joined \in DownFrame /\ news \in DownFrame
        /\ down'[s] = Append(down[s], joined) \/ down'[s] = down[s]
        /\ \A r \in Sockets \ {s} : down'[r] = Append(down[r], news) \/ down'[r] = down[r]
    BY <1>6, JoinFinishParts
  <2>2. \A x : ~Brings(news, x) /\ (Brings(joined, x) => x \in serverDoc)
    BY DEF Brings, EncodeDiff
  <2>3. UNCHANGED <<ydoc, serverDoc>>
    BY <1>6 DEF JoinFinish
  <2>4. \A x : x \in serverDoc => Known(x)'
    BY <2>3 DEF Known
  <2>. HIDE DEF s, joined, news
  <2>5. \A r \in Sockets : \A x : Coming(down'[r], x) => Coming(down[r], x) \/ x \in serverDoc
    BY <1>0, <2>1, <2>2, WrittenLink
  <2>. QED
    BY <2>3, <2>4, <2>5, NothingNew
<1>7. ASSUME NEW s \in Sockets, HandleUpdate(s) PROVE AllKnown'
  <2>. DEFINE u == Head(up[s]).update
              relay == [kind |-> "update", state |-> {u}]
  <2>1. /\ relay \in DownFrame /\ serverDoc' = serverDoc \cup {u}
        /\ \A r \in Sockets : down'[r] = Append(down[r], relay) \/ down'[r] = down[r]
    BY <1>7, HandleUpdateParts
  <2>2. \A x : Brings(relay, x) => x = u
    BY DEF Brings
  <2>3. UNCHANGED ydoc
    BY <1>7 DEF HandleUpdate
  <2>. HIDE DEF u, relay
  <2>4. \A x : x = u => Known(x)'
    BY <2>1 DEF Known
  <2>5. \A r \in Sockets : \A x : Coming(down'[r], x) => Coming(down[r], x) \/ Known(x)'
    BY <1>0, <2>1, <2>2, <2>4, WrittenLink
  <2>. QED
    BY <2>3, <2>5, NothingNew
<1>8. ASSUME NEW s \in Sockets, LeaveDocument(s), UNCHANGED ydoc PROVE AllKnown'
  <2>. DEFINE left == [kind |-> "editor-left", user |-> UserAt(s)]
  <2>1. /\ left \in DownFrame
        /\ \A r \in Sockets : down'[r] = Append(down[r], left) \/ down'[r] = down[r]
    BY <1>8, LeaveParts
  <2>2. \A x : ~Brings(left, x)
    BY DEF Brings
  <2>. HIDE DEF left
  <2>3. \A r \in Sockets : \A x : Coming(down'[r], x) => Coming(down[r], x)
    BY <1>0, <2>1, <2>2, WrittenLink
  <2>. QED
    BY <1>8, <2>3, NothingNew
<1>9. ASSUME NEW s \in Sockets, HandleLeave(s) PROVE AllKnown'
  BY <1>8, <1>9 DEF HandleLeave
<1>10. ASSUME NEW s \in Sockets, HandleDisconnect(s) PROVE AllKnown'
  BY <1>8, <1>10, <1>same DEF HandleDisconnect
<1>11. CASE Persist
  <2>. DEFINE all == [kind |-> "update", state |-> serverDoc]
  <2>1. /\ all \in DownFrame
        /\ \A r \in Sockets : down'[r] = Append(down[r], all) \/ down'[r] = down[r]
    BY <1>11, PersistParts
  <2>2. \A x : Brings(all, x) => x \in serverDoc
    BY DEF Brings
  <2>3. UNCHANGED <<ydoc, serverDoc>>
    BY <1>11 DEF Persist
  <2>. HIDE DEF all
  <2>4. \A x : x \in serverDoc => Known(x)'
    BY <2>3 DEF Known
  <2>5. \A r \in Sockets : \A x : Coming(down'[r], x) => Coming(down[r], x) \/ Known(x)'
    BY <1>0, <2>1, <2>2, <2>4, WrittenLink
  <2>. QED
    BY <2>3, <2>5, NothingNew
<1>12. CASE Restore
  BY <1>12, <1>same DEF Restore
<1>13. CASE Restart
  <2>1. ydoc' = ydoc /\ \A s \in Sockets : down'[s] = <<>>
    BY <1>13 DEF Restart
  <2>2. \A x : ~Coming(<<>>, x)
    BY DEF Coming
  <2>. QED
    BY <2>1, <2>2, NothingNew
<1>14. CASE UNCHANGED vars
  BY <1>14, <1>same DEF vars
<1>. QED
  BY <1>1, <1>2, <1>3, <1>4, <1>5, <1>6, <1>7, <1>9, <1>10, <1>11, <1>12, <1>13, <1>14 DEF Next

-----------------------------------------------------------------------------
(* What a tab has sent it has *)

\* What is on an open connection, or joining on it, was there before.
LEMMA SentBefore ==
  ASSUME NEW t, TabSent(t), Socket(t)' = Socket(t), ydoc[t] \subseteq ydoc'[t],
         \A i \in 1 .. Len(up'[Socket(t)]) :
            \/ \E k \in 1 .. Len(up[Socket(t)]) : up'[Socket(t)][i] = up[Socket(t)][k]
            \/ Sends(up'[Socket(t)][i], ydoc'[t]),
         \A j \in joining' : j.socket = Socket(t) =>
            j \in joining \/ j.vector \subseteq ydoc'[t]
  PROVE  TabSent(t)'
<1>1. \A i \in 1 .. Len(up'[Socket(t)]) : Sends(up'[Socket(t)][i], ydoc'[t])
  <2>. TAKE i \in 1 .. Len(up'[Socket(t)])
  <2>1. ASSUME NEW k \in 1 .. Len(up[Socket(t)]), up'[Socket(t)][i] = up[Socket(t)][k]
        PROVE  Sends(up'[Socket(t)][i], ydoc'[t])
    <3>1. Sends(up[Socket(t)][k], ydoc[t])
      BY DEF TabSent
    <3>. QED
      BY <2>1, <3>1 DEF Sends
  <2>. QED
    BY <2>1
<1>2. \A j \in joining' : j.socket = Socket(t) => j.vector \subseteq ydoc'[t]
  BY DEF TabSent
<1>. QED
  BY <1>1, <1>2 DEF TabSent

\* The server takes a message, or starts, refuses or finishes a join.
LEMMA SentTaken ==
  ASSUME SyncTyped, OwnSent, UNCHANGED tabVars,
         \/ up' = up
         \/ \E s \in Sockets : up[s] # <<>> /\ Take(s),
         \A j \in joining' :
            \/ j \in joining
            \/ /\ j.socket \in Sockets /\ up[j.socket] # <<>>
               /\ Head(up[j.socket]).kind = "join" /\ j.vector = Head(up[j.socket]).vector
  PROVE  OwnSent'
<1>0. TabsTyped /\ LinksTyped
  BY DEF SyncTyped
<1>. SUFFICES ASSUME NEW t \in online PROVE TabSent(t)'
  BY DEF OwnSent, tabVars
<1>1. Socket(t) \in Sockets /\ Socket(t)' = Socket(t) /\ ydoc' = ydoc /\ TabSent(t)
  BY <1>0 DEF TabsTyped, tabVars, Socket, OwnSent
<1>. DEFINE q == up[Socket(t)]
<1>2. q \in Seq(UpFrame)
  BY <1>0, <1>1 DEF LinksTyped
<1>3. up'[Socket(t)] = q \/ (q # <<>> /\ up'[Socket(t)] = Tail(q))
  BY <1>0, <1>1 DEF Take, LinksTyped
<1>4. \A i \in 1 .. Len(up'[Socket(t)]) : \E k \in 1 .. Len(q) : up'[Socket(t)][i] = q[k]
  <2>1. CASE up'[Socket(t)] = q
    BY <1>2, <2>1
  <2>2. CASE q # <<>> /\ up'[Socket(t)] = Tail(q)
    <3>1. /\ Len(q) \in Nat \ {0} /\ Len(Tail(q)) = Len(q) - 1
          /\ \A i \in 1 .. Len(q) - 1 : Tail(q)[i] = q[i + 1]
      BY <1>2, <2>2, TailParts
    <3>2. ASSUME NEW i \in 1 .. Len(q) - 1 PROVE i + 1 \in 1 .. Len(q) /\ Tail(q)[i] = q[i + 1]
      BY <3>1, <3>2
    <3>. QED
      BY <2>2, <3>1, <3>2
  <2>. QED
    BY <1>3, <2>1, <2>2
<1>5. ASSUME NEW j \in joining', j.socket = Socket(t), j \notin joining
      PROVE  j.vector \subseteq ydoc'[t]
  <2>1. q # <<>> /\ Head(q).kind = "join" /\ j.vector = Head(q).vector
    BY <1>5
  <2>2. 1 \in 1 .. Len(q) /\ Head(q) = q[1]
    BY <1>2, <2>1, TailParts
  <2>. QED
    BY <1>1, <2>1, <2>2 DEF TabSent, Sends
<1>. QED
  BY <1>1, <1>4, <1>5, SentBefore

\* A tab appends to its own connection.
LEMMA SentAppended ==
  ASSUME SyncTyped, NEW t \in online, NEW m \in UpFrame, TabSent(t), Sends(m, ydoc'[t]),
         Socket(t)' = Socket(t), ydoc[t] \subseteq ydoc'[t], joining' = joining,
         up'[Socket(t)] = up[Socket(t)] \/ up'[Socket(t)] = Append(up[Socket(t)], m)
  PROVE  TabSent(t)'
<1>. DEFINE q == up[Socket(t)]
<1>1. q \in Seq(UpFrame)
  BY DEF SyncTyped, TabsTyped, LinksTyped
<1>2. /\ Len(Append(q, m)) = Len(q) + 1 /\ Len(q) \in Nat
      /\ \A i \in 1 .. Len(q) : Append(q, m)[i] = q[i]
      /\ Append(q, m)[Len(q) + 1] = m
  BY <1>1, AppendParts
<1>3. up'[Socket(t)] = q \/ up'[Socket(t)] = Append(q, m)
  OBVIOUS
<1>. HIDE DEF q
<1>4. ASSUME NEW i \in 1 .. Len(up'[Socket(t)])
      PROVE  (\E k \in 1 .. Len(q) : up'[Socket(t)][i] = q[k]) \/ up'[Socket(t)][i] = m
  BY <1>2, <1>3
<1>. QED
  BY <1>4, SentBefore DEF q

LEMMA OwnSentStays ==
  ASSUME SyncTyped, NoneAhead, OwnSent, [Next]_vars PROVE OwnSent'
<1>0. TabsTyped /\ LinksTyped /\ ServerTyped
  BY DEF SyncTyped
<1>1. ASSUME NEW t \in Tabs, Connect(t) PROVE OwnSent'
  <2>. DEFINE n == <<t, connects[t] + 1>>
              m == [kind |-> "join", vector |-> ydoc[t]]
  <2>1. /\ connects' = [connects EXCEPT ![t] = @ + 1] /\ online' = online \cup {t}
        /\ up' = [up EXCEPT ![n] = <<m>>] /\ UNCHANGED <<ydoc, joining>>
        /\ t \notin online /\ n \in Sockets
    BY <1>1 DEF Connect, MayConnect
  <2>2. \A r \in Tabs : Socket(r)' = IF r = t THEN n ELSE Socket(r)
    BY <1>0, <2>1 DEF Socket, TabsTyped
  <2>3. \A j \in joining : j.socket # n
    <3>1. ~Opened(n)
      BY <1>0 DEF Opened, TabsTyped
    <3>. QED
      BY <3>1 DEF NoneAhead
  <2>4. TabSent(t)'
    <3>1. up'[n] = <<m>> /\ Sends(m, ydoc[t])
      BY <1>0, <2>1 DEF LinksTyped, Sends
    <3>2. Socket(t)' = n
      BY <2>2
    <3>3. \A i \in 1 .. Len(<<m>>) : <<m>>[i] = m
      OBVIOUS
    <3>. QED
      BY <2>1, <2>3, <3>1, <3>2, <3>3 DEF TabSent
  <2>5. ASSUME NEW r \in online PROVE TabSent(r)'
    <3>1. r \in Tabs /\ r # t /\ TabSent(r) /\ Socket(r) \in Sockets /\ Socket(r)' = Socket(r)
      BY <1>0, <2>1, <2>2 DEF OwnSent, TabsTyped
    <3>2. Socket(r) # n
      BY <3>1 DEF Socket
    <3>3. up'[Socket(r)] = up[Socket(r)]
      BY <1>0, <2>1, <3>1, <3>2 DEF LinksTyped
    <3>. QED
      BY <2>1, <3>1, <3>3 DEF TabSent
  <2>. QED
    BY <2>1, <2>4, <2>5 DEF OwnSent
<1>2. ASSUME NEW t \in Tabs, Edit(t) PROVE OwnSent'
  <2>. DEFINE m == [kind |-> "update", update |-> Typed(t)]
  <2>1. UNCHANGED <<connects, online, joining>>
    BY <1>2 DEF Edit, gateVars
  <2>2. /\ m \in UpFrame /\ ydoc'[t] = ydoc[t] \cup {Typed(t)}
        /\ \A r \in Tabs \ {t} : ydoc'[r] = ydoc[r]
        /\ \A s \in Sockets : up'[s] = IF t \in online /\ s = Socket(t)
                                       THEN Append(up[s], m) ELSE up[s]
    BY <1>2, EditParts
  <2>3. Sends(m, ydoc'[t])
    BY <2>2 DEF Sends
  <2>. HIDE DEF m
  <2>4. ASSUME NEW r \in online PROVE TabSent(r)'
    <3>1. r \in Tabs /\ TabSent(r) /\ Socket(r) \in Sockets /\ Socket(r)' = Socket(r)
      BY <1>0, <2>1 DEF OwnSent, TabsTyped, Socket
    <3>2. CASE r = t
      BY <2>1, <2>2, <2>3, <3>1, <3>2, SentAppended
    <3>3. CASE r # t
      <4>1. Socket(r) # Socket(t)
        BY <3>3 DEF Socket
      <4>2. up'[Socket(r)] = up[Socket(r)] /\ ydoc'[r] = ydoc[r]
        BY <2>2, <3>1, <3>3, <4>1
      <4>. QED
        BY <2>1, <3>1, <4>2 DEF TabSent
    <3>. QED
      BY <3>2, <3>3
  <2>. QED
    BY <2>1, <2>4 DEF OwnSent
<1>3. ASSUME NEW t \in Tabs, Deliver(t) PROVE OwnSent'
  <2>1. UNCHANGED <<connects, online, joining, up>>
    BY <1>3 DEF Deliver, gateVars
  <2>2. \A r \in Tabs : ydoc[r] \subseteq ydoc'[r]
    BY <1>0, <1>3, DeliverMerges
  <2>3. ASSUME NEW r \in online PROVE TabSent(r)'
    <3>1. r \in Tabs /\ TabSent(r) /\ Socket(r)' = Socket(r)
      BY <1>0, <2>1 DEF OwnSent, TabsTyped, Socket
    <3>. QED
      BY <2>1, <2>2, <3>1, SentBefore
  <2>. QED
    BY <2>1, <2>3 DEF OwnSent
<1>4. ASSUME NEW t \in Tabs, Drop(t) \/ Unmount(t) PROVE OwnSent'
  <2>1. UNCHANGED <<connects, joining>> /\ online' = online \ {t}
    BY <1>4 DEF Drop, Unmount, gateVars
  <2>2. ASSUME NEW r \in online', NEW s \in Sockets, s = Socket(r)
        PROVE  up'[s] = up[s] /\ ydoc'[r] = ydoc[r]
    <3>1. r # t /\ r \in Tabs /\ s # Socket(t)
      BY <1>0, <2>1, <2>2 DEF Socket, TabsTyped
    <3>2. CASE Drop(t)
      BY <1>0, <3>1, <3>2 DEF Drop, LinksTyped
    <3>3. CASE Unmount(t)
      <4>1. up'[s] = up[s]
        BY <3>1, <3>3, UnmountParts
      <4>2. ydoc' = [ydoc EXCEPT ![t] = {}]
        BY <3>3 DEF Unmount
      <4>. QED
        BY <1>0, <3>1, <4>1, <4>2 DEF TabsTyped
    <3>. QED
      BY <1>4, <3>2, <3>3
  <2>3. ASSUME NEW r \in online' PROVE TabSent(r)'
    <3>1. TabSent(r) /\ Socket(r) \in Sockets /\ Socket(r)' = Socket(r)
      BY <1>0, <2>1 DEF OwnSent, TabsTyped, Socket
    <3>. QED
      BY <2>1, <2>2, <3>1 DEF TabSent
  <2>. QED
    BY <2>3 DEF OwnSent
<1>5. ASSUME NEW s \in Sockets, JoinStart(s) PROVE OwnSent'
  <2>1. /\ up[s] # <<>> /\ Head(up[s]).kind = "join" /\ Take(s) /\ UNCHANGED tabVars
        /\ joining' = joining \cup {[socket |-> s, vector |-> Head(up[s]).vector]}
    BY <1>5 DEF JoinStart, NextIs
  <2>. QED
    BY <2>1, SentTaken
<1>6. ASSUME NEW s \in Sockets, JoinRefused(s) PROVE OwnSent'
  <2>1. /\ (up[s] # <<>> /\ Take(s)) \/ up' = up
        /\ UNCHANGED tabVars /\ joining' \subseteq joining
    BY <1>6 DEF JoinRefused, NextIs
  <2>. QED
    BY <2>1, SentTaken
<1>7. ASSUME NEW j \in joining, JoinFinish(j) PROVE OwnSent'
  BY <1>7, SentTaken DEF JoinFinish
<1>8. ASSUME NEW s \in Sockets, HandleUpdate(s) \/ RejectUpdate(s) \/ HandleLeave(s) PROVE OwnSent'
  <2>1. up[s] # <<>> /\ Take(s) /\ UNCHANGED <<tabVars, joining>>
    BY <1>8 DEF HandleUpdate, RejectUpdate, HandleLeave, NextIs, gateVars
  <2>. QED
    BY <2>1, SentTaken
<1>9. ASSUME NEW s \in Sockets, HandleDisconnect(s) PROVE OwnSent'
  BY <1>9, SentTaken DEF HandleDisconnect
<1>10. CASE Persist
  <2>1. UNCHANGED <<tabVars, up, joining>>
    BY <1>10 DEF Persist, gateVars
  <2>. QED
    BY <2>1, SentTaken
<1>11. CASE Restore
  BY <1>11 DEF Restore, OwnSent, TabSent, Socket, gateVars, linkVars
<1>12. CASE Restart
  BY <1>12 DEF Restart, OwnSent
<1>13. CASE UNCHANGED vars
  BY <1>13 DEF vars, tabVars, linkVars, gateVars, OwnSent, TabSent, Socket
<1>. QED
  BY <1>1, <1>2, <1>3, <1>4, <1>5, <1>6, <1>7, <1>8, <1>9, <1>10, <1>11, <1>12, <1>13 DEF Next

-----------------------------------------------------------------------------
(* A tab in the room gets what is saved *)

\* What was coming has arrived or still comes, and nothing else was saved.
LEMMA StillGets ==
  ASSUME NEW t, TabGets(t), Socket(t)' = Socket(t),
         Socket(t) \in room' => Socket(t) \in room, saved' = saved,
         ydoc[t] \subseteq ydoc'[t],
         \A x : Coming(down[Socket(t)], x) => x \in ydoc'[t] \/ Coming(down'[Socket(t)], x)
  PROVE  TabGets(t)'
BY DEF TabGets

\* The server writes frames and nothing else happens to the tabs.
LEMMA GetsWritten ==
  ASSUME SyncTyped, GetsSaved, UNCHANGED tabVars, NEW m \in DownFrame,
         \A s \in Sockets : down'[s] = down[s] \/ down'[s] = Append(down[s], m),
         room' \subseteq room, saved' = saved
  PROVE  GetsSaved'
<1>. SUFFICES ASSUME NEW t \in online PROVE TabGets(t)'
  BY DEF GetsSaved, tabVars
<1>1. LinksTyped /\ Socket(t) \in Sockets /\ Socket(t)' = Socket(t) /\ ydoc' = ydoc /\ TabGets(t)
  BY DEF SyncTyped, TabsTyped, tabVars, Socket, GetsSaved
<1>2. \A x : Coming(down[Socket(t)], x) => Coming(down'[Socket(t)], x)
  BY <1>1, WrittenLink
<1>. QED
  BY <1>1, <1>2, StillGets

\* Links, room and saved state stay as they are, and the tabs lose nothing.
LEMMA GetsUntouched ==
  ASSUME TabsTyped, GetsSaved, UNCHANGED <<connects, down>>, online' \subseteq online,
         \A t \in Tabs : ydoc[t] \subseteq ydoc'[t], room' \subseteq room, saved' = saved
  PROVE  GetsSaved'
<1>. SUFFICES ASSUME NEW t \in online PROVE TabGets(t)'
  BY DEF GetsSaved
<1>1. Socket(t)' = Socket(t) /\ t \in Tabs /\ TabGets(t)
  BY DEF TabsTyped, Socket, GetsSaved
<1>. QED
  BY <1>1, StillGets

LEMMA GetsSavedStays ==
  ASSUME SyncTyped, NoneAhead, OwnSent, GetsSaved, [Next]_vars PROVE GetsSaved'
<1>. USE DEF tabVars, linkVars, gateVars, docVars, history
<1>0. TabsTyped /\ LinksTyped /\ ServerTyped
  BY DEF SyncTyped
<1>1. ASSUME NEW t \in Tabs, Connect(t) PROVE GetsSaved'
  <2>. DEFINE n == <<t, connects[t] + 1>>
  <2>1. /\ connects' = [connects EXCEPT ![t] = @ + 1] /\ online' = online \cup {t}
        /\ UNCHANGED <<ydoc, down, room, saved>> /\ t \notin online
    BY <1>1 DEF Connect, MayConnect
  <2>2. \A r \in Tabs : Socket(r)' = IF r = t THEN n ELSE Socket(r)
    BY <1>0, <2>1 DEF Socket, TabsTyped
  <2>3. n \notin room
    <3>1. ~Opened(n)
      BY <1>0 DEF Opened, TabsTyped
    <3>. QED
      BY <3>1 DEF NoneAhead
  <2>4. TabGets(t)'
    BY <2>1, <2>2, <2>3 DEF TabGets
  <2>5. ASSUME NEW r \in online PROVE TabGets(r)'
    <3>1. Socket(r)' = Socket(r) /\ TabGets(r)
      BY <1>0, <2>1, <2>2 DEF GetsSaved, TabsTyped
    <3>. QED
      BY <2>1, <3>1, StillGets
  <2>. QED
    BY <2>1, <2>4, <2>5 DEF GetsSaved
<1>2. ASSUME NEW t \in Tabs, Edit(t) PROVE GetsSaved'
  <2>1. UNCHANGED <<connects, online, down, room, saved>>
    BY <1>2 DEF Edit
  <2>2. \A r \in Tabs : ydoc[r] \subseteq ydoc'[r]
    BY <1>2, EditParts
  <2>. QED
    BY <1>0, <2>1, <2>2, GetsUntouched
<1>3. ASSUME NEW t \in Tabs, Deliver(t) PROVE GetsSaved'
  <2>. DEFINE s == Socket(t)
              m == Head(down[s])
  <2>1. /\ s \in Sockets /\ down[s] # <<>> /\ down[s] \in Seq(DownFrame)
        /\ down'[s] = Tail(down[s])
        /\ \A r \in Sockets \ {s} : down'[r] = down[r]
    BY <1>0, <1>3, DeliverParts
  <2>2. /\ \A x : x \in ydoc'[t] <=> x \in ydoc[t] \/ Brings(m, x)
        /\ \A r \in Tabs \ {t} : ydoc'[r] = ydoc[r]
    BY <1>0, <1>3, DeliverMerges
  <2>3. \A x : Coming(down[s], x) <=> Brings(m, x) \/ Coming(Tail(down[s]), x)
    BY <2>1, ComingTail
  <2>4. UNCHANGED <<connects, online, room, saved>>
    BY <1>3 DEF Deliver
  <2>5. ASSUME NEW r \in online PROVE TabGets(r)'
    <3>1. r \in Tabs /\ Socket(r) \in Sockets /\ Socket(r)' = Socket(r) /\ TabGets(r)
      BY <1>0, <2>4 DEF GetsSaved, TabsTyped, Socket
    <3>2. ydoc[r] \subseteq ydoc'[r]
      BY <2>2, <3>1
    <3>3. \A x : Coming(down[Socket(r)], x) => x \in ydoc'[r] \/ Coming(down'[Socket(r)], x)
      <4>1. CASE r = t
        BY <2>1, <2>2, <2>3, <4>1
      <4>2. CASE r # t
        <5>1. Socket(r) # s
          BY <4>2 DEF Socket
        <5>. QED
          BY <2>1, <3>1, <5>1
      <4>. QED
        BY <4>1, <4>2
    <3>. QED
      BY <2>4, <3>1, <3>2, <3>3, StillGets
  <2>. QED
    BY <2>4, <2>5 DEF GetsSaved
<1>4. ASSUME NEW t \in Tabs, Drop(t) \/ Unmount(t) PROVE GetsSaved'
  <2>1. UNCHANGED <<connects, room, saved>> /\ online' = online \ {t}
    BY <1>4 DEF Drop, Unmount
  <2>2. ASSUME NEW r \in online', NEW s \in Sockets, s = Socket(r)
        PROVE  down'[s] = down[s] /\ ydoc'[r] = ydoc[r]
    <3>1. r # t /\ r \in Tabs /\ s # Socket(t) /\ s[1] # t
      BY <1>0, <2>1, <2>2 DEF Socket, TabsTyped
    <3>2. CASE Drop(t)
      BY <1>0, <3>1, <3>2 DEF Drop, LinksTyped
    <3>3. CASE Unmount(t)
      <4>1. down'[s] = down[s]
        BY <3>1, <3>3, UnmountParts
      <4>2. ydoc' = [ydoc EXCEPT ![t] = {}]
        BY <3>3 DEF Unmount
      <4>. QED
        BY <1>0, <3>1, <4>1, <4>2 DEF TabsTyped
    <3>. QED
      BY <1>4, <3>2, <3>3
  <2>3. ASSUME NEW r \in online' PROVE TabGets(r)'
    <3>1. TabGets(r) /\ Socket(r) \in Sockets /\ Socket(r)' = Socket(r)
      BY <1>0, <2>1 DEF GetsSaved, TabsTyped, Socket
    <3>. QED
      BY <2>1, <2>2, <3>1, StillGets
  <2>. QED
    BY <2>3 DEF GetsSaved
<1>5. ASSUME NEW s \in Sockets, JoinStart(s) \/ JoinRefused(s) \/ RejectUpdate(s) PROVE GetsSaved'
  <2>1. UNCHANGED <<tabVars, down, room, saved>>
    BY <1>5 DEF JoinStart, JoinRefused, RejectUpdate
  <2>. QED
    BY <1>0, <2>1, GetsUntouched
<1>6. ASSUME NEW j \in joining, JoinFinish(j) PROVE GetsSaved'
  <2>. DEFINE s == j.socket
              joined == [kind |-> "joined", state |-> EncodeDiff(j.vector),
                         editors |-> GetEditors(present')]
              news == [kind |-> "editor-joined", user |-> UserAt(s)]
  <2>1. /\ s \in Sockets /\ joined \in DownFrame /\ news \in DownFrame
        /\ down'[s] = IF Reaches({s}, s) THEN Append(down[s], joined) ELSE down[s]
        /\ \A r \in Sockets \ {s} : down'[r] = Append(down[r], news) \/ down'[r] = down[r]
    BY <1>6, JoinFinishParts
  <2>2. \A x \in serverDoc : x \in j.vector \/ Brings(joined, x)
    BY DEF Brings, EncodeDiff, Text
  <2>3. UNCHANGED <<tabVars, serverDoc, saved>> /\ room' = room \cup {s}
    BY <1>6 DEF JoinFinish
  <2>. HIDE DEF s, joined, news
  <2>4. ASSUME NEW r \in online PROVE TabGets(r)'
    <3>1. r \in Tabs /\ Socket(r) \in Sockets /\ Socket(r)' = Socket(r) /\ TabGets(r) /\ TabSent(r)
      BY <1>0, <2>3 DEF GetsSaved, OwnSent, TabsTyped, Socket
    <3>2. CASE Socket(r) = s
      <4>1. Reaches({s}, s)
        BY <3>1, <3>2 DEF Reaches, Socket
      <4>2. down'[s] = Append(down[s], joined) /\ j.vector \subseteq ydoc[r]
        BY <2>1, <3>1, <3>2, <4>1 DEF TabSent, s
      <4>3. \A x : Brings(joined, x) => Coming(down'[s], x)
        BY <1>0, <2>1, <4>2, ComingAppend DEF LinksTyped
      <4>4. \A x \in saved : x \in ydoc'[r] \/ Coming(down'[Socket(r)], x)
        BY <1>0, <2>2, <2>3, <3>2, <4>2, <4>3 DEF ServerTyped
      <4>. QED
        BY <2>3, <3>1, <4>4 DEF TabGets
    <3>3. CASE Socket(r) # s
      <4>1. \A x : Coming(down[Socket(r)], x) => Coming(down'[Socket(r)], x)
        BY <1>0, <2>1, <3>1, <3>3, WrittenLink
      <4>. QED
        BY <2>3, <3>1, <3>3, <4>1, StillGets
    <3>. QED
      BY <3>2, <3>3
  <2>. QED
    BY <2>3, <2>4 DEF GetsSaved
<1>7. ASSUME NEW s \in Sockets, HandleUpdate(s) PROVE GetsSaved'
  <2>1. \E m \in DownFrame : \A r \in Sockets : down'[r] = down[r] \/ down'[r] = Append(down[r], m)
    BY <1>7, HandleUpdateParts
  <2>2. UNCHANGED <<tabVars, room, saved>>
    BY <1>7 DEF HandleUpdate
  <2>. QED
    BY <2>1, <2>2, GetsWritten
<1>8. ASSUME NEW s \in Sockets, LeaveDocument(s), UNCHANGED <<tabVars, saved>> PROVE GetsSaved'
  <2>1. \E m \in DownFrame : \A r \in Sockets : down'[r] = down[r] \/ down'[r] = Append(down[r], m)
    BY <1>8, LeaveParts
  <2>2. room' \subseteq room
    BY <1>8 DEF LeaveDocument
  <2>. QED
    BY <1>8, <2>1, <2>2, GetsWritten
<1>9. ASSUME NEW s \in Sockets, HandleLeave(s) PROVE GetsSaved'
  BY <1>8, <1>9 DEF HandleLeave
<1>10. ASSUME NEW s \in Sockets, HandleDisconnect(s) PROVE GetsSaved'
  <2>1. UNCHANGED <<tabVars, saved>> /\ (LeaveDocument(s) \/ (down' = down /\ room' \subseteq room))
    BY <1>10 DEF HandleDisconnect
  <2>. QED
    BY <1>0, <1>8, <2>1, GetsUntouched
<1>11. CASE Persist
  <2>. DEFINE all == [kind |-> "update", state |-> serverDoc]
  <2>1. /\ all \in DownFrame
        /\ \A r \in Sockets : down'[r] = IF Reaches(room, r) THEN Append(down[r], all) ELSE down[r]
    BY <1>11, PersistParts
  <2>2. \A x \in serverDoc : Brings(all, x)
    BY DEF Brings
  <2>3. UNCHANGED <<tabVars, room>> /\ saved' = serverDoc
    BY <1>11 DEF Persist
  <2>. HIDE DEF all
  <2>4. ASSUME NEW r \in online, Socket(r) \in room, NEW x \in serverDoc
        PROVE  Coming(down'[Socket(r)], x)
    <3>1. Reaches(room, Socket(r)) /\ Socket(r) \in Sockets
      BY <1>0, <2>4 DEF Reaches, Socket, TabsTyped
    <3>2. down'[Socket(r)] = Append(down[Socket(r)], all)
      BY <2>1, <3>1
    <3>. QED
      BY <1>0, <2>1, <2>2, <3>1, <3>2, ComingAppend DEF LinksTyped
  <2>. QED
    BY <2>3, <2>4 DEF GetsSaved, TabGets, Socket
<1>12. CASE Restore
  <2>1. UNCHANGED <<ydoc, connects, online, down, room, saved>>
    BY <1>12 DEF Restore
  <2>. QED
    BY <1>0, <2>1, GetsUntouched
<1>13. CASE Restart
  BY <1>13 DEF Restart, GetsSaved
<1>14. CASE UNCHANGED vars
  <2>1. UNCHANGED <<ydoc, connects, online, down, room, saved>>
    BY <1>14 DEF vars
  <2>. QED
    BY <1>0, <2>1, GetsUntouched
<1>. QED
  BY <1>1, <1>2, <1>3, <1>4, <1>5, <1>6, <1>7, <1>9, <1>10, <1>11, <1>12, <1>13, <1>14 DEF Next

-----------------------------------------------------------------------------
(* Nobody is listed who has left *)

\* The list will show nobody it would not have shown, and nobody left.
LEMMA StillLists ==
  ASSUME NEW t, TabLists(t), Socket(t)' = Socket(t),
         Socket(t) \in room' => Socket(t) \in room, present' = present,
         \A v : Lists(editors'[t], down'[Socket(t)], v) => Lists(editors[t], down[Socket(t)], v)
  PROVE  TabLists(t)'
BY DEF TabLists

\* Frames that are not about editors.
LEMMA ListsWritten ==
  ASSUME SyncTyped, ListsPresent, UNCHANGED tabVars, NEW m \in DownFrame,
         \A v : ~Adds(m, v),
         \A s \in Sockets : down'[s] = down[s] \/ down'[s] = Append(down[s], m),
         room' \subseteq room, present' = present
  PROVE  ListsPresent'
<1>. SUFFICES ASSUME NEW t \in online PROVE TabLists(t)'
  BY DEF ListsPresent, tabVars
<1>1. /\ LinksTyped /\ Socket(t) \in Sockets /\ Socket(t)' = Socket(t) /\ editors' = editors
      /\ TabLists(t)
  BY DEF SyncTyped, TabsTyped, tabVars, Socket, ListsPresent
<1>2. \A v : Lists(editors[t], Append(down[Socket(t)], m), v) => Lists(editors[t], down[Socket(t)], v)
  BY <1>1, ListsAppend DEF LinksTyped
<1>. QED
  BY <1>1, <1>2, StillLists

LEMMA ListsUntouched ==
  ASSUME ListsPresent, UNCHANGED <<connects, editors, down, present>>, online' \subseteq online,
         room' \subseteq room
  PROVE  ListsPresent'
BY DEF ListsPresent, TabLists, Socket

LEMMA ListsLeave ==
  ASSUME SyncTyped, ListsPresent, UNCHANGED tabVars, NEW s \in Sockets, LeaveDocument(s)
  PROVE  ListsPresent'
<1>. DEFINE left == [kind |-> "editor-left", user |-> UserAt(s)]
<1>0. TabsTyped /\ LinksTyped
  BY DEF SyncTyped
<1>1. /\ left \in DownFrame
      /\ \A r \in Sockets : down'[r] = IF s \in present /\ Reaches(room \ {s}, r)
                                       THEN Append(down[r], left) ELSE down[r]
  BY LeaveParts
<1>2. \A v : ~Adds(left, v) /\ (v = UserAt(s) => Takes(left, v))
  BY DEF Adds, Takes
<1>3. room' = room \ {s} /\ present' = present \ {s} /\ UNCHANGED <<connects, editors, online>>
  BY DEF LeaveDocument, RemoveEditor, tabVars
<1>. HIDE DEF left
<1>4. \A v \in GetEditors(present) : v # UserAt(s) \/ s \notin present => v \in GetEditors(present')
  <2>. SUFFICES ASSUME NEW r \in present, UserAt(r) # UserAt(s) \/ s \notin present
                PROVE  UserAt(r) \in GetEditors(present')
    BY DEF GetEditors
  <2>1. r \in present'
    BY <1>3
  <2>. QED
    BY <2>1 DEF GetEditors
<1>. SUFFICES ASSUME NEW t \in online, Socket(t) \in room', NEW v,
                     Lists(editors[t], down'[Socket(t)], v)
              PROVE  v \in GetEditors(present')
  BY <1>3 DEF ListsPresent, TabLists, Socket
<1>5. Socket(t) \in Sockets /\ Reaches(room \ {s}, Socket(t)) /\ Socket(t) \in room
  BY <1>0, <1>3 DEF TabsTyped, Reaches, Socket
<1>6. CASE s \in present
  <2>1. down'[Socket(t)] = Append(down[Socket(t)], left)
    BY <1>1, <1>5, <1>6
  <2>2. Lists(editors[t], down[Socket(t)], v) /\ v # UserAt(s)
    BY <1>0, <1>1, <1>2, <1>5, <2>1, ListsAppend DEF LinksTyped
  <2>. QED
    BY <1>4, <1>5, <2>2 DEF ListsPresent, TabLists
<1>7. CASE s \notin present
  <2>1. down'[Socket(t)] = down[Socket(t)]
    BY <1>1, <1>5, <1>7
  <2>. QED
    BY <1>4, <1>5, <1>7, <2>1 DEF ListsPresent, TabLists
<1>. QED
  BY <1>6, <1>7

LEMMA ListsJoin ==
  ASSUME SyncTyped, ListsPresent, NEW j \in joining, JoinFinish(j)
  PROVE  ListsPresent'
<1>. DEFINE s == j.socket
            joined == [kind |-> "joined", state |-> EncodeDiff(j.vector),
                       editors |-> GetEditors(present')]
            news == [kind |-> "editor-joined", user |-> UserAt(s)]
<1>0. TabsTyped /\ LinksTyped
  BY DEF SyncTyped
<1>1. /\ s \in Sockets /\ joined \in DownFrame /\ news \in DownFrame
      /\ down'[s] = IF Reaches({s}, s) THEN Append(down[s], joined) ELSE down[s]
      /\ \A r \in Sockets \ {s} : down'[r] = Append(down[r], news) \/ down'[r] = down[r]
  BY JoinFinishParts
<1>2. \A v : /\ Adds(joined, v) => v \in GetEditors(present')
             /\ ~Takes(joined, v) => v \in GetEditors(present')
             /\ Adds(news, v) => v = UserAt(s)
  BY DEF Adds, Takes
<1>3. /\ room' = room \cup {s} /\ present' = present \cup {s}
      /\ UNCHANGED <<connects, editors, online>>
  BY DEF JoinFinish, AddEditor, tabVars
<1>4. UserAt(s) \in GetEditors(present') /\ GetEditors(present) \subseteq GetEditors(present')
  BY <1>3 DEF GetEditors
<1>. HIDE DEF s, joined, news
<1>. SUFFICES ASSUME NEW t \in online, Socket(t) \in room', NEW v,
                     Lists(editors[t], down'[Socket(t)], v)
              PROVE  v \in GetEditors(present')
  BY <1>3 DEF ListsPresent, TabLists, Socket
<1>5. Socket(t) \in Sockets
  BY <1>0 DEF TabsTyped
<1>6. CASE Socket(t) = s
  <2>1. Reaches({s}, s)
    BY <1>6 DEF Reaches, Socket
  <2>2. down'[s] = Append(down[s], joined) /\ down[s] \in Seq(DownFrame)
    BY <1>0, <1>1, <2>1 DEF LinksTyped
  <2>. QED
    BY <1>1, <1>2, <1>6, <2>2, ListsAppend
<1>7. CASE Socket(t) # s
  <2>1. /\ Socket(t) \in room /\ down[Socket(t)] \in Seq(DownFrame)
        /\ down'[Socket(t)] = Append(down[Socket(t)], news) \/ down'[Socket(t)] = down[Socket(t)]
    BY <1>0, <1>1, <1>3, <1>5, <1>7 DEF LinksTyped
  <2>2. Adds(news, v) \/ Lists(editors[t], down[Socket(t)], v)
    BY <1>1, <2>1, ListsAppend
  <2>. QED
    BY <1>2, <1>4, <2>1, <2>2 DEF ListsPresent, TabLists
<1>. QED
  BY <1>6, <1>7

LEMMA ListsPresentStays ==
  ASSUME SyncTyped, NoneAhead, ListsPresent, [Next]_vars PROVE ListsPresent'
<1>. USE DEF tabVars, linkVars, gateVars, docVars, history
<1>0. TabsTyped /\ LinksTyped
  BY DEF SyncTyped
<1>1. ASSUME NEW t \in Tabs, Connect(t) PROVE ListsPresent'
  <2>. DEFINE n == <<t, connects[t] + 1>>
  <2>1. /\ connects' = [connects EXCEPT ![t] = @ + 1] /\ online' = online \cup {t}
        /\ UNCHANGED <<editors, down, room, present>> /\ t \notin online
    BY <1>1 DEF Connect, MayConnect
  <2>2. \A r \in Tabs : Socket(r)' = IF r = t THEN n ELSE Socket(r)
    BY <1>0, <2>1 DEF Socket, TabsTyped
  <2>3. n \notin room
    <3>1. ~Opened(n)
      BY <1>0 DEF Opened, TabsTyped
    <3>. QED
      BY <3>1 DEF NoneAhead
  <2>4. TabLists(t)'
    BY <2>1, <2>2, <2>3 DEF TabLists
  <2>5. ASSUME NEW r \in online PROVE TabLists(r)'
    <3>1. Socket(r)' = Socket(r) /\ TabLists(r)
      BY <1>0, <2>1, <2>2 DEF ListsPresent, TabsTyped
    <3>. QED
      BY <2>1, <3>1, StillLists
  <2>. QED
    BY <2>1, <2>4, <2>5 DEF ListsPresent
<1>2. ASSUME NEW t \in Tabs, Edit(t) PROVE ListsPresent'
  BY <1>2, ListsUntouched DEF Edit
<1>3. ASSUME NEW t \in Tabs, Deliver(t) PROVE ListsPresent'
  <2>. DEFINE s == Socket(t)
              m == Head(down[s])
  <2>1. /\ s \in Sockets /\ down[s] # <<>> /\ down[s] \in Seq(DownFrame)
        /\ down'[s] = Tail(down[s])
        /\ \A r \in Sockets \ {s} : down'[r] = down[r]
    BY <1>0, <1>3, DeliverParts
  <2>2. /\ \A v : v \in editors'[t] => Adds(m, v) \/ (v \in editors[t] /\ ~Takes(m, v))
        /\ \A r \in Tabs \ {t} : editors'[r] = editors[r]
    BY <1>0, <1>3, DeliverMerges
  <2>3. UNCHANGED <<connects, online, room, present>>
    BY <1>3 DEF Deliver
  <2>4. \A v : Lists(editors'[t], Tail(down[s]), v) => Lists(editors[t], down[s], v)
    BY <2>1, <2>2, ListsTail
  <2>5. ASSUME NEW r \in online PROVE TabLists(r)'
    <3>1. r \in Tabs /\ Socket(r) \in Sockets /\ Socket(r)' = Socket(r) /\ TabLists(r)
      BY <1>0, <2>3 DEF ListsPresent, TabsTyped, Socket
    <3>2. CASE r = t
      BY <2>1, <2>3, <2>4, <3>1, <3>2, StillLists
    <3>3. CASE r # t
      <4>1. Socket(r) # s
        BY <3>3 DEF Socket
      <4>2. down'[Socket(r)] = down[Socket(r)] /\ editors'[r] = editors[r]
        BY <2>1, <2>2, <3>1, <3>3, <4>1
      <4>. QED
        BY <2>3, <3>1, <4>2, StillLists
    <3>. QED
      BY <3>2, <3>3
  <2>. QED
    BY <2>3, <2>5 DEF ListsPresent
<1>4. ASSUME NEW t \in Tabs, Drop(t) \/ Unmount(t) PROVE ListsPresent'
  <2>1. UNCHANGED <<connects, room, present>> /\ online' = online \ {t}
    BY <1>4 DEF Drop, Unmount
  <2>2. ASSUME NEW r \in online', NEW s \in Sockets, s = Socket(r)
        PROVE  down'[s] = down[s] /\ editors'[r] = editors[r]
    <3>1. r # t /\ r \in Tabs /\ s # Socket(t) /\ s[1] # t
      BY <1>0, <2>1, <2>2 DEF Socket, TabsTyped
    <3>2. CASE Drop(t)
      BY <1>0, <3>1, <3>2 DEF Drop, LinksTyped
    <3>3. CASE Unmount(t)
      <4>1. down'[s] = down[s]
        BY <3>1, <3>3, UnmountParts
      <4>2. editors' = [editors EXCEPT ![t] = {}]
        BY <3>3 DEF Unmount
      <4>. QED
        BY <1>0, <3>1, <4>1, <4>2 DEF TabsTyped
    <3>. QED
      BY <1>4, <3>2, <3>3
  <2>3. ASSUME NEW r \in online' PROVE TabLists(r)'
    <3>1. TabLists(r) /\ Socket(r) \in Sockets /\ Socket(r)' = Socket(r)
      BY <1>0, <2>1 DEF ListsPresent, TabsTyped, Socket
    <3>. QED
      BY <2>1, <2>2, <3>1, StillLists
  <2>. QED
    BY <2>3 DEF ListsPresent
<1>5. ASSUME NEW s \in Sockets, JoinStart(s) \/ JoinRefused(s) \/ RejectUpdate(s)
      PROVE  ListsPresent'
  <2>1. UNCHANGED <<tabVars, down, room, present>>
    BY <1>5 DEF JoinStart, JoinRefused, RejectUpdate
  <2>. QED
    BY <2>1, ListsUntouched
<1>6. ASSUME NEW j \in joining, JoinFinish(j) PROVE ListsPresent'
  BY <1>6, ListsJoin
<1>7. ASSUME NEW s \in Sockets, HandleUpdate(s) PROVE ListsPresent'
  <2>. DEFINE relay == [kind |-> "update", state |-> {Head(up[s]).update}]
  <2>1. relay \in DownFrame /\ \A r \in Sockets : down'[r] = down[r] \/ down'[r] = Append(down[r], relay)
    BY <1>7, HandleUpdateParts
  <2>2. \A v : ~Adds(relay, v)
    BY DEF Adds
  <2>3. UNCHANGED <<tabVars, room, present>>
    BY <1>7 DEF HandleUpdate
  <2>. QED
    BY <2>1, <2>2, <2>3, ListsWritten
<1>8. ASSUME NEW s \in Sockets, HandleLeave(s) PROVE ListsPresent'
  BY <1>8, ListsLeave DEF HandleLeave
<1>9. ASSUME NEW s \in Sockets, HandleDisconnect(s) PROVE ListsPresent'
  <2>1. /\ UNCHANGED tabVars
        /\ LeaveDocument(s) \/ (UNCHANGED <<present, down>> /\ room' \subseteq room)
    BY <1>9 DEF HandleDisconnect
  <2>. QED
    BY <2>1, ListsLeave, ListsUntouched
<1>10. CASE Persist
  <2>. DEFINE all == [kind |-> "update", state |-> serverDoc]
  <2>1. all \in DownFrame /\ \A r \in Sockets : down'[r] = down[r] \/ down'[r] = Append(down[r], all)
    BY <1>10, PersistParts
  <2>2. \A v : ~Adds(all, v)
    BY DEF Adds
  <2>3. UNCHANGED <<tabVars, room, present>>
    BY <1>10 DEF Persist
  <2>. QED
    BY <2>1, <2>2, <2>3, ListsWritten
<1>11. CASE Restore \/ UNCHANGED vars
  <2>1. UNCHANGED <<connects, editors, online, down, room, present>>
    BY <1>11 DEF Restore, vars
  <2>. QED
    BY <2>1, ListsUntouched
<1>12. CASE Restart
  BY <1>12 DEF Restart, ListsPresent
<1>. QED
  BY <1>1, <1>2, <1>3, <1>4, <1>5, <1>6, <1>7, <1>8, <1>9, <1>10, <1>11, <1>12 DEF Next

LEMMA LingeringStays ==
  ASSUME Lingering, [Next]_vars PROVE Lingering'
<1>. USE DEF tabVars, linkVars, gateVars, docVars, history
<1>same. ASSUME UNCHANGED <<joining, current, present, ghosts>>, alive \subseteq alive'
         PROVE  Lingering'
  BY <1>same DEF Lingering
<1>1. ASSUME NEW t \in Tabs, Connect(t) \/ Edit(t) \/ Deliver(t) \/ Drop(t) \/ Unmount(t)
      PROVE  Lingering'
  BY <1>1, <1>same DEF Connect, Edit, Deliver, Drop, Unmount
<1>2. ASSUME NEW s \in Sockets, JoinStart(s) PROVE Lingering'
  <2>1. /\ s \in alive /\ UNCHANGED <<alive, current, present, ghosts>>
        /\ joining' = joining \cup {[socket |-> s, vector |-> Head(up[s]).vector]}
    BY <1>2 DEF JoinStart, NextIs
  <2>. QED
    BY <2>1 DEF Lingering
<1>3. ASSUME NEW s \in Sockets, JoinRefused(s) PROVE Lingering'
  <2>1. UNCHANGED <<alive, current, present, ghosts>> /\ joining' \subseteq joining
    BY <1>3 DEF JoinRefused
  <2>. QED
    BY <2>1 DEF Lingering
<1>4. ASSUME NEW j \in joining, JoinFinish(j) PROVE Lingering'
  BY <1>4 DEF JoinFinish, AddEditor, Lingering
<1>5. ASSUME NEW s \in Sockets, HandleUpdate(s) \/ RejectUpdate(s) PROVE Lingering'
  BY <1>5, <1>same DEF HandleUpdate, RejectUpdate
<1>6. ASSUME NEW s \in Sockets, HandleLeave(s) PROVE Lingering'
  BY <1>6 DEF HandleLeave, LeaveDocument, RemoveEditor, Lingering
<1>7. ASSUME NEW s \in Sockets, HandleDisconnect(s) PROVE Lingering'
  <2>1. /\ alive' = alive \ {s} /\ joining' = joining
        /\ present' = present \ {s} /\ current' = current \ {s}
    BY <1>7 DEF HandleDisconnect, LeaveDocument, RemoveEditor, Lingering
  <2>2. ghosts' = IF \E j \in joining : j.socket = s THEN ghosts \cup {s} ELSE ghosts
    BY <1>7 DEF HandleDisconnect
  <2>. QED
    BY <2>1, <2>2 DEF Lingering
<1>8. CASE Persist \/ Restore \/ UNCHANGED vars
  BY <1>8, <1>same DEF Persist, Restore, vars
<1>9. CASE Restart
  BY <1>9 DEF Restart, Lingering
<1>. QED
  BY <1>1, <1>2, <1>3, <1>4, <1>5, <1>6, <1>7, <1>8, <1>9 DEF Next

-----------------------------------------------------------------------------
(* The theorems *)

LEMMA SyncInit == Init => SyncInv
<1>. SUFFICES ASSUME Init PROVE SyncInv
  OBVIOUS
<1>0. Tabs \X {1} \subseteq Sockets
  BY SyncBounds DEF Sockets
<1>1. TabsTyped
  <2>1. \A t \in Tabs : Socket(t) \in Sockets
    BY <1>0 DEF Init, Socket
  <2>. QED
    BY <2>1 DEF Init, TabsTyped
<1>2. LinksTyped
  BY EmptySeq DEF Init, LinksTyped
<1>3. ServerTyped
  BY <1>0 DEF Init, ServerTyped
<1>4. NoneAhead
  BY DEF Init, NoneAhead, Opened
<1>5. \A s \in Sockets : up[s] = <<>> /\ down[s] = <<>>
  BY DEF Init
<1>6. AllKnown
  <2>1. \A x : ~Coming(<<>>, x)
    BY DEF Coming
  <2>. QED
    BY <1>5, <2>1 DEF Init, AllKnown
<1>7. OwnSent
  <2>1. \A t \in online : Socket(t) \in Sockets
    BY <1>1 DEF TabsTyped
  <2>. QED
    BY <1>5, <2>1 DEF Init, OwnSent, TabSent
<1>8. GetsSaved
  BY DEF Init, GetsSaved, TabGets
<1>9. ListsPresent
  <2>1. Users \subseteq GetEditors(present)
    <3>1. ASSUME NEW t \in Tabs PROVE UserOf[t] \in GetEditors(present)
      <4>1. <<t, 1>> \in present /\ UserAt(<<t, 1>>) = UserOf[t]
        BY DEF Init, UserAt
      <4>. QED
        BY <4>1 DEF GetEditors
    <3>. QED
      BY <3>1 DEF Users
  <2>2. \A E, v : Lists(E, <<>>, v) => v \in E
    BY DEF Lists
  <2>3. \A t \in online : Socket(t) \in Sockets /\ editors[t] = Users
    BY <1>1 DEF TabsTyped, Init
  <2>. QED
    BY <1>5, <2>1, <2>2, <2>3 DEF ListsPresent, TabLists
<1>10. Lingering
  BY DEF Init, Lingering
<1>. QED
  BY <1>1, <1>2, <1>3, <1>4, <1>6, <1>7, <1>8, <1>9, <1>10 DEF SyncInv, SyncTyped

LEMMA SyncStep == SyncInv /\ [Next]_vars => SyncInv'
BY StaysTyped, NoneAheadStays, AllKnownStays, OwnSentStays, GetsSavedStays,
   ListsPresentStays, LingeringStays DEF SyncInv

LEMMA SyncAlways == Spec => []SyncInv
BY SyncInit, SyncStep, PTL DEF Spec

\* When every message has arrived and the server has saved, tabs and server
\* agree but for the edits that never reached it: what handleJoin's diff, the
\* relay of handleUpdate and the broadcast of handleDocumentSaved leave out is
\* what the tab has already, or sent itself.
THEOREM TabsConverge == Spec => []Converges
<1>1. SyncInv => Converges
  <2>. SUFFICES ASSUME SyncInv, Quiet, saved = serverDoc, NEW t \in Tabs, Joined(t)
                PROVE  /\ serverDoc \subseteq ydoc[t]
                       /\ ydoc[t] \ missed \subseteq serverDoc
                       /\ missed = {} => Text(ydoc[t]) = Text(serverDoc)
    BY DEF Converges
  <2>1. t \in online /\ Socket(t) \in room /\ Socket(t) \in Sockets
    BY DEF Joined, SyncInv, SyncTyped, TabsTyped
  <2>2. /\ \A s \in Sockets : up[s] = <<>> /\ down[s] = <<>>
        /\ \A x : ~Coming(<<>>, x) /\ ~Going(<<>>, x)
    BY DEF Quiet, Coming, Going
  <2>3. serverDoc \subseteq ydoc[t]
    BY <2>1, <2>2 DEF SyncInv, GetsSaved, TabGets
  <2>4. \A x \in ydoc[t] : x \in serverDoc \/ x \in missed
    BY <2>2 DEF SyncInv, AllKnown, Known
  <2>5. missed = {} => ydoc[t] = serverDoc
    BY <2>3, <2>4
  <2>. QED
    BY <2>3, <2>4, <2>5
<1>. QED
  BY <1>1, SyncAlways, PTL

\* Once everything has arrived no tab lists a user without a socket in the
\* document, and the server counts no socket that is gone, but for those that
\* went away while handleJoin awaited.
THEOREM EditorsStayRight == Spec => []EditorsRight
<1>1. SyncInv => EditorsRight
  <2>. SUFFICES ASSUME SyncInv PROVE NoPhantomEditors /\ OnlyLateJoinsLinger
    BY DEF EditorsRight
  <2>1. ASSUME Quiet, NEW t \in Tabs, Joined(t) PROVE editors[t] \subseteq GetEditors(present)
    <3>1. t \in online /\ Socket(t) \in room /\ down[Socket(t)] = <<>>
      BY <2>1 DEF Joined, Quiet, SyncInv, SyncTyped, TabsTyped
    <3>2. \A v \in editors[t] : Lists(editors[t], <<>>, v)
      BY DEF Lists
    <3>. QED
      BY <3>1, <3>2 DEF SyncInv, ListsPresent, TabLists
  <2>2. OnlyLateJoinsLinger
    BY DEF SyncInv, Lingering, OnlyLateJoinsLinger
  <2>. QED
    BY <2>1, <2>2 DEF NoPhantomEditors
<1>. QED
  BY <1>1, SyncAlways, PTL
=============================================================================
