------------------------ MODULE BoardPresence_proofs ------------------------
(***************************************************************************)
(* Proofs about BoardPresence: a board with viewers is on the list of the  *)
(* sweep, two viewers have different colours, and the pages agree with who *)
(* is there once everything has settled, for any sockets, users, palette   *)
(* and number of missed or overlapping heartbeats.                         *)
(***************************************************************************)
EXTENDS BoardPresence, TLAPS, WellFoundedInduction

-----------------------------------------------------------------------------
(* The inductive invariant *)

\* The list of the sweep: whoever counted no sockets is still right about it.
ListInv ==
    ~history.raced => /\ Active # {} => listed
                      /\ Unlisting => Active = {}

\* Nothing of the socket is anywhere on the server.
Untouched(s) ==
    /\ score[s] = "absent" /\ meta[s] = Nil
    /\ join[s] = Nil /\ leave[s] = Nil /\ bye[s] = Nil
    /\ s \notin beat /\ s \notin sweep.stale

\* The stages of a connection, and what its handlers may still be doing.
StageOf(s) ==
    /\ conn[s] = "new" => Untouched(s) /\ ~current[s]
    /\ s \in room => conn[s] = "up"
    /\ s \notin room => shown[s] = {}
    /\ leave[s] # Nil => conn[s] \in {"closing", "gone"}
    /\ bye[s] # Nil => conn[s] = "gone"
    /\ meta[s] # Nil => score[s] # "absent"
    /\ score[s] = "stale" \/ s \in sweep.stale => join[s] = Nil
    /\ Joining(s, "guard") => ~current[s]
    /\ Joining(s, "add") => join[s].colour # Nil
    /\ conn[s] = "up" =>
         /\ current[s] => s \in room
         /\ meta[s] # Nil => current[s]
         /\ join[s] # Nil /\ join[s].step # "guard" => current[s]

\* The announcement of the socket is still to come, or has been made.
Entered(s) == join[s] # Nil => join[s].step \in {"roster", "announce"}

\* What is known of a socket whose user did nothing unusual.
PlainOf(s) ==
    /\ score[s] = "stale" => conn[s] # "up" /\ s \notin beat
    /\ s \in sweep.stale => conn[s] # "up"
    /\ join[s] # Nil /\ Entered(s) => meta[s] # Nil
    /\ conn[s] = "closing" /\ (leave[s] # Nil => leave[s].step = "srem") =>
          meta[s] = Nil /\ join[s] = Nil
    /\ conn[s] = "up" /\ current[s] /\ Entered(s) => score[s] = "fresh" /\ meta[s] # Nil
    /\ conn[s] = "up" /\ Joining(s, "announce") => s \in join[s].seen

Touched(s) == conn[s] \in {"up", "closing"} \/ ~Untouched(s)

\* Such a user has one socket.
AloneIs(s) == \A t \in Sockets \ {s} : UserOf[t] = UserOf[s] => ~(Touched(s) /\ Touched(t))

\* Everyone who has announced themselves is shown by a page that has its list,
\* and is on the list of a page that is about to get it.
ShownTo(w, s) ==
    conn[w] = "up" /\ current[w] /\ join[w] = Nil /\ conn[s] = "up" /\ current[s] =>
        /\ join[s] = Nil => UserOf[w] \in shown[s]
        /\ Joining(s, "announce") => w \in join[s].seen

\* The entry is there, or whoever removed it has still to tell the pages.
Leaving(h, s) == h[s] # Nil /\ h[s].step = "srem" /\ h[s].had
Here(w) ==
    \/ meta[w] # Nil
    \/ Leaving(leave, w) \/ Leaving(bye, w)
    \/ sweep.step = "srem" /\ w \in sweep.stale

\* Whoever a page shows is there.
ShownAreHere ==
    \A s \in room : \A u \in shown[s] \ history.blurred :
        \E w \in Sockets : UserOf[w] = u /\ Here(w)

StageInv == \A s \in Sockets : StageOf(s)
PlainInv == \A s \in Sockets : UserOf[s] \notin history.blurred => PlainOf(s)
AloneInv == \A s \in Sockets : UserOf[s] \notin history.blurred => AloneIs(s)
ShownInv == \A w, s \in Sockets : UserOf[w] \notin history.blurred => ShownTo(w, s)

\* A colour that has been chosen is not that of a viewer, and no two viewers
\* of different users share one.
Excused(s, t) == history.clashed \/ {UserOf[s], UserOf[t]} \cap history.blurred # {}
ChosenApart ==
    \A s \in Choosing : \A t \in Viewers :
        UserOf[s] # UserOf[t] /\ join[s].colour = meta[t] /\ meta[t] # Hsl => Excused(s, t)

PresenceInv ==
    /\ TypeOK /\ ListInv /\ StageInv /\ PlainInv /\ AloneInv
    /\ ShownInv /\ ShownAreHere /\ ChosenApart /\ DistinctColours

-----------------------------------------------------------------------------
(* Types *)

\* A set of numbers has a least one.
LEMMA LeastNumber ==
  ASSUME NEW T \in SUBSET Nat, T # {}
  PROVE  \E k \in T : \A j \in T : k <= j
<1>. DEFINE R == OpToRel(<, Nat)
<1>1. \A j, k \in Nat : ~(<<j, k>> \in R) => k <= j
  <2>1. \A j, k \in Nat : j < k => <<j, k>> \in R
    BY DEF OpToRel
  <2>. HIDE DEF R
  <2>. QED
    BY <2>1
<1>2. IsWellFoundedOn(R, Nat)
  BY NatLessThanWellFounded
<1>. HIDE DEF R
<1>3. PICK k \in T : \A j \in T : ~(<<j, k>> \in R)
  BY <1>2, WFMin
<1>. QED
  BY <1>1, <1>3

\* The colour chosen is that of another socket of the user, the hue, or one
\* that no viewer has.
LEMMA ColourChosen ==
  ASSUME TypeOK, NEW u \in Users
  PROVE  /\ ColourOf(u, Viewers) \in Colours
         /\ \/ \E t \in Viewers : UserOf[t] = u /\ ColourOf(u, Viewers) = meta[t]
            \/ ColourOf(u, Viewers) = Hsl
            \/ \A t \in Viewers : ColourOf(u, Viewers) # meta[t]
<1>. DEFINE own == {meta[t] : t \in {t \in Viewers : UserOf[t] = u}}
            taken == {meta[t] : t \in Viewers}
            free == {k \in 0 .. PaletteSize - 1 : (HashOf[u] + k) % PaletteSize \notin taken}
            least == CHOOSE k \in free : \A j \in free : k <= j
            any == CHOOSE c \in own : TRUE
<1>1. own \subseteq Colours
  BY DEF TypeOK, Viewers, WithMeta, FreshIn
<1>2. own # {} => any \in own
  OBVIOUS
<1>3. free # {} => least \in free
  <2>1. free \in SUBSET Nat
    BY PaletteType
  <2>. HIDE DEF free
  <2>. QED
    BY <2>1, LeastNumber
<1>4. \A k \in free : (HashOf[u] + k) % PaletteSize \in Colours \ taken
  <2>1. \A k \in 0 .. PaletteSize - 1 : (HashOf[u] + k) % PaletteSize \in Colours
    BY PaletteType DEF Colours, Hsl
  <2>. QED
    BY <2>1
<1>5. ColourOf(u, Viewers) = IF own # {} THEN any
                             ELSE IF free = {} THEN Hsl ELSE (HashOf[u] + least) % PaletteSize
  BY DEF ColourOf
<1>6. Hsl \in Colours
  BY PaletteType DEF Colours, Hsl
<1>7. own # {} => \E t \in Viewers : UserOf[t] = u /\ any = meta[t]
  BY <1>2
<1>8. \A c : c \notin taken => \A t \in Viewers : c # meta[t]
  OBVIOUS
<1>. HIDE DEF own, free, least, any, taken
<1>. QED
  BY <1>1, <1>2, <1>3, <1>4, <1>5, <1>6, <1>7, <1>8

LEMMA JoinRecords ==
  /\ \A step \in JoinSteps, S \in SUBSET Sockets, c \in Colours \cup {Nil} :
       [step |-> step, seen |-> S, colour |-> c] \in Join
  /\ \A step \in RemoveSteps, b \in BOOLEAN : [step |-> step, had |-> b] \in Removal
BY DEF Join, Removal

LEMMA HistoryTyped ==
  ASSUME history \in History
  PROVE  /\ \A U \in SUBSET Users : Blur(U) => history' \in History
         /\ \A b \in BOOLEAN : Race(b) => history' \in History
         /\ \A s : RecordAdd(s) => history' \in History
BY DEF History, Blur, Race, RecordAdd, Unlisting

LEMMA InitTyped == Init => TypeOK
<1>. SUFFICES ASSUME Init PROVE TypeOK
  OBVIOUS
<1>1. join \in [Sockets -> Join \cup {Nil}]
  <2>1. HashOf[UserOf[First]] \in Colours
    BY FirstIsSocket, UserOfType, PaletteType DEF Colours, Hsl
  <2>. QED
    BY <2>1, JoinRecords DEF Init, JoinSteps
<1>2. history \in History
  BY DEF Init, History
<1>3. /\ sweep \in [step : SweepSteps, stale : SUBSET Sockets]
      /\ oddBeats \in 0 .. MaxOddBeats /\ room \subseteq Sockets
  BY OddBeatsAreNat, FirstIsSocket DEF Init, SweepSteps
<1>4. /\ current \in [Sockets -> BOOLEAN]
      /\ shown \in [Sockets -> SUBSET Users]
  BY DEF Init
<1>. QED
  BY <1>1, <1>2, <1>3, <1>4 DEF Init, TypeOK

LEMMA NextTyped == TypeOK /\ [Next]_vars => TypeOK'
<1>. SUFFICES ASSUME TypeOK, [Next]_vars PROVE TypeOK'
  OBVIOUS
<1>. USE DEF TypeOK, redis, pages
<1>users. \A S \in SUBSET Sockets : UsersOf(S) \in SUBSET Users
  BY UserOfType DEF UsersOf
<1>user. \A s \in Sockets : UserOf[s] \in Users
  BY UserOfType
<1>told. \A u \in Users : \A s : Announced(u, s) \in [Sockets -> SUBSET Users]
  BY DEF Announced
<1>gone. \A U, s : Departed(U, s) \in [Sockets -> SUBSET Users]
  BY DEF Departed
<1>1. ASSUME NEW s \in Sockets, BoardPageConnects(s) PROVE TypeOK'
  <2>1. history' \in History
    BY <1>1, <1>user, HistoryTyped DEF BoardPageConnects
  <2>2. join' \in [Sockets -> Join \cup {Nil}]
    BY <1>1, JoinRecords DEF BoardPageConnects, JoinSteps
  <2>. QED
    BY <1>1, <2>1, <2>2 DEF BoardPageConnects
<1>2. ASSUME NEW s \in Sockets, ConnectionRefused(s) PROVE TypeOK'
  BY <1>2 DEF ConnectionRefused
<1>3. ASSUME NEW s \in Sockets, BoardPageLeaves(s) PROVE TypeOK'
  BY <1>3, JoinRecords DEF BoardPageLeaves, RemoveSteps
<1>4. ASSUME NEW s \in Sockets, HandleDisconnect(s) PROVE TypeOK'
  BY <1>4, JoinRecords DEF HandleDisconnect, RemoveSteps
<1>5. ASSUME NEW s \in Sockets, Crash(s) PROVE TypeOK'
  <2>1. history' \in History
    BY <1>5, <1>user, HistoryTyped DEF Crash
  <2>. QED
    BY <1>5, <2>1 DEF Crash
<1>6. ASSUME NEW s \in Sockets, DropJoin(s) PROVE TypeOK'
  BY <1>6 DEF DropJoin
<1>7. ASSUME NEW s \in Sockets, JoinRoom(s) PROVE TypeOK'
  <2>1. join' \in [Sockets -> Join \cup {Nil}]
    BY <1>7, JoinRecords DEF JoinRoom, ToJoin, JoinSteps
  <2>. QED
    BY <1>7, <2>1 DEF JoinRoom
<1>8. ASSUME NEW s \in Sockets, ChooseColour(s) PROVE TypeOK'
  <2>1. join' \in [Sockets -> Join \cup {Nil}]
    BY <1>8, <1>user, ColourChosen, JoinRecords DEF ChooseColour, ToJoin, JoinSteps
  <2>. QED
    BY <1>8, <2>1 DEF ChooseColour
<1>9. ASSUME NEW s \in Sockets, AddPresence(s) PROVE TypeOK'
  <2>1. join' \in [Sockets -> Join \cup {Nil}]
    BY <1>9, JoinRecords DEF AddPresence, ToJoin, JoinSteps
  <2>2. join[s].colour \in Colours \cup {Nil}
    BY <1>9 DEF AddPresence, Joining, Join
  <2>3. history' \in History
    BY <1>9, HistoryTyped DEF AddPresence
  <2>. QED
    BY <1>9, <2>1, <2>2, <2>3 DEF AddPresence
<1>10. ASSUME NEW s \in Sockets, ReadRoster(s) PROVE TypeOK'
  <2>1. join' \in [Sockets -> Join \cup {Nil}]
    BY <1>10, JoinRecords DEF ReadRoster, ToJoin, JoinSteps, FreshIn
  <2>. QED
    BY <1>10, <2>1 DEF ReadRoster
<1>11. ASSUME NEW s \in Sockets, SendRoster(s) PROVE TypeOK'
  <2>1. history' \in History
    BY <1>11, <1>user, HistoryTyped DEF SendRoster
  <2>2. UsersOf(WithMeta(join[s].seen)) \in SUBSET Users
    BY <1>11, <1>users DEF SendRoster, Joining, Join, WithMeta
  <2>3. shown' \in [Sockets -> SUBSET Users]
    BY <1>11, <2>2, <1>told, <1>user DEF SendRoster
  <2>. QED
    BY <1>11, <2>1, <2>3 DEF SendRoster
<1>12. ASSUME NEW s \in Sockets, LeaveRemoves(s) PROVE TypeOK'
  <2>1. history' \in History
    BY <1>12, <1>user, HistoryTyped DEF LeaveRemoves, LeftWhileJoining
  <2>2. leave' \in [Sockets -> Removal \cup {Nil}]
    BY <1>12, JoinRecords DEF LeaveRemoves, RemoveSteps
  <2>3. shown' \in [Sockets -> SUBSET Users]
    BY <1>12, <1>gone, <1>user DEF LeaveRemoves
  <2>4. current' \in [Sockets -> BOOLEAN]
    BY <1>12 DEF LeaveRemoves
  <2>. QED
    BY <1>12, <2>1, <2>2, <2>3, <2>4 DEF LeaveRemoves, RemoveEntry
<1>13. ASSUME NEW s \in Sockets, LeaveUnlists(s) PROVE TypeOK'
  BY <1>13, <1>gone, <1>user DEF LeaveUnlists
<1>14. ASSUME NEW s \in Sockets, ByeRemoves(s) PROVE TypeOK'
  <2>1. history' \in History
    BY <1>14, <1>user, HistoryTyped DEF ByeRemoves, LeftWhileJoining
  <2>2. bye' \in [Sockets -> Removal \cup {Nil}]
    BY <1>14, JoinRecords DEF ByeRemoves, RemoveSteps
  <2>3. shown' \in [Sockets -> SUBSET Users]
    BY <1>14, <1>gone, <1>user DEF ByeRemoves
  <2>. QED
    BY <1>14, <2>1, <2>2, <2>3 DEF ByeRemoves, RemoveEntry
<1>15. ASSUME NEW s \in Sockets, ByeUnlists(s) PROVE TypeOK'
  BY <1>15, <1>gone, <1>user DEF ByeUnlists
<1>16. ASSUME NEW s \in Sockets, HandleHeartbeat(s) PROVE TypeOK'
  BY <1>16, OddBeatsAreNat DEF HandleHeartbeat
<1>17. ASSUME NEW s \in Sockets, UpdateHeartbeat(s) PROVE TypeOK'
  <2>1. history' \in History
    BY <1>17, HistoryTyped DEF UpdateHeartbeat
  <2>. QED
    BY <1>17, <2>1 DEF UpdateHeartbeat
<1>18. ASSUME NEW s \in Sockets, GoesStale(s) PROVE TypeOK'
  BY <1>18 DEF GoesStale
<1>19. ASSUME NEW s \in Sockets, Lapse(s) PROVE TypeOK'
  <2>1. history' \in History
    BY <1>19, <1>user, HistoryTyped DEF Lapse
  <2>. QED
    BY <1>19, <2>1, OddBeatsAreNat DEF Lapse
<1>20. CASE SweepLists
  BY <1>20 DEF SweepLists, ToSweep, SweepSteps
<1>21. CASE SweepChecks
  BY <1>21 DEF SweepChecks, ToSweep, SweepSteps
<1>22. CASE SweepPrunes
  <2>. DEFINE S == sweep.stale
  <2>1. S \in SUBSET Sockets
    OBVIOUS
  <2>2. history' \in History
    BY <1>22, <2>1, <1>users, HistoryTyped DEF SweepPrunes
  <2>3. shown' \in [Sockets -> SUBSET Users]
    BY <1>22, <2>1, <1>gone, <1>users DEF SweepPrunes, WithMeta
  <2>4. sweep' \in [step : SweepSteps, stale : SUBSET Sockets]
    BY <1>22, <2>1 DEF SweepPrunes, ToSweep, WithMeta, SweepSteps
  <2>. QED
    BY <1>22, <2>2, <2>3, <2>4 DEF SweepPrunes, Pruned
<1>23. CASE SweepUnlists
  BY <1>23, <1>gone, <1>users DEF SweepUnlists, ToSweep, SweepSteps
<1>24. CASE UNCHANGED vars
  BY <1>24 DEF vars
<1>. QED
  <2>. HIDE DEF TypeOK, redis, pages
  <2>. QED
    BY <1>1, <1>2, <1>3, <1>4, <1>5, <1>6, <1>7, <1>8, <1>9, <1>10, <1>11, <1>12, <1>13,
       <1>14, <1>15, <1>16, <1>17, <1>18, <1>19, <1>20, <1>21, <1>22, <1>23, <1>24
       DEF Next, JoinStep, RemovalStep, SweepStep, JoinRateLimited, JoinDenied

LEMMA PresenceTyped == Spec => []TypeOK
BY InitTyped, NextTyped, PTL DEF Spec

-----------------------------------------------------------------------------
(* The list of the sweep *)

\* What a step notes.
LEMMA Noted ==
  ASSUME TypeOK
  PROVE  /\ \A U : Blur(U) => /\ history'.raced = history.raced
                              /\ history'.clashed = history.clashed
                              /\ history'.blurred = history.blurred \cup U
         /\ \A b : Race(b) => /\ history'.raced = (history.raced \/ b)
                              /\ history'.clashed = history.clashed
                              /\ history'.blurred = history.blurred
         /\ \A s : RecordAdd(s) => /\ history'.raced = (history.raced \/ Unlisting)
                                   /\ history'.clashed = (history.clashed \/ Choosing # {s})
                                   /\ history'.blurred = history.blurred
<1>. history \in History
  BY DEF TypeOK
<1>1. \A U : Blur(U) => /\ history'.raced = history.raced /\ history'.clashed = history.clashed
                        /\ history'.blurred = history.blurred \cup U
  BY DEF Blur, History
<1>2. \A b : Race(b) => /\ history'.raced = (history.raced \/ b)
                        /\ history'.clashed = history.clashed
                        /\ history'.blurred = history.blurred
  BY DEF Race, History
<1>3. \A s : RecordAdd(s) => /\ history'.raced = (history.raced \/ Unlisting)
                             /\ history'.clashed = (history.clashed \/ Choosing # {s})
                             /\ history'.blurred = history.blurred
  BY DEF RecordAdd, History
<1>. QED
  BY <1>1, <1>2, <1>3

\* raced and clashed, once true, stay true, and blurred only grows.
LEMMA HistoryGrows ==
  ASSUME TypeOK, [Next]_vars
  PROVE  /\ history.raced => history'.raced
         /\ history.clashed => history'.clashed
         /\ history.blurred \subseteq history'.blurred
<1>1. \/ UNCHANGED history \/ (\E U : Blur(U)) \/ (\E b : Race(b)) \/ (\E s : RecordAdd(s))
  <2>. DEFINE Recorded ==
           \/ UNCHANGED history \/ (\E U : Blur(U)) \/ (\E b : Race(b)) \/ (\E s : RecordAdd(s))
  <2>1. ASSUME NEW s \in Sockets,
               \/ BoardPageConnects(s) \/ ConnectionRefused(s) \/ BoardPageLeaves(s)
               \/ HandleDisconnect(s) \/ Crash(s) \/ JoinRateLimited(s) \/ JoinDenied(s)
        PROVE  Recorded
    BY <2>1 DEF BoardPageConnects, ConnectionRefused, BoardPageLeaves, HandleDisconnect, Crash,
       JoinRateLimited, JoinDenied, DropJoin, LeftWhileJoining
  <2>2. ASSUME NEW s \in Sockets, JoinStep(s) PROVE Recorded
    BY <2>2 DEF JoinStep, JoinRoom, ChooseColour, AddPresence, ReadRoster, SendRoster, DropJoin
  <2>3. ASSUME NEW s \in Sockets, RemovalStep(s) PROVE Recorded
    BY <2>3 DEF RemovalStep, LeaveRemoves, LeaveUnlists, ByeRemoves, ByeUnlists, LeftWhileJoining
  <2>4. ASSUME NEW s \in Sockets,
               HandleHeartbeat(s) \/ UpdateHeartbeat(s) \/ GoesStale(s) \/ Lapse(s)
        PROVE  Recorded
    BY <2>4 DEF HandleHeartbeat, UpdateHeartbeat, GoesStale, Lapse
  <2>5. ASSUME SweepStep PROVE Recorded
    BY <2>5 DEF SweepStep, SweepLists, SweepChecks, SweepPrunes, SweepUnlists
  <2>6. ASSUME UNCHANGED vars PROVE Recorded
    BY <2>6 DEF vars
  <2>. HIDE DEF Recorded
  <2>7. ASSUME Next PROVE Recorded
    BY <2>1, <2>2, <2>3, <2>4, <2>5, <2>7 DEF Next
  <2>8. Recorded
    BY <2>6, <2>7
  <2>. QED
    BY <2>8 DEF Recorded
<1>. QED
  BY <1>1, Noted

\* A step that adds no entry, starts no SREM and leaves the list alone.
LEMMA ListStays ==
  ASSUME ListInv, history.raced => history'.raced, listed' = listed,
         Active' \subseteq Active, Unlisting' => Unlisting
  PROVE  ListInv'
BY DEF ListInv

LEMMA ListKept == TypeOK /\ ListInv /\ [Next]_vars => ListInv'
<1>. SUFFICES ASSUME TypeOK, ListInv, [Next]_vars PROVE ListInv'
  OBVIOUS
<1>. USE DEF redis, pages
<1>raced. history.raced => history'.raced
  BY HistoryGrows
<1>1. ASSUME NEW s \in Sockets,
             \/ BoardPageConnects(s) \/ ConnectionRefused(s) \/ DropJoin(s) \/ JoinRoom(s)
             \/ ChooseColour(s) \/ ReadRoster(s) \/ SendRoster(s) \/ HandleHeartbeat(s)
      PROVE  ListInv'
  <2>1. UNCHANGED <<redis, leave, bye, sweep>>
    BY <1>1 DEF BoardPageConnects, ConnectionRefused, DropJoin, JoinRoom, ChooseColour,
       ReadRoster, SendRoster, HandleHeartbeat
  <2>2. Active' = Active /\ Unlisting' = Unlisting
    BY <2>1 DEF Active, Unlisting
  <2>. QED
    BY <1>raced, <2>1, <2>2, ListStays
<1>2. ASSUME NEW s \in Sockets, BoardPageLeaves(s) \/ HandleDisconnect(s) \/ Crash(s)
      PROVE  ListInv'
  <2>1. UNCHANGED <<redis, sweep>>
    BY <1>2 DEF BoardPageLeaves, HandleDisconnect, Crash
  <2>2. \A t \in Sockets : \/ leave'[t] = leave[t] \/ leave'[t] = Nil
                           \/ leave'[t].step = "remove"
    BY <1>2 DEF BoardPageLeaves, HandleDisconnect, Crash, TypeOK
  <2>3. \A t \in Sockets : \/ bye'[t] = bye[t] \/ bye'[t] = Nil
                           \/ bye'[t].step = "remove"
    BY <1>2 DEF BoardPageLeaves, HandleDisconnect, Crash, TypeOK
  <2>4. Active' = Active /\ (Unlisting' => Unlisting)
    BY <2>1, <2>2, <2>3 DEF Active, Unlisting
  <2>. QED
    BY <1>raced, <2>1, <2>4, ListStays
<1>3. ASSUME NEW s \in Sockets, AddPresence(s) PROVE ListInv'
  <2>1. Unlisting' = Unlisting
    BY <1>3 DEF AddPresence, Unlisting
  <2>2. history'.raced = (history.raced \/ Unlisting)
    BY <1>3 DEF AddPresence, RecordAdd, TypeOK, History
  <2>. QED
    BY <1>3, <2>1, <2>2 DEF AddPresence, ListInv
<1>4. ASSUME NEW s \in Sockets, LeaveRemoves(s) \/ ByeRemoves(s) PROVE ListInv'
  <2>1. Active' = Active \ {s} /\ listed' = listed
    BY <1>4 DEF LeaveRemoves, ByeRemoves, RemoveEntry, Active, TypeOK
  <2>2. CASE LastOut({s})
    BY <2>1, <2>2, <1>raced DEF ListInv, LastOut
  <2>3. CASE ~LastOut({s})
    <3>1. \A t \in Sockets : leave'[t] = leave[t] \/ leave'[t] = Nil
      BY <1>4, <2>3 DEF LeaveRemoves, ByeRemoves, TypeOK
    <3>2. \A t \in Sockets : bye'[t] = bye[t] \/ bye'[t] = Nil
      BY <1>4, <2>3 DEF LeaveRemoves, ByeRemoves, TypeOK
    <3>3. sweep' = sweep
      BY <1>4 DEF LeaveRemoves, ByeRemoves
    <3>4. Unlisting' => Unlisting
      BY <3>1, <3>2, <3>3 DEF Unlisting
    <3>. QED
      BY <1>raced, <2>1, <3>4, ListStays
  <2>. QED
    BY <2>2, <2>3
<1>5. ASSUME NEW s \in Sockets, LeaveUnlists(s) \/ ByeUnlists(s) PROVE ListInv'
  <2>1. Unlisting
    BY <1>5 DEF LeaveUnlists, ByeUnlists, Unlisting
  <2>2. Active' = Active
    BY <1>5 DEF LeaveUnlists, ByeUnlists, Active
  <2>. QED
    BY <1>raced, <2>1, <2>2 DEF ListInv
<1>6. ASSUME NEW s \in Sockets, UpdateHeartbeat(s) PROVE ListInv'
  <2>1. history'.raced = (history.raced \/ score[s] = "absent")
    BY <1>6 DEF UpdateHeartbeat, Race, TypeOK, History
  <2>2. score[s] # "absent" => Active' = Active
    BY <1>6 DEF UpdateHeartbeat, Active, TypeOK
  <2>3. Unlisting' = Unlisting /\ listed' = listed
    BY <1>6 DEF UpdateHeartbeat, Unlisting
  <2>. QED
    BY <2>1, <2>2, <2>3 DEF ListInv
<1>7. ASSUME NEW s \in Sockets, GoesStale(s) \/ Lapse(s) PROVE ListInv'
  <2>1. Active' = Active
    BY <1>7 DEF GoesStale, Lapse, Active, TypeOK
  <2>2. Unlisting' = Unlisting /\ listed' = listed
    BY <1>7 DEF GoesStale, Lapse, Unlisting
  <2>. QED
    BY <1>raced, <2>1, <2>2, ListStays
<1>8. CASE SweepLists \/ SweepChecks
  <2>1. UNCHANGED <<redis, leave, bye>> /\ sweep'.step # "srem"
    BY <1>8 DEF SweepLists, SweepChecks, ToSweep
  <2>2. Active' = Active /\ (Unlisting' => Unlisting)
    BY <2>1 DEF Active, Unlisting
  <2>. QED
    BY <1>raced, <2>1, <2>2, ListStays
<1>9. CASE SweepPrunes
  <2>. DEFINE S == sweep.stale
  <2>1. Active' = Active \ S /\ UNCHANGED <<listed, leave, bye>>
    BY <1>9 DEF SweepPrunes, Pruned, Active
  <2>2. CASE LastOut(S)
    BY <2>1, <2>2, <1>raced DEF ListInv, LastOut
  <2>3. CASE ~LastOut(S)
    <3>1. sweep'.step = "idle"
      BY <1>9, <2>3 DEF SweepPrunes, ToSweep
    <3>2. Unlisting' => Unlisting
      BY <2>1, <3>1 DEF Unlisting
    <3>. QED
      BY <1>raced, <2>1, <3>2, ListStays
  <2>. QED
    BY <2>2, <2>3
<1>10. CASE SweepUnlists
  <2>1. Unlisting
    BY <1>10 DEF SweepUnlists, Unlisting
  <2>2. Active' = Active
    BY <1>10 DEF SweepUnlists, Active
  <2>. QED
    BY <1>raced, <2>1, <2>2 DEF ListInv
<1>11. CASE UNCHANGED vars
  <2>1. UNCHANGED <<redis, leave, bye, sweep>>
    BY <1>11 DEF vars
  <2>2. Active' = Active /\ Unlisting' = Unlisting
    BY <2>1 DEF Active, Unlisting
  <2>. QED
    BY <1>raced, <2>1, <2>2, ListStays
<1>. QED
  BY <1>1, <1>2, <1>3, <1>4, <1>5, <1>6, <1>7, <1>8, <1>9, <1>10, <1>11
     DEF Next, JoinStep, RemovalStep, SweepStep, JoinRateLimited, JoinDenied

\* ListedWhileViewed: however joins, leaves, disconnections, crashes, heartbeats
\* and sweeps overlap, a board with entries is in presence:active_boards, unless
\* an entry appeared while a removal was between its ZCARD and its SREM, or a
\* late heartbeat re-created one.  Whoever is about to send the SREM is still
\* right that nobody is left, or the race has been noted.
THEOREM ListedWhileAnyoneViews == Spec => []ListedWhileViewed
<1>1. Init => ListInv
  BY DEF Init, ListInv, Active, Unlisting
<1>2. TypeOK /\ ListInv => ListedWhileViewed
  BY DEF ListInv, ListedWhileViewed
<1>. QED
  BY <1>1, <1>2, InitTyped, NextTyped, ListKept, PTL DEF Spec

-----------------------------------------------------------------------------
(* The stages of a connection *)

\* A handler that is under way is something.
LEMMA RecordsAreSomething ==
  /\ \A step \in JoinSteps, S \in SUBSET Sockets, c \in Colours \cup {Nil} :
       [step |-> step, seen |-> S, colour |-> c] # Nil
  /\ \A step \in RemoveSteps, b \in BOOLEAN : [step |-> step, had |-> b] # Nil
BY JoinRecords, NilIsNothing

\* What a step of handleBoardJoin leaves of the other joins and of its own.
LEMMA JoinGoesOn ==
  ASSUME TypeOK, NEW s \in Sockets, NEW step \in JoinSteps, NEW S \in SUBSET Sockets,
         NEW c \in Colours \cup {Nil}, ToJoin(s, step, S, c)
  PROVE  /\ \A t \in Sockets \ {s} : join'[t] = join[t]
         /\ join'[s] # Nil /\ join'[s].step = step /\ join'[s].seen = S /\ join'[s].colour = c
BY RecordsAreSomething DEF ToJoin, TypeOK

LEMMA StageKept == TypeOK /\ StageInv /\ [Next]_vars => StageInv'
<1>. SUFFICES ASSUME TypeOK, StageInv, [Next]_vars, NEW t \in Sockets PROVE StageOf(t)'
  BY DEF StageInv
<1>. USE DEF redis, pages
<1>0. StageOf(t)
  BY DEF StageInv
<1>far. t \notin room => /\ \A U, x : Departed(U, x)[t] = shown[t]
                         /\ \A u, x : Announced(u, x)[t] = shown[t]
  BY DEF Departed, Announced
<1>1. ASSUME NEW s \in Sockets, BoardPageConnects(s) PROVE StageOf(t)'
  <2>1. join'[s].step = "guard" /\ \A r \in Sockets \ {s} : join'[r] = join[r]
    BY <1>1 DEF BoardPageConnects, TypeOK
  <2>. QED
    BY <1>0, <1>1, <2>1 DEF BoardPageConnects, StageOf, Untouched, Joining, TypeOK
<1>2. ASSUME NEW s \in Sockets, ConnectionRefused(s) PROVE StageOf(t)'
  BY <1>0, <1>2 DEF ConnectionRefused, StageOf, Untouched, Joining, TypeOK
<1>3. ASSUME NEW s \in Sockets, BoardPageLeaves(s) PROVE StageOf(t)'
  BY <1>0, <1>3 DEF BoardPageLeaves, StageOf, Untouched, Joining, TypeOK
<1>4. ASSUME NEW s \in Sockets, HandleDisconnect(s) PROVE StageOf(t)'
  BY <1>0, <1>4 DEF HandleDisconnect, StageOf, Untouched, Joining, TypeOK
<1>5. ASSUME NEW s \in Sockets, Crash(s) PROVE StageOf(t)'
  BY <1>0, <1>5 DEF Crash, StageOf, Untouched, Joining, TypeOK
<1>6. ASSUME NEW s \in Sockets, DropJoin(s) PROVE StageOf(t)'
  BY <1>0, <1>6 DEF DropJoin, StageOf, Untouched, Joining, TypeOK
<1>7. ASSUME NEW s \in Sockets, JoinRoom(s) PROVE StageOf(t)'
  <2>1. /\ \A r \in Sockets \ {s} : join'[r] = join[r]
        /\ join'[s] # Nil /\ join'[s].step = "viewers"
    BY <1>7, JoinGoesOn DEF JoinRoom, JoinSteps
  <2>. QED
    BY <1>0, <1>7, <2>1 DEF JoinRoom, Up, StageOf, Untouched, Joining, TypeOK
<1>8. ASSUME NEW s \in Sockets, ChooseColour(s) PROVE StageOf(t)'
  <2>1. ColourOf(UserOf[s], Viewers) \in Colours
    BY UserOfType, ColourChosen
  <2>2. /\ \A r \in Sockets \ {s} : join'[r] = join[r]
        /\ join'[s] # Nil /\ join'[s].step = "add" /\ join'[s].colour # Nil
    BY <1>8, <2>1, JoinGoesOn, NilIsNothing DEF ChooseColour, JoinSteps
  <2>. QED
    BY <1>0, <1>8, <2>2 DEF ChooseColour, StageOf, Untouched, Joining, TypeOK
<1>9. ASSUME NEW s \in Sockets, AddPresence(s) PROVE StageOf(t)'
  <2>1. /\ \A r \in Sockets \ {s} : join'[r] = join[r]
        /\ join'[s] # Nil /\ join'[s].step = "roster"
    BY <1>9, JoinGoesOn DEF AddPresence, JoinSteps
  <2>. QED
    BY <1>0, <1>9, <2>1 DEF AddPresence, StageOf, Untouched, Joining, TypeOK
<1>10. ASSUME NEW s \in Sockets, ReadRoster(s) PROVE StageOf(t)'
  <2>1. /\ \A r \in Sockets \ {s} : join'[r] = join[r]
        /\ join'[s] # Nil /\ join'[s].step = "announce"
    BY <1>10, JoinGoesOn DEF ReadRoster, JoinSteps, FreshIn
  <2>. QED
    BY <1>0, <1>10, <2>1 DEF ReadRoster, StageOf, Untouched, Joining, TypeOK
<1>11. ASSUME NEW s \in Sockets, SendRoster(s) PROVE StageOf(t)'
  <2>1. t \notin room => (t = s /\ conn[s] = "up") \/ shown'[t] = shown[t]
    BY <1>11, <1>far DEF SendRoster, TypeOK
  <2>2. t = s /\ conn[s] = "up" => t \in room
    BY <1>0, <1>11 DEF SendRoster, Joining, StageOf
  <2>3. room' = room /\ (t \notin room => shown'[t] = {})
    BY <1>0, <1>11, <2>1, <2>2 DEF SendRoster, StageOf
  <2>. QED
    BY <1>0, <1>11, <2>3 DEF SendRoster, StageOf, Untouched, Joining, TypeOK
<1>12. ASSUME NEW s \in Sockets, LeaveRemoves(s) PROVE StageOf(t)'
  <2>1. room' = room /\ (t \notin room => shown'[t] = {})
    BY <1>0, <1>12, <1>far DEF LeaveRemoves, StageOf
  <2>. QED
    BY <1>0, <1>12, <2>1 DEF LeaveRemoves, RemoveEntry, StageOf, Untouched, Joining, TypeOK
<1>13. ASSUME NEW s \in Sockets, LeaveUnlists(s) PROVE StageOf(t)'
  <2>1. room' = room /\ (t \notin room => shown'[t] = {})
    BY <1>0, <1>13, <1>far DEF LeaveUnlists, StageOf
  <2>. QED
    BY <1>0, <1>13, <2>1 DEF LeaveUnlists, StageOf, Untouched, Joining, TypeOK
<1>14. ASSUME NEW s \in Sockets, ByeRemoves(s) PROVE StageOf(t)'
  <2>1. room' = room /\ (t \notin room => shown'[t] = {})
    BY <1>0, <1>14, <1>far DEF ByeRemoves, StageOf
  <2>. QED
    BY <1>0, <1>14, <2>1 DEF ByeRemoves, RemoveEntry, StageOf, Untouched, Joining, TypeOK
<1>15. ASSUME NEW s \in Sockets, ByeUnlists(s) PROVE StageOf(t)'
  <2>1. room' = room /\ (t \notin room => shown'[t] = {})
    BY <1>0, <1>15, <1>far DEF ByeUnlists, StageOf
  <2>. QED
    BY <1>0, <1>15, <2>1 DEF ByeUnlists, StageOf, Untouched, Joining, TypeOK
<1>16. ASSUME NEW s \in Sockets, HandleHeartbeat(s) PROVE StageOf(t)'
  BY <1>0, <1>16 DEF HandleHeartbeat, StageOf, Untouched, Joining, TypeOK
<1>17. ASSUME NEW s \in Sockets, UpdateHeartbeat(s) PROVE StageOf(t)'
  BY <1>0, <1>17 DEF UpdateHeartbeat, StageOf, Untouched, Joining, TypeOK
<1>18. ASSUME NEW s \in Sockets, GoesStale(s) \/ Lapse(s) PROVE StageOf(t)'
  BY <1>0, <1>18 DEF GoesStale, Lapse, StageOf, Untouched, Joining, TypeOK
<1>19. CASE SweepLists \/ SweepUnlists
  <2>1. room' = room /\ (t \notin room => shown'[t] = {})
    BY <1>0, <1>19, <1>far DEF SweepLists, SweepUnlists, StageOf
  <2>. QED
    BY <1>0, <1>19, <2>1 DEF SweepLists, SweepUnlists, ToSweep, StageOf, Untouched, Joining, TypeOK
<1>20. CASE SweepChecks
  BY <1>0, <1>20 DEF SweepChecks, ToSweep, StageOf, Untouched, Joining, TypeOK
<1>21. CASE SweepPrunes
  <2>1. t \in sweep'.stale => t \in sweep.stale
    BY <1>21 DEF SweepPrunes, ToSweep, WithMeta
  <2>2. room' = room /\ (t \notin room => shown'[t] = {})
    BY <1>0, <1>21, <1>far DEF SweepPrunes, StageOf
  <2>. QED
    BY <1>0, <1>21, <2>1, <2>2 DEF SweepPrunes, Pruned, StageOf, Untouched, Joining, TypeOK
<1>22. CASE UNCHANGED vars
  BY <1>0, <1>22 DEF vars, StageOf, Untouched, Joining
<1>. QED
  BY <1>1, <1>2, <1>3, <1>4, <1>5, <1>6, <1>7, <1>8, <1>9, <1>10, <1>11, <1>12, <1>13,
     <1>14, <1>15, <1>16, <1>17, <1>18, <1>19, <1>20, <1>21, <1>22
     DEF Next, JoinStep, RemovalStep, SweepStep, JoinRateLimited, JoinDenied

-----------------------------------------------------------------------------
(* Users who did nothing unusual *)

LEMMA PlainKept == TypeOK /\ StageInv /\ PlainInv /\ [Next]_vars => PlainInv'
<1>. SUFFICES ASSUME TypeOK, StageInv, PlainInv, [Next]_vars,
                     NEW t \in Sockets, UserOf[t] \notin history'.blurred
              PROVE  PlainOf(t)'
  BY DEF PlainInv
<1>. USE DEF redis, pages
<1>0. StageOf(t) /\ PlainOf(t)
  BY HistoryGrows DEF StageInv, PlainInv
<1>. DEFINE Same == /\ conn'[t] = conn[t] /\ (current'[t] <=> current[t]) /\ join'[t] = join[t]
                    /\ leave'[t] = leave[t] /\ meta'[t] = meta[t] /\ score'[t] = score[t]
                    /\ (t \in beat' => t \in beat) /\ (t \in sweep'.stale => t \in sweep.stale)
<1>same. Same => PlainOf(t)'
  BY <1>0 DEF PlainOf, Entered, Joining
<1>1. ASSUME NEW s \in Sockets, BoardPageConnects(s) PROVE PlainOf(t)'
  <2>1. join'[s].step = "guard" /\ \A r \in Sockets \ {s} : join'[r] = join[r]
    BY <1>1 DEF BoardPageConnects, TypeOK
  <2>2. join'[s] # Nil
    BY <1>1, RecordsAreSomething DEF BoardPageConnects, TypeOK, JoinSteps
  <2>. QED
    BY <1>0, <1>1, <2>1, <2>2
       DEF BoardPageConnects, StageOf, PlainOf, Entered, Untouched, Joining, TypeOK
<1>2. ASSUME NEW s \in Sockets, ConnectionRefused(s) PROVE PlainOf(t)'
  BY <1>0, <1>2 DEF ConnectionRefused, PlainOf, Entered, Joining, TypeOK
<1>3. ASSUME NEW s \in Sockets, BoardPageLeaves(s) PROVE PlainOf(t)'
  <2>1. leave'[s].step = "remove" /\ leave'[s] # Nil
    BY <1>3, RecordsAreSomething DEF BoardPageLeaves, TypeOK, RemoveSteps
  <2>. QED
    BY <1>0, <1>3, <2>1 DEF BoardPageLeaves, StageOf, PlainOf, Entered, Joining, TypeOK
<1>4. ASSUME NEW s \in Sockets, HandleDisconnect(s) PROVE PlainOf(t)'
  BY <1>0, <1>4 DEF HandleDisconnect, PlainOf, Entered, Joining, TypeOK
<1>5. ASSUME NEW s \in Sockets, Crash(s) PROVE PlainOf(t)'
  BY <1>0, <1>5 DEF Crash, PlainOf, Entered, Joining, TypeOK
<1>6. ASSUME NEW s \in Sockets, DropJoin(s) PROVE PlainOf(t)'
  BY <1>0, <1>6 DEF DropJoin, StageOf, PlainOf, Entered, Joining, TypeOK
<1>7. ASSUME NEW s \in Sockets, JoinRoom(s) PROVE PlainOf(t)'
  <2>1. /\ \A r \in Sockets \ {s} : join'[r] = join[r]
        /\ join'[s] # Nil /\ join'[s].step = "viewers"
    BY <1>7, JoinGoesOn DEF JoinRoom, JoinSteps
  <2>. QED
    BY <1>0, <1>7, <2>1 DEF JoinRoom, StageOf, PlainOf, Entered, Joining, TypeOK
<1>8. ASSUME NEW s \in Sockets, ChooseColour(s) PROVE PlainOf(t)'
  <2>1. ColourOf(UserOf[s], Viewers) \in Colours
    BY UserOfType, ColourChosen
  <2>2. /\ \A r \in Sockets \ {s} : join'[r] = join[r]
        /\ join'[s] # Nil /\ join'[s].step = "add"
    BY <1>8, <2>1, JoinGoesOn DEF ChooseColour, JoinSteps
  <2>. QED
    BY <1>0, <1>8, <2>2 DEF ChooseColour, StageOf, PlainOf, Entered, Joining, TypeOK
<1>9. ASSUME NEW s \in Sockets, AddPresence(s) PROVE PlainOf(t)'
  <2>1. /\ \A r \in Sockets \ {s} : join'[r] = join[r]
        /\ join'[s] # Nil /\ join'[s].step = "roster"
    BY <1>9, JoinGoesOn DEF AddPresence, JoinSteps
  <2>2. t = s => StageOf(s)
    BY <1>0
  <2>. QED
    BY <1>0, <1>9, <2>1, <2>2 DEF AddPresence, StageOf, PlainOf, Entered, Joining, TypeOK
<1>10. ASSUME NEW s \in Sockets, ReadRoster(s) PROVE PlainOf(t)'
  <2>1. /\ \A r \in Sockets \ {s} : join'[r] = join[r]
        /\ join'[s] # Nil /\ join'[s].step = "announce" /\ join'[s].seen = FreshIn(Sockets)
    BY <1>10, JoinGoesOn DEF ReadRoster, JoinSteps, FreshIn
  <2>. QED
    BY <1>0, <1>10, <2>1 DEF ReadRoster, StageOf, PlainOf, Entered, Joining, FreshIn, TypeOK
<1>11. ASSUME NEW s \in Sockets, SendRoster(s) PROVE PlainOf(t)'
  BY <1>0, <1>11 DEF SendRoster, StageOf, PlainOf, Entered, Joining, TypeOK
<1>12. ASSUME NEW s \in Sockets, LeaveRemoves(s) PROVE PlainOf(t)'
  <2>1. t = s => join[s] = Nil
    BY <1>12, Noted DEF LeaveRemoves, LeftWhileJoining
  <2>. QED
    BY <1>0, <1>12, <2>1
       DEF LeaveRemoves, RemoveEntry, StageOf, PlainOf, Entered, Joining, TypeOK
<1>13. ASSUME NEW s \in Sockets, LeaveUnlists(s) PROVE PlainOf(t)'
  BY <1>0, <1>13 DEF LeaveUnlists, StageOf, PlainOf, Entered, Joining, TypeOK
<1>14. ASSUME NEW s \in Sockets, ByeRemoves(s) PROVE PlainOf(t)'
  <2>1. t = s => join[s] = Nil
    BY <1>14, Noted DEF ByeRemoves, LeftWhileJoining
  <2>. QED
    BY <1>0, <1>14, <2>1
       DEF ByeRemoves, RemoveEntry, StageOf, PlainOf, Entered, Joining, TypeOK
<1>15. ASSUME NEW s \in Sockets, ByeUnlists(s) PROVE PlainOf(t)'
  BY <1>15, <1>same DEF ByeUnlists
<1>16. ASSUME NEW s \in Sockets, HandleHeartbeat(s) PROVE PlainOf(t)'
  BY <1>0, <1>16 DEF HandleHeartbeat, PlainOf, Entered, Joining
<1>17. ASSUME NEW s \in Sockets, UpdateHeartbeat(s) PROVE PlainOf(t)'
  BY <1>0, <1>17 DEF UpdateHeartbeat, PlainOf, Entered, Joining, TypeOK
<1>18. ASSUME NEW s \in Sockets, GoesStale(s) PROVE PlainOf(t)'
  BY <1>0, <1>18 DEF GoesStale, PlainOf, Entered, Joining, TypeOK
<1>19. ASSUME NEW s \in Sockets, Lapse(s) PROVE PlainOf(t)'
  <2>1. t # s
    BY <1>19, Noted DEF Lapse
  <2>. QED
    BY <1>19, <2>1, <1>same DEF Lapse, TypeOK
<1>20. CASE SweepLists \/ SweepUnlists
  BY <1>20, <1>same DEF SweepLists, SweepUnlists, ToSweep
<1>21. CASE SweepChecks
  BY <1>0, <1>21 DEF SweepChecks, ToSweep, PlainOf, Entered, Joining
<1>22. CASE SweepPrunes
  <2>1. t \in sweep'.stale => t \in sweep.stale
    BY <1>22 DEF SweepPrunes, ToSweep, WithMeta
  <2>2. t \in sweep.stale => conn[t] # "up"
    BY <1>0 DEF PlainOf
  <2>. QED
    BY <1>0, <1>22, <2>1, <2>2 DEF SweepPrunes, Pruned, StageOf, PlainOf, Entered, Joining, TypeOK
<1>23. CASE UNCHANGED vars
  BY <1>23, <1>same DEF vars
<1>. QED
  BY <1>1, <1>2, <1>3, <1>4, <1>5, <1>6, <1>7, <1>8, <1>9, <1>10, <1>11, <1>12, <1>13,
     <1>14, <1>15, <1>16, <1>17, <1>18, <1>19, <1>20, <1>21, <1>22, <1>23
     DEF Next, JoinStep, RemovalStep, SweepStep, JoinRateLimited, JoinDenied

\* A step of another user's socket touches none of this one's.
LEMMA OnlyConnectingTouches ==
  ASSUME TypeOK, StageInv, [Next]_vars, NEW t \in Sockets, Touched(t)', ~Touched(t)
  PROVE  conn[t] = "new" /\ BoardPageConnects(t)
<1>. USE DEF redis, pages
<1>1. ASSUME NEW s \in Sockets,
             \/ ConnectionRefused(s) \/ BoardPageLeaves(s) \/ HandleDisconnect(s) \/ Crash(s)
      PROVE  FALSE
  BY <1>1 DEF ConnectionRefused, BoardPageLeaves, HandleDisconnect, Crash, Touched, Untouched, TypeOK
<1>2. ASSUME NEW s \in Sockets,
             \/ DropJoin(s) \/ JoinRoom(s) \/ ChooseColour(s) \/ AddPresence(s)
             \/ ReadRoster(s) \/ SendRoster(s)
      PROVE  FALSE
  BY <1>2 DEF DropJoin, JoinRoom, ChooseColour, AddPresence, ReadRoster, SendRoster, ToJoin,
     Joining, Touched, Untouched, TypeOK
<1>3. ASSUME NEW s \in Sockets,
             LeaveRemoves(s) \/ LeaveUnlists(s) \/ ByeRemoves(s) \/ ByeUnlists(s)
      PROVE  FALSE
  BY <1>3 DEF LeaveRemoves, LeaveUnlists, ByeRemoves, ByeUnlists, RemoveEntry, Touched, Untouched,
     TypeOK
<1>4. ASSUME NEW s \in Sockets,
             HandleHeartbeat(s) \/ UpdateHeartbeat(s) \/ GoesStale(s) \/ Lapse(s)
      PROVE  FALSE
  BY <1>4 DEF HandleHeartbeat, UpdateHeartbeat, GoesStale, Lapse, Touched, Untouched, TypeOK
<1>5. ASSUME SweepStep PROVE FALSE
  BY <1>5 DEF SweepStep, SweepLists, SweepChecks, SweepPrunes, SweepUnlists, ToSweep, Pruned,
     WithMeta, Touched, Untouched, TypeOK
<1>6. ASSUME UNCHANGED vars PROVE FALSE
  BY <1>6 DEF vars, Touched, Untouched
<1>7. ASSUME NEW s \in Sockets, BoardPageConnects(s) PROVE s = t
  BY <1>7 DEF BoardPageConnects, Touched, Untouched, TypeOK
<1>. QED
  BY <1>1, <1>2, <1>3, <1>4, <1>5, <1>6, <1>7
     DEF Next, JoinStep, RemovalStep, JoinRateLimited, JoinDenied, BoardPageConnects

LEMMA AloneKept == TypeOK /\ StageInv /\ AloneInv /\ [Next]_vars => AloneInv'
<1>. SUFFICES ASSUME TypeOK, StageInv, AloneInv, [Next]_vars,
                     NEW s \in Sockets, UserOf[s] \notin history'.blurred,
                     NEW t \in Sockets \ {s}, UserOf[t] = UserOf[s],
                     Touched(s)', Touched(t)'
              PROVE  FALSE
  BY DEF AloneInv, AloneIs
<1>1. ~(Touched(s) /\ Touched(t))
  BY HistoryGrows DEF AloneInv, AloneIs
<1>2. \A r \in Sockets : conn[r] = "new" => ~Touched(r)
  BY DEF StageInv, StageOf, Touched
<1>3. ASSUME NEW r \in {s, t}, BoardPageConnects(r) PROVE FALSE
  <2>1. \A q \in Sockets \ {r} : UserOf[q] = UserOf[s] => conn[q] = "new"
    BY <1>3, Noted DEF BoardPageConnects, UsersOf
  <2>2. PICK q \in {s, t} : q # r
    OBVIOUS
  <2>3. conn[q] = "new" /\ ~Touched(q)
    BY <2>1, <2>2, <1>2
  <2>4. BoardPageConnects(q)
    BY <2>3, OnlyConnectingTouches
  <2>. QED
    BY <1>3, <2>2, <2>4 DEF BoardPageConnects, TypeOK
<1>. QED
  BY <1>1, <1>3, OnlyConnectingTouches

-----------------------------------------------------------------------------
(* Nobody is missing *)

\* Sockets whose entry a handler or the sweep removes are not those of a user
\* who is there.
LEMMA OthersLeave ==
  ASSUME TypeOK, StageInv, AloneInv, PlainInv,
         NEW w \in Sockets, UserOf[w] \notin history.blurred, conn[w] = "up"
  PROVE  /\ \A r \in Sockets : leave[r] # Nil \/ bye[r] # Nil => UserOf[r] # UserOf[w]
         /\ UserOf[w] \notin UsersOf(sweep.stale)
<1>1. ASSUME NEW r \in Sockets, UserOf[r] = UserOf[w], Touched(r) PROVE r = w
  BY <1>1 DEF AloneInv, AloneIs, Touched
<1>2. \A r \in Sockets : leave[r] # Nil \/ bye[r] # Nil => conn[r] # "up" /\ Touched(r)
  BY DEF StageInv, StageOf, Touched, Untouched
<1>3. \A r \in sweep.stale : Touched(r)
  BY DEF Touched, Untouched
<1>4. w \notin sweep.stale
  BY DEF PlainInv, PlainOf
<1>. QED
  BY <1>1, <1>2, <1>3, <1>4 DEF UsersOf, TypeOK

LEMMA ShownKept ==
  TypeOK /\ StageInv /\ PlainInv /\ AloneInv /\ ShownInv /\ [Next]_vars => ShownInv'
<1>. SUFFICES ASSUME TypeOK, StageInv, PlainInv, AloneInv, ShownInv, [Next]_vars,
                     NEW w \in Sockets, NEW s \in Sockets, UserOf[w] \notin history'.blurred,
                     conn'[w] = "up", current'[w], join'[w] = Nil, conn'[s] = "up", current'[s]
              PROVE  /\ join'[s] = Nil => UserOf[w] \in shown'[s]
                     /\ Joining(s, "announce")' => w \in join'[s].seen
  BY DEF ShownInv, ShownTo
<1>. USE DEF redis, pages
<1>. DEFINE u == UserOf[w]
            Goal == /\ join'[s] = Nil => u \in shown'[s]
                    /\ Joining(s, "announce")' => w \in join'[s].seen
<1>0. ShownTo(w, s) /\ StageOf(w) /\ StageOf(s) /\ PlainOf(w) /\ u \notin history.blurred
  BY HistoryGrows DEF StageInv, PlainInv, ShownInv
\* Both sockets were there, as they are now.
<1>same. ASSUME UNCHANGED <<conn, current, join>>, u \in shown[s] => u \in shown'[s]
         PROVE  Goal
  BY <1>0, <1>same DEF ShownTo, Joining
<1>1. ASSUME NEW r \in Sockets, BoardPageConnects(r) PROVE Goal
  <2>1. r # w /\ r # s
    BY <1>0, <1>1 DEF BoardPageConnects, StageOf, TypeOK
  <2>. QED
    BY <1>0, <1>1, <2>1 DEF BoardPageConnects, ShownTo, Joining, TypeOK
<1>2. ASSUME NEW r \in Sockets, \/ ConnectionRefused(r) \/ BoardPageLeaves(r)
                                \/ HandleDisconnect(r) \/ Crash(r)
      PROVE  Goal
  <2>1. r # w /\ r # s
    BY <1>2 DEF ConnectionRefused, BoardPageLeaves, HandleDisconnect, Crash, TypeOK
  <2>. QED
    BY <1>0, <1>2, <2>1 DEF ConnectionRefused, BoardPageLeaves, HandleDisconnect, Crash,
       ShownTo, Joining, TypeOK
<1>3. ASSUME NEW r \in Sockets, DropJoin(r) PROVE Goal
  <2>1. r # w /\ r # s
    BY <1>0, <1>3 DEF DropJoin, StageOf
  <2>. QED
    BY <1>0, <1>3, <2>1 DEF DropJoin, ShownTo, Joining, TypeOK
<1>4. ASSUME NEW r \in Sockets, JoinRoom(r) PROVE Goal
  <2>1. /\ \A q \in Sockets \ {r} : join'[q] = join[q]
        /\ join'[r] # Nil /\ join'[r].step = "viewers"
    BY <1>4, JoinGoesOn DEF JoinRoom, JoinSteps
  <2>2. \A q \in Sockets \ {r} : current'[q] = current[q]
    BY <1>4 DEF JoinRoom, TypeOK
  <2>. QED
    BY <1>0, <1>4, <2>1, <2>2 DEF JoinRoom, ShownTo, Joining
<1>5. ASSUME NEW r \in Sockets, ChooseColour(r) PROVE Goal
  <2>1. ColourOf(UserOf[r], Viewers) \in Colours
    BY UserOfType, ColourChosen
  <2>2. /\ \A q \in Sockets \ {r} : join'[q] = join[q]
        /\ join'[r] # Nil /\ join'[r].step = "add"
    BY <1>5, <2>1, JoinGoesOn DEF ChooseColour, JoinSteps
  <2>. QED
    BY <1>0, <1>5, <2>2 DEF ChooseColour, ShownTo, Joining
<1>6. ASSUME NEW r \in Sockets, AddPresence(r) PROVE Goal
  <2>1. /\ \A q \in Sockets \ {r} : join'[q] = join[q]
        /\ join'[r] # Nil /\ join'[r].step = "roster"
    BY <1>6, JoinGoesOn DEF AddPresence, JoinSteps
  <2>. QED
    BY <1>0, <1>6, <2>1 DEF AddPresence, ShownTo, Joining
<1>7. ASSUME NEW r \in Sockets, ReadRoster(r) PROVE Goal
  <2>1. /\ \A q \in Sockets \ {r} : join'[q] = join[q]
        /\ join'[r] # Nil /\ join'[r].step = "announce" /\ join'[r].seen = FreshIn(Sockets)
    BY <1>7, JoinGoesOn DEF ReadRoster, JoinSteps, FreshIn
  <2>2. w # r /\ join[w] = Nil
    BY <2>1
  <2>3. w \in FreshIn(Sockets)
    BY <1>0, <1>7, <2>2 DEF ReadRoster, PlainOf, Entered, FreshIn
  <2>. QED
    BY <1>0, <1>7, <2>1, <2>2, <2>3 DEF ReadRoster, ShownTo, Joining
<1>8. ASSUME NEW r \in Sockets, SendRoster(r) PROVE Goal
  <2>1. /\ Joining(r, "announce") /\ UNCHANGED <<conn, current, room>> /\ UNCHANGED meta
        /\ join'[r] = Nil /\ \A q \in Sockets \ {r} : join'[q] = join[q]
    BY <1>8 DEF SendRoster, TypeOK
  <2>2. meta[w] # Nil
    BY <1>0, <2>1 DEF PlainOf, Entered, Joining
  <2>3. s \in room
    BY <1>0, <2>1 DEF StageOf
  <2>4. s # r => shown'[s] = shown[s] \cup {UserOf[r]}
    BY <1>8, <2>3 DEF SendRoster, Announced, TypeOK
  <2>5. s = r => shown'[s] = UsersOf(WithMeta(join[s].seen))
    BY <1>8, <2>1 DEF SendRoster, Announced, TypeOK
  <2>6. CASE s = r
    <3>1. w \in join[s].seen
      BY <1>0, <2>1, <2>6 DEF ShownTo, PlainOf
    <3>. QED
      BY <2>1, <2>2, <2>5, <2>6, <3>1 DEF UsersOf, WithMeta, Joining
  <2>7. CASE s # r /\ w = r
    <3>1. Joining(s, "announce") => w \in join[s].seen
      <4>1. history'.blurred =
              history.blurred \cup (IF \E t \in Sockets \ {r} : Joining(t, "announce") /\ r \notin join[t].seen
                                    THEN {UserOf[r]} ELSE {})
        BY <1>8, Noted DEF SendRoster
      <4>. QED
        BY <2>7, <4>1
    <3>. QED
      BY <2>1, <2>4, <2>7, <3>1 DEF Joining
  <2>8. CASE s # r /\ w # r
    BY <1>0, <2>1, <2>4, <2>8 DEF ShownTo, Joining
  <2>. QED
    BY <2>6, <2>7, <2>8
<1>9. ASSUME NEW r \in Sockets,
             LeaveRemoves(r) \/ LeaveUnlists(r) \/ ByeRemoves(r) \/ ByeUnlists(r)
      PROVE  Goal
  <2>1. UNCHANGED <<conn, join>>
    BY <1>9 DEF LeaveRemoves, LeaveUnlists, ByeRemoves, ByeUnlists
  <2>2. leave[r] # Nil \/ bye[r] # Nil
    BY <1>9 DEF LeaveRemoves, LeaveUnlists, ByeRemoves, ByeUnlists
  <2>3. u # UserOf[r]
    BY <1>0, <2>1, <2>2, OthersLeave
  <2>4. current'[w] => current[w]
    BY <1>9 DEF LeaveRemoves, LeaveUnlists, ByeRemoves, ByeUnlists, TypeOK
  <2>5. current'[s] => current[s]
    BY <1>9 DEF LeaveRemoves, LeaveUnlists, ByeRemoves, ByeUnlists, TypeOK
  <2>6. u \in shown[s] => u \in shown'[s]
    BY <1>9, <2>3 DEF LeaveRemoves, LeaveUnlists, ByeRemoves, ByeUnlists, Departed, TypeOK
  <2>. QED
    BY <1>0, <2>1, <2>4, <2>5, <2>6 DEF ShownTo, Joining
<1>10. ASSUME NEW r \in Sockets,
              HandleHeartbeat(r) \/ UpdateHeartbeat(r) \/ GoesStale(r) \/ Lapse(r)
       PROVE  Goal
  BY <1>10, <1>same DEF HandleHeartbeat, UpdateHeartbeat, GoesStale, Lapse
<1>11. CASE SweepStep
  <2>1. UNCHANGED <<conn, current, join>>
    BY <1>11 DEF SweepStep, SweepLists, SweepChecks, SweepPrunes, SweepUnlists
  <2>2. u \notin UsersOf(sweep.stale)
    BY <1>0, <2>1, OthersLeave
  <2>3. UsersOf(WithMeta(sweep.stale)) \subseteq UsersOf(sweep.stale)
    BY DEF UsersOf, WithMeta
  <2>4. u \in shown[s] => u \in shown'[s]
    BY <1>11, <2>2, <2>3
       DEF SweepStep, SweepLists, SweepChecks, SweepPrunes, SweepUnlists, Departed, TypeOK
  <2>. QED
    BY <2>1, <2>4, <1>same
<1>12. CASE UNCHANGED vars
  BY <1>12, <1>same DEF vars
<1>. QED
  BY <1>1, <1>2, <1>3, <1>4, <1>5, <1>6, <1>7, <1>8, <1>9, <1>10, <1>11, <1>12
     DEF Next, JoinStep, RemovalStep, JoinRateLimited, JoinDenied

-----------------------------------------------------------------------------
(* Nobody stays on *)

\* A step that shows nobody new to a page, and takes nobody's entry away who
\* is not also taken off the pages.
LEMMA HereStays ==
  ASSUME TypeOK, StageInv, ShownAreHere, [Next]_vars,
         \A s \in room' : shown'[s] \subseteq shown[s],
         \A w \in Sockets : Here(w) => Here(w)' \/ UserOf[w] \in history'.blurred
                                       \/ \A s \in room' : UserOf[w] \notin shown'[s]
  PROVE  ShownAreHere'
<1>. SUFFICES ASSUME NEW s \in room', NEW u \in shown'[s] \ history'.blurred
              PROVE  \E w \in Sockets : UserOf[w] = u /\ Here(w)'
  BY DEF ShownAreHere
<1>1. u \in shown[s] /\ u \notin history.blurred
  BY HistoryGrows
<1>2. s \in room
  <2>1. room' \subseteq Sockets
    BY NextTyped DEF TypeOK
  <2>. QED
    BY <1>1, <2>1 DEF StageInv, StageOf
<1>3. PICK w \in Sockets : UserOf[w] = u /\ Here(w)
  BY <1>1, <1>2 DEF ShownAreHere
<1>. QED
  BY <1>3

LEMMA HereKept == TypeOK /\ StageInv /\ PlainInv /\ ShownAreHere /\ [Next]_vars => ShownAreHere'
<1>. SUFFICES ASSUME TypeOK, StageInv, PlainInv, ShownAreHere, [Next]_vars PROVE ShownAreHere'
  OBVIOUS
<1>. USE DEF redis, pages
<1>1. ASSUME UNCHANGED <<meta, leave, bye, sweep>>, \A s \in room' : shown'[s] \subseteq shown[s]
      PROVE  ShownAreHere'
  BY <1>1, HereStays DEF Here, Leaving
<1>2. ASSUME NEW s \in Sockets,
             \/ BoardPageConnects(s) \/ ConnectionRefused(s) \/ DropJoin(s) \/ JoinRoom(s)
             \/ ChooseColour(s) \/ ReadRoster(s) \/ HandleHeartbeat(s) \/ UpdateHeartbeat(s)
             \/ GoesStale(s) \/ Lapse(s)
      PROVE  ShownAreHere'
  BY <1>1, <1>2 DEF BoardPageConnects, ConnectionRefused, DropJoin, JoinRoom, ChooseColour,
     ReadRoster, HandleHeartbeat, UpdateHeartbeat, GoesStale, Lapse
<1>3. ASSUME NEW s \in Sockets, BoardPageLeaves(s) \/ HandleDisconnect(s) \/ Crash(s)
      PROVE  ShownAreHere'
  <2>1. \A r \in room' : shown'[r] \subseteq shown[r]
    BY <1>3 DEF BoardPageLeaves, HandleDisconnect, Crash, TypeOK
  <2>2. BoardPageLeaves(s) => leave[s] = Nil
    BY DEF BoardPageLeaves, StageInv, StageOf
  <2>3. HandleDisconnect(s) => bye[s] = Nil
    BY DEF HandleDisconnect, StageInv, StageOf
  <2>4. Crash(s) /\ Leaving(leave, s) => UserOf[s] \in history'.blurred
    BY Noted DEF Crash, Leaving
  <2>5. \A w \in Sockets : Here(w) => Here(w)' \/ UserOf[w] \in history'.blurred
    BY <1>3, <2>2, <2>3, <2>4
       DEF BoardPageLeaves, HandleDisconnect, Crash, Here, Leaving, TypeOK
  <2>. QED
    BY <2>1, <2>5, HereStays
<1>4. ASSUME NEW s \in Sockets, AddPresence(s) PROVE ShownAreHere'
  <2>1. join[s].colour # Nil
    BY <1>4 DEF AddPresence, StageInv, StageOf
  <2>2. \A w \in Sockets : Here(w) => Here(w)'
    BY <1>4, <2>1 DEF AddPresence, Here, Leaving, TypeOK
  <2>. QED
    BY <1>4, <2>2, HereStays DEF AddPresence
<1>5. ASSUME NEW s \in Sockets, SendRoster(s) PROVE ShownAreHere'
  <2>1. UNCHANGED <<meta, leave, bye, sweep, room>>
    BY <1>5 DEF SendRoster
  <2>2. \A w \in Sockets : Here(w)' = Here(w)
    BY <2>1 DEF Here, Leaving
  <2>. SUFFICES ASSUME NEW r \in room, NEW u \in shown'[r] \ history'.blurred
                PROVE  \E w \in Sockets : UserOf[w] = u /\ Here(w)
    BY <2>1, <2>2 DEF ShownAreHere
  <2>3. u \notin history.blurred
    BY HistoryGrows
  <2>4. r \in Sockets
    BY DEF TypeOK
  <2>5. CASE u \in shown[r]
    BY <2>3, <2>5 DEF ShownAreHere
  <2>6. CASE u \in UsersOf(WithMeta(join[s].seen))
    BY <1>5, <2>6 DEF SendRoster, Joining, Join, UsersOf, WithMeta, Here, TypeOK
  <2>7. CASE u = UserOf[s]
    BY <1>5, <2>3, <2>7 DEF SendRoster, PlainInv, PlainOf, Entered, Joining, Here
  <2>. QED
    BY <1>5, <2>4, <2>5, <2>6, <2>7 DEF SendRoster, Announced, TypeOK
<1>6. ASSUME NEW s \in Sockets, LeaveRemoves(s) PROVE ShownAreHere'
  <2>1. s \notin room /\ room' = room
    BY <1>6 DEF LeaveRemoves, StageInv, StageOf
  <2>2. \A r \in room' : shown'[r] \subseteq shown[r]
    BY <1>6, <2>1 DEF LeaveRemoves, Departed, TypeOK
  <2>3. CASE LastOut({s})
    <3>0. PICK b \in BOOLEAN : /\ meta[s] # Nil => b
                              /\ leave' = [leave EXCEPT ![s] = [step |-> "srem", had |-> b]]
      BY <1>6, <2>3 DEF LeaveRemoves
    <3>1. leave'[s] # Nil /\ leave'[s].step = "srem" /\ (meta[s] # Nil => leave'[s].had)
      BY <3>0, RecordsAreSomething DEF RemoveSteps, TypeOK
    <3>2. \A w \in Sockets : Here(w) => Here(w)'
      BY <1>6, <2>3, <3>1 DEF LeaveRemoves, RemoveEntry, Here, Leaving, TypeOK
    <3>. QED
      BY <2>2, <3>2, HereStays
  <2>4. CASE ~LastOut({s})
    <3>1. ASSUME meta[s] # Nil PROVE \A r \in room' : UserOf[s] \notin shown'[r]
      <4>1. shown' = Departed({UserOf[s]}, s)
        BY <1>6, <2>4, <3>1 DEF LeaveRemoves
      <4>. QED
        BY <2>1, <4>1 DEF Departed, TypeOK
    <3>2. \A w \in Sockets : Here(w) => Here(w)' \/ (w = s /\ meta[s] # Nil)
      BY <1>6, <2>4 DEF LeaveRemoves, RemoveEntry, Here, Leaving, TypeOK
    <3>. QED
      BY <2>2, <3>1, <3>2, HereStays
  <2>. QED
    BY <2>3, <2>4
<1>7. ASSUME NEW s \in Sockets, ByeRemoves(s) PROVE ShownAreHere'
  <2>1. s \notin room /\ room' = room
    BY <1>7 DEF ByeRemoves, StageInv, StageOf
  <2>2. \A r \in room' : shown'[r] \subseteq shown[r]
    BY <1>7, <2>1 DEF ByeRemoves, Departed, TypeOK
  <2>3. CASE LastOut({s})
    <3>0. PICK b \in BOOLEAN : /\ meta[s] # Nil => b
                              /\ bye' = [bye EXCEPT ![s] = [step |-> "srem", had |-> b]]
      BY <1>7, <2>3 DEF ByeRemoves
    <3>1. bye'[s] # Nil /\ bye'[s].step = "srem" /\ (meta[s] # Nil => bye'[s].had)
      BY <3>0, RecordsAreSomething DEF RemoveSteps, TypeOK
    <3>2. \A w \in Sockets : Here(w) => Here(w)'
      BY <1>7, <2>3, <3>1 DEF ByeRemoves, RemoveEntry, Here, Leaving, TypeOK
    <3>. QED
      BY <2>2, <3>2, HereStays
  <2>4. CASE ~LastOut({s})
    <3>1. ASSUME meta[s] # Nil PROVE \A r \in room' : UserOf[s] \notin shown'[r]
      <4>1. shown' = Departed({UserOf[s]}, s)
        BY <1>7, <2>4, <3>1 DEF ByeRemoves
      <4>. QED
        BY <2>1, <4>1 DEF Departed, TypeOK
    <3>2. \A w \in Sockets : Here(w) => Here(w)' \/ (w = s /\ meta[s] # Nil)
      BY <1>7, <2>4 DEF ByeRemoves, RemoveEntry, Here, Leaving, TypeOK
    <3>. QED
      BY <2>2, <3>1, <3>2, HereStays
  <2>. QED
    BY <2>3, <2>4
<1>8. ASSUME NEW s \in Sockets, LeaveUnlists(s) \/ ByeUnlists(s) PROVE ShownAreHere'
  <2>1. s \notin room /\ room' = room
    BY <1>8 DEF LeaveUnlists, ByeUnlists, StageInv, StageOf
  <2>2. \A r \in room' : shown'[r] \subseteq shown[r]
    BY <1>8, <2>1 DEF LeaveUnlists, ByeUnlists, Departed, TypeOK
  <2>3. \A w \in Sockets \ {s} : Here(w) => Here(w)'
    BY <1>8 DEF LeaveUnlists, ByeUnlists, Here, Leaving, TypeOK
  <2>4. shown' = Departed({UserOf[s]}, s) => \A r \in room' : UserOf[s] \notin shown'[r]
    BY <2>1 DEF Departed, TypeOK
  <2>5. ASSUME LeaveUnlists(s), Here(s) PROVE Here(s)' \/ shown' = Departed({UserOf[s]}, s)
    <3>1. CASE Leaving(leave, s)
      BY <2>5, <3>1 DEF LeaveUnlists, Leaving
    <3>2. CASE ~Leaving(leave, s)
      BY <2>5, <3>2 DEF LeaveUnlists, Here, Leaving
    <3>. QED
      BY <3>1, <3>2
  <2>6. ASSUME ByeUnlists(s), Here(s) PROVE Here(s)' \/ shown' = Departed({UserOf[s]}, s)
    <3>1. CASE Leaving(bye, s)
      BY <2>6, <3>1 DEF ByeUnlists, Leaving
    <3>2. CASE ~Leaving(bye, s)
      BY <2>6, <3>2 DEF ByeUnlists, Here, Leaving
    <3>. QED
      BY <3>1, <3>2
  <2>. QED
    BY <1>8, <2>2, <2>3, <2>4, <2>5, <2>6, HereStays
<1>9. CASE SweepLists \/ SweepChecks
  <2>1. \A w \in Sockets : Here(w) => Here(w)'
    BY <1>9 DEF SweepLists, SweepChecks, ToSweep, Here, Leaving
  <2>. QED
    BY <1>9, <2>1, HereStays DEF SweepLists, SweepChecks
<1>10. CASE SweepPrunes \/ SweepUnlists
  <2>1. Nil \notin room /\ room' = room
    BY <1>10, NilIsNothing DEF SweepPrunes, SweepUnlists, TypeOK
  <2>2. \A r \in room' : shown'[r] \subseteq shown[r]
    BY <1>10, <2>1 DEF SweepPrunes, SweepUnlists, Departed, TypeOK
  <2>3. CASE SweepPrunes /\ LastOut(sweep.stale)
    <3>1. sweep'.step = "srem" /\ sweep'.stale = WithMeta(sweep.stale)
      BY <2>3 DEF SweepPrunes, ToSweep
    <3>2. \A w \in Sockets : Here(w) => Here(w)'
      BY <2>3, <3>1 DEF SweepPrunes, WithMeta, Here, Leaving, TypeOK
    <3>. QED
      BY <2>2, <3>2, HereStays
  <2>4. CASE SweepPrunes /\ ~LastOut(sweep.stale)
    <3>1. \A w \in WithMeta(sweep.stale) : \A r \in room' : UserOf[w] \notin shown'[r]
      BY <2>1, <2>4 DEF SweepPrunes, Departed, UsersOf, TypeOK
    <3>2. \A w \in Sockets : Here(w) => Here(w)' \/ w \in WithMeta(sweep.stale)
      BY <2>4 DEF SweepPrunes, WithMeta, Here, Leaving, TypeOK
    <3>. QED
      BY <2>2, <3>1, <3>2, HereStays
  <2>5. CASE SweepUnlists
    <3>1. \A w \in sweep.stale : \A r \in room' : UserOf[w] \notin shown'[r]
      BY <2>1, <2>5 DEF SweepUnlists, Departed, UsersOf, TypeOK
    <3>2. \A w \in Sockets : Here(w) => Here(w)' \/ w \in sweep.stale
      BY <2>5 DEF SweepUnlists, Here, Leaving, TypeOK
    <3>. QED
      BY <2>2, <3>1, <3>2, HereStays
  <2>. QED
    BY <1>10, <2>3, <2>4, <2>5
<1>11. CASE UNCHANGED vars
  BY <1>1, <1>11 DEF vars
<1>. QED
  BY <1>2, <1>3, <1>4, <1>5, <1>6, <1>7, <1>8, <1>9, <1>10, <1>11
     DEF Next, JoinStep, RemovalStep, SweepStep, JoinRateLimited, JoinDenied

-----------------------------------------------------------------------------
(* Colours *)

\* A step after which nobody new is choosing, and nobody new is viewing whose
\* user missed no heartbeat.
LEMMA ColoursStay ==
  ASSUME TypeOK, [Next]_vars, ChosenApart, DistinctColours,
         \A s \in Choosing' : s \in Choosing /\ join'[s] = join[s],
         \A t \in Viewers' : UserOf[t] \in history'.blurred \/ (t \in Viewers /\ meta'[t] = meta[t])
  PROVE  ChosenApart' /\ DistinctColours'
<1>1. \A s, t : Excused(s, t) => Excused(s, t)'
  BY HistoryGrows DEF Excused
<1>2. \A s, t : UserOf[s] \in history'.blurred \/ UserOf[t] \in history'.blurred => Excused(s, t)'
  BY DEF Excused
<1>3. ChosenApart'
  BY <1>1, <1>2 DEF ChosenApart
<1>4. DistinctColours'
  <2>1. \A s, t \in Viewers :
          UserOf[s] # UserOf[t] /\ meta[s] = meta[t] /\ meta[s] # Hsl => Excused(s, t)
    BY DEF DistinctColours, Excused, Viewers
  <2>2. \A s, t \in Viewers' :
          UserOf[s] # UserOf[t] /\ meta'[s] = meta'[t] /\ meta'[s] # Hsl => Excused(s, t)'
    BY <1>1, <1>2, <2>1
  <2>. QED
    BY <2>2 DEF DistinctColours, Excused, Viewers
<1>. QED
  BY <1>3, <1>4

LEMMA ColoursKept ==
  TypeOK /\ StageInv /\ PlainInv /\ ChosenApart /\ DistinctColours /\ [Next]_vars
      => ChosenApart' /\ DistinctColours'
<1>. SUFFICES ASSUME TypeOK, StageInv, PlainInv, ChosenApart, DistinctColours, [Next]_vars
              PROVE  ChosenApart' /\ DistinctColours'
  OBVIOUS
<1>. USE DEF redis, pages
<1>1. ASSUME UNCHANGED <<score, meta>>, \A s \in Choosing' : s \in Choosing /\ join'[s] = join[s]
      PROVE  ChosenApart' /\ DistinctColours'
  <2>1. Viewers' = Viewers
    BY <1>1 DEF Viewers, WithMeta, FreshIn
  <2>. QED
    BY <1>1, <2>1, ColoursStay
<1>2. ASSUME NEW s \in Sockets,
             \/ ConnectionRefused(s) \/ BoardPageLeaves(s) \/ HandleDisconnect(s)
             \/ LeaveUnlists(s) \/ ByeUnlists(s) \/ HandleHeartbeat(s)
      PROVE  ChosenApart' /\ DistinctColours'
  BY <1>1, <1>2 DEF ConnectionRefused, BoardPageLeaves, HandleDisconnect, LeaveUnlists, ByeUnlists,
     HandleHeartbeat, Choosing, Joining
<1>3. ASSUME NEW s \in Sockets,
             \/ BoardPageConnects(s) \/ Crash(s) \/ DropJoin(s) \/ JoinRoom(s) \/ ReadRoster(s)
             \/ SendRoster(s)
      PROVE  ChosenApart' /\ DistinctColours'
  <2>1. /\ \A t \in Sockets \ {s} : join'[t] = join[t]
        /\ join'[s] = Nil \/ join'[s].step \in {"guard", "viewers", "announce"}
    BY <1>3 DEF BoardPageConnects, Crash, DropJoin, JoinRoom, ReadRoster, SendRoster, ToJoin, TypeOK
  <2>2. \A t \in Choosing' : t \in Choosing /\ join'[t] = join[t]
    BY <2>1 DEF Choosing, Joining
  <2>3. UNCHANGED <<score, meta>>
    BY <1>3 DEF BoardPageConnects, Crash, DropJoin, JoinRoom, ReadRoster, SendRoster
  <2>. QED
    BY <1>1, <2>2, <2>3
<1>4. ASSUME NEW s \in Sockets, ChooseColour(s) PROVE ChosenApart' /\ DistinctColours'
  <2>. DEFINE c == ColourOf(UserOf[s], Viewers)
  <2>1. /\ c \in Colours
        /\ \/ \E t \in Viewers : UserOf[t] = UserOf[s] /\ c = meta[t]
           \/ c = Hsl
           \/ \A t \in Viewers : c # meta[t]
    BY UserOfType, ColourChosen
  <2>2. ToJoin(s, "add", {}, c) /\ UNCHANGED <<score, meta, history>>
    BY <1>4 DEF ChooseColour
  <2>3. /\ \A t \in Sockets \ {s} : join'[t] = join[t]
        /\ join'[s].colour = c
    BY <2>2 DEF ToJoin, TypeOK
  <2>. HIDE DEF c
  <2>4. Viewers' = Viewers /\ \A r, t : Excused(r, t)' = Excused(r, t)
    BY <2>2 DEF Viewers, WithMeta, FreshIn, Excused
  <2>5. DistinctColours'
    BY <2>2 DEF DistinctColours, WithMeta, FreshIn
  <2>6. ASSUME NEW t \in Viewers, UserOf[s] # UserOf[t], c = meta[t], meta[t] # Hsl
        PROVE  Excused(s, t)
    <3>1. PICK r \in Viewers : UserOf[r] = UserOf[s] /\ c = meta[r]
      BY <2>1, <2>6
    <3>. QED
      BY <2>6, <3>1 DEF DistinctColours, Excused, Viewers
  <2>7. \A r \in Choosing' : r = s \/ (r \in Choosing /\ join'[r] = join[r])
    BY <2>3 DEF Choosing, Joining
  <2>8. ChosenApart'
    BY <2>2, <2>3, <2>4, <2>6, <2>7 DEF ChosenApart
  <2>. QED
    BY <2>5, <2>8
<1>5. ASSUME NEW s \in Sockets, AddPresence(s) PROVE ChosenApart' /\ DistinctColours'
  <2>1. /\ \A t \in Sockets \ {s} : join'[t] = join[t]
        /\ join'[s] # Nil /\ join'[s].step = "roster"
    BY <1>5, JoinGoesOn DEF AddPresence, JoinSteps
  <2>2. s \in Choosing /\ Choosing' = Choosing \ {s}
    BY <1>5, <2>1 DEF AddPresence, Choosing, Joining
  <2>3. history'.clashed = (history.clashed \/ Choosing # {s}) /\ history'.blurred = history.blurred
    BY <1>5, Noted DEF AddPresence
  <2>4. \A t \in Viewers' : /\ t = s => meta'[t] = join[s].colour
                            /\ t # s => t \in Viewers /\ meta'[t] = meta[t]
    BY <1>5 DEF AddPresence, Viewers, WithMeta, FreshIn, TypeOK
  <2>5. CASE history'.clashed
    BY <2>5 DEF ChosenApart, DistinctColours, Excused
  <2>6. CASE ~history'.clashed
    <3>1. Choosing' = {} /\ ~history.clashed
      BY <2>2, <2>3, <2>6
    <3>2. ChosenApart'
      BY <3>1 DEF ChosenApart
    <3>3. \A t \in Viewers' : t # s /\ UserOf[s] # UserOf[t] /\ meta'[s] = meta'[t] /\ meta'[t] # Hsl
            /\ s \in Viewers' => Excused(s, t)
      BY <2>2, <2>4 DEF ChosenApart
    <3>4. \A r, t : Excused(r, t)' = Excused(r, t) /\ Excused(r, t) = Excused(t, r)
      BY <2>3, <2>6 DEF Excused
    <3>5. \A r, t \in Viewers' :
            UserOf[r] # UserOf[t] /\ meta'[r] = meta'[t] /\ meta'[r] # Hsl => Excused(r, t)
      <4>1. \A r, t \in Viewers :
              UserOf[r] # UserOf[t] /\ meta[r] = meta[t] /\ meta[r] # Hsl => Excused(r, t)
        BY DEF DistinctColours, Excused, Viewers
      <4>. QED
        BY <2>4, <3>3, <3>4, <4>1
    <3>6. DistinctColours'
      <4>1. Viewers' = WithMeta(FreshIn(Sockets))'
        BY DEF Viewers
      <4>2. \A r, t \in Viewers' :
              UserOf[r] # UserOf[t] /\ meta'[r] = meta'[t] /\ meta'[r] # Hsl => Excused(r, t)'
        BY <3>4, <3>5
      <4>. QED
        BY <4>1, <4>2 DEF DistinctColours, Excused
    <3>. QED
      BY <3>2, <3>6
  <2>. QED
    BY <2>5, <2>6
<1>6. ASSUME NEW s \in Sockets, LeaveRemoves(s) \/ ByeRemoves(s)
      PROVE  ChosenApart' /\ DistinctColours'
  <2>1. join' = join /\ \A t \in Viewers' : t \in Viewers /\ meta'[t] = meta[t]
    BY <1>6 DEF LeaveRemoves, ByeRemoves, RemoveEntry, Viewers, WithMeta, FreshIn, TypeOK
  <2>. QED
    BY <2>1, ColoursStay DEF Choosing, Joining
<1>7. ASSUME NEW s \in Sockets, UpdateHeartbeat(s) PROVE ChosenApart' /\ DistinctColours'
  <2>1. history'.blurred = history.blurred /\ UNCHANGED <<join, meta>>
    BY <1>7, Noted DEF UpdateHeartbeat
  <2>2. score[s] = "stale" => UserOf[s] \in history.blurred
    BY <1>7 DEF UpdateHeartbeat, PlainInv, PlainOf
  <2>3. score[s] = "absent" => meta[s] = Nil
    BY DEF StageInv, StageOf
  <2>4. \A t \in Viewers' : t \in Viewers \/ UserOf[t] \in history.blurred
    BY <1>7, <2>1, <2>2, <2>3 DEF UpdateHeartbeat, Viewers, WithMeta, FreshIn, TypeOK
  <2>. QED
    BY <2>1, <2>4, ColoursStay DEF Choosing, Joining
<1>8. ASSUME NEW s \in Sockets, GoesStale(s) \/ Lapse(s) PROVE ChosenApart' /\ DistinctColours'
  <2>1. join' = join /\ \A t \in Viewers' : t \in Viewers /\ meta'[t] = meta[t]
    BY <1>8 DEF GoesStale, Lapse, Viewers, WithMeta, FreshIn, TypeOK
  <2>. QED
    BY <2>1, ColoursStay DEF Choosing, Joining
<1>9. CASE SweepStep
  <2>1. join' = join /\ \A t \in Viewers' : t \in Viewers /\ meta'[t] = meta[t]
    BY <1>9 DEF SweepStep, SweepLists, SweepChecks, SweepPrunes, SweepUnlists, Pruned, Viewers,
       WithMeta, FreshIn, TypeOK
  <2>. QED
    BY <2>1, ColoursStay DEF Choosing, Joining
<1>10. CASE UNCHANGED vars
  BY <1>1, <1>10 DEF vars, Choosing, Joining
<1>. QED
  BY <1>2, <1>3, <1>4, <1>5, <1>6, <1>7, <1>8, <1>9, <1>10
     DEF Next, JoinStep, RemovalStep, JoinRateLimited, JoinDenied

-----------------------------------------------------------------------------
(* The theorems *)

LEMMA InitPresence == Init => PresenceInv
<1>. SUFFICES ASSUME Init PROVE PresenceInv
  OBVIOUS
<1>0. TypeOK
  BY InitTyped
<1>1. ListInv
  BY DEF Init, ListInv, Active, Unlisting
<1>2. /\ join[First].step = "add" /\ join[First].colour # Nil
      /\ \A s \in Sockets \ {First} : join[s] = Nil
      /\ join[First] # Nil
  <2>1. HashOf[UserOf[First]] \in Colours
    BY FirstIsSocket, UserOfType, PaletteType DEF Colours, Hsl
  <2>. QED
    BY <2>1, FirstIsSocket, RecordsAreSomething, NilIsNothing DEF Init, JoinSteps
<1>3. StageInv
  BY <1>2, FirstIsSocket DEF Init, StageInv, StageOf, Untouched, Joining
<1>4. PlainInv
  BY <1>2 DEF Init, PlainInv, PlainOf, Entered, Joining
<1>5. AloneInv
  BY <1>2 DEF Init, AloneInv, AloneIs, Touched, Untouched
<1>6. ShownInv /\ ShownAreHere
  <2>1. \A s \in Sockets : ~current[s] \/ join[s] # Nil
    BY <1>2 DEF Init
  <2>2. ShownInv
    BY <2>1 DEF ShownInv, ShownTo
  <2>3. \A s \in room : shown[s] = {}
    BY FirstIsSocket DEF Init
  <2>. QED
    BY <2>2, <2>3 DEF ShownAreHere
<1>7. ChosenApart /\ DistinctColours
  BY DEF Init, ChosenApart, DistinctColours, Viewers, WithMeta, FreshIn
<1>. QED
  BY <1>0, <1>1, <1>3, <1>4, <1>5, <1>6, <1>7 DEF PresenceInv

LEMMA PresenceInvariant == Spec => []PresenceInv
<1>1. PresenceInv /\ [Next]_vars => PresenceInv'
  BY NextTyped, ListKept, StageKept, PlainKept, AloneKept, ShownKept, HereKept, ColoursKept
     DEF PresenceInv
<1>. QED
  BY <1>1, InitPresence, PTL DEF Spec

\* RosterSettles: once every handler has ended and no entry is that of a
\* socket that is gone, the viewers a page shows are those of the board, for
\* every user without a second socket, a missed heartbeat or a departure in
\* the middle of a join.  A page that has its list shows whoever has announced
\* themselves, and whoever it shows has an entry or is about to be removed.
THEOREM RosterAgrees == Spec => []RosterSettles
<1>1. PresenceInv => RosterSettles
  <2>. SUFFICES ASSUME PresenceInv, Settled, NEW s \in Viewing, NEW u \in Users \ history.blurred
                PROVE  u \in shown[s] <=> u \in UsersOf(Viewing)
    BY DEF RosterSettles
  <2>1. s \in Sockets /\ s \in room /\ join[s] = Nil /\ conn[s] = "up" /\ current[s]
    BY DEF Settled, Viewing, PresenceInv, StageInv, StageOf
  <2>2. ASSUME u \in shown[s] PROVE u \in UsersOf(Viewing)
    <3>1. PICK w \in Sockets : UserOf[w] = u /\ Here(w)
      BY <2>1, <2>2 DEF PresenceInv, ShownAreHere
    <3>2. meta[w] # Nil /\ leave[w] = Nil
      BY <3>1 DEF Settled, Here, Leaving
    <3>3. conn[w] # "gone" /\ conn[w] # "new"
      BY <3>2 DEF Settled, PresenceInv, StageInv, StageOf, Untouched
    <3>4. conn[w] # "closing"
      BY <3>1, <3>2 DEF PresenceInv, PlainInv, PlainOf
    <3>5. conn[w] = "up" /\ current[w]
      BY <3>2, <3>3, <3>4 DEF PresenceInv, TypeOK, StageInv, StageOf
    <3>. QED
      BY <3>1, <3>5 DEF UsersOf, Viewing
  <2>3. ASSUME u \in UsersOf(Viewing) PROVE u \in shown[s]
    <3>1. PICK w \in Viewing : UserOf[w] = u
      BY <2>3 DEF UsersOf
    <3>2. w \in Sockets /\ conn[w] = "up" /\ current[w] /\ join[w] = Nil
      BY DEF Viewing, Settled
    <3>. QED
      BY <2>1, <3>1, <3>2 DEF PresenceInv, ShownInv, ShownTo
  <2>. QED
    BY <2>2, <2>3
<1>. QED
  BY <1>1, PresenceInvariant, PTL

\* DistinctColours: two viewers of different users have different colours of
\* the palette, whatever the size of the palette and the hashes, unless two
\* sockets chose before either had an entry, or a viewer missed heartbeats: a
\* colour that has been chosen and not yet stored is not that of a viewer.
THEOREM ColoursStayDistinct == Spec => []DistinctColours
<1>1. PresenceInv => DistinctColours
  BY DEF PresenceInv
<1>. QED
  BY <1>1, PresenceInvariant, PTL
=============================================================================
