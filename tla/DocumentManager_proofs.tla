----------------------- MODULE DocumentManager_proofs -----------------------
(* Type correctness and durability of DocumentManager, for any documents,  *)
(* updates, sockets, sweeps and bounds.                                    *)
EXTENDS DocumentManager, TLAPS

\* A request is a handler: its updates are updates of the model.
LEMMA RequestsAreHandlers == Requests \subseteq Handler
<1>1. \A r \in Restores : r \subseteq Updates
  BY DEF Updates
<1>2. \A u \in Edits : {u} \subseteq Updates
  BY DEF Updates
<1>. QED
  BY <1>1, <1>2 DEF Requests, Handler

\* The bytes of a save call are a set of updates.
LEMMA SaveCallType ==
  ASSUME TypeOK, NEW d \in Docs, NEW x \in SUBSET Updates, NEW b \in Triggers
  PROVE  SaveCall(d, x, b) \in Save
BY DEF TypeOK, SaveCall, Save

\* Continuing a handler on an open document preserves the types of what it
\* touches.
LEMMA ProceedType ==
  ASSUME TypeOK, NEW h \in Handler, Proceed(h)
  PROVE  /\ ydoc' \in [Docs -> SUBSET Updates]
         /\ isDirty' \in [Docs -> BOOLEAN]
         /\ idle' \in [Docs -> BOOLEAN]
         /\ timers' \in SUBSET (Docs \X Nat)
         /\ accepted' \in [Docs -> SUBSET Updates]
         /\ exposed' \in [Docs -> SUBSET Updates]
         /\ saves' \in SUBSET Save
         /\ UNCHANGED <<open, connections, gen>>
<1>. DEFINE d == h.doc
<1>1. d \in Docs /\ h.ops \in SUBSET Updates
  BY DEF Handler
<1>2. ASSUME NEW mark \in BOOLEAN, Merge(d, h.ops, mark)
      PROVE  /\ ydoc' \in [Docs -> SUBSET Updates]
             /\ isDirty' \in [Docs -> BOOLEAN]
             /\ idle' \in [Docs -> BOOLEAN]
             /\ timers' \in SUBSET (Docs \X Nat)
             /\ accepted' \in [Docs -> SUBSET Updates]
             /\ exposed' \in [Docs -> SUBSET Updates]
             /\ UNCHANGED <<open, connections, gen>>
  BY <1>1, <1>2 DEF Merge, TypeOK
<1>3. CASE h.kind = "edit" /\ Merge(d, h.ops, FALSE) /\ UNCHANGED saves
  BY <1>2, <1>3 DEF TypeOK
<1>4. CASE /\ Merge(d, h.ops, TRUE)
           /\ saves' = saves \cup {SaveCall(d, ydoc[d] \cup h.ops, "restore")}
  <2>1. SaveCall(d, ydoc[d] \cup h.ops, "restore") \in Save
    BY <1>1, SaveCallType DEF TypeOK, Triggers
  <2>. QED BY <1>2, <1>4, <2>1 DEF TypeOK
<1>5. CASE /\ idle' = [idle EXCEPT ![d] = FALSE]
           /\ UNCHANGED <<open, ydoc, isDirty, connections, gen, timers, saves, history>>
  BY <1>1, <1>5 DEF TypeOK, history
<1>. QED
  BY <1>3, <1>4, <1>5 DEF Proceed

\* Exit empties the memory of the process and leaves a row that was either
\* kept or written by a save in flight.
LEMMA ExitType ==
  ASSUME TypeOK, Exit, faults' \in Nat
  PROVE  TypeOK'
BY DEF TypeOK, Exit

\* Type correctness of the document manager: every operation keeps rows,
\* entries, timers, loads and saves well formed.
THEOREM TypeCorrect == Spec => []TypeOK
<1>1. Init => TypeOK
  BY DEF Init, TypeOK
<1>2. TypeOK /\ [Next]_vars => TypeOK'
  <2>. SUFFICES ASSUME TypeOK, [Next]_vars
                PROVE  TypeOK'
    OBVIOUS
  <2>. USE DEF dbVars, entryVars, loadVars, ctlVars, history
  <2>1. ASSUME NEW h \in Requests, HandleOpen(h)
        PROVE  TypeOK'
    <3>1. h \in Handler
      BY RequestsAreHandlers
    <3>2. Proceed(h)
      BY <2>1 DEF HandleOpen
    <3>. QED
      BY <2>1, <3>1, <3>2, ProceedType DEF HandleOpen, TypeOK
  <2>2. ASSUME NEW h \in Requests, HandleMiss(h)
        PROVE  TypeOK'
    <3>1. h \in Handler /\ h.doc \in Docs
      BY RequestsAreHandlers DEF Handler
    <3>. QED
      BY <2>2, <3>1 DEF HandleMiss, TypeOK
  <2>3. ASSUME NEW h \in waiting, Resume(h)
        PROVE  TypeOK'
    <3>1. h \in Handler
      BY DEF TypeOK
    <3>2. Proceed(h)
      BY <2>3 DEF Resume
    <3>. QED
      BY <2>3, <3>1, <3>2, ProceedType DEF Resume, TypeOK
  <2>4. ASSUME NEW d \in Docs, NEW k \in Sockets,
               AddConnection(d, k) \/ RemoveConnection(d, k)
        PROVE  TypeOK'
    <3>1. CASE AddConnection(d, k)
      BY <3>1 DEF AddConnection, TypeOK
    <3>2. CASE RemoveConnection(d, k)
      BY <3>2 DEF RemoveConnection, TypeOK
    <3>. QED
      BY <2>4, <3>1, <3>2
  <2>5. ASSUME NEW d \in Docs, Archive(d) \/ BecomeIdle(d)
        PROVE  TypeOK'
    BY <2>5 DEF Archive, BecomeIdle, TypeOK
  <2>6. ASSUME NEW d \in Docs, FlushVisit(d)
        PROVE  TypeOK'
    <3>1. SaveCall(d, ydoc[d], "flush") \in Save
      BY SaveCallType DEF TypeOK, Triggers
    <3>. QED
      BY <2>6, <3>1 DEF FlushVisit, TypeOK
  <2>7. ASSUME NEW t \in timers, TimerFires(t[1], t[2])
        PROVE  TypeOK'
    <3>1. t[1] \in Docs
      BY DEF TypeOK
    <3>2. SaveCall(t[1], ydoc[t[1]], "timer") \in Save
      BY <3>1, SaveCallType DEF TypeOK, Triggers
    <3>. QED
      BY <2>7, <3>1, <3>2 DEF TimerFires, TypeOK
  <2>8. ASSUME NEW w \in Sweepers, NEW d \in Docs, SweepPersist(w, d)
        PROVE  TypeOK'
    <3>1. SaveCall(d, ydoc[d], w) \in Save
      BY SaveCallType DEF TypeOK, Triggers
    <3>. QED
      BY <2>8, <3>1 DEF SweepPersist, TypeOK
  <2>9. ASSUME NEW w \in Sweepers, NEW d \in Docs, SweepDrop(w, d)
        PROVE  TypeOK'
    BY <2>9 DEF SweepDrop, Drop, TypeOK
  <2>10. ASSUME NEW d \in Docs, LoadRead(d)
         PROVE  TypeOK'
    BY <2>10 DEF LoadRead, TypeOK
  <2>11. ASSUME NEW d \in Docs, LoadDone(d)
         PROVE  TypeOK'
    <3>1. NewEntry(d) \in Nat
      BY BoundsAreNat DEF NewEntry, TypeOK
    <3>. QED
      BY <2>11, <3>1 DEF LoadDone, TypeOK
  <2>12. ASSUME NEW d \in Docs, LoadFail(d)
         PROVE  TypeOK'
    BY <2>12 DEF LoadFail, TypeOK
  <2>13. ASSUME NEW s \in saves, SaveOk(s) \/ SaveFail(s)
         PROVE  TypeOK'
    <3>1. s.doc \in Docs /\ s.state \in SUBSET Updates
      BY DEF TypeOK, Save
    <3>2. CASE SaveOk(s)
      BY <3>1, <3>2 DEF SaveOk, TypeOK
    <3>3. CASE SaveFail(s)
      BY <3>1, <3>3 DEF SaveFail, TypeOK
    <3>. QED
      BY <2>13, <3>2, <3>3
  <2>14. ASSUME NEW s \in saves, SweepSaveOk(s) \/ SweepSaveFail(s)
         PROVE  TypeOK'
    <3>1. s.doc \in Docs /\ s.state \in SUBSET Updates
      BY DEF TypeOK, Save
    <3>2. CASE SweepSaveOk(s)
      BY <3>1, <3>2 DEF SweepSaveOk, Drop, TypeOK
    <3>3. CASE SweepSaveFail(s)
      BY <3>1, <3>3 DEF SweepSaveFail, Drop, TypeOK
    <3>. QED
      BY <2>14, <3>2, <3>3
  <2>15. ASSUME NEW s \in saves, FlushSaveOk(s)
         PROVE  TypeOK'
    <3>1. s.doc \in Docs /\ s.state \in SUBSET Updates
      BY DEF TypeOK, Save
    <3>. QED
      BY <2>15, <3>1 DEF FlushSaveOk, TypeOK
  <2>16. ASSUME NEW s \in saves, FlushSaveFail(s)
         PROVE  TypeOK'
    BY <2>16, ExitType DEF FlushSaveFail, TypeOK
  <2>17. ASSUME FlushDone \/ Crash
         PROVE  TypeOK'
    BY <2>17, ExitType DEF FlushDone, Crash, TypeOK
  <2>18. ASSUME Shutdown \/ Restart
         PROVE  TypeOK'
    BY <2>18 DEF Shutdown, Restart, TypeOK
  <2>19. CASE UNCHANGED vars
    BY <2>19 DEF vars, TypeOK
  <2>. QED
    BY <2>1, <2>2, <2>3, <2>4, <2>5, <2>6, <2>7, <2>8, <2>9, <2>10, <2>11,
       <2>12, <2>13, <2>14, <2>15, <2>16, <2>17, <2>18, <2>19
    DEF Next, RequestStep, ClockStep, DatabaseStep, LifecycleStep
<1>. QED
  BY <1>1, <1>2, PTL DEF Spec

-----------------------------------------------------------------------------
(* Durability *)

\* A load is in flight only for a document that is not open.
LoadExclusive == \A d \in Docs : loading[d] # "no" => d \notin open

\* Every copy of a document holds only updates that were merged into it.
Provenance ==
    /\ \A d \in Docs : dbState[d] \cup ydoc[d] \cup fetched[d] \subseteq accepted[d]
    /\ \A s \in saves : s.state \subseteq accepted[s.doc]

\* NoSilentLoss alone is not inductive: a save's answer replaces the row by
\* bytes encoded earlier, and a load's by a row read earlier, so those copies
\* have to be complete as well, and no update may be merged while a fetched
\* row waits to be installed.  An update the Y.Doc already holds fires no
\* hook, so it must have been merged before.
DurabilityInv == LoadExclusive /\ Provenance /\ CopiesComplete /\ NoSilentLoss

\* An empty database and server establish the invariant.
LEMMA InitDurable == Init => DurabilityInv
BY DEF Init, DurabilityInv, LoadExclusive, Provenance, CopiesComplete,
       NoSilentLoss, Held

\* Merging: the updates join the live Y.Doc, and are exposed when a save is in
\* flight, whose bytes lack them.
LEMMA MergeDurable ==
  ASSUME TypeOK, DurabilityInv, NEW d \in open, NEW ops \in SUBSET Updates,
         NEW mark \in BOOLEAN, Merge(d, ops, mark),
         UNCHANGED <<dbState, loading, fetched>>
  PROVE  /\ LoadExclusive' /\ NoSilentLoss'
         /\ \A e \in Docs : (dbState[e] \cup ydoc[e] \cup fetched[e] \subseteq accepted[e])'
         /\ \A s \in saves : s.state \subseteq accepted'[s.doc]
         /\ \A e \in open' : (accepted[e] \subseteq ydoc[e] \cup exposed[e])'
         /\ \A e \in Docs : (loading[e] = "fetched" =>
                               accepted[e] \subseteq fetched[e] \cup exposed[e])'
         /\ \A s \in saves : accepted'[s.doc] \subseteq s.state \cup exposed'[s.doc]
<1>. DEFINE new == ops \ ydoc[d]
            hook == new # {} /\ d \notin flushed
<1>1. /\ d \in Docs /\ open \subseteq Docs /\ loading[d] = "no"
      /\ \A s \in saves : s.doc \in Docs
  BY DEF TypeOK, DurabilityInv, LoadExclusive, Save
<1>2. /\ ydoc' = [ydoc EXCEPT ![d] = @ \cup ops]
      /\ accepted' = [accepted EXCEPT ![d] = @ \cup ops]
      /\ isDirty' = [isDirty EXCEPT ![d] = @ \/ hook \/ mark]
      /\ exposed' = IF Saving(d) \/ d \in flushed
                    THEN [exposed EXCEPT ![d] = @ \cup new] ELSE exposed
      /\ open' = open
  BY DEF Merge
<1>3. \A e \in Docs : e # d => /\ ydoc'[e] = ydoc[e] /\ accepted'[e] = accepted[e]
                               /\ isDirty'[e] = isDirty[e] /\ exposed'[e] = exposed[e]
  BY <1>1, <1>2 DEF TypeOK
<1>4. /\ ydoc'[d] = ydoc[d] \cup ops /\ accepted'[d] = accepted[d] \cup ops
      /\ isDirty'[d] = (isDirty[d] \/ hook \/ mark)
      /\ exposed[d] \subseteq exposed'[d]
      /\ Saving(d) \/ d \in flushed => new \subseteq exposed'[d]
  BY <1>1, <1>2 DEF TypeOK
<1>5. ops \subseteq ydoc[d] \cup new /\ ydoc[d] \subseteq accepted[d]
  BY <1>1 DEF DurabilityInv, Provenance
<1>6. LoadExclusive'
  BY <1>2 DEF DurabilityInv, LoadExclusive
<1>7. NoSilentLoss'
  <2>1. \A e \in Docs : e # d =>
          accepted'[e] \subseteq dbState'[e] \cup Held(e)' \cup exposed'[e]
    BY <1>2, <1>3 DEF DurabilityInv, NoSilentLoss, Held
  <2>2. accepted[d] \subseteq dbState[d] \cup Held(d) \cup exposed[d]
    BY <1>1 DEF DurabilityInv, NoSilentLoss
  <2>3. accepted[d] \subseteq ydoc[d] \cup exposed[d]
    BY DEF DurabilityInv, CopiesComplete
  <2>4. CASE isDirty'[d]
    <3>1. Held(d)' = ydoc'[d]
      BY <1>2, <2>4 DEF Held
    <3>2. accepted'[d] \subseteq dbState'[d] \cup Held(d)' \cup exposed'[d]
      BY <1>4, <2>3, <3>1
    <3>. QED
      BY <2>1, <3>2 DEF NoSilentLoss
  <2>5. CASE ~isDirty'[d]
    <3>1. ~hook /\ Held(d) = {} /\ Held(d)' = {}
      BY <1>4, <2>5 DEF Held
    <3>2. new \subseteq exposed'[d]
      BY <1>4, <3>1
    <3>3. accepted'[d] \subseteq dbState'[d] \cup exposed'[d]
      BY <1>4, <1>5, <2>2, <3>1, <3>2
    <3>. QED
      BY <2>1, <3>3 DEF NoSilentLoss
  <2>. QED
    BY <2>4, <2>5
<1>8. \A e \in Docs : (dbState[e] \cup ydoc[e] \cup fetched[e] \subseteq accepted[e])'
  BY <1>3, <1>4 DEF DurabilityInv, Provenance
<1>9. \A s \in saves : s.state \subseteq accepted'[s.doc]
  BY <1>1, <1>3, <1>4 DEF DurabilityInv, Provenance
<1>10. \A e \in open' : (accepted[e] \subseteq ydoc[e] \cup exposed[e])'
  BY <1>1, <1>2, <1>3, <1>4 DEF DurabilityInv, CopiesComplete
<1>11. \A e \in Docs : (loading[e] = "fetched" =>
                          accepted[e] \subseteq fetched[e] \cup exposed[e])'
  BY <1>1, <1>3 DEF DurabilityInv, CopiesComplete
<1>12. \A s \in saves : accepted'[s.doc] \subseteq s.state \cup exposed'[s.doc]
  <2>. SUFFICES ASSUME NEW s \in saves
                PROVE  accepted'[s.doc] \subseteq s.state \cup exposed'[s.doc]
    OBVIOUS
  <2>1. accepted[s.doc] \subseteq s.state \cup exposed[s.doc]
    BY DEF DurabilityInv, CopiesComplete
  <2>2. CASE s.doc # d
    BY <1>1, <1>3, <2>1, <2>2
  <2>3. CASE s.doc = d
    <3>1. new \subseteq exposed'[d]
      BY <1>4, <2>3 DEF Saving
    <3>2. accepted[d] \cup new = accepted'[d]
      BY <1>4, <1>5
    <3>. QED
      BY <1>4, <2>1, <2>3, <3>1, <3>2
  <2>. QED
    BY <2>2, <2>3
<1>. QED
  BY <1>6, <1>7, <1>8, <1>9, <1>10, <1>11, <1>12

\* Continuing a handler; a restore also starts a save of what it merged.
LEMMA ProceedDurable ==
  ASSUME TypeOK, DurabilityInv, NEW h \in Handler, h.doc \in open, Proceed(h),
         UNCHANGED <<dbState, loading, fetched>>
  PROVE  DurabilityInv'
<1>. DEFINE d == h.doc
            call == SaveCall(d, ydoc[d] \cup h.ops, "restore")
<1>1. h.ops \in SUBSET Updates /\ d \in Docs
  BY DEF Handler
<1>2. CASE Merge(d, h.ops, FALSE) /\ UNCHANGED saves
  BY <1>1, <1>2, MergeDurable DEF DurabilityInv, Provenance, CopiesComplete
<1>3. CASE Merge(d, h.ops, TRUE) /\ saves' = saves \cup {call}
  <2>1. call.doc = d /\ call.state = ydoc'[d]
    BY <1>1, <1>3 DEF Merge, SaveCall, TypeOK
  <2>2. d \in open'
    BY <1>3 DEF Merge
  <2>3. /\ LoadExclusive' /\ NoSilentLoss'
        /\ \A e \in Docs : (dbState[e] \cup ydoc[e] \cup fetched[e] \subseteq accepted[e])'
        /\ \A s \in saves : s.state \subseteq accepted'[s.doc]
        /\ \A e \in open' : (accepted[e] \subseteq ydoc[e] \cup exposed[e])'
        /\ \A e \in Docs : (loading[e] = "fetched" =>
                              accepted[e] \subseteq fetched[e] \cup exposed[e])'
        /\ \A s \in saves : accepted'[s.doc] \subseteq s.state \cup exposed'[s.doc]
    BY <1>1, <1>3, MergeDurable
  <2>4. Provenance'
    BY <1>1, <1>3, <2>1, <2>3 DEF Provenance
  <2>5. CopiesComplete'
    BY <1>1, <1>3, <2>1, <2>2, <2>3 DEF CopiesComplete
  <2>. QED
    BY <2>3, <2>4, <2>5 DEF DurabilityInv
<1>4. CASE UNCHANGED <<open, ydoc, isDirty, saves, history>>
  BY <1>4 DEF DurabilityInv, LoadExclusive, Provenance, CopiesComplete,
              NoSilentLoss, Held, history
<1>. QED
  BY <1>2, <1>3, <1>4 DEF Proceed

\* The process exits: dirty entries are exposed, and a row is what it was or
\* the complete bytes of a save in flight.
LEMMA ExitDurable ==
  ASSUME TypeOK, DurabilityInv, Exit
  PROVE  DurabilityInv'
<1>1. /\ open' = {} /\ saves' = {} /\ accepted' = accepted
      /\ \A d \in Docs : loading'[d] = "no" /\ ydoc'[d] = {} /\ fetched'[d] = {}
      /\ \A d \in Docs : exposed'[d] = exposed[d] \cup Held(d)
  BY DEF Exit, Held
<1>2. ASSUME NEW d \in Docs
      PROVE  /\ accepted[d] \subseteq dbState'[d] \cup exposed'[d]
             /\ dbState'[d] \subseteq accepted[d]
  <2>1. CASE dbState'[d] = dbState[d]
    BY <1>1, <2>1 DEF DurabilityInv, NoSilentLoss, Provenance
  <2>2. CASE \E s \in saves : s.doc = d /\ dbState'[d] = s.state
    BY <1>1, <2>2 DEF DurabilityInv, CopiesComplete, Provenance
  <2>. QED
    BY <2>1, <2>2 DEF Exit
<1>3. NoSilentLoss'
  BY <1>1, <1>2 DEF NoSilentLoss
<1>4. LoadExclusive' /\ Provenance' /\ CopiesComplete'
  BY <1>1, <1>2 DEF LoadExclusive, Provenance, CopiesComplete
<1>. QED
  BY <1>3, <1>4 DEF DurabilityInv

\* A row is replaced by the bytes of a save in flight, which are complete.
LEMMA RowReplaced ==
  ASSUME TypeOK, DurabilityInv, NEW s \in saves, NEW done \in {dbState[s.doc], s.state},
         dbState' = [dbState EXCEPT ![s.doc] = done],
         NEW d \in Docs
  PROVE  /\ dbState'[d] \subseteq accepted[d]
         /\ accepted[d] \subseteq dbState'[d] \cup Held(d) \cup exposed[d]
         /\ done = s.state /\ d = s.doc => accepted[d] \subseteq dbState'[d] \cup exposed[d]
         /\ d # s.doc => dbState'[d] = dbState[d]
<1>1. s.doc \in Docs
  BY DEF TypeOK, Save
<1>2. CASE d # s.doc
  BY <1>1, <1>2 DEF TypeOK, DurabilityInv, Provenance, NoSilentLoss
<1>3. CASE d = s.doc
  <2>1. dbState'[d] = done
    BY <1>3 DEF TypeOK
  <2>. QED
    BY <1>3, <2>1 DEF DurabilityInv, Provenance, NoSilentLoss, CopiesComplete
<1>. QED
  BY <1>2, <1>3

\* An answered save that leaves the entries in the map.
LEMMA SaveAnswerDurable ==
  ASSUME TypeOK, DurabilityInv, NEW s \in saves,
         SaveOk(s) \/ SaveFail(s) \/ FlushSaveOk(s)
  PROVE  DurabilityInv'
<1>. USE DEF dbVars, entryVars, loadVars, ctlVars, history
<1>1. s.doc \in Docs
  BY DEF TypeOK, Save
<1>2. PICK done \in {dbState[s.doc], s.state} :
        /\ dbState' = [dbState EXCEPT ![s.doc] = done]
        /\ done = s.state \/ isDirty' = isDirty
  BY DEF SaveOk, SaveFail, FlushSaveOk
<1>3. /\ UNCHANGED <<open, ydoc, loading, fetched, accepted, exposed>>
      /\ saves' \subseteq saves
      /\ \A d \in Docs : d # s.doc => isDirty'[d] = isDirty[d]
  BY <1>1 DEF SaveOk, SaveFail, FlushSaveOk, TypeOK
<1>4. LoadExclusive' /\ CopiesComplete'
  BY <1>3 DEF DurabilityInv, LoadExclusive, CopiesComplete
<1>5. Provenance'
  BY <1>2, <1>3, RowReplaced DEF DurabilityInv, Provenance
<1>6. ASSUME NEW d \in Docs
      PROVE  accepted'[d] \subseteq dbState'[d] \cup Held(d)' \cup exposed'[d]
  <2>1. CASE isDirty'[d] = isDirty[d]
    <3>1. Held(d)' = Held(d)
      BY <1>3, <2>1 DEF Held
    <3>. QED
      BY <1>2, <1>3, <3>1, RowReplaced
  <2>2. CASE d = s.doc /\ done = s.state
    BY <1>2, <1>3, <2>2, RowReplaced
  <2>. QED
    BY <1>2, <1>3, <2>1, <2>2
<1>. QED
  BY <1>4, <1>5, <1>6 DEF DurabilityInv, NoSilentLoss

\* A sweep's save is answered and its entry leaves the map.
LEMMA SweepAnswerDurable ==
  ASSUME TypeOK, DurabilityInv, NEW s \in saves, SweepSaveOk(s) \/ SweepSaveFail(s)
  PROVE  DurabilityInv'
<1>. USE DEF loadVars
<1>1. s.doc \in Docs
  BY DEF TypeOK, Save
<1>2. PICK done \in {dbState[s.doc], s.state} :
        /\ dbState' = [dbState EXCEPT ![s.doc] = done]
        /\ done = s.state \/ Held(s.doc) \subseteq exposed'[s.doc]
  <2>1. CASE SweepSaveOk(s)
    BY <2>1 DEF SweepSaveOk
  <2>2. CASE SweepSaveFail(s)
    <3>1. Held(s.doc) \subseteq exposed'[s.doc]
      BY <1>1, <2>2 DEF SweepSaveFail, Held, TypeOK
    <3>. QED
      BY <2>2, <3>1 DEF SweepSaveFail
  <2>. QED
    BY <2>1, <2>2
<1>3. /\ UNCHANGED <<loading, fetched, accepted>>
      /\ saves' \subseteq saves
      /\ open' = open \ {s.doc}
      /\ ydoc' = [ydoc EXCEPT ![s.doc] = {}]
      /\ isDirty' = [isDirty EXCEPT ![s.doc] = FALSE]
  BY DEF SweepSaveOk, SweepSaveFail, Drop
<1>4. \A d \in Docs : exposed[d] \subseteq exposed'[d]
  BY <1>1 DEF SweepSaveOk, SweepSaveFail, TypeOK
<1>5. \A d \in Docs : d # s.doc => ydoc'[d] = ydoc[d] /\ isDirty'[d] = isDirty[d]
  BY <1>3 DEF TypeOK
<1>6. \A d \in Docs : ydoc'[d] \subseteq ydoc[d]
  BY <1>1, <1>3 DEF TypeOK
<1>7. LoadExclusive'
  BY <1>3 DEF DurabilityInv, LoadExclusive
<1>8. CopiesComplete'
  <2>1. \A d \in open' : (accepted[d] \subseteq ydoc[d] \cup exposed[d])'
    BY <1>3, <1>4, <1>5 DEF DurabilityInv, CopiesComplete, TypeOK
  <2>2. \A d \in Docs : (loading[d] = "fetched" =>
                           accepted[d] \subseteq fetched[d] \cup exposed[d])'
    BY <1>3, <1>4 DEF DurabilityInv, CopiesComplete
  <2>3. \A t \in saves' : (accepted[t.doc] \subseteq t.state \cup exposed[t.doc])'
    BY <1>3, <1>4 DEF DurabilityInv, CopiesComplete, TypeOK, Save
  <2>. QED
    BY <2>1, <2>2, <2>3 DEF CopiesComplete
<1>9. Provenance'
  BY <1>2, <1>3, <1>6, RowReplaced DEF DurabilityInv, Provenance
<1>10. ASSUME NEW d \in Docs
       PROVE  accepted'[d] \subseteq dbState'[d] \cup Held(d)' \cup exposed'[d]
  <2>1. CASE d # s.doc
    <3>1. Held(d)' = Held(d)
      BY <1>3, <1>5, <2>1 DEF Held
    <3>. QED
      BY <1>2, <1>3, <1>4, <3>1, RowReplaced
  <2>2. CASE d = s.doc
    BY <1>2, <1>3, <1>4, <2>2, RowReplaced
  <2>. QED
    BY <2>1, <2>2
<1>. QED
  BY <1>7, <1>8, <1>9, <1>10 DEF DurabilityInv, NoSilentLoss

\* A call of saveState hands over the complete live state.
LEMMA SaveCallDurable ==
  ASSUME TypeOK, DurabilityInv, NEW d \in open, NEW b,
         saves' \subseteq saves \cup {SaveCall(d, ydoc[d], b)},
         UNCHANGED <<dbState, open, ydoc, isDirty, loading, fetched, accepted, exposed>>
  PROVE  DurabilityInv'
<1>1. /\ SaveCall(d, ydoc[d], b).doc = d /\ SaveCall(d, ydoc[d], b).state = ydoc[d]
      /\ d \in Docs
  BY DEF SaveCall, TypeOK
<1>. QED
  BY <1>1 DEF DurabilityInv, LoadExclusive, Provenance, CopiesComplete,
              NoSilentLoss, Held

\* Every operation of the document manager preserves the inductive invariant.
LEMMA DurabilityInvariant == Spec => []DurabilityInv
<1>1. TypeOK /\ DurabilityInv /\ [Next]_vars => DurabilityInv'
  <2>. SUFFICES ASSUME TypeOK, DurabilityInv, [Next]_vars
                PROVE  DurabilityInv'
    OBVIOUS
  <2>. USE DEF dbVars, entryVars, loadVars, ctlVars, history
  <2>1. ASSUME NEW h \in Requests, HandleOpen(h)
        PROVE  DurabilityInv'
    BY <2>1, RequestsAreHandlers, ProceedDurable DEF HandleOpen
  <2>2. ASSUME NEW h \in Requests, HandleMiss(h)
        PROVE  DurabilityInv'
    <3>1. h.doc \in Docs /\ h.doc \notin open
      BY <2>2, RequestsAreHandlers DEF Handler, HandleMiss
    <3>2. \A d \in Docs : loading'[d] = "fetched" => loading[d] = "fetched"
      BY <2>2, <3>1 DEF HandleMiss, TypeOK
    <3>3. LoadExclusive'
      BY <2>2, <3>1 DEF HandleMiss, DurabilityInv, LoadExclusive, TypeOK
    <3>. QED
      BY <2>2, <3>2, <3>3 DEF HandleMiss, DurabilityInv, Provenance,
                              CopiesComplete, NoSilentLoss, Held
  <2>3. ASSUME NEW h \in waiting, Resume(h)
        PROVE  DurabilityInv'
    BY <2>3, ProceedDurable DEF Resume, TypeOK
  <2>4. ASSUME NEW d \in Docs, NEW k \in Sockets,
               AddConnection(d, k) \/ RemoveConnection(d, k)
        PROVE  DurabilityInv'
    BY <2>4 DEF AddConnection, RemoveConnection, DurabilityInv, LoadExclusive,
                Provenance, CopiesComplete, NoSilentLoss, Held
  <2>5. ASSUME NEW d \in Docs, Archive(d) \/ BecomeIdle(d)
        PROVE  DurabilityInv'
    BY <2>5 DEF Archive, BecomeIdle, DurabilityInv, LoadExclusive,
                Provenance, CopiesComplete, NoSilentLoss, Held
  <2>6. ASSUME NEW d \in Docs, FlushVisit(d)
        PROVE  DurabilityInv'
    BY <2>6, SaveCallDurable DEF FlushVisit
  <2>7. ASSUME NEW t \in timers, TimerFires(t[1], t[2])
        PROVE  DurabilityInv'
    <3>1. CASE t[1] \in open
      BY <2>7, <3>1, SaveCallDurable DEF TimerFires
    <3>2. CASE t[1] \notin open
      BY <2>7, <3>2 DEF TimerFires, DurabilityInv, LoadExclusive,
                        Provenance, CopiesComplete, NoSilentLoss, Held
    <3>. QED
      BY <3>1, <3>2
  <2>8. ASSUME NEW w \in Sweepers, NEW d \in Docs, SweepPersist(w, d)
        PROVE  DurabilityInv'
    BY <2>8, SaveCallDurable DEF SweepPersist
  <2>9. ASSUME NEW w \in Sweepers, NEW d \in Docs, SweepDrop(w, d)
        PROVE  DurabilityInv'
    <3>1. /\ \A e \in Docs : e # d => ydoc'[e] = ydoc[e] /\ isDirty'[e] = isDirty[e]
          /\ ydoc'[d] = {} /\ open' = open \ {d} /\ ~isDirty[d]
          /\ UNCHANGED <<dbState, loading, fetched, saves, accepted, exposed>>
      BY <2>9 DEF SweepDrop, Drop, TypeOK
    <3>2. NoSilentLoss'
      BY <3>1 DEF DurabilityInv, NoSilentLoss, Held
    <3>3. CopiesComplete'
      BY <3>1 DEF DurabilityInv, CopiesComplete, TypeOK
    <3>4. LoadExclusive' /\ Provenance'
      BY <3>1 DEF DurabilityInv, LoadExclusive, Provenance
    <3>. QED
      BY <3>2, <3>3, <3>4 DEF DurabilityInv
  <2>10. ASSUME NEW d \in Docs, LoadRead(d)
         PROVE  DurabilityInv'
    <3>1. d \notin open
      BY <2>10 DEF LoadRead, DurabilityInv, LoadExclusive
    <3>2. /\ UNCHANGED <<dbState, open, ydoc, isDirty, saves, accepted>>
          /\ \A e \in Docs : exposed[e] \subseteq exposed'[e]
          /\ \A e \in Docs : e # d => fetched'[e] = fetched[e] /\ loading'[e] = loading[e]
          /\ fetched'[d] \subseteq dbState[d]
          /\ dbState[d] \subseteq fetched'[d] \cup exposed'[d]
      BY <2>10 DEF LoadRead, TypeOK
    <3>3. accepted[d] \subseteq dbState[d] \cup exposed[d]
      BY <3>1 DEF DurabilityInv, NoSilentLoss, Held
    <3>4. NoSilentLoss'
      BY <3>2 DEF DurabilityInv, NoSilentLoss, Held
    <3>5. LoadExclusive' /\ Provenance'
      BY <3>1, <3>2 DEF DurabilityInv, LoadExclusive, Provenance
    <3>6. CopiesComplete'
      BY <3>2, <3>3 DEF DurabilityInv, CopiesComplete, TypeOK, Save
    <3>. QED
      BY <3>4, <3>5, <3>6 DEF DurabilityInv
  <2>11. ASSUME NEW d \in Docs, LoadDone(d)
         PROVE  DurabilityInv'
    <3>1. d \notin open /\ loading[d] = "fetched"
      BY <2>11 DEF LoadDone, DurabilityInv, LoadExclusive
    <3>2. /\ UNCHANGED <<dbState, saves, accepted, exposed>>
          /\ open' = open \cup {d}
          /\ ydoc'[d] = fetched[d] /\ fetched'[d] = {} /\ loading'[d] = "no"
          /\ ~isDirty'[d]
          /\ \A e \in Docs : e # d => /\ fetched'[e] = fetched[e] /\ ydoc'[e] = ydoc[e]
                                      /\ loading'[e] = loading[e]
                                      /\ isDirty'[e] = isDirty[e]
      BY <2>11 DEF LoadDone, TypeOK
    <3>3. NoSilentLoss'
      BY <3>1, <3>2 DEF DurabilityInv, NoSilentLoss, Held
    <3>4. LoadExclusive' /\ Provenance'
      BY <3>1, <3>2 DEF DurabilityInv, LoadExclusive, Provenance
    <3>5. CopiesComplete'
      BY <3>1, <3>2 DEF DurabilityInv, CopiesComplete, TypeOK
    <3>. QED
      BY <3>3, <3>4, <3>5 DEF DurabilityInv
  <2>12. ASSUME NEW d \in Docs, LoadFail(d)
         PROVE  DurabilityInv'
    <3>1. /\ UNCHANGED <<dbState, open, ydoc, isDirty, saves, accepted, exposed>>
          /\ fetched'[d] = {} /\ loading'[d] = "no"
          /\ \A e \in Docs : e # d => fetched'[e] = fetched[e] /\ loading'[e] = loading[e]
      BY <2>12 DEF LoadFail, TypeOK
    <3>. QED
      BY <3>1 DEF DurabilityInv, LoadExclusive, Provenance, CopiesComplete,
                  NoSilentLoss, Held
  <2>13. ASSUME NEW s \in saves, SaveOk(s) \/ SaveFail(s) \/ FlushSaveOk(s)
         PROVE  DurabilityInv'
    BY <2>13, SaveAnswerDurable
  <2>14. ASSUME NEW s \in saves, SweepSaveOk(s) \/ SweepSaveFail(s)
         PROVE  DurabilityInv'
    BY <2>14, SweepAnswerDurable
  <2>15. ASSUME NEW s \in saves, FlushSaveFail(s)
         PROVE  DurabilityInv'
    BY <2>15, ExitDurable DEF FlushSaveFail
  <2>16. ASSUME FlushDone \/ Crash
         PROVE  DurabilityInv'
    BY <2>16, ExitDurable DEF FlushDone, Crash
  <2>17. CASE Shutdown \/ Restart \/ UNCHANGED vars
    BY <2>17 DEF Shutdown, Restart, vars, DurabilityInv, LoadExclusive,
                 Provenance, CopiesComplete, NoSilentLoss, Held
  <2>. QED
    BY <2>1, <2>2, <2>3, <2>4, <2>5, <2>6, <2>7, <2>8, <2>9, <2>10, <2>11,
       <2>12, <2>13, <2>14, <2>15, <2>16, <2>17
    DEF Next, RequestStep, ClockStep, DatabaseStep, LifecycleStep
<1>. QED
  BY InitDurable, TypeCorrect, <1>1, PTL DEF Spec

\* Durability of merged updates: an update is in the row, or held by a dirty
\* entry, or has gone through one of the named loss windows.
THEOREM Durability == Spec => []NoSilentLoss
<1>1. DurabilityInv => NoSilentLoss
  BY DEF DurabilityInv
<1>. QED
  BY DurabilityInvariant, <1>1, PTL

\* Live documents, fetched rows and saves in flight are complete up to the
\* loss windows, whatever order the database answers in.
THEOREM CompleteCopies == Spec => []CopiesComplete
<1>1. DurabilityInv => CopiesComplete
  BY DEF DurabilityInv
<1>. QED
  BY DurabilityInvariant, <1>1, PTL

-----------------------------------------------------------------------------
\* A live Y.Doc that is merged into, and every other one, only gains updates.
LEMMA ProceedGrows ==
  ASSUME TypeOK, NEW h \in Handler, Proceed(h), NEW d \in Docs
  PROVE  ydoc[d] \subseteq ydoc'[d]
<1>1. ydoc \in [Docs -> SUBSET Updates]
  BY DEF TypeOK
<1>. QED
  BY <1>1 DEF Proceed, Merge

\* A step that drops d leaves the other live Y.Docs alone.
LEMMA DropGrows ==
  ASSUME TypeOK, NEW d \in Docs, NEW g, Drop(d, g)
  PROVE  \A e \in open : e \in open' => ydoc[e] \subseteq ydoc'[e]
BY DEF TypeOK, Drop

\* While a document stays open its Y.Doc only gains updates: no load, however
\* it overlaps with updates, sweeps and saves, hydrates over a live one.
THEOREM LiveStateOnlyGrows == Spec => LiveStateGrows
<1>. DEFINE Grows == \A d \in open : d \in open' => ydoc[d] \subseteq ydoc'[d]
<1>1. TypeOK /\ LoadExclusive /\ [Next]_vars => [Grows]_vars
  <2>. SUFFICES ASSUME TypeOK, LoadExclusive, Next
                PROVE  Grows
    OBVIOUS
  <2>. USE DEF entryVars
  <2>t. open \subseteq Docs /\ waiting \subseteq Handler /\ saves \subseteq Save
    BY DEF TypeOK
  <2>u. UNCHANGED <<open, ydoc>> => Grows
    OBVIOUS
  <2>1. ASSUME NEW h \in waiting, Resume(h)
        PROVE  Grows
    BY <2>1, <2>t, ProceedGrows DEF Resume
  <2>2. ASSUME NEW h \in Requests, HandleOpen(h) \/ HandleMiss(h)
        PROVE  Grows
    <3>1. h \in Handler
      BY RequestsAreHandlers
    <3>2. CASE HandleOpen(h)
      BY <2>t, <3>1, <3>2, ProceedGrows DEF HandleOpen
    <3>3. CASE HandleMiss(h)
      BY <3>3 DEF HandleMiss
    <3>. QED
      BY <2>2, <3>2, <3>3
  <2>3. ASSUME NEW d \in Docs, NEW k \in Sockets, AddConnection(d, k) \/ RemoveConnection(d, k)
        PROVE  Grows
    BY <2>3, <2>u DEF AddConnection, RemoveConnection
  <2>4. ASSUME NEW d \in Docs,
               Archive(d) \/ BecomeIdle(d) \/ LoadRead(d) \/ LoadFail(d) \/ FlushVisit(d)
        PROVE  Grows
    BY <2>4, <2>u DEF Archive, BecomeIdle, LoadRead, LoadFail, FlushVisit
  <2>5. ASSUME NEW t \in timers, TimerFires(t[1], t[2])
        PROVE  Grows
    BY <2>5, <2>u DEF TimerFires
  <2>6. ASSUME NEW w \in Sweepers, NEW d \in Docs, SweepPersist(w, d) \/ SweepDrop(w, d)
        PROVE  Grows
    <3>1. CASE SweepPersist(w, d)
      BY <3>1, <2>u DEF SweepPersist
    <3>2. CASE SweepDrop(w, d)
      BY <3>2, DropGrows DEF SweepDrop
    <3>. QED
      BY <2>6, <3>1, <3>2
  <2>7. ASSUME NEW d \in Docs, LoadDone(d)
        PROVE  Grows
    <3>1. d \notin open
      BY <2>7 DEF LoadExclusive, LoadDone
    <3>2. \A e \in Docs \ {d} : ydoc'[e] = ydoc[e]
      BY <2>7 DEF LoadDone, TypeOK
    <3>. QED
      BY <2>t, <3>1, <3>2
  <2>8. ASSUME NEW s \in saves, SaveOk(s) \/ FlushSaveOk(s) \/ SaveFail(s)
        PROVE  Grows
    BY <2>8, <2>u DEF SaveOk, FlushSaveOk, SaveFail
  <2>9. ASSUME NEW s \in saves, SweepSaveOk(s) \/ SweepSaveFail(s)
        PROVE  Grows
    <3>1. s.doc \in Docs
      BY <2>t DEF Save
    <3>. QED
      BY <2>9, <3>1, DropGrows DEF SweepSaveOk, SweepSaveFail
  <2>10. ASSUME Exit
         PROVE  Grows
    BY <2>10 DEF Exit
  <2>11. ASSUME NEW s \in saves, FlushSaveFail(s)
         PROVE  Grows
    BY <2>10, <2>11 DEF FlushSaveFail
  <2>12. CASE Shutdown \/ FlushDone \/ Crash \/ Restart
    BY <2>10, <2>12, <2>u DEF Shutdown, FlushDone, Crash, Restart
  <2>. QED
    BY <2>1, <2>2, <2>3, <2>4, <2>5, <2>6, <2>7, <2>8, <2>9, <2>11, <2>12
       DEF Next, RequestStep, ClockStep, DatabaseStep, LifecycleStep
<1>2. DurabilityInv => LoadExclusive
  BY DEF DurabilityInv
<1>. QED
  BY <1>1, <1>2, TypeCorrect, DurabilityInvariant, PTL DEF Spec, LiveStateGrows
=============================================================================
