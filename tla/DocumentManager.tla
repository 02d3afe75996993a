-------------------------- MODULE DocumentManager --------------------------
(***************************************************************************)
(* The in-memory CRDT hub of one server process: DocumentManagerService    *)
(* (src/modules/document/services/document-manager.service.ts) with the    *)
(* repository calls it awaits.                                             *)
(*                                                                         *)
(* A Y.Doc is the set of updates merged into it (the merge is idempotent   *)
(* and commutative), and documents.yjs_state is the set that was merged    *)
(* when those bytes were encoded.  Every await of the service is a point   *)
(* where other handlers run, so each operation is cut there: a load is     *)
(* queried, fetched and installed; a save is encoded when it starts and    *)
(* takes effect when the database answers.  Saves of the same document     *)
(* may overlap and are answered in any order (they run on different        *)
(* connections of the pool).                                               *)
(***************************************************************************)
EXTENDS Naturals, FiniteSets

CONSTANTS
    Docs,       \* document ids
    Edits,      \* CRDT updates clients send
    Restores,   \* sets of CRDT updates a replaceState may generate: its delete
                \* and insert, or none when both texts are empty
    Sockets,    \* socket ids
    Sweepers,   \* unloadIdle runs that may overlap: cron does not wait
    MaxEntries, \* bound: entry objects of one document referenced at once
    MaxWaiting, \* bound: handlers awaiting loads at once
    MaxSaves,   \* bound: saves in flight when another one starts
    MaxFaults   \* bound: failed database calls, shutdowns and crashes

Updates == Edits \cup UNION Restores

ASSUME BoundsAreNat ==
    /\ MaxEntries \in Nat \ {0}
    /\ {MaxWaiting, MaxSaves, MaxFaults} \subseteq Nat

ASSUME SweepersAreNotTriggers ==
    Sweepers \cap {"timer", "restore", "flush"} = {}

VARIABLES
    dbState,    \* documents.yjs_state of each row
    archived,   \* rows whose status is archived
    open,       \* keys of the docs map
    ydoc,       \* entry.ydoc
    isDirty,    \* entry.isDirty
    connections,\* entry.connections
    idle,       \* entry.lastActivity is older than IDLE_UNLOAD_MS
    gen,        \* identity of the entry object the docs map holds, or last held
    timers,     \* armed saveTimeouts, by the entry that owns them
    loading,    \* progress of the in-flight load promise, if any
    fetched,    \* row state a load has read and not installed yet
    waiting,    \* handlers that await the in-flight load
    saves,      \* saveState calls in flight
    server,     \* lifecycle of the process
    flushed,    \* entries onModuleDestroy has destroyed
    faults,     \* faults so far
    accepted,   \* history: updates ever merged into a live Y.Doc
    exposed     \* history: updates that went through a loss window

dbVars    == <<dbState, archived>>
entryVars == <<open, ydoc, isDirty, connections, idle, gen, timers>>
loadVars  == <<loading, fetched, waiting>>
ctlVars   == <<server, flushed>>
history   == <<accepted, exposed>>
vars      == <<dbVars, entryVars, loadVars, saves, ctlVars, faults, history>>

-----------------------------------------------------------------------------
Triggers == {"timer", "restore", "flush"} \cup Sweepers

Save    == [doc : Docs, state : SUBSET Updates, gen : Nat, by : Triggers]
Handler == [doc : Docs, ops : SUBSET Updates, kind : {"edit", "restore", "open"}]

TypeOK ==
    /\ dbState \in [Docs -> SUBSET Updates]
    /\ archived \in SUBSET Docs
    /\ open \in SUBSET Docs
    /\ ydoc \in [Docs -> SUBSET Updates]
    /\ isDirty \in [Docs -> BOOLEAN]
    /\ connections \in [Docs -> SUBSET Sockets]
    /\ idle \in [Docs -> BOOLEAN]
    /\ gen \in [Docs -> Nat]
    /\ timers \in SUBSET (Docs \X Nat)
    /\ loading \in [Docs -> {"no", "querying", "fetched"}]
    /\ fetched \in [Docs -> SUBSET Updates]
    /\ waiting \in SUBSET Handler
    /\ saves \in SUBSET Save
    /\ server \in {"up", "flushing", "down"}
    /\ flushed \in SUBSET Docs
    /\ faults \in Nat
    /\ accepted \in [Docs -> SUBSET Updates]
    /\ exposed \in [Docs -> SUBSET Updates]

\* A freshly started process over rows created by DocumentService.create,
\* whose yjs_state is empty.
Init ==
    /\ dbState = [d \in Docs |-> {}]
    /\ archived = {}
    /\ open = {}
    /\ ydoc = [d \in Docs |-> {}]
    /\ isDirty = [d \in Docs |-> FALSE]
    /\ connections = [d \in Docs |-> {}]
    /\ idle = [d \in Docs |-> FALSE]
    /\ gen = [d \in Docs |-> 0]
    /\ timers = {}
    /\ loading = [d \in Docs |-> "no"]
    /\ fetched = [d \in Docs |-> {}]
    /\ waiting = {}
    /\ saves = {}
    /\ server = "up"
    /\ flushed = {}
    /\ faults = 0
    /\ accepted = [d \in Docs |-> {}]
    /\ exposed = [d \in Docs |-> {}]

\* The event loop takes up something new: continuations of a resolved promise
\* run before that.
Ready == \A h \in waiting : h.doc \notin open

Running == server # "down" /\ Ready

-----------------------------------------------------------------------------
(* Persisting *)

Saving(d) == \E s \in saves : s.doc = d

Unsaturated == Cardinality(saves) < MaxSaves

\* What persistNow hands to saveState: the bytes are encoded before the await.
SaveCall(d, state, by) == [doc |-> d, state |-> state, gen |-> gen[d], by |-> by]

\* saveState resolved for the entry it was called for: isDirty is cleared
\* whatever was merged meanwhile.  An entry that has left the map is not
\* the one the map holds now.
ClearsDirty(s) == s.doc \in open /\ gen[s.doc] = s.gen

\* The entry leaves the docs map: finally-block of unloadIdle.  The timer
\* cleared is that of the entry the sweep captured (generation g), the entry
\* removed is whichever one the map holds.
Drop(d, g) ==
    /\ open' = open \ {d}
    /\ timers' = timers \ {<<d, g>>}
    /\ flushed' = flushed \ {d}
    /\ ydoc' = [ydoc EXCEPT ![d] = {}]
    /\ connections' = [connections EXCEPT ![d] = {}]
    /\ isDirty' = [isDirty EXCEPT ![d] = FALSE]
    /\ idle' = [idle EXCEPT ![d] = FALSE]

\* The process is gone: memory is lost, a pending UPDATE statement has either
\* been applied by the database or not.
Exit ==
    /\ server' = "down"
    /\ dbState' \in [Docs -> SUBSET Updates]
    /\ \A d \in Docs :
         dbState'[d] \in {dbState[d]} \cup {s.state : s \in {x \in saves : x.doc = d}}
    /\ open' = {}
    /\ ydoc' = [d \in Docs |-> {}]
    /\ isDirty' = [d \in Docs |-> FALSE]
    /\ connections' = [d \in Docs |-> {}]
    /\ idle' = [d \in Docs |-> FALSE]
    /\ timers' = {}
    /\ loading' = [d \in Docs |-> "no"]
    /\ fetched' = [d \in Docs |-> {}]
    /\ waiting' = {}
    /\ saves' = {}
    /\ flushed' = {}
    /\ exposed' = [d \in Docs |->
                     exposed[d] \cup (IF d \in open /\ isDirty[d] THEN ydoc[d] ELSE {})]
    /\ UNCHANGED <<archived, gen, accepted>>

-----------------------------------------------------------------------------
(* Merging updates *)

\* Y.applyUpdate on the entry of an open document, with its update hook.
\* An update the document already holds changes nothing and fires no hook; a
\* destroyed Y.Doc (shutdown) still merges but has lost its hook.  A restore
\* also marks the entry dirty itself.
Merge(d, ops, mark) ==
    LET new == ops \ ydoc[d]
        hook == new # {} /\ d \notin flushed
    IN  /\ ydoc' = [ydoc EXCEPT ![d] = @ \cup ops]
        /\ accepted' = [accepted EXCEPT ![d] = @ \cup ops]
        /\ isDirty' = [isDirty EXCEPT ![d] = @ \/ hook \/ mark]
        /\ idle' = [idle EXCEPT ![d] = FALSE]
        /\ timers' = IF hook THEN timers \cup {<<d, gen[d]>>} ELSE timers
        /\ exposed' = IF Saving(d) \/ d \in flushed
                      THEN [exposed EXCEPT ![d] = @ \cup new]
                      ELSE exposed
        /\ UNCHANGED <<open, connections, gen>>

\* What a handler does once getOrLoad has resolved: handleUpdate merges;
\* replaceState merges its delete-and-insert (nothing when both texts are
\* empty), marks the entry dirty and calls persistNow; a join or a snapshot
\* only touches the entry.
Proceed(h) ==
    \/ /\ h.kind = "edit"
       /\ Merge(h.doc, h.ops, FALSE)
       /\ UNCHANGED saves
    \/ /\ h.kind = "restore"
       /\ Merge(h.doc, h.ops, TRUE)
       /\ saves' = saves \cup {SaveCall(h.doc, ydoc[h.doc] \cup h.ops, "restore")}
    \/ /\ h.kind = "open"
       /\ idle' = [idle EXCEPT ![h.doc] = FALSE]
       /\ UNCHANGED <<open, ydoc, isDirty, connections, gen, timers, saves, history>>

-----------------------------------------------------------------------------
(* Handlers *)

\* A restore generates operations nobody has seen before.
Fresh(h) == h.kind = "restore" => h.ops \cap accepted[h.doc] = {}

\* getOrLoad, hit: handleUpdate, replaceState, handleJoin or a snapshot finds
\* the entry and goes on at once.
HandleOpen(h) ==
    /\ Running /\ h.doc \in open /\ Fresh(h)
    /\ h.kind = "restore" => Unsaturated
    /\ Proceed(h)
    /\ UNCHANGED <<dbVars, loadVars, ctlVars, faults>>

\* getOrLoad, miss: join the in-flight load or start one.
HandleMiss(h) ==
    /\ Running /\ h.doc \notin open /\ Fresh(h)
    /\ Cardinality(waiting) < MaxWaiting
    /\ waiting' = waiting \cup {h}
    /\ loading' = [loading EXCEPT ![h.doc] = IF @ = "no" THEN "querying" ELSE @]
    /\ UNCHANGED <<dbVars, entryVars, fetched, saves, ctlVars, faults, history>>

\* findWithState runs: an archived row is not found and reads as empty.
LoadRead(d) ==
    /\ Ready /\ loading[d] = "querying"
    /\ loading' = [loading EXCEPT ![d] = "fetched"]
    /\ fetched' = [fetched EXCEPT ![d] = IF d \in archived THEN {} ELSE dbState[d]]
    /\ exposed' = IF d \in archived
                  THEN [exposed EXCEPT ![d] = @ \cup dbState[d]] ELSE exposed
    /\ UNCHANGED <<dbVars, entryVars, waiting, saves, ctlVars, faults, accepted>>

\* A new entry object is none of those a timer or a save still refers to.
NewEntry(d) == (gen[d] + 1) % MaxEntries

Unreferenced(d, g) ==
    /\ <<d, g>> \notin timers
    /\ \A s \in saves : s.doc = d => s.gen # g

\* Mutant: the entry is installed without applying the fetched bytes.
LoadDone_Unhydrated(d) ==
    /\ Ready /\ loading[d] = "fetched"
    /\ Unreferenced(d, NewEntry(d))
    /\ loading' = [loading EXCEPT ![d] = "no"]
    /\ fetched' = [fetched EXCEPT ![d] = {}]
    /\ open' = open \cup {d}
    /\ gen' = [gen EXCEPT ![d] = NewEntry(d)]
    /\ ydoc' = [ydoc EXCEPT ![d] = {}]
    /\ isDirty' = [isDirty EXCEPT ![d] = FALSE]
    /\ connections' = [connections EXCEPT ![d] = {}]
    /\ idle' = [idle EXCEPT ![d] = FALSE]
    /\ UNCHANGED <<dbVars, timers, waiting, saves, ctlVars, faults, history>>

\* The promise resolves: hydrate and install a new entry.
LoadDone(d) ==
    /\ Ready /\ loading[d] = "fetched"
    /\ Unreferenced(d, NewEntry(d))
    /\ loading' = [loading EXCEPT ![d] = "no"]
    /\ fetched' = [fetched EXCEPT ![d] = {}]
    /\ open' = open \cup {d}
    /\ gen' = [gen EXCEPT ![d] = NewEntry(d)]
    /\ ydoc' = [ydoc EXCEPT ![d] = fetched[d]]
    /\ isDirty' = [isDirty EXCEPT ![d] = FALSE]
    /\ connections' = [connections EXCEPT ![d] = {}]
    /\ idle' = [idle EXCEPT ![d] = FALSE]
    /\ UNCHANGED <<dbVars, timers, waiting, saves, ctlVars, faults, history>>

\* Mutant: a rejected load leaves the joins waiting.
LoadFail_SilentToJoins(d) ==
    /\ Ready /\ loading[d] # "no" /\ faults < MaxFaults
    /\ loading' = [loading EXCEPT ![d] = "no"]
    /\ fetched' = [fetched EXCEPT ![d] = {}]
    /\ waiting' = {h \in waiting : h.doc # d \/ h.kind = "open"}
    /\ faults' = faults + 1
    /\ UNCHANGED <<dbVars, entryVars, saves, ctlVars, history>>

\* The query rejects: the load entry is removed, a restore or a join throws,
\* and handleUpdate swallows the error and finds nothing to apply to.
LoadFail(d) ==
    /\ Ready /\ loading[d] # "no" /\ faults < MaxFaults
    /\ loading' = [loading EXCEPT ![d] = "no"]
    /\ fetched' = [fetched EXCEPT ![d] = {}]
    /\ waiting' = {h \in waiting : h.doc # d}
    /\ faults' = faults + 1
    /\ UNCHANGED <<dbVars, entryVars, saves, ctlVars, history>>

\* A handler whose load has resolved continues.
Resume(h) ==
    /\ h \in waiting /\ h.doc \in open
    /\ waiting' = waiting \ {h}
    /\ Proceed(h)
    /\ UNCHANGED <<dbVars, loading, fetched, ctlVars, faults>>

AddConnection(d, k) ==
    /\ Running /\ d \in open
    /\ connections' = [connections EXCEPT ![d] = @ \cup {k}]
    /\ UNCHANGED <<dbVars, open, ydoc, isDirty, idle, gen, timers, loadVars,
                   saves, ctlVars, faults, history>>

RemoveConnection(d, k) ==
    /\ Running /\ d \in open
    /\ connections' = [connections EXCEPT ![d] = @ \ {k}]
    /\ idle' = [idle EXCEPT ![d] = FALSE]
    /\ UNCHANGED <<dbVars, open, ydoc, isDirty, gen, timers, loadVars, saves,
                   ctlVars, faults, history>>

\* DocumentService.archive: the row only; the live entry is left alone.
Archive(d) ==
    /\ Running /\ d \notin archived
    /\ archived' = archived \cup {d}
    /\ UNCHANGED <<dbState, entryVars, loadVars, saves, ctlVars, faults, history>>

-----------------------------------------------------------------------------
(* Timers, sweeps and answers of the database *)

\* Mutant: the timer is put off until nobody watches.
TimerFires_PutOff(d, g) ==
    /\ Running /\ <<d, g>> \in timers /\ Unsaturated
    /\ connections[d] = {}
    /\ timers' = timers \ {<<d, g>>}
    /\ saves' = IF d \in open /\ isDirty[d]
                THEN saves \cup {SaveCall(d, ydoc[d], "timer")} ELSE saves
    /\ UNCHANGED <<dbVars, open, ydoc, isDirty, connections, idle, gen, loadVars,
                   ctlVars, faults, history>>

\* The debounce elapses: saveTimeout := null and persistNow(documentId), which
\* looks the document up again.
TimerFires(d, g) ==
    /\ Running /\ <<d, g>> \in timers /\ Unsaturated
    /\ timers' = timers \ {<<d, g>>}
    /\ saves' = IF d \in open /\ isDirty[d]
                THEN saves \cup {SaveCall(d, ydoc[d], "timer")} ELSE saves
    /\ UNCHANGED <<dbVars, open, ydoc, isDirty, connections, idle, gen, loadVars,
                   ctlVars, faults, history>>

\* Five minutes without activity; a timer armed by the last edit has long
\* fired by then.
BecomeIdle(d) ==
    /\ Running /\ d \in open /\ ~idle[d]
    /\ <<d, gen[d]>> \notin timers
    /\ idle' = [idle EXCEPT ![d] = TRUE]
    /\ UNCHANGED <<dbVars, open, ydoc, isDirty, connections, gen, timers, loadVars,
                   saves, ctlVars, faults, history>>

\* unloadIdle reaches an idle, unwatched document: a dirty one is persisted
\* first, and the sweep awaits that save; a clean one is dropped.
SweepPersist(w, d) ==
    /\ Running /\ \A s \in saves : s.by # w
    /\ d \in open /\ connections[d] = {} /\ idle[d] /\ isDirty[d]
    /\ Unsaturated
    /\ saves' = saves \cup {SaveCall(d, ydoc[d], w)}
    /\ UNCHANGED <<dbVars, entryVars, loadVars, ctlVars, faults, history>>

\* Mutant: the sweep drops idle documents without looking at isDirty.
SweepDrop_Unsaved(w, d) ==
    /\ Running /\ \A s \in saves : s.by # w
    /\ d \in open /\ connections[d] = {} /\ idle[d]
    /\ Drop(d, gen[d])
    /\ UNCHANGED <<dbVars, gen, loadVars, saves, server, faults, history>>

SweepDrop(w, d) ==
    /\ Running /\ \A s \in saves : s.by # w
    /\ d \in open /\ connections[d] = {} /\ idle[d] /\ ~isDirty[d]
    /\ Drop(d, gen[d])
    /\ UNCHANGED <<dbVars, gen, loadVars, saves, server, faults, history>>

\* Mutant: the entry is refreshed with the bytes that were saved.
SaveOk_Refresh(s) ==
    /\ Ready /\ s \in saves /\ s.by \in {"timer", "restore"}
    /\ saves' = saves \ {s}
    /\ dbState' = [dbState EXCEPT ![s.doc] = s.state]
    /\ isDirty' = [isDirty EXCEPT ![s.doc] = @ /\ ~ClearsDirty(s)]
    /\ idle' = [idle EXCEPT ![s.doc] = @ /\ ~ClearsDirty(s)]
    /\ ydoc' = [ydoc EXCEPT ![s.doc] = IF ClearsDirty(s) THEN s.state ELSE @]
    /\ UNCHANGED <<archived, open, connections, gen, timers, loadVars,
                   ctlVars, faults, history>>

\* saveState resolves for a timer or a restore.
SaveOk(s) ==
    /\ Ready /\ s \in saves /\ s.by \in {"timer", "restore"}
    /\ saves' = saves \ {s}
    /\ dbState' = [dbState EXCEPT ![s.doc] = s.state]
    /\ isDirty' = [isDirty EXCEPT ![s.doc] = @ /\ ~ClearsDirty(s)]
    /\ idle' = [idle EXCEPT ![s.doc] = @ /\ ~ClearsDirty(s)]
    /\ UNCHANGED <<archived, open, ydoc, connections, gen, timers, loadVars,
                   ctlVars, faults, history>>

\* saveState resolves for a sweep, whose finally-block then drops the entry.
SweepSaveOk(s) ==
    /\ Ready /\ s \in saves /\ s.by \in Sweepers
    /\ saves' = saves \ {s}
    /\ dbState' = [dbState EXCEPT ![s.doc] = s.state]
    /\ Drop(s.doc, s.gen)
    /\ exposed' = IF s.doc \in open /\ isDirty[s.doc] /\ ~ClearsDirty(s)
                  THEN [exposed EXCEPT ![s.doc] = @ \cup ydoc[s.doc]] ELSE exposed
    /\ UNCHANGED <<archived, gen, loadVars, server, faults, accepted>>

\* saveState rejects; the statement may have been applied all the same (the
\* answer was lost).  isDirty stays, the error is logged or returned.
SaveFail(s) ==
    /\ Ready /\ s \in saves /\ s.by \in {"timer", "restore"} /\ faults < MaxFaults
    /\ saves' = saves \ {s}
    /\ \E done \in {dbState[s.doc], s.state} :
         dbState' = [dbState EXCEPT ![s.doc] = done]
    /\ faults' = faults + 1
    /\ UNCHANGED <<archived, entryVars, loadVars, ctlVars, history>>

\* saveState rejects under a sweep: the finally-block drops the entry anyway.
SweepSaveFail(s) ==
    /\ Ready /\ s \in saves /\ s.by \in Sweepers /\ faults < MaxFaults
    /\ saves' = saves \ {s}
    /\ \E done \in {dbState[s.doc], s.state} :
         dbState' = [dbState EXCEPT ![s.doc] = done]
    /\ Drop(s.doc, s.gen)
    /\ exposed' = IF s.doc \in open /\ isDirty[s.doc]
                  THEN [exposed EXCEPT ![s.doc] = @ \cup ydoc[s.doc]] ELSE exposed
    /\ faults' = faults + 1
    /\ UNCHANGED <<archived, gen, loadVars, server, accepted>>

-----------------------------------------------------------------------------
(* Shutdown, crash and restart *)

Shutdown ==
    /\ Ready /\ server = "up" /\ faults < MaxFaults
    /\ server' = "flushing"
    /\ faults' = faults + 1
    /\ UNCHANGED <<dbVars, entryVars, loadVars, saves, flushed, history>>

\* onModuleDestroy visits one entry of the map: its timer is cleared, a dirty
\* one is persisted and awaited, a clean one is destroyed at once.
FlushVisit(d) ==
    /\ Ready /\ server = "flushing" /\ d \in open \ flushed
    /\ \A s \in saves : s.by # "flush"
    /\ timers' = timers \ {<<d, gen[d]>>}
    /\ IF isDirty[d]
       THEN /\ saves' = saves \cup {SaveCall(d, ydoc[d], "flush")}
            /\ UNCHANGED flushed
       ELSE /\ flushed' = flushed \cup {d}
            /\ UNCHANGED saves
    /\ UNCHANGED <<dbVars, open, ydoc, isDirty, connections, idle, gen, loadVars,
                   server, faults, history>>

FlushSaveOk(s) ==
    /\ Ready /\ s \in saves /\ s.by = "flush"
    /\ saves' = saves \ {s}
    /\ dbState' = [dbState EXCEPT ![s.doc] = s.state]
    /\ isDirty' = [isDirty EXCEPT ![s.doc] = @ /\ ~ClearsDirty(s)]
    /\ idle' = [idle EXCEPT ![s.doc] = @ /\ ~ClearsDirty(s)]
    /\ flushed' = IF ClearsDirty(s) THEN flushed \cup {s.doc} ELSE flushed
    /\ UNCHANGED <<archived, open, ydoc, connections, gen, timers, loadVars,
                   server, faults, history>>

\* The rejection leaves the loop: the other entries are never visited and the
\* process exits.
FlushSaveFail(s) ==
    /\ Ready /\ s \in saves /\ s.by = "flush" /\ faults < MaxFaults
    /\ Exit
    /\ faults' = faults + 1

\* Every entry has been visited: docs.clear() and the process exits.
FlushDone ==
    /\ Ready /\ server = "flushing" /\ open \subseteq flushed
    /\ \A s \in saves : s.by # "flush"
    /\ Exit
    /\ UNCHANGED faults

Crash ==
    /\ Running /\ faults < MaxFaults
    /\ Exit
    /\ faults' = faults + 1

Restart ==
    /\ server = "down"
    /\ server' = "up"
    /\ UNCHANGED <<dbVars, entryVars, loadVars, saves, flushed, faults, history>>

-----------------------------------------------------------------------------
\* The requests the gateway and the snapshot service can make.
Requests ==
    [doc : Docs, ops : {{u} : u \in Edits}, kind : {"edit"}]
      \cup [doc : Docs, ops : Restores, kind : {"restore"}]
      \cup [doc : Docs, ops : {{}}, kind : {"open"}]

DatabaseStep ==
    \/ \E d \in Docs : LoadRead(d) \/ LoadDone(d) \/ LoadFail(d)
    \/ \E s \in saves : \/ SaveOk(s) \/ SweepSaveOk(s) \/ FlushSaveOk(s)
                        \/ SaveFail(s) \/ SweepSaveFail(s) \/ FlushSaveFail(s)

RequestStep ==
    \/ \E h \in Requests : HandleOpen(h) \/ HandleMiss(h)
    \/ \E d \in Docs, k \in Sockets : AddConnection(d, k) \/ RemoveConnection(d, k)
    \/ \E d \in Docs : Archive(d)

ClockStep ==
    \/ \E t \in timers : TimerFires(t[1], t[2])
    \/ \E d \in Docs : BecomeIdle(d)
    \/ \E w \in Sweepers, d \in Docs : SweepPersist(w, d) \/ SweepDrop(w, d)

LifecycleStep ==
    \/ \E d \in Docs : FlushVisit(d)
    \/ Shutdown \/ FlushDone \/ Crash \/ Restart

Next ==
    \/ \E h \in waiting : Resume(h)
    \/ RequestStep \/ ClockStep \/ DatabaseStep \/ LifecycleStep

Spec == Init /\ [][Next]_vars

\* The event loop runs due timers and continuations, the database eventually
\* answers every query, time passes and the cron job keeps running.
Fairness ==
    /\ \A d \in Docs :
         /\ WF_vars(\E g \in 0..(MaxEntries - 1) : TimerFires(d, g))
         /\ WF_vars(LoadRead(d))
         /\ WF_vars(LoadDone(d))
         /\ \A b \in Triggers :
              WF_vars(\E s \in saves : /\ s.doc = d /\ s.by = b
                                       /\ SaveOk(s) \/ SweepSaveOk(s) \/ FlushSaveOk(s))
         /\ WF_vars(BecomeIdle(d))
         /\ WF_vars(\E w \in Sweepers : SweepPersist(w, d) \/ SweepDrop(w, d))
         /\ WF_vars(FlushVisit(d))
    /\ \A h \in Requests : WF_vars(Resume(h))

FairSpec == Spec /\ Fairness

-----------------------------------------------------------------------------
(* Properties *)

\* Unsaved memory: what only the dirty live entry holds.
Held(d) == IF d \in open /\ isDirty[d] THEN ydoc[d] ELSE {}

(***************************************************************************)
(* Durability.  Every update the server ever merged is in the row, or in   *)
(* an entry that is still marked dirty, or went through one of the loss    *)
(* windows: merged while a save of its document was in flight or after its *)
(* Y.Doc was destroyed, dropped with a dirty entry, or hidden by loading   *)
(* an archived row.  No other interleaving of loads, debounced saves,      *)
(* restores, sweeps, answers out of order and restarts loses an update.    *)
(***************************************************************************)
NoSilentLoss ==
    \A d \in Docs : accepted[d] \subseteq dbState[d] \cup Held(d) \cup exposed[d]

\* A live Y.Doc, a row a load has fetched, and the bytes of a save in flight
\* each hold every update outside the loss windows, so that whichever of them
\* becomes the row or the entry next, nothing is missing from it.
CopiesComplete ==
    /\ \A d \in open : accepted[d] \subseteq ydoc[d] \cup exposed[d]
    /\ \A d \in Docs : loading[d] = "fetched" =>
                         accepted[d] \subseteq fetched[d] \cup exposed[d]
    /\ \A s \in saves : accepted[s.doc] \subseteq s.state \cup exposed[s.doc]

\* One load at a time (the comment on getOrLoad: no "separate Y.Doc instances
\* splitting state"): hydration never replaces a live Y.Doc, so a document
\* that stays open only gains updates.
LiveStateGrows ==
    [][\A d \in open : d \in open' => ydoc[d] \subseteq ydoc'[d]]_vars

\* A handler that waits for a load is answered: it resumes, or the load's
\* failure rejects it.
WaitersAnswered ==
    \A h \in Requests : h \in waiting ~> h \notin waiting

\* A dirty document with no save in flight is saved: what it holds reaches
\* the row, unless a database call fails (no timer is armed again after a
\* failed save) or the server crashes.
DirtyIsSaved ==
    \A d \in Docs, u \in Updates :
      (d \in open /\ isDirty[d] /\ ~Saving(d) /\ u \in ydoc[d])
        ~> u \in dbState[d] \/ faults > 0

-----------------------------------------------------------------------------
(* What docs/05-realtime-engine.md says of the code, and the code does not do *)

\* docs/05-realtime-engine.md:355: the debounce saves "while still persisting
\* within 5 seconds of any change".  Without any failure, an edit merged into
\* a live document reaches the row.
EditsPersisted ==
    \A d \in Docs, u \in Edits :
      (d \in open /\ u \in ydoc[d]) ~> u \in dbState[d]

=============================================================================
