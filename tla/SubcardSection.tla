--------------------------- MODULE SubcardSection ---------------------------
(***************************************************************************)
(* The subcards of an open card                                            *)
(* (frontend/src/components/card/SubcardSection.tsx): every handler shows  *)
(* its effect at once and sends its request afterwards; what a failure     *)
(* undoes, and how, differs from handler to handler.  Neither a broadcast  *)
(* nor a handler that succeeds loads the subcards again.                   *)
(***************************************************************************)
EXTENDS Integers, Bags

CONSTANTS
    CardIds,     \* ids of cards, used or not: natural numbers
    MaxClicks    \* bound: handlers called, and changes by others

ASSUME SubcardBounds == MaxClicks \in Nat /\ CardIds \subseteq Nat

VARIABLES
    cards,       \* the cards: "unborn", "free" (no subcard), "open" or "done"
    data,        \* the subcards shown, {} for none and for data = null
    calls,       \* requests on their way
    reads,       \* bag of the loads on their way: {} or {what was read}
    mixed,       \* history variable: a known reason for a wrong list
    clicks       \* handlers called so far

subcardVars == <<cards, data, calls, reads, mixed, clicks>>

TempId  == -1 - clicks           \* `temp-${Date.now()}`
Shown   == [id : CardIds \cup (-1 - MaxClicks)..(-1), done : BOOLEAN]
Stored  == {[id |-> c, done |-> cards[c] = "done"] :
              c \in {x \in CardIds : cards[x] \in {"open", "done"}}}

SubcardsTypeOK ==
    /\ cards \in [CardIds -> {"unborn", "free", "open", "done"}]
    /\ data \subseteq Shown
    /\ \A c \in calls : c.op \in {"create", "attach", "detach", "toggle"}
    /\ IsABag(reads) /\ mixed \in BOOLEAN /\ clicks \in 0..MaxClicks

\* The card has just been opened.  One of its subcards is there already.
SubcardsInit ==
    /\ LET first == CHOOSE c \in CardIds : TRUE
           other == CHOOSE c \in CardIds : c # first
       IN  cards = [c \in CardIds |-> IF c = first THEN "open"
                                      ELSE IF c = other THEN "free" ELSE "unborn"]
    /\ data = {} /\ calls = {} /\ reads = SetToBag({{}}) /\ mixed = FALSE /\ clicks = 0

LoadSubcards == reads' = reads (+) SetToBag({{}})

\* The request is on its way; a load, or another request for the same
\* card, that is on its way as well may have the last word.
Send(op, id, done) ==
    /\ clicks < MaxClicks /\ clicks' = clicks + 1
    /\ calls' = calls \cup {[op |-> op, id |-> id, done |-> done, nr |-> clicks,
                             step |-> "sent", card |-> id]}
    /\ mixed' = (mixed \/ reads # EmptyBag \/ \E c \in calls : c.id = id)
    /\ UNCHANGED <<cards, reads>>

\* A temporary card is shown until the answer comes.
HandleCreateSubcard ==
    /\ data' = data \cup {[id |-> TempId, done |-> FALSE]}
    /\ Send("create", TempId, FALSE)

\* Only cards that are not shown yet are offered.
HandleAttachSubcard(id) ==
    /\ cards[id] = "free" /\ \A s \in data : s.id # id
    /\ data' = data \cup {[id |-> id, done |-> FALSE]}
    /\ Send("attach", id, FALSE)

HandleDetachSubcard(s) ==
    /\ data' = data \ {s}
    /\ Send("detach", s.id, FALSE)

HandleToggleSubcardComplete(s) ==
    /\ data' = (data \ {s}) \cup {[s EXCEPT !.done = ~@]}
    /\ Send("toggle", s.id, ~s.done)

-----------------------------------------------------------------------------
\* The server stores the change.  A temporary id is no card: such a request
\* is refused.
StoreCall(c, id) ==
    /\ c.step = "sent"
    /\ IF c.op = "create" THEN cards[id] = "unborn" ELSE c.id = id
    /\ cards' = [cards EXCEPT ![id] =
         CASE c.op \in {"create", "attach"} -> "open"
           [] c.op = "detach" -> "free"
           [] OTHER -> IF @ = "free" THEN @ ELSE IF c.done THEN "done" ELSE "open"]
    /\ calls' = (calls \ {c}) \cup {[c EXCEPT !.step = "stored", !.card = id]}
    /\ UNCHANGED <<data, reads, mixed, clicks>>

\* The temporary card becomes the one that was created, if it is still there.
CallDone(c) ==
    /\ c.step = "stored"
    /\ calls' = calls \ {c}
    /\ data' = {IF s.id = c.id THEN [s EXCEPT !.id = c.card] ELSE s : s \in data}
    /\ UNCHANGED <<cards, reads, mixed, clicks>>

\* The request was refused, or its answer was lost.  A failed creation
\* takes its temporary card away; the others load the subcards.
CallFailed_KeepTemp(c) ==
    /\ calls' = calls \ {c}
    /\ IF c.op = "create" THEN UNCHANGED reads ELSE LoadSubcards
    /\ mixed' = (mixed \/ (c.op # "create" /\ calls' # {})
                       \/ (c.op = "create" /\ c.step = "stored"))
    /\ UNCHANGED <<cards, data, clicks>>

CallFailed(c) ==
    /\ calls' = calls \ {c}
    /\ IF c.op = "create"
       THEN data' = {s \in data : s.id # c.id} /\ UNCHANGED reads
       ELSE LoadSubcards /\ UNCHANGED data
    /\ mixed' = (mixed \/ (c.op # "create" /\ calls' # {})
                       \/ (c.op = "create" /\ c.step = "stored"))
    /\ UNCHANGED <<cards, clicks>>

\* Somebody else detaches a subcard or completes it: nobody tells the section.
ChangedByOther(id) ==
    /\ clicks < MaxClicks /\ clicks' = clicks + 1
    /\ cards[id] = "open"
    /\ \E now \in {"free", "done"} : cards' = [cards EXCEPT ![id] = now]
    /\ mixed' = TRUE
    /\ UNCHANGED <<data, calls, reads>>

SubcardsRead(r) ==
    /\ r = {}
    /\ reads' = (reads (-) SetToBag({r})) (+) SetToBag({{Stored}})
    /\ UNCHANGED <<cards, data, calls, mixed, clicks>>

\* What was read is shown; alone, and up to date, it sets everything right.
SubcardsLoaded(r) ==
    /\ reads' = reads (-) SetToBag({r})
    /\ \E list \in r :
         /\ data' = list
         /\ mixed' = (mixed /\ ~(list = Stored /\ calls = {} /\ reads' = EmptyBag))
    /\ UNCHANGED <<cards, calls, clicks>>

LoadSubcardsFailed(r) ==
    /\ clicks < MaxClicks /\ clicks' = clicks + 1
    /\ reads' = reads (-) SetToBag({r})
    /\ mixed' = TRUE
    /\ UNCHANGED <<cards, data, calls>>

SubcardsNext ==
    \/ HandleCreateSubcard
    \/ \E id \in CardIds : HandleAttachSubcard(id) \/ ChangedByOther(id)
    \/ \E s \in data : HandleDetachSubcard(s) \/ HandleToggleSubcardComplete(s)
    \/ \E c \in calls : CallDone(c) \/ CallFailed(c) \/ \E id \in CardIds : StoreCall(c, id)
    \/ \E r \in BagToSet(reads) :
        SubcardsRead(r) \/ SubcardsLoaded(r) \/ LoadSubcardsFailed(r)

-----------------------------------------------------------------------------
\* With nothing on its way, the section shows the subcards that are stored,
\* although each handler undoes a failure in its own way.  The exceptions:
\* a load overlapped a request, two requests for one card overlapped, a load
\* failed, a creation succeeded and its answer was lost, or somebody else
\* changed a subcard.
SubcardsShown == calls = {} /\ reads = EmptyBag => data = Stored \/ mixed

=============================================================================
