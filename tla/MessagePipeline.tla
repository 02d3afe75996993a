-------------------------- MODULE MessagePipeline --------------------------
(***************************************************************************)
(* The RabbitMQ pipeline: RabbitPublisherService, consumeOnce and the two  *)
(* consumers, NotificationConsumerListener and EmailConsumer.              *)
(*                                                                         *)
(* A message is its messageId.  The broker holds copies of it: the one     *)
(* published, and those republished by publishRetry, which carry a higher  *)
(* x-retry-count.  A handler run is cut at its awaits (Redis, PostgreSQL,  *)
(* SMTP, broker confirm).  The handler's return acknowledges the delivery, *)
(* an exception requeues it (the subscriber's default error behaviour),    *)
(* and a lost connection or a crash makes the broker redeliver whatever    *)
(* was not acknowledged, while the handlers of a live process run on with  *)
(* a channel that no longer reaches their delivery.                        *)
(***************************************************************************)
EXTENDS Naturals, FiniteSets

CONSTANTS
    Notifications, \* messages on notification.queue
    Emails,        \* messages on email.queue
    Malformed,     \* those the payload validators reject
    Handlers,      \* deliveries that may be in progress at once (prefetch)
    Idle,          \* a handler slot without a delivery
    MaxRetries,    \* NOTIFICATION_MAX_RETRIES, EMAIL_MAX_RETRIES
    MaxFaults      \* bound: Redis and broker errors, disconnections, crashes

Messages == Notifications \cup Emails
Copies   == Messages \X (0 .. MaxRetries)
Stages   == {"received", "working", "failed", "retrying", "stored"}
Delivery == [pc : Stages, copy : Copies, attached : BOOLEAN]

ASSUME KindsAreDisjoint == Notifications \cap Emails = {}
ASSUME IdleIsNoDelivery == Idle \notin Delivery
ASSUME HandlersFinite == IsFiniteSet(Handlers)
ASSUME LimitsAreNat == MaxRetries \in Nat \ {0} /\ MaxFaults \in Nat

VARIABLES
    online,    \* amqp.connected
    published, \* messages whose publish was called
    ready,     \* copies in notification.queue and email.queue
    delayed,   \* copies in the retry.wait queues
    worker,    \* handler runs
    keys,      \* msg:processed:<messageId> keys in Redis
    rows,      \* messages with a row in notifications
    pushed,    \* WebSocket pushes per message
    sent,      \* SMTP deliveries per message
    faults,    \* faults so far
    accepted,  \* history: messages the broker took
    stranded,  \* history: messages that went through a loss window
    ambiguous  \* history: messages whose mail may be repeated

brokerVars == <<online, ready, delayed>>
storeVars  == <<rows, pushed, sent>>
history    == <<accepted, stranded, ambiguous>>
vars       == <<published, brokerVars, worker, keys, storeVars, faults, history>>

TypeOK ==
    /\ online \in BOOLEAN
    /\ published \in SUBSET Messages
    /\ ready \in [Copies -> Nat]
    /\ delayed \in [Copies -> Nat]
    /\ worker \in [Handlers -> Delivery \cup {Idle}]
    /\ keys \in SUBSET Messages
    /\ rows \in SUBSET Notifications
    /\ pushed \in [Messages -> Nat]
    /\ sent \in [Messages -> Nat]
    /\ faults \in Nat
    /\ accepted \in SUBSET Messages
    /\ stranded \in SUBSET Messages
    /\ ambiguous \in SUBSET Messages

Init ==
    /\ online = TRUE
    /\ published = {}
    /\ ready = [c \in Copies |-> 0]
    /\ delayed = [c \in Copies |-> 0]
    /\ worker = [h \in Handlers |-> Idle]
    /\ keys = {}
    /\ rows = {}
    /\ pushed = [m \in Messages |-> 0]
    /\ sent = [m \in Messages |-> 0]
    /\ faults = 0
    /\ accepted = {}
    /\ stranded = {}
    /\ ambiguous = {}

-----------------------------------------------------------------------------
Msg(h) == worker[h].copy[1]

\* retryCountFrom(raw?.headers).  The handlers take raw from their fourth
\* parameter, while the subscriber calls them with the message, the raw
\* message and its headers: raw is undefined, and the x-retry-count the
\* delivery carries is never read.
Retry(h) == 0

At(h, stage) == worker[h] # Idle /\ worker[h].pc = stage

Goto(h, stage) ==
    worker' = [worker EXCEPT ![h] =
        [pc |-> stage, copy |-> worker[h].copy, attached |-> worker[h].attached]]

\* The handler run is over.
Leave(h) == worker' = [worker EXCEPT ![h] = Idle]

\* An exception left the handler: nack with requeue.  It reaches the broker
\* only over the channel the delivery came from.
Requeued(h) ==
    IF worker[h].attached THEN [ready EXCEPT ![worker[h].copy] = @ + 1] ELSE ready

Fault == faults < MaxFaults /\ faults' = faults + 1

\* The run holds the idempotency key of m.
Holds(h, m) == (At(h, "working") \/ At(h, "failed")) /\ Msg(h) = m

\* The run is the only thing left that knows m still has to be done.
Owes(h, m) ==
    \/ Holds(h, m)
    \/ At(h, "retrying") /\ Msg(h) = m /\ ~worker[h].attached

-----------------------------------------------------------------------------
(* Publishing *)

Publish(m) ==
    /\ online
    /\ m \notin published
    /\ published' = published \cup {m}
    /\ accepted' = accepted \cup {m}
    /\ ready' = [ready EXCEPT ![<<m, 0>>] = @ + 1]
    /\ UNCHANGED <<online, delayed, worker, keys, storeVars, faults, stranded, ambiguous>>

\* Not connected: the message is dropped, and the caller is not told.
PublishDropped(m) ==
    /\ ~online
    /\ m \notin published
    /\ published' = published \cup {m}
    /\ UNCHANGED <<brokerVars, worker, keys, storeVars, faults, history>>

\* amqp.publish rejects: the error is swallowed.  The broker may have taken
\* the message although the confirm was lost.
PublishFails(m, taken) ==
    /\ online
    /\ m \notin published
    /\ Fault
    /\ published' = published \cup {m}
    /\ accepted' = IF taken THEN accepted \cup {m} ELSE accepted
    /\ ready' = IF taken THEN [ready EXCEPT ![<<m, 0>>] = @ + 1] ELSE ready
    /\ UNCHANGED <<online, delayed, worker, keys, storeVars, stranded, ambiguous>>

-----------------------------------------------------------------------------
(* The broker *)

Deliver(h, c) ==
    /\ online
    /\ worker[h] = Idle
    /\ ready[c] > 0
    /\ ready' = [ready EXCEPT ![c] = @ - 1]
    /\ worker' = [worker EXCEPT ![h] = [pc |-> "received", copy |-> c, attached |-> TRUE]]
    /\ UNCHANGED <<published, online, delayed, keys, storeVars, faults, history>>

\* x-message-ttl of the wait queue: back to the exchange it came from.
DelayExpires(c) ==
    /\ delayed[c] > 0
    /\ delayed' = [delayed EXCEPT ![c] = @ - 1]
    /\ ready' = [ready EXCEPT ![c] = @ + 1]
    /\ UNCHANGED <<published, online, worker, keys, storeVars, faults, history>>

\* Every unacknowledged delivery goes back to its queue.
Redelivered ==
    [c \in Copies |-> ready[c] +
        Cardinality({h \in Handlers :
            worker[h] # Idle /\ worker[h].attached /\ worker[h].copy = c})]

Disconnect ==
    /\ online
    /\ Fault
    /\ online' = FALSE
    /\ ready' = Redelivered
    /\ worker' = [h \in Handlers |->
                    IF worker[h] = Idle THEN Idle
                    ELSE [pc |-> worker[h].pc, copy |-> worker[h].copy, attached |-> FALSE]]
    /\ UNCHANGED <<published, delayed, keys, storeVars, history>>

Reconnect ==
    /\ ~online
    /\ online' = TRUE
    /\ UNCHANGED <<published, ready, delayed, worker, keys, storeVars, faults, history>>

\* The process dies and starts again; Redis, PostgreSQL and the broker keep
\* what they have.
Crash ==
    /\ Fault
    /\ ready' = Redelivered
    /\ worker' = [h \in Handlers |-> Idle]
    /\ stranded' = stranded \cup {m \in Messages : \E h \in Handlers : Owes(h, m)}
    /\ UNCHANGED <<published, online, delayed, keys, storeVars, accepted, ambiguous>>

\* The key's TTL (1 hour) is longer than a handler run.
KeyExpires(m) ==
    /\ m \in keys
    /\ \A h \in Handlers : ~Holds(h, m)
    /\ keys' = keys \ {m}
    /\ ambiguous' = IF sent[m] > 0 THEN ambiguous \cup {m} ELSE ambiguous
    /\ UNCHANGED <<published, brokerVars, worker, storeVars, faults, accepted, stranded>>

-----------------------------------------------------------------------------
(* The consumers, up to the side effect *)

\* Mutant: the validator throws, and the poison message is requeued.
Discard_Requeue(h) ==
    /\ At(h, "received")
    /\ Msg(h) \in Malformed
    /\ ready' = Requeued(h)
    /\ Leave(h)
    /\ UNCHANGED <<published, online, delayed, keys, storeVars, faults, history>>

\* A poison message is acknowledged and dropped.
Discard(h) ==
    /\ At(h, "received")
    /\ Msg(h) \in Malformed
    /\ Leave(h)
    /\ UNCHANGED <<published, brokerVars, keys, storeVars, faults, history>>

\* Mutant: SET without NX, every delivery is the first one.
ConsumeOnce_NoNX(h) ==
    /\ At(h, "received")
    /\ Msg(h) \notin Malformed
    /\ keys' = keys \cup {Msg(h)}
    /\ Goto(h, "working")
    /\ UNCHANGED <<published, brokerVars, storeVars, faults, history>>

ConsumeOnce(h) ==
    /\ At(h, "received")
    /\ Msg(h) \notin Malformed
    /\ Msg(h) \notin keys
    /\ keys' = keys \cup {Msg(h)}
    /\ Goto(h, "working")
    /\ UNCHANGED <<published, brokerVars, storeVars, faults, history>>

SkipDuplicate(h) ==
    /\ At(h, "received")
    /\ Msg(h) \notin Malformed
    /\ Msg(h) \in keys
    /\ Leave(h)
    /\ UNCHANGED <<published, brokerVars, keys, storeVars, faults, history>>

\* Redis fails in consumeOnce, which nothing catches.  The key may have been
\* set although the reply was lost.
ConsumeFails(h, applied) ==
    /\ At(h, "received")
    /\ Msg(h) \notin Malformed
    /\ Fault
    /\ ready' = Requeued(h)
    /\ Leave(h)
    /\ IF applied /\ Msg(h) \notin keys
       THEN keys' = keys \cup {Msg(h)} /\ stranded' = stranded \cup {Msg(h)}
       ELSE UNCHANGED <<keys, stranded>>
    /\ UNCHANGED <<published, online, delayed, storeVars, accepted, ambiguous>>

-----------------------------------------------------------------------------
(* NotificationConsumerListener *)

\* Mutant: an upsert, which returns the row whether it was there or not.
Persist_Upsert(h) ==
    /\ At(h, "working")
    /\ Msg(h) \in Notifications
    /\ rows' = rows \cup {Msg(h)}
    /\ Goto(h, "stored")
    /\ UNCHANGED <<published, brokerVars, keys, pushed, sent, faults, history>>

\* createOnce inserted the row.
Persist(h) ==
    /\ At(h, "working")
    /\ Msg(h) \in Notifications \ rows
    /\ rows' = rows \cup {Msg(h)}
    /\ Goto(h, "stored")
    /\ UNCHANGED <<published, brokerVars, keys, pushed, sent, faults, history>>

\* createOnce skipped a duplicate and returned null.
PersistDuplicate(h) ==
    /\ At(h, "working")
    /\ Msg(h) \in rows
    /\ Leave(h)
    /\ UNCHANGED <<published, brokerVars, keys, storeVars, faults, history>>

\* createOnce rejected, possibly after the insert committed.
PersistFails(h, applied) ==
    /\ At(h, "working")
    /\ Msg(h) \in Notifications
    /\ rows' = IF applied THEN rows \cup {Msg(h)} ELSE rows
    /\ Goto(h, "failed")
    /\ UNCHANGED <<published, brokerVars, keys, pushed, sent, faults, history>>

\* The unread counter has been bumped, or the attempt has failed: push.
PushToUser(h) ==
    /\ At(h, "stored")
    /\ pushed' = [pushed EXCEPT ![Msg(h)] = @ + 1]
    /\ Leave(h)
    /\ UNCHANGED <<published, brokerVars, keys, rows, sent, faults, history>>

-----------------------------------------------------------------------------
(* EmailConsumer *)

\* Mutant: the key is released after a successful send too.
Send_Releases(h) ==
    /\ At(h, "working")
    /\ Msg(h) \in Emails
    /\ sent' = [sent EXCEPT ![Msg(h)] = @ + 1]
    /\ keys' = keys \ {Msg(h)}
    /\ Leave(h)
    /\ UNCHANGED <<published, brokerVars, rows, pushed, faults, history>>

Send(h) ==
    /\ At(h, "working")
    /\ Msg(h) \in Emails
    /\ sent' = [sent EXCEPT ![Msg(h)] = @ + 1]
    /\ Leave(h)
    /\ UNCHANGED <<published, brokerVars, keys, rows, pushed, faults, history>>

\* sendMail rejected, possibly after the SMTP server took the mail (a fault,
\* since every such failure is one more mail).
SendFails(h, applied) ==
    /\ At(h, "working")
    /\ Msg(h) \in Emails
    /\ sent' = IF applied THEN [sent EXCEPT ![Msg(h)] = @ + 1] ELSE sent
    /\ ambiguous' = IF applied THEN ambiguous \cup {Msg(h)} ELSE ambiguous
    /\ IF applied THEN Fault ELSE UNCHANGED faults
    /\ Goto(h, "failed")
    /\ UNCHANGED <<published, brokerVars, keys, rows, pushed, accepted, stranded>>

-----------------------------------------------------------------------------
(* The catch-block both consumers share *)

\* Mutant: the catch-block forgets the idempotency key.
Release_Kept(h) ==
    /\ At(h, "failed")
    /\ Goto(h, "retrying")
    /\ UNCHANGED <<published, brokerVars, keys, storeVars, faults, history>>

Release(h) ==
    /\ At(h, "failed")
    /\ keys' = keys \ {Msg(h)}
    /\ Goto(h, "retrying")
    /\ UNCHANGED <<published, brokerVars, storeVars, faults, history>>

\* The DEL is rejected: logged, and the retry is scheduled all the same.
ReleaseFails(h) ==
    /\ At(h, "failed")
    /\ Fault
    /\ stranded' = stranded \cup {Msg(h)}
    /\ Goto(h, "retrying")
    /\ UNCHANGED <<published, brokerVars, keys, storeVars, accepted, ambiguous>>

\* Retry(h) never reaches MaxRetries, so the nack without requeue that ends
\* the retries, and with it dlx.queue, is out of a handler's reach.
ScheduleRetry(h) ==
    /\ At(h, "retrying")
    /\ Retry(h) < MaxRetries
    /\ online
    /\ delayed' = [delayed EXCEPT ![<<Msg(h), Retry(h) + 1>>] = @ + 1]
    /\ Leave(h)
    /\ UNCHANGED <<published, online, ready, keys, storeVars, faults, history>>

\* publishRetry returns without publishing; the broker has taken the
\* delivery back, but another run may have skipped it as a duplicate.
RetryDropped(h) ==
    /\ At(h, "retrying")
    /\ Retry(h) < MaxRetries
    /\ ~online
    /\ Leave(h)
    /\ stranded' = stranded \cup {Msg(h)}
    /\ UNCHANGED <<published, brokerVars, keys, storeVars, faults, accepted, ambiguous>>

\* publishRetry rejects, possibly after the broker took the copy: the
\* exception leaves the handler.
RetryFails(h, taken) ==
    /\ At(h, "retrying")
    /\ Retry(h) < MaxRetries
    /\ online
    /\ Fault
    /\ delayed' = IF taken
                  THEN [delayed EXCEPT ![<<Msg(h), Retry(h) + 1>>] = @ + 1]
                  ELSE delayed
    /\ ready' = Requeued(h)
    /\ stranded' = IF worker[h].attached \/ taken
                   THEN stranded ELSE stranded \cup {Msg(h)}
    /\ Leave(h)
    /\ UNCHANGED <<published, online, keys, storeVars, accepted, ambiguous>>

-----------------------------------------------------------------------------
PublisherStep ==
    \E m \in Messages :
        \/ Publish(m) \/ PublishDropped(m)
        \/ \E taken \in BOOLEAN : PublishFails(m, taken)

DeliveryStep ==
    \/ \E h \in Handlers, c \in Copies : Deliver(h, c)
    \/ \E c \in Copies : DelayExpires(c)
    \/ Reconnect

OutageStep ==
    \/ Disconnect
    \/ Crash
    \/ \E m \in Messages : KeyExpires(m)

\* A step of a handler run whose calls are answered, or whose database or
\* SMTP call fails.
HandlerStep(h) ==
    \/ Discard(h) \/ ConsumeOnce(h) \/ SkipDuplicate(h)
    \/ Persist(h) \/ PersistDuplicate(h) \/ PushToUser(h)
    \/ Send(h)
    \/ \E applied \in BOOLEAN : PersistFails(h, applied) \/ SendFails(h, applied)
    \/ Release(h)
    \/ ScheduleRetry(h) \/ RetryDropped(h)

\* Redis or the broker fails a call of a handler run.
HandlerFault(h) ==
    \/ \E applied \in BOOLEAN : ConsumeFails(h, applied) \/ RetryFails(h, applied)
    \/ ReleaseFails(h)

Next ==
    \/ PublisherStep
    \/ DeliveryStep
    \/ OutageStep
    \/ \E h \in Handlers : HandlerStep(h) \/ HandlerFault(h)

Spec == Init /\ [][Next]_vars

\* The broker delivers, expires delays and takes the client back, and every
\* call a handler awaits is answered or rejected in the end.
FairSpec ==
    /\ Spec
    /\ WF_vars(DeliveryStep)
    /\ \A h \in Handlers : WF_vars(HandlerStep(h))

-----------------------------------------------------------------------------
(* Properties *)

Done(m) == m \in rows \/ sent[m] > 0

Pending(m) ==
    \/ \E r \in 0 .. MaxRetries : ready[<<m, r>>] > 0 \/ delayed[<<m, r>>] > 0
    \/ \E h \in Handlers : worker[h] # Idle /\ worker[h].attached /\ Msg(h) = m

\* A well-formed message the broker took is done, owed by a handler
\* run, or still held by the broker with its idempotency key free -
\* unless it went through one of the named loss windows: the key survives
\* the run that set it (crash, failed DEL, lost SET reply), or a run that lost
\* its channel could not hand the message on.
Accounted ==
    \A m \in accepted \ Malformed :
        \/ Done(m)
        \/ m \in stranded
        \/ Pending(m) /\ m \notin keys
        \/ \E h \in Handlers : Owes(h, m)

\* Whatever is redelivered or retried, at most one handler run at a time
\* works on a message: consumeOnce is a lock that only its holder releases.
OneWorker ==
    \A g, h \in Handlers, m \in Messages : Holds(g, m) /\ Holds(h, m) => g = h

\* A notification is pushed at most once, and only if its row exists: only
\* the run whose createOnce inserted the row gets it back.
PushedOnce == \A m \in Messages : pushed[m] <= 1 /\ (pushed[m] = 1 => m \in rows)

\* A mail goes out at most once, unless SMTP took it and reported failure
\* or its idempotency key expired before the last redelivery.
MailedOnce == \A m \in Messages : sent[m] <= 1 \/ m \in ambiguous

Drained ==
    /\ \A c \in Copies : ready[c] = 0 /\ delayed[c] = 0
    /\ \A h \in Handlers : worker[h] = Idle

\* The retry loop terminates: even when the database and SMTP never recover,
\* the queues and the handlers end up empty, as the retry count promises.
Drains == <>[]Drained

\* A message the consumers cannot store or send stops circulating once the
\* outage is over: when the database and SMTP calls fail no more, every copy
\* is acknowledged in the end, poison messages and duplicates included.
Recovers ==
    <>[][\A h \in Handlers, applied \in BOOLEAN :
            ~(PersistFails(h, applied) \/ SendFails(h, applied))]_vars
        => <>[]Drained
=============================================================================
