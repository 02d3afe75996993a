----------------------- MODULE MessagePipeline_proofs -----------------------
(* Safety of the RabbitMQ pipeline for any messages, prefetch, retry limit *)
(* and number of faults.                                                   *)
EXTENDS MessagePipeline, FiniteSetTheorems, TLAPS

-----------------------------------------------------------------------------
(* Facts about the operators of the model *)

\* A copy is its message and its retry count.
LEMMA CopyParts ==
  ASSUME NEW c \in Copies
  PROVE  c[1] \in Messages /\ c[2] \in 0 .. MaxRetries /\ c = <<c[1], c[2]>>
BY DEF Copies

\* The x-retry-count the delivery of a run carries.
Header(h) == worker[h].copy[2]

\* A handler run in progress has a delivery.
LEMMA RunParts ==
  ASSUME TypeOK, NEW h \in Handlers, worker[h] # Idle
  PROVE  /\ worker[h] \in Delivery
         /\ worker[h].copy \in Copies /\ worker[h].attached \in BOOLEAN
         /\ Msg(h) \in Messages /\ Header(h) \in 0 .. MaxRetries
         /\ worker[h].copy = <<Msg(h), Header(h)>>
<1>1. worker[h] \in Delivery
  BY DEF TypeOK
<1>2. worker[h].copy \in Copies /\ worker[h].attached \in BOOLEAN
  BY <1>1 DEF Delivery
<1>. QED
  BY <1>1, <1>2, CopyParts DEF Msg, Header

\* Goto moves one run to another stage with the delivery it has.
LEMMA GotoFacts ==
  ASSUME TypeOK, NEW h \in Handlers, worker[h] # Idle, NEW s \in Stages, Goto(h, s)
  PROVE  /\ worker' \in [Handlers -> Delivery \cup {Idle}]
         /\ worker'[h] # Idle /\ worker'[h].pc = s
         /\ worker'[h].copy = worker[h].copy
         /\ worker'[h].attached = worker[h].attached
         /\ \A g \in Handlers \ {h} : worker'[g] = worker[g]
<1>. DEFINE w == [pc |-> s, copy |-> worker[h].copy, attached |-> worker[h].attached]
<1>1. w \in Delivery
  BY RunParts DEF Delivery
<1>2. w # Idle
  BY <1>1, IdleIsNoDelivery
<1>3. worker' = [worker EXCEPT ![h] = w] /\ worker \in [Handlers -> Delivery \cup {Idle}]
  BY DEF Goto, TypeOK
<1>. HIDE DEF w
<1>4. worker' \in [Handlers -> Delivery \cup {Idle}] /\ worker'[h] = w
  BY <1>1, <1>3
<1>5. \A g \in Handlers \ {h} : worker'[g] = worker[g]
  BY <1>3
<1>6. w.pc = s /\ w.copy = worker[h].copy /\ w.attached = worker[h].attached
  BY DEF w
<1>. QED
  BY <1>2, <1>4, <1>5, <1>6

\* Leave empties one slot.
LEMMA LeaveFacts ==
  ASSUME TypeOK, NEW h \in Handlers, Leave(h)
  PROVE  /\ worker' \in [Handlers -> Delivery \cup {Idle}]
         /\ worker'[h] = Idle
         /\ \A g \in Handlers \ {h} : worker'[g] = worker[g]
BY DEF Leave, TypeOK

\* A lost connection detaches every run and leaves it where it is.
LEMMA DisconnectFacts ==
  ASSUME TypeOK, Disconnect
  PROVE  \A h \in Handlers :
           IF worker[h] = Idle THEN worker'[h] = Idle
           ELSE /\ worker'[h] # Idle
                /\ worker'[h].pc = worker[h].pc /\ worker'[h].copy = worker[h].copy
                /\ worker'[h].attached = FALSE
<1>. SUFFICES ASSUME NEW h \in Handlers, worker[h] # Idle
              PROVE  /\ worker'[h] # Idle
                     /\ worker'[h].pc = worker[h].pc /\ worker'[h].copy = worker[h].copy
                     /\ worker'[h].attached = FALSE
  BY DEF Disconnect
<1>. DEFINE w == [pc |-> worker[h].pc, copy |-> worker[h].copy, attached |-> FALSE]
<1>1. w \in Delivery
  BY RunParts DEF Delivery
<1>2. w # Idle
  BY <1>1, IdleIsNoDelivery
<1>3. worker'[h] = w
  BY DEF Disconnect
<1>. QED
  BY <1>2, <1>3

\* Everything a queue holds stays in it, and the copy of every delivery that
\* was not acknowledged is back in its queue.
LEMMA RedeliveredFacts ==
  ASSUME TypeOK
  PROVE  /\ Redelivered \in [Copies -> Nat]
         /\ \A c \in Copies : Redelivered[c] >= ready[c]
         /\ \A h \in Handlers :
              worker[h] # Idle /\ worker[h].attached => Redelivered[worker[h].copy] > 0
<1>. DEFINE U(c) == {h \in Handlers :
              worker[h] # Idle /\ worker[h].attached /\ worker[h].copy = c}
<1>1. \A c : IsFiniteSet(U(c)) /\ Cardinality(U(c)) \in Nat
  BY HandlersFinite, FS_Subset, FS_CardinalityType
<1>2. \A c : U(c) # {} => Cardinality(U(c)) # 0
  BY <1>1, FS_EmptySet
<1>3. Redelivered = [c \in Copies |-> ready[c] + Cardinality(U(c))]
  BY DEF Redelivered
<1>4. ASSUME NEW h \in Handlers, worker[h] # Idle, worker[h].attached
      PROVE  Redelivered[worker[h].copy] > 0
  <2>1. worker[h].copy \in Copies
    BY <1>4, RunParts
  <2>2. U(worker[h].copy) # {}
    BY <1>4
  <2>3. ready[worker[h].copy] \in Nat
    BY <2>1 DEF TypeOK
  <2>. HIDE DEF U
  <2>. QED
    BY <1>1, <1>2, <1>3, <2>1, <2>2, <2>3
<1>. HIDE DEF U
<1>5. \A c \in Copies : ready[c] \in Nat
  BY DEF TypeOK
<1>. QED
  BY <1>1, <1>3, <1>4, <1>5

\* A negative acknowledgement puts the copy back in its queue if the channel
\* it came from still exists, and touches nothing else.
LEMMA RequeuedFacts ==
  ASSUME TypeOK, NEW h \in Handlers, worker[h] # Idle
  PROVE  /\ Requeued(h) \in [Copies -> Nat]
         /\ \A c \in Copies : Requeued(h)[c] >= ready[c]
         /\ worker[h].attached => Requeued(h)[worker[h].copy] > 0
<1>1. worker[h].copy \in Copies
  BY RunParts
<1>. QED
  BY <1>1 DEF TypeOK, Requeued

-----------------------------------------------------------------------------
(* Type correctness *)

\* One step of a handler run keeps the types.
LEMMA HandlerTypes ==
  ASSUME TypeOK, NEW h \in Handlers, HandlerStep(h) \/ HandlerFault(h)
  PROVE  TypeOK'
<1>. USE DEF brokerVars, storeVars, history
<1>a. {"working", "failed", "retrying", "stored"} \subseteq Stages
  BY DEF Stages
<1>b. \A s : At(h, s) => /\ worker[h] # Idle
                         /\ Msg(h) \in Messages
                         /\ Retry(h) < MaxRetries => <<Msg(h), Retry(h) + 1>> \in Copies
  <2>1. Retry(h) < MaxRetries => Retry(h) + 1 \in 0 .. MaxRetries
    BY LimitsAreNat DEF Retry
  <2>. QED
    BY <2>1, RunParts DEF At, Copies
<1>c. Leave(h) => worker' \in [Handlers -> Delivery \cup {Idle}]
  BY LeaveFacts
<1>d. \A s \in Stages : worker[h] # Idle /\ Goto(h, s) => worker' \in [Handlers -> Delivery \cup {Idle}]
  BY GotoFacts
<1>e. worker[h] # Idle => Requeued(h) \in [Copies -> Nat]
  BY RequeuedFacts
<1>f. faults \in Nat /\ (Fault => faults' \in Nat)
  BY DEF TypeOK, Fault
<1>1. CASE Discard(h) \/ SkipDuplicate(h) \/ PersistDuplicate(h)
  BY <1>1, <1>c DEF Discard, SkipDuplicate, PersistDuplicate, TypeOK
<1>2. CASE ConsumeOnce(h)
  BY <1>2, <1>a, <1>b, <1>d DEF ConsumeOnce, TypeOK
<1>3. CASE Persist(h)
  BY <1>3, <1>a, <1>b, <1>d DEF Persist, TypeOK
<1>4. CASE PushToUser(h)
  BY <1>4, <1>b, <1>c DEF PushToUser, TypeOK
<1>5. CASE Send(h)
  BY <1>5, <1>b, <1>c DEF Send, TypeOK
<1>6. ASSUME NEW applied \in BOOLEAN, PersistFails(h, applied)
      PROVE  TypeOK'
  BY <1>6, <1>a, <1>b, <1>d DEF PersistFails, TypeOK
<1>7. ASSUME NEW applied \in BOOLEAN, SendFails(h, applied)
      PROVE  TypeOK'
  BY <1>7, <1>a, <1>b, <1>d, <1>f DEF SendFails, TypeOK
<1>8. CASE Release(h)
  BY <1>8, <1>a, <1>b, <1>d DEF Release, TypeOK
<1>9. CASE ScheduleRetry(h)
  BY <1>9, <1>b, <1>c DEF ScheduleRetry, TypeOK
<1>10. CASE RetryDropped(h)
  BY <1>10, <1>b, <1>c DEF RetryDropped, TypeOK
<1>12. ASSUME NEW applied \in BOOLEAN, ConsumeFails(h, applied)
       PROVE  TypeOK'
  BY <1>12, <1>b, <1>c, <1>e, <1>f DEF ConsumeFails, TypeOK
<1>13. ASSUME NEW taken \in BOOLEAN, RetryFails(h, taken)
       PROVE  TypeOK'
  BY <1>13, <1>b, <1>c, <1>e, <1>f DEF RetryFails, TypeOK
<1>14. CASE ReleaseFails(h)
  BY <1>14, <1>a, <1>b, <1>d, <1>f DEF ReleaseFails, TypeOK
<1>. QED
  BY <1>1, <1>2, <1>3, <1>4, <1>5, <1>6, <1>7, <1>8, <1>9, <1>10, <1>12,
     <1>13, <1>14 DEF HandlerStep, HandlerFault

\* Type correctness of the pipeline.
LEMMA PipelineTypes == TypeOK /\ [Next]_vars => TypeOK'
<1>. SUFFICES ASSUME TypeOK, [Next]_vars
              PROVE  TypeOK'
  OBVIOUS
<1>. USE DEF brokerVars, storeVars, history
<1>a. \A m \in Messages : <<m, 0>> \in Copies
  BY LimitsAreNat DEF Copies
<1>f. Fault => faults' \in Nat
  BY DEF TypeOK, Fault
<1>1. ASSUME NEW m \in Messages, Publish(m)
      PROVE  TypeOK'
  BY <1>1, <1>a DEF Publish, TypeOK
<1>2. ASSUME NEW m \in Messages, PublishDropped(m)
      PROVE  TypeOK'
  BY <1>2 DEF PublishDropped, TypeOK
<1>3. ASSUME NEW m \in Messages, NEW taken \in BOOLEAN, PublishFails(m, taken)
      PROVE  TypeOK'
  BY <1>3, <1>a, <1>f DEF PublishFails, TypeOK
<1>4. ASSUME NEW h \in Handlers, NEW c \in Copies, Deliver(h, c)
      PROVE  TypeOK'
  <2>1. [pc |-> "received", copy |-> c, attached |-> TRUE] \in Delivery
    BY DEF Delivery, Stages
  <2>2. ready' \in [Copies -> Nat]
    BY <1>4 DEF Deliver, TypeOK
  <2>. QED
    BY <1>4, <2>1, <2>2 DEF Deliver, TypeOK
<1>5. ASSUME NEW c \in Copies, DelayExpires(c)
      PROVE  TypeOK'
  BY <1>5 DEF DelayExpires, TypeOK
<1>6. CASE Reconnect
  BY <1>6 DEF Reconnect, TypeOK
<1>7. CASE Disconnect
  <2>1. worker' \in [Handlers -> Delivery \cup {Idle}]
    <3>1. ASSUME NEW h \in Handlers, worker[h] # Idle
          PROVE  [pc |-> worker[h].pc, copy |-> worker[h].copy, attached |-> FALSE] \in Delivery
      BY <3>1, RunParts DEF Delivery
    <3>. QED
      BY <1>7, <3>1 DEF Disconnect
  <2>. QED
    BY <1>7, <1>f, <2>1, RedeliveredFacts DEF Disconnect, TypeOK
<1>8. CASE Crash
  BY <1>8, <1>f, RedeliveredFacts DEF Crash, TypeOK
<1>9. ASSUME NEW m \in Messages, KeyExpires(m)
      PROVE  TypeOK'
  BY <1>9 DEF KeyExpires, TypeOK
<1>10. CASE UNCHANGED vars
  BY <1>10 DEF vars, TypeOK
<1>. QED
  BY <1>1, <1>2, <1>3, <1>4, <1>5, <1>6, <1>7, <1>8, <1>9, <1>10, HandlerTypes
     DEF Next, PublisherStep, DeliveryStep, OutageStep

-----------------------------------------------------------------------------
(* The idempotency key: who holds it, and why it is set *)

\* A run that works on a message holds its key.
KeyHeld == \A h \in Handlers, m \in Messages : Holds(h, m) => m \in keys

\* The run whose createOnce inserted the row is the only one about to push,
\* and nothing has been pushed before.
PushOwed ==
    \A h \in Handlers : At(h, "stored") =>
        /\ Msg(h) \in rows
        /\ pushed[Msg(h)] = 0
        /\ \A g \in Handlers : At(g, "stored") /\ Msg(g) = Msg(h) => g = h

\* A mail that certainly went out went out once, its key is still set and no
\* run works on it.
SentKeepsKey ==
    \A m \in Messages : sent[m] > 0 /\ m \notin ambiguous =>
        sent[m] = 1 /\ m \in keys /\ \A h \in Handlers : ~Holds(h, m)

\* A key is set because the message is done, a run works on it, or a loss
\* window left it behind.
KeyJustified ==
    \A m \in keys : Done(m) \/ m \in stranded \/ \E h \in Handlers : Holds(h, m)

KeyInv == KeyHeld /\ OneWorker /\ PushOwed /\ PushedOnce /\ SentKeepsKey /\ KeyJustified

\* A step of run h leaves the other runs where they are.
OthersStay(h) ==
    \A g \in Handlers \ {h} :
        /\ Msg(g)' = Msg(g)
        /\ \A t : At(g, t)' <=> At(g, t)
        /\ \A m : (Holds(g, m)' <=> Holds(g, m)) /\ (Owes(g, m)' <=> Owes(g, m))

\* Run h is at stage s, with the message it has.
NowAt(h, s) ==
    /\ Msg(h)' = Msg(h)
    /\ \A t : At(h, t)' <=> t = s
    /\ \A m : Holds(h, m)' <=> s \in {"working", "failed"} /\ m = Msg(h)
    /\ \A m : Owes(h, m)' <=> /\ m = Msg(h)
                              /\ \/ s \in {"working", "failed"}
                                 \/ s = "retrying" /\ ~worker[h].attached

\* Run h is over.
Gone(h) ==
    /\ \A t : ~At(h, t)'
    /\ \A m : ~Holds(h, m)' /\ ~Owes(h, m)'

\* What Goto does to the runs.
LEMMA GotoRuns ==
  ASSUME TypeOK, NEW h \in Handlers, worker[h] # Idle, NEW s \in Stages, Goto(h, s)
  PROVE  OthersStay(h) /\ NowAt(h, s)
<1>1. /\ worker'[h] # Idle /\ worker'[h].pc = s
      /\ worker'[h].copy = worker[h].copy
      /\ worker'[h].attached = worker[h].attached
      /\ \A g \in Handlers \ {h} : worker'[g] = worker[g]
  BY GotoFacts
<1>2. Msg(h)' = Msg(h) /\ \A t : At(h, t)' <=> t = s
  BY <1>1 DEF Msg, At
<1>3. \A g \in Handlers \ {h} : Msg(g)' = Msg(g) /\ \A t : At(g, t)' <=> At(g, t)
  BY <1>1 DEF Msg, At
<1>4. \A g \in Handlers \ {h} : \A m :
         (Holds(g, m)' <=> Holds(g, m)) /\ (Owes(g, m)' <=> Owes(g, m))
  BY <1>1, <1>3 DEF Holds, Owes
<1>5. \A m : Holds(h, m)' <=> s \in {"working", "failed"} /\ m = Msg(h)
  BY <1>2 DEF Holds
<1>6. \A m : Owes(h, m)' <=> /\ m = Msg(h)
                             /\ \/ s \in {"working", "failed"}
                                \/ s = "retrying" /\ ~worker[h].attached
  BY <1>1, <1>2, <1>5 DEF Owes
<1>. QED
  BY <1>2, <1>3, <1>4, <1>5, <1>6 DEF OthersStay, NowAt

\* What Leave does to the runs.
LEMMA LeaveRuns ==
  ASSUME TypeOK, NEW h \in Handlers, Leave(h)
  PROVE  OthersStay(h) /\ Gone(h)
<1>1. worker'[h] = Idle /\ \A g \in Handlers \ {h} : worker'[g] = worker[g]
  BY LeaveFacts
<1>2. \A t : ~At(h, t)'
  BY <1>1 DEF At
<1>3. \A g \in Handlers \ {h} : Msg(g)' = Msg(g) /\ \A t : At(g, t)' <=> At(g, t)
  BY <1>1 DEF Msg, At
<1>4. \A g \in Handlers \ {h} : \A m :
         (Holds(g, m)' <=> Holds(g, m)) /\ (Owes(g, m)' <=> Owes(g, m))
  BY <1>1, <1>3 DEF Holds, Owes
<1>. QED
  BY <1>2, <1>3, <1>4 DEF OthersStay, Gone, Holds, Owes

\* A run is at one stage; the message it holds is the message of its delivery.
LEMMA OneStage ==
  ASSUME TypeOK, NEW h \in Handlers, NEW s, At(h, s)
  PROVE  /\ worker[h] # Idle
         /\ Msg(h) \in Messages
         /\ \A t : At(h, t) <=> t = s
         /\ \A m : Holds(h, m) <=> s \in {"working", "failed"} /\ m = Msg(h)
BY RunParts DEF At, Holds

\* A step that leaves the runs, the keys and the stores alone.
LEMMA KeyUnchanged ==
  ASSUME KeyInv, UNCHANGED <<worker, keys, storeVars, stranded, ambiguous>>
  PROVE  KeyInv'
BY DEF KeyInv, KeyHeld, OneWorker, PushOwed, PushedOnce, SentKeepsKey, KeyJustified,
       Holds, At, Msg, Done, storeVars

\* A handler step preserves the key invariant.
LEMMA HandlerKeys ==
  ASSUME TypeOK, KeyInv, NEW h \in Handlers, HandlerStep(h) \/ HandlerFault(h)
  PROVE  KeyInv'
<1>. USE DEF brokerVars, storeVars, history
<1>a. \A s : At(h, s) => /\ worker[h] # Idle
                         /\ Msg(h) \in Messages
                         /\ \A t : At(h, t) <=> t = s
                         /\ \A m : Holds(h, m) <=> s \in {"working", "failed"} /\ m = Msg(h)
  BY OneStage
<1>b. /\ pushed \in [Messages -> Nat] /\ sent \in [Messages -> Nat] /\ keys \subseteq Messages
      /\ Notifications \cap Emails = {} /\ rows \subseteq Notifications
  BY KindsAreDisjoint DEF TypeOK
<1>l. Leave(h) => OthersStay(h) /\ Gone(h)
  BY LeaveRuns
<1>g. \A s \in {"working", "failed", "retrying", "stored"} :
         worker[h] # Idle /\ Goto(h, s) => OthersStay(h) /\ NowAt(h, s)
  BY GotoRuns DEF Stages
<1>. USE DEF KeyInv, KeyHeld, OneWorker, PushOwed, PushedOnce, SentKeepsKey, KeyJustified,
             Done, OthersStay, NowAt, Gone
<1>1. CASE Discard(h) \/ SkipDuplicate(h)
  BY <1>1, <1>a, <1>b, <1>l DEF Discard, SkipDuplicate
<1>2. CASE ConsumeOnce(h)
  BY <1>2, <1>a, <1>b, <1>g DEF ConsumeOnce
<1>3. CASE Persist(h)
  BY <1>3, <1>a, <1>b, <1>g DEF Persist
<1>4. CASE PersistDuplicate(h)
  BY <1>4, <1>a, <1>b, <1>l DEF PersistDuplicate
<1>5. CASE PushToUser(h)
  BY <1>5, <1>a, <1>b, <1>l DEF PushToUser
<1>6. CASE Send(h)
  BY <1>6, <1>a, <1>b, <1>l DEF Send
<1>7. ASSUME NEW applied \in BOOLEAN, PersistFails(h, applied)
      PROVE  KeyInv'
  BY <1>7, <1>a, <1>b, <1>g DEF PersistFails
<1>8. ASSUME NEW applied \in BOOLEAN, SendFails(h, applied)
      PROVE  KeyInv'
  BY <1>8, <1>a, <1>b, <1>g DEF SendFails
<1>9. CASE Release(h)
  BY <1>9, <1>a, <1>b, <1>g DEF Release
<1>10. CASE ScheduleRetry(h) \/ RetryDropped(h)
  BY <1>10, <1>a, <1>b, <1>l DEF ScheduleRetry, RetryDropped
<1>11. ASSUME NEW applied \in BOOLEAN, ConsumeFails(h, applied)
       PROVE  KeyInv'
  BY <1>11, <1>a, <1>b, <1>l DEF ConsumeFails
<1>12. ASSUME NEW taken \in BOOLEAN, RetryFails(h, taken)
       PROVE  KeyInv'
  BY <1>12, <1>a, <1>b, <1>l DEF RetryFails
<1>13. CASE ReleaseFails(h)
  BY <1>13, <1>a, <1>b, <1>g DEF ReleaseFails
<1>. QED
  BY <1>1, <1>2, <1>3, <1>4, <1>5, <1>6, <1>7, <1>8, <1>9, <1>10, <1>11, <1>12, <1>13
     DEF HandlerStep, HandlerFault

\* So does every other step.
LEMMA StepKeys == TypeOK /\ KeyInv /\ [Next]_vars => KeyInv'
<1>. SUFFICES ASSUME TypeOK, KeyInv, [Next]_vars
              PROVE  KeyInv'
  OBVIOUS
<1>. USE DEF brokerVars, history
<1>1. ASSUME NEW m \in Messages, Publish(m) \/ PublishDropped(m)
      PROVE  KeyInv'
  BY <1>1, KeyUnchanged DEF Publish, PublishDropped
<1>2. ASSUME NEW m \in Messages, NEW taken \in BOOLEAN, PublishFails(m, taken)
      PROVE  KeyInv'
  BY <1>2, KeyUnchanged DEF PublishFails
<1>3. ASSUME NEW c \in Copies, DelayExpires(c)
      PROVE  KeyInv'
  BY <1>3, KeyUnchanged DEF DelayExpires
<1>4. CASE Reconnect
  BY <1>4, KeyUnchanged DEF Reconnect
<1>5. CASE UNCHANGED vars
  BY <1>5, KeyUnchanged DEF vars
<1>. USE DEF KeyInv, KeyHeld, OneWorker, PushOwed, PushedOnce, SentKeepsKey, KeyJustified,
             Done, storeVars
<1>6. ASSUME NEW h \in Handlers, NEW c \in Copies, Deliver(h, c)
      PROVE  KeyInv'
  <2>1. /\ worker[h] = Idle /\ worker'[h].pc = "received"
        /\ \A g \in Handlers \ {h} : worker'[g] = worker[g]
    BY <1>6 DEF Deliver, TypeOK
  <2>2. \A g \in Handlers : /\ \A m : Holds(g, m)' <=> Holds(g, m)
                            /\ At(g, "stored")' <=> At(g, "stored")
                            /\ At(g, "stored") => Msg(g)' = Msg(g)
    BY <2>1 DEF Holds, At, Msg
  <2>. QED
    BY <1>6, <2>2 DEF Deliver
<1>7. CASE Disconnect
  <2>1. \A g \in Handlers :
           IF worker[g] = Idle THEN worker'[g] = Idle
           ELSE /\ worker'[g] # Idle
                /\ worker'[g].pc = worker[g].pc /\ worker'[g].copy = worker[g].copy
    BY <1>7, DisconnectFacts
  <2>2. \A g \in Handlers : /\ Msg(g)' = Msg(g) \/ worker[g] = Idle
                            /\ \A t : At(g, t)' <=> At(g, t)
    BY <2>1 DEF At, Msg
  <2>3. \A g \in Handlers : /\ \A m : Holds(g, m)' <=> Holds(g, m)
                            /\ At(g, "stored") => Msg(g)' = Msg(g)
    BY <2>2 DEF Holds, At
  <2>. QED
    BY <1>7, <2>2, <2>3 DEF Disconnect
<1>8. CASE Crash
  <2>1. \A g \in Handlers : /\ \A t : ~At(g, t)'
                            /\ \A m : ~Holds(g, m)'
    BY <1>8 DEF Crash, At, Holds
  <2>2. \A m \in keys : m \in Messages /\ (m \in stranded' \/ Done(m))
    BY <1>8 DEF Crash, Owes, TypeOK
  <2>. QED
    BY <1>8, <2>1, <2>2 DEF Crash
<1>9. ASSUME NEW m \in Messages, KeyExpires(m)
      PROVE  KeyInv'
  <2>1. \A g \in Handlers : /\ \A n : Holds(g, n)' <=> Holds(g, n)
                            /\ \A t : At(g, t)' <=> At(g, t)
                            /\ Msg(g)' = Msg(g)
    BY <1>9 DEF KeyExpires, At, Holds, Msg
  <2>. QED
    BY <1>9, <2>1 DEF KeyExpires, TypeOK
<1>. QED
  BY <1>1, <1>2, <1>3, <1>4, <1>5, <1>6, <1>7, <1>8, <1>9, HandlerKeys
     DEF Next, PublisherStep, DeliveryStep, OutageStep

\* The empty pipeline satisfies it.
LEMMA InitKeys == Init => TypeOK /\ KeyInv
<1>. SUFFICES ASSUME Init
              PROVE  TypeOK /\ KeyInv
  OBVIOUS
<1>1. TypeOK
  BY LimitsAreNat DEF Init, TypeOK
<1>2. \A h \in Handlers : (\A s : ~At(h, s)) /\ \A m : ~Holds(h, m)
  BY DEF Init, At, Holds
<1>3. KeyInv
  BY <1>2 DEF Init, KeyInv, KeyHeld, OneWorker, PushOwed, PushedOnce, SentKeepsKey, KeyJustified
<1>. QED
  BY <1>1, <1>3

\* The key invariant holds in every reachable state.
LEMMA KeyInvariant == Spec => [](TypeOK /\ KeyInv)
<1>1. TypeOK /\ KeyInv /\ [Next]_vars => (TypeOK /\ KeyInv)'
  BY PipelineTypes, StepKeys
<1>. QED
  BY <1>1, InitKeys, PTL DEF Spec

\* consumeOnce is a lock: however deliveries are redelivered or retried, no
\* two handler runs work on one message at a time.
THEOREM WorksAlone == Spec => []OneWorker
<1>1. KeyInv => OneWorker
  BY DEF KeyInv
<1>. QED
  BY <1>1, KeyInvariant, PTL

\* No notification is pushed twice, and none without its row.
THEOREM PushesOnce == Spec => []PushedOnce
<1>1. KeyInv => PushedOnce
  BY DEF KeyInv
<1>. QED
  BY <1>1, KeyInvariant, PTL

\* No mail goes out twice unless SMTP reported a failure after taking it or
\* the key expired before the last redelivery.
THEOREM MailsOnce == Spec => []MailedOnce
<1>1. TypeOK /\ KeyInv => MailedOnce
  BY DEF TypeOK, KeyInv, SentKeepsKey, MailedOnce
<1>. QED
  BY <1>1, KeyInvariant, PTL

-----------------------------------------------------------------------------
(* No message is lost outside the named windows *)

\* What Accounted says of one message.
AccountedFor(m) ==
    \/ Done(m)
    \/ m \in stranded
    \/ Pending(m) /\ m \notin keys
    \/ \E h \in Handlers : Owes(h, m)

\* The queues only grow.
QueuesGrow == \A c \in Copies : ready'[c] >= ready[c] /\ delayed'[c] >= delayed[c]

\* Every copy of a message is a copy of the model.
LEMMA CopiesOf ==
  ASSUME NEW m \in Messages, NEW r \in 0 .. MaxRetries
  PROVE  <<m, r>> \in Copies
BY DEF Copies

\* A message stays pending while the queues grow and no run of it loses the
\* delivery.
LEMMA PendingStays ==
  ASSUME TypeOK, TypeOK', QueuesGrow, NEW m \in Messages, Pending(m),
         \A g \in Handlers : worker[g] # Idle /\ worker[g].attached /\ Msg(g) = m
            => worker'[g] # Idle /\ worker'[g].attached /\ Msg(g)' = m
  PROVE  Pending(m)'
<1>1. ASSUME NEW r \in 0 .. MaxRetries, ready[<<m, r>>] > 0 \/ delayed[<<m, r>>] > 0
      PROVE  ready'[<<m, r>>] > 0 \/ delayed'[<<m, r>>] > 0
  <2>1. /\ ready[<<m, r>>] \in Nat /\ ready'[<<m, r>>] \in Nat
        /\ delayed[<<m, r>>] \in Nat /\ delayed'[<<m, r>>] \in Nat
    BY CopiesOf DEF TypeOK
  <2>2. ready'[<<m, r>>] >= ready[<<m, r>>] /\ delayed'[<<m, r>>] >= delayed[<<m, r>>]
    BY CopiesOf DEF QueuesGrow
  <2>. QED
    BY <1>1, <2>1, <2>2
<1>. QED
  BY <1>1 DEF Pending

\* A message whose key is set is done, stranded or held by a run.
LEMMA KeyAccounts ==
  ASSUME KeyInv, NEW m \in keys
  PROVE  Done(m) \/ m \in stranded \/ \E g \in Handlers : Holds(g, m)
BY DEF KeyInv, KeyJustified

\* A handler step lets the queues grow and touches no message but its own.
LEMMA HandlerTouches ==
  ASSUME TypeOK, NEW h \in Handlers, HandlerStep(h) \/ HandlerFault(h)
  PROVE  /\ QueuesGrow
         /\ OthersStay(h)
         /\ worker[h] # Idle
         /\ Msg(h) \in Messages
         /\ \A g \in Handlers \ {h} : worker'[g] = worker[g]
         /\ accepted' = accepted /\ rows \subseteq rows'
         /\ stranded \subseteq stranded'
         /\ \A m \in Messages : sent[m] > 0 => sent'[m] > 0
         /\ \A m \in Messages \ {Msg(h)} : m \in keys' <=> m \in keys
<1>. USE DEF brokerVars, storeVars, history
<1>a. \A s : At(h, s) => worker[h] # Idle /\ Msg(h) \in Messages
  BY OneStage
<1>b. /\ sent \in [Messages -> Nat] /\ ready \in [Copies -> Nat] /\ delayed \in [Copies -> Nat]
  BY DEF TypeOK
<1>l. Leave(h) => OthersStay(h) /\ \A g \in Handlers \ {h} : worker'[g] = worker[g]
  BY LeaveRuns, LeaveFacts
<1>g. \A s \in {"working", "failed", "retrying", "stored"} :
         worker[h] # Idle /\ Goto(h, s)
            => OthersStay(h) /\ \A g \in Handlers \ {h} : worker'[g] = worker[g]
  BY GotoRuns, GotoFacts DEF Stages
<1>r. worker[h] # Idle => \A c \in Copies : Requeued(h)[c] >= ready[c]
  BY RequeuedFacts
<1>q. ready' = ready /\ delayed' = delayed => QueuesGrow
  BY <1>b DEF QueuesGrow
<1>1. CASE Discard(h) \/ SkipDuplicate(h) \/ PersistDuplicate(h)
  BY <1>1, <1>a, <1>b, <1>l, <1>q DEF Discard, SkipDuplicate, PersistDuplicate
<1>2. CASE ConsumeOnce(h)
  BY <1>2, <1>a, <1>b, <1>g, <1>q DEF ConsumeOnce
<1>3. CASE Persist(h)
  BY <1>3, <1>a, <1>b, <1>g, <1>q DEF Persist
<1>4. CASE PushToUser(h)
  BY <1>4, <1>a, <1>b, <1>l, <1>q DEF PushToUser
<1>5. CASE Send(h)
  BY <1>5, <1>a, <1>b, <1>l, <1>q DEF Send
<1>6. CASE \E applied \in BOOLEAN : PersistFails(h, applied)
  BY <1>6, <1>a, <1>b, <1>g, <1>q DEF PersistFails
<1>7. CASE \E applied \in BOOLEAN : SendFails(h, applied)
  BY <1>7, <1>a, <1>b, <1>g, <1>q DEF SendFails
<1>8. CASE Release(h)
  BY <1>8, <1>a, <1>b, <1>g, <1>q DEF Release
<1>9. CASE ScheduleRetry(h)
  BY <1>9, <1>a, <1>b, <1>l DEF ScheduleRetry, QueuesGrow
<1>10. CASE RetryDropped(h)
  BY <1>10, <1>a, <1>b, <1>l, <1>q DEF RetryDropped
<1>12. CASE \E applied \in BOOLEAN : ConsumeFails(h, applied)
  BY <1>12, <1>a, <1>b, <1>l, <1>r DEF ConsumeFails, QueuesGrow
<1>13. CASE \E taken \in BOOLEAN : RetryFails(h, taken)
  BY <1>13, <1>a, <1>b, <1>l, <1>r DEF RetryFails, QueuesGrow
<1>14. CASE ReleaseFails(h)
  BY <1>14, <1>a, <1>b, <1>g, <1>q DEF ReleaseFails
<1>. QED
  BY <1>1, <1>2, <1>3, <1>4, <1>5, <1>6, <1>7, <1>8, <1>9, <1>10, <1>12,
     <1>13, <1>14 DEF HandlerStep, HandlerFault

\* A handler step keeps every message accounted for: its own by where the
\* handler leaves it, the others because it does not touch them.
LEMMA HandlerAccounts ==
  ASSUME TypeOK, TypeOK', KeyInv, Accounted,
         NEW h \in Handlers, HandlerStep(h) \/ HandlerFault(h)
  PROVE  Accounted'
<1>. SUFFICES ASSUME NEW m \in accepted' \ Malformed
              PROVE  AccountedFor(m)'
  BY DEF Accounted, AccountedFor
<1>t. /\ QueuesGrow /\ OthersStay(h)
      /\ worker[h] # Idle /\ Msg(h) \in Messages
      /\ \A g \in Handlers \ {h} : worker'[g] = worker[g]
      /\ accepted' = accepted /\ rows \subseteq rows'
      /\ stranded \subseteq stranded'
      /\ \A n \in Messages : sent[n] > 0 => sent'[n] > 0
      /\ \A n \in Messages \ {Msg(h)} : n \in keys' <=> n \in keys
  BY HandlerTouches
<1>m. m \in Messages /\ m \in accepted
  BY <1>t DEF TypeOK
<1>a. AccountedFor(m)
  BY <1>m DEF Accounted, AccountedFor
<1>b. Done(m) => Done(m)'
  BY <1>t, <1>m DEF Done
<1>c. \A g \in Handlers \ {h} : (Owes(g, m)' <=> Owes(g, m)) /\ (Holds(g, m)' <=> Holds(g, m))
  BY <1>t DEF OthersStay
<1>d. \* Whatever is pending without h stays pending.
      ASSUME Pending(m), Msg(h) # m \/ ~worker[h].attached
      PROVE  Pending(m)'
  <2>1. \A g \in Handlers : worker[g] # Idle /\ worker[g].attached /\ Msg(g) = m
            => worker'[g] # Idle /\ worker'[g].attached /\ Msg(g)' = m
    BY <1>t, <1>d DEF Msg
  <2>. QED
    BY <1>d, <1>t, <1>m, <2>1, PendingStays
<1>k. \* A set key accounts for the message by something other than h.
      ASSUME m \in keys, ~Holds(h, m)
      PROVE  AccountedFor(m)'
  <2>1. Done(m) \/ m \in stranded \/ \E g \in Handlers \ {h} : Holds(g, m)
    BY <1>k, KeyAccounts
  <2>. QED
    BY <1>b, <1>c, <1>t, <2>1 DEF AccountedFor, Owes
<1>o. CASE m # Msg(h)
  <2>1. ~Owes(h, m)
    BY <1>o DEF Owes, Holds
  <2>. QED
    BY <1>o, <1>a, <1>b, <1>c, <1>d, <1>t, <1>m, <2>1 DEF AccountedFor
<1>n. CASE m = Msg(h)
  <2>. USE DEF brokerVars, storeVars, history
  <2>a. \A s : At(h, s) => /\ \A t : At(h, t) <=> t = s
                           /\ Holds(h, m) <=> s \in {"working", "failed"}
    BY <1>n, OneStage
  <2>g. \A s \in {"working", "failed", "retrying", "stored"} : Goto(h, s) =>
           Owes(h, m)' <=> \/ s \in {"working", "failed"}
                           \/ s = "retrying" /\ ~worker[h].attached
    BY <1>n, <1>t, GotoRuns DEF Stages, NowAt
  <2>q. \* A copy of m in a queue, and its key free or accounted for.
        ASSUME NEW r \in 0 .. MaxRetries,
               ready'[<<m, r>>] > 0 \/ delayed'[<<m, r>>] > 0,
               ~Holds(h, m), keys' = keys
        PROVE  AccountedFor(m)'
    <3>1. Pending(m)'
      BY <2>q DEF Pending
    <3>. QED
      BY <1>k, <2>q, <3>1 DEF AccountedFor
  <2>r. Header(h) \in 0 .. MaxRetries /\ worker[h].copy = <<m, Header(h)>>
    BY <1>n, <1>t, RunParts
  <2>s. Retry(h) < MaxRetries => Retry(h) + 1 \in 0 .. MaxRetries
    BY LimitsAreNat DEF Retry
  <2>d. Retry(h) < MaxRetries => /\ <<m, Retry(h) + 1>> \in Copies
                                 /\ delayed[<<m, Retry(h) + 1>>] \in Nat
    BY <1>m, <2>s, CopiesOf DEF TypeOK
  <2>1. CASE Discard(h)
    BY <1>n, <2>1 DEF Discard
  <2>2. CASE SkipDuplicate(h)
    BY <1>n, <1>k, <2>2, <2>a DEF SkipDuplicate
  <2>3. CASE ConsumeOnce(h)
    BY <2>3, <2>g DEF ConsumeOnce, AccountedFor
  <2>4. CASE Persist(h)
    BY <1>n, <2>4 DEF Persist, AccountedFor, Done
  <2>5. CASE PersistDuplicate(h)
    BY <1>n, <2>5 DEF PersistDuplicate, AccountedFor, Done
  <2>6. CASE PushToUser(h)
    BY <1>n, <2>6 DEF PushToUser, AccountedFor, Done, KeyInv, PushOwed
  <2>7. CASE Send(h)
    <3>1. sent'[m] = sent[m] + 1 /\ sent[m] \in Nat
      BY <1>n, <1>m, <2>7 DEF Send, TypeOK
    <3>. QED
      BY <3>1 DEF AccountedFor, Done
  <2>8. CASE \E applied \in BOOLEAN : PersistFails(h, applied)
    BY <2>8, <2>g DEF PersistFails, AccountedFor
  <2>9. CASE \E applied \in BOOLEAN : SendFails(h, applied)
    BY <2>9, <2>g DEF SendFails, AccountedFor
  <2>10. CASE Release(h)
    <3>1. CASE worker[h].attached
      <4>1. worker'[h] # Idle /\ worker'[h].attached /\ Msg(h)' = m
        BY <1>n, <1>t, <2>10, <3>1, GotoFacts DEF Release, Stages, Msg
      <4>2. Pending(m)'
        BY <4>1 DEF Pending
      <4>. QED
        BY <1>n, <2>10, <4>2 DEF Release, AccountedFor
    <3>2. CASE ~worker[h].attached
      BY <2>10, <2>g, <3>2 DEF Release, AccountedFor
    <3>. QED
      BY <3>1, <3>2
  <2>11. CASE ReleaseFails(h)
    BY <1>n, <2>11 DEF ReleaseFails, AccountedFor
  <2>12. CASE ScheduleRetry(h)
    <3>1. delayed'[<<m, Retry(h) + 1>>] > 0
      BY <1>n, <2>12, <2>d DEF ScheduleRetry, TypeOK
    <3>. QED
      BY <2>12, <2>a, <2>q, <2>s, <3>1 DEF ScheduleRetry
  <2>13. CASE RetryDropped(h)
    BY <1>n, <2>13 DEF RetryDropped, AccountedFor
  <2>15. ASSUME NEW applied \in BOOLEAN, ConsumeFails(h, applied)
         PROVE  AccountedFor(m)'
    <3>1. CASE applied /\ m \notin keys
      BY <1>n, <2>15, <3>1 DEF ConsumeFails, AccountedFor
    <3>2. CASE m \in keys
      BY <1>k, <2>15, <2>a, <3>2 DEF ConsumeFails
    <3>3. CASE ~applied /\ worker[h].attached
      BY <2>15, <2>a, <2>q, <2>r, <1>t, <3>3, RequeuedFacts DEF ConsumeFails
    <3>4. CASE ~applied /\ ~worker[h].attached
      <4>1. keys' = keys /\ ~Owes(h, m)
        BY <2>15, <2>a, <3>4 DEF ConsumeFails, Owes
      <4>. QED
        BY <1>a, <1>b, <1>c, <1>d, <1>t, <3>4, <4>1 DEF AccountedFor
    <3>. QED
      BY <3>1, <3>2, <3>3, <3>4
  <2>16. ASSUME NEW taken \in BOOLEAN, RetryFails(h, taken)
         PROVE  AccountedFor(m)'
    <3>1. CASE worker[h].attached
      BY <2>16, <2>a, <2>q, <2>r, <1>t, <3>1, RequeuedFacts DEF RetryFails
    <3>2. CASE taken
      <4>1. delayed'[<<m, Retry(h) + 1>>] > 0
        BY <1>n, <2>16, <2>d, <3>2 DEF RetryFails, TypeOK
      <4>. QED
        BY <2>16, <2>a, <2>q, <2>s, <4>1 DEF RetryFails
    <3>3. CASE ~taken /\ ~worker[h].attached
      BY <1>n, <2>16, <3>3 DEF RetryFails, AccountedFor
    <3>. QED
      BY <3>1, <3>2, <3>3
  <2>. QED
    BY <2>1, <2>2, <2>3, <2>4, <2>5, <2>6, <2>7, <2>8, <2>9, <2>10, <2>11, <2>12,
       <2>13, <2>15, <2>16 DEF HandlerStep, HandlerFault
<1>. QED
  BY <1>o, <1>n

\* A step that leaves the runs and the keys alone and lets the queues grow
\* keeps accounted for what was.
LEMMA StillAccounted ==
  ASSUME TypeOK, TypeOK', QueuesGrow, NEW m \in Messages, AccountedFor(m),
         UNCHANGED <<worker, keys, storeVars, stranded>>
  PROVE  AccountedFor(m)'
<1>1. Done(m)' <=> Done(m)
  BY DEF Done, storeVars
<1>2. \A h \in Handlers : Owes(h, m)' <=> Owes(h, m)
  BY DEF Owes, Holds, At, Msg
<1>3. Pending(m) => Pending(m)'
  BY PendingStays DEF Msg
<1>. QED
  BY <1>1, <1>2, <1>3 DEF AccountedFor

\* Every step keeps every message the broker took accounted for.
LEMMA StepAccounts ==
  TypeOK /\ TypeOK' /\ KeyInv /\ Accounted /\ [Next]_vars => Accounted'
<1>. SUFFICES ASSUME TypeOK, TypeOK', KeyInv, Accounted, [Next]_vars
              PROVE  Accounted'
  OBVIOUS
<1>. USE DEF brokerVars, history
<1>a. \A m \in accepted \ Malformed : m \in Messages /\ AccountedFor(m)
  BY DEF Accounted, AccountedFor, TypeOK
<1>b. /\ ready \in [Copies -> Nat] /\ delayed \in [Copies -> Nat]
      /\ \A m \in Messages : <<m, 0>> \in Copies
  BY CopiesOf, LimitsAreNat DEF TypeOK
<1>c. (\A m \in accepted' \ Malformed : AccountedFor(m)') => Accounted'
  BY DEF Accounted, AccountedFor
<1>. HIDE DEF Accounted
<1>1. ASSUME NEW m \in Messages, Publish(m) \/ \E taken \in BOOLEAN : PublishFails(m, taken)
      PROVE  Accounted'
  <2>1. /\ QueuesGrow /\ UNCHANGED <<worker, keys, storeVars, stranded>>
        /\ \/ accepted' = accepted
           \/ accepted' = accepted \cup {m} /\ ready'[<<m, 0>>] > 0
    BY <1>1, <1>b DEF Publish, PublishFails, QueuesGrow
  <2>2. ASSUME NEW n \in accepted \ Malformed
        PROVE  AccountedFor(n)'
    BY <1>a, <2>1, StillAccounted
  <2>3. CASE accepted' = accepted \cup {m} /\ ready'[<<m, 0>>] > 0
    <3>1. Pending(m)'
      BY <2>3, LimitsAreNat DEF Pending
    <3>2. CASE m \in keys
      <4>1. AccountedFor(m)
        BY <3>2, KeyAccounts DEF AccountedFor, Owes
      <4>. QED
        BY <1>c, <2>1, <2>2, <2>3, <4>1, StillAccounted
    <3>3. CASE m \notin keys
      BY <1>c, <2>1, <2>2, <2>3, <3>1, <3>3 DEF AccountedFor
    <3>. QED
      BY <3>2, <3>3
  <2>. QED
    BY <1>c, <2>1, <2>2, <2>3
<1>2. ASSUME NEW m \in Messages, PublishDropped(m)
      PROVE  Accounted'
  <2>1. /\ QueuesGrow /\ UNCHANGED <<worker, keys, storeVars, stranded, accepted>>
    BY <1>2, <1>b DEF PublishDropped, QueuesGrow
  <2>. QED
    BY <1>a, <1>c, <2>1, StillAccounted
<1>3. CASE Reconnect \/ UNCHANGED vars
  <2>1. /\ QueuesGrow /\ UNCHANGED <<worker, keys, storeVars, stranded, accepted>>
    BY <1>3, <1>b DEF Reconnect, vars, QueuesGrow
  <2>. QED
    BY <1>a, <1>c, <2>1, StillAccounted
<1>4. ASSUME NEW h \in Handlers, NEW c \in Copies, Deliver(h, c)
      PROVE  Accounted'
  <2>. SUFFICES ASSUME NEW m \in accepted \ Malformed
                PROVE  AccountedFor(m)'
    BY <1>c, <1>4 DEF Deliver
  <2>1. /\ worker[h] = Idle /\ worker'[h] = [pc |-> "received", copy |-> c, attached |-> TRUE]
        /\ \A g \in Handlers \ {h} : worker'[g] = worker[g]
    BY <1>4 DEF Deliver, TypeOK
  <2>2. worker'[h] # Idle
    <3>1. [pc |-> "received", copy |-> c, attached |-> TRUE] \in Delivery
      BY DEF Delivery, Stages
    <3>. QED
      BY <2>1, <3>1, IdleIsNoDelivery
  <2>3. worker'[h].attached /\ Msg(h)' = c[1]
    BY <2>1 DEF Msg
  <2>4. Pending(m) => Pending(m)'
    <3>1. ASSUME NEW r \in 0 .. MaxRetries, ready[<<m, r>>] > 0 \/ delayed[<<m, r>>] > 0
          PROVE  Pending(m)'
      <4>1. CASE <<m, r>> = c
        <5>1. c[1] = m
          BY <4>1
        <5>. QED
          BY <2>2, <2>3, <5>1 DEF Pending
      <4>2. CASE <<m, r>> # c
        <5>1. ready'[<<m, r>>] = ready[<<m, r>>] /\ delayed' = delayed
          BY <1>4, <1>a, <1>b, <4>2, CopiesOf DEF Deliver
        <5>. QED
          BY <3>1, <5>1 DEF Pending
      <4>. QED
        BY <4>1, <4>2
    <3>2. ASSUME NEW g \in Handlers, worker[g] # Idle, worker[g].attached, Msg(g) = m
          PROVE  Pending(m)'
      BY <2>1, <3>2 DEF Pending, Msg
    <3>. QED
      BY <3>1, <3>2 DEF Pending
  <2>5. \A g \in Handlers : Owes(g, m) => Owes(g, m)'
    BY <2>1 DEF Owes, Holds, At, Msg
  <2>. QED
    BY <1>4, <1>a, <2>4, <2>5 DEF Deliver, AccountedFor, Done, storeVars
<1>5. ASSUME NEW c \in Copies, DelayExpires(c)
      PROVE  Accounted'
  <2>. SUFFICES ASSUME NEW m \in accepted \ Malformed
                PROVE  AccountedFor(m)'
    BY <1>c, <1>5 DEF DelayExpires
  <2>1. ASSUME NEW r \in 0 .. MaxRetries, ready[<<m, r>>] > 0 \/ delayed[<<m, r>>] > 0
        PROVE  ready'[<<m, r>>] > 0 \/ delayed'[<<m, r>>] > 0
    <3>1. <<m, r>> \in Copies
      BY <1>a, CopiesOf
    <3>. QED
      BY <1>5, <1>b, <2>1, <3>1 DEF DelayExpires
  <2>2. Pending(m) => Pending(m)'
    BY <1>5, <2>1 DEF DelayExpires, Pending, Msg
  <2>3. \A g \in Handlers : Owes(g, m) => Owes(g, m)'
    BY <1>5 DEF DelayExpires, Owes, Holds, At, Msg
  <2>. QED
    BY <1>5, <1>a, <2>2, <2>3 DEF DelayExpires, AccountedFor, Done, storeVars
<1>r. \* Redelivery: what was pending is pending in the queues.
      ASSUME NEW m \in Messages, Pending(m), ready' = Redelivered, delayed' = delayed
      PROVE  Pending(m)'
  <2>1. ASSUME NEW r \in 0 .. MaxRetries, ready[<<m, r>>] > 0 \/ delayed[<<m, r>>] > 0
        PROVE  Pending(m)'
    <3>1. ready'[<<m, r>>] >= ready[<<m, r>>] /\ ready[<<m, r>>] \in Nat /\ ready'[<<m, r>>] \in Nat
      BY <1>r, <1>b, CopiesOf, RedeliveredFacts
    <3>. QED
      BY <1>r, <2>1, <3>1 DEF Pending
  <2>2. ASSUME NEW g \in Handlers, worker[g] # Idle, worker[g].attached, Msg(g) = m
        PROVE  Pending(m)'
    <3>1. ready'[<<m, Header(g)>>] > 0 /\ Header(g) \in 0 .. MaxRetries
      BY <1>r, <2>2, RedeliveredFacts, RunParts
    <3>. QED
      BY <3>1 DEF Pending
  <2>. QED
    BY <1>r, <2>1, <2>2 DEF Pending
<1>6. CASE Disconnect
  <2>. SUFFICES ASSUME NEW m \in accepted \ Malformed
                PROVE  AccountedFor(m)'
    BY <1>c, <1>6 DEF Disconnect
  <2>1. \A h \in Handlers : Owes(h, m) => Owes(h, m)'
    BY <1>6, DisconnectFacts DEF Owes, Holds, At, Msg
  <2>2. Pending(m) => Pending(m)'
    BY <1>6, <1>a, <1>r DEF Disconnect
  <2>. QED
    BY <1>6, <1>a, <2>1, <2>2 DEF Disconnect, AccountedFor, Done, storeVars
<1>7. CASE Crash
  <2>. SUFFICES ASSUME NEW m \in accepted \ Malformed
                PROVE  AccountedFor(m)'
    BY <1>c, <1>7 DEF Crash
  <2>1. \A h \in Handlers : Owes(h, m) => m \in stranded'
    BY <1>7, <1>a DEF Crash
  <2>2. Pending(m) => Pending(m)'
    BY <1>7, <1>a, <1>r DEF Crash
  <2>. QED
    BY <1>7, <1>a, <2>1, <2>2 DEF Crash, AccountedFor, Done, storeVars
<1>8. ASSUME NEW m \in Messages, KeyExpires(m)
      PROVE  Accounted'
  <2>. SUFFICES ASSUME NEW n \in accepted \ Malformed
                PROVE  AccountedFor(n)'
    BY <1>c, <1>8 DEF KeyExpires
  <2>1. /\ \A h \in Handlers : Owes(h, n) => Owes(h, n)'
        /\ Pending(n) => Pending(n)'
    BY <1>8 DEF KeyExpires, Owes, Holds, At, Msg, Pending
  <2>2. n \notin keys => n \notin keys'
    BY <1>8 DEF KeyExpires
  <2>. QED
    BY <1>8, <1>a, <2>1, <2>2 DEF KeyExpires, AccountedFor, Done, storeVars
<1>. QED
  BY <1>1, <1>2, <1>3, <1>4, <1>5, <1>6, <1>7, <1>8, HandlerAccounts
     DEF Next, PublisherStep, DeliveryStep, OutageStep

\* No message is lost: a well-formed message the broker took is done,
\* owed by a run or still queued with its key free, unless it
\* went through one of the named loss windows.
THEOREM NothingLost == Spec => []Accounted
<1>1. Init => Accounted
  BY DEF Init, Accounted
<1>2. TypeOK /\ KeyInv /\ (TypeOK /\ KeyInv)' /\ Accounted /\ [Next]_vars => Accounted'
  BY StepAccounts
<1>. QED
  BY <1>1, <1>2, KeyInvariant, PTL DEF Spec
=============================================================================
