------------------------- MODULE StripeWebhookProofs -------------------------
(* Safety of StripeWebhook for any events, subscriptions and requests. *)
EXTENDS StripeWebhook, TLAPS

(* What the handler of a request may rely on at each of its steps. *)
HoldsEvent(d) == req[d].at \in {"find", "read", "apply"}
HoldsSubscription(d) == req[d].at \in {"read", "apply"}

RequestPhase(d) ==
  /\ req[d].at \in {"duplicate", "lock"} => webhook[req[d].event] # "absent"
  /\ HoldsEvent(d) => webhook[req[d].event] = "processing"
  /\ HoldsSubscription(d) => shows[SubscriptionOf[req[d].event]] # Unlinked
  /\ req[d].at = "apply" => req[d].newer = Newer(req[d].event)
  /\ req[d].at = "answer" => webhook[req[d].event] = "processed"

(* Row locks exclude each other. *)
LocksExclude ==
  /\ \A c, d \in Delivery :
       HoldsEvent(c) /\ HoldsEvent(d) /\ req[c].event = req[d].event => c = d
  /\ \A c, d \in Delivery :
       /\ HoldsSubscription(c) /\ HoldsSubscription(d)
       /\ SubscriptionOf[req[c].event] = SubscriptionOf[req[d].event]
       => c = d

AppliedIsRecorded == \A e \in applied : rows[e] > 0

(* Whatever the order of arrival, no event that was applied is older than, or as
   old as, another one, and none that was recorded is newer than all of them:
   a subscription never goes back. *)
AppliedInOrder ==
  /\ \A e, f \in applied : SubscriptionOf[e] = SubscriptionOf[f] /\ e # f =>
       Created[e] # Created[f]
  /\ \A e \in Event : rows[e] > 0 =>
       \E f \in applied : /\ SubscriptionOf[f] = SubscriptionOf[e]
                          /\ Created[f] >= Created[e]

IInv ==
  /\ \A d \in Delivery : RequestPhase(d)
  /\ LocksExclude
  /\ AppliedIsRecorded
  /\ RecordedOnce
  /\ AppliedInOrder
  /\ NewestShows
  /\ AckedIsProcessed

USE EventAssumption, FailureAssumption

(* A request that moves keeps its event and stays a request. *)
LEMMA MovesKeepType ==
  ASSUME TypeOK, NEW d \in Delivery, req[d].at # "idle", NEW step \in Step,
         NEW newer \in BOOLEAN, Moves(d, step, newer)
  PROVE  /\ req' \in [Delivery -> Request]
         /\ req'[d] = [at |-> step, event |-> req[d].event, newer |-> newer]
         /\ \A c \in Delivery \ {d} : req'[c] = req[c]
         /\ req[d].event \in Event
  <1>1. req[d] \in Request /\ req[d].event \in Event
    BY DEF TypeOK, Request
  <1>2. [at |-> step, event |-> req[d].event, newer |-> newer] \in Request
    BY <1>1 DEF Request
  <1>3. QED
    BY <1>1, <1>2 DEF TypeOK, Moves

(* ... and so does one that returns. *)
LEMMA ReturnsKeepType ==
  ASSUME TypeOK, NEW d \in Delivery, Returns(d)
  PROVE  /\ req' \in [Delivery -> Request]
         /\ req'[d] = Idle
         /\ \A c \in Delivery \ {d} : req'[c] = req[c]
  BY DEF TypeOK, Returns, Idle, Request

(* The fields of a request that is being handled. *)
LEMMA Fields ==
  ASSUME TypeOK, NEW d \in Delivery, req[d].at # "idle"
  PROVE  req[d].event \in Event /\ req[d].newer \in BOOLEAN
  BY DEF TypeOK, Request

LEMMA TypeInitially == Init => TypeOK
  BY DEF Init, TypeOK, Request, Idle

(* Every step keeps the types. *)
LEMMA TypeKept == TypeOK /\ [Next]_vars => TypeOK'
  <1> SUFFICES ASSUME TypeOK, [Next]_vars PROVE TypeOK'
    OBVIOUS
  <1>1. CASE UNCHANGED vars
    BY <1>1 DEF vars, TypeOK
  <1>2. ASSUME NEW d \in Delivery, NEW e \in Event, Deliver(d, e) PROVE TypeOK'
    <2>1. [at |-> "ingest", event |-> e, newer |-> FALSE] \in Request
      BY DEF Request, Step
    <2>2. req' \in [Delivery -> Request]
      BY <1>2, <2>1 DEF Deliver, TypeOK
    <2>3. QED
      BY <1>2, <2>2 DEF Deliver, TypeOK
  <1>3. ASSUME NEW d \in Delivery, Ingest(d) PROVE TypeOK'
    <2>1. req' \in [Delivery -> Request] /\ req[d].event \in Event
      BY <1>3, MovesKeepType, Fields DEF Ingest, ReqAt, At, Step
    <2>2. QED
      BY <1>3, <2>1 DEF Ingest, TypeOK
  <1>4. ASSUME NEW d \in Delivery, CheckDuplicate(d) PROVE TypeOK'
    <2>1. req' \in [Delivery -> Request] /\ req[d].event \in Event
      BY <1>4, MovesKeepType, Fields DEF CheckDuplicate, ReqAt, At, Step
    <2>2. QED
      BY <1>4, <2>1 DEF CheckDuplicate, TypeOK
  <1>5. ASSUME NEW d \in Delivery, LockEvent(d) PROVE TypeOK'
    <2>1. req' \in [Delivery -> Request] /\ req[d].event \in Event
      BY <1>5, MovesKeepType, Fields DEF LockEvent, ReqAt, At, Step
    <2>2. QED
      BY <1>5, <2>1 DEF LockEvent, TypeOK
  <1>6. ASSUME NEW d \in Delivery, FindSubscription(d) PROVE TypeOK'
    <2>1. req[d].at # "idle" /\ (Returns(d) \/ ReqAt(d, "read"))
      BY <1>6 DEF FindSubscription, Missing, At
    <2>2. req' \in [Delivery -> Request]
      BY <2>1, MovesKeepType, ReturnsKeepType, Fields DEF ReqAt, Step
    <2>3. QED
      BY <1>6, <2>2 DEF FindSubscription, TypeOK
  <1>7. ASSUME NEW d \in Delivery, ReadLatest(d) PROVE TypeOK'
    <2>1. Newer(req[d].event) \in BOOLEAN
      BY DEF Newer
    <2>2. req' \in [Delivery -> Request]
      BY <1>7, <2>1, MovesKeepType DEF ReadLatest, At, Step
    <2>3. QED
      BY <1>7, <2>2 DEF ReadLatest, TypeOK
  <1>8. ASSUME NEW d \in Delivery, Apply(d) PROVE TypeOK'
    <2>1. req' \in [Delivery -> Request] /\ req[d].event \in Event
      BY <1>8, MovesKeepType, Fields DEF Apply, ReqAt, At, Step
    <2>2. rows' \in [Event -> Nat] /\ SubscriptionOf[req[d].event] \in Subscription
      BY <1>8, <2>1 DEF Apply, TypeOK
    <2>3. QED
      BY <1>8, <2>1, <2>2 DEF Apply, MarkProcessed, TypeOK
  <1>9. ASSUME NEW d \in Delivery, Answer(d) PROVE TypeOK'
    BY <1>9, ReturnsKeepType, Fields DEF Answer, At, TypeOK
  <1>10. ASSUME NEW d \in Delivery, Fail(d) PROVE TypeOK'
    BY <1>10, ReturnsKeepType DEF Fail, TypeOK
  <1>11. ASSUME NEW s \in Subscription, EditSubscription(s) PROVE TypeOK'
    BY <1>11 DEF EditSubscription, TypeOK
  <1>12. QED
    BY <1>1, <1>2, <1>3, <1>4, <1>5, <1>6, <1>7, <1>8, <1>9, <1>10, <1>11
       DEF Next, Proceed

(* Every reachable state is well typed. *)
THEOREM TypeCorrect == Spec => []TypeOK
  BY TypeInitially, TypeKept, PTL DEF Spec

-----------------------------------------------------------------------------
(* The inductive invariant *)

LEMMA InvInitially == Init => IInv
  BY DEF Init, IInv, RequestPhase, HoldsEvent, HoldsSubscription, LocksExclude,
         AppliedIsRecorded, RecordedOnce, AppliedInOrder, NewestShows,
         AckedIsProcessed, Idle

(* What is newer depends on the rows only. *)
LEMMA NewerKept ==
  ASSUME NEW c \in Delivery, req'[c].event = req[c].event, rows' = rows
  PROVE  Newer(req[c].event)' = Newer(req[c].event)
  BY DEF Newer

(* A step of one request that writes nothing but the acknowledgement: what it
   relies on next and the locks it takes are all there is to show. *)
LEMMA QuietStep ==
  ASSUME TypeOK, IInv, NEW d \in Delivery,
         \A c \in Delivery \ {d} : req'[c] = req[c],
         UNCHANGED <<webhook, shows, rows, applied>>,
         RequestPhase(d)',
         HoldsEvent(d)' => \A c \in Delivery \ {d} :
           ~(HoldsEvent(c) /\ req[c].event = req'[d].event),
         HoldsSubscription(d)' => \A c \in Delivery \ {d} :
           ~(HoldsSubscription(c) /\
             SubscriptionOf[req[c].event] = SubscriptionOf[req'[d].event]),
         AckedIsProcessed'
  PROVE  IInv'
  <1>1. ASSUME NEW c \in Delivery \ {d} PROVE RequestPhase(c)'
    <2>1. Newer(req[c].event)' = Newer(req[c].event)
      BY <1>1, NewerKept
    <2>2. QED
      BY <1>1, <2>1 DEF IInv, RequestPhase, HoldsEvent, HoldsSubscription
  <1>2. LocksExclude'
    BY DEF IInv, LocksExclude, HoldsEvent, HoldsSubscription
  <1>3. AppliedIsRecorded' /\ RecordedOnce' /\ AppliedInOrder' /\ NewestShows'
    BY DEF IInv, AppliedIsRecorded, RecordedOnce, AppliedInOrder, NewestShows
  <1>4. QED
    BY <1>1, <1>2, <1>3 DEF IInv

(* A request that moves on from a step that holds no lock to another one. *)
LEMMA IngestKeeps ==
  ASSUME TypeOK, IInv, NEW d \in Delivery, Ingest(d)
  PROVE  IInv'
  <1> DEFINE e == req[d].event
  <1>1. /\ e \in Event
        /\ req[d].newer \in BOOLEAN
        /\ \A c \in Delivery \ {d} : req'[c] = req[c]
    BY MovesKeepType, Fields DEF Ingest, ReqAt, At, Step
  <1>2. CASE webhook[e] = "absent"
    <2>1. /\ req'[d] = [at |-> "lock", event |-> e, newer |-> req[d].newer]
          /\ webhook' = [webhook EXCEPT ![e] = "processing"]
      BY <1>1, <1>2, MovesKeepType DEF Ingest, ReqAt, At, Step
    <2>2. ASSUME NEW c \in Delivery PROVE RequestPhase(c)'
      <3>1. CASE c = d
        BY <1>1, <2>1, <3>1 DEF RequestPhase, HoldsEvent, HoldsSubscription, TypeOK
      <3>2. CASE c # d
        <4>1. req'[c] = req[c] /\ rows' = rows /\ shows' = shows
          BY <1>1, <3>2 DEF Ingest
        <4>2. Newer(req[c].event)' = Newer(req[c].event)
          BY <4>1, NewerKept
        <4>3. req[c].at # "idle" => req[c].event \in Event
          BY Fields
        <4>4. QED
          BY <1>1, <1>2, <2>1, <4>1, <4>2, <4>3
             DEF IInv, RequestPhase, HoldsEvent, HoldsSubscription, TypeOK
      <3>3. QED
        BY <3>1, <3>2
    <2>3. LocksExclude'
      BY <1>1, <2>1 DEF IInv, LocksExclude, HoldsEvent, HoldsSubscription
    <2>4. RecordedOnce' /\ AckedIsProcessed'
      BY <1>1, <1>2, <2>1 DEF Ingest, IInv, RecordedOnce, AckedIsProcessed, TypeOK
    <2>5. AppliedIsRecorded' /\ AppliedInOrder' /\ NewestShows'
      BY DEF Ingest, IInv, AppliedIsRecorded, AppliedInOrder, NewestShows
    <2>6. QED
      BY <2>2, <2>3, <2>4, <2>5 DEF IInv
  <1>3. CASE webhook[e] # "absent"
    <2>1. req'[d] = [at |-> "duplicate", event |-> e, newer |-> req[d].newer]
      BY <1>1, <1>3, MovesKeepType DEF Ingest, ReqAt, At, Step
    <2>2. UNCHANGED <<webhook, shows, rows, applied>> /\ AckedIsProcessed'
      BY <1>3 DEF Ingest, IInv, AckedIsProcessed
    <2>3. RequestPhase(d)' /\ ~HoldsEvent(d)' /\ ~HoldsSubscription(d)'
      BY <1>3, <2>1, <2>2 DEF RequestPhase, HoldsEvent, HoldsSubscription
    <2>4. QED
      BY <1>1, <2>2, <2>3, QuietStep
  <1>4. QED
    BY <1>2, <1>3

LEMMA DuplicateKeeps ==
  ASSUME TypeOK, IInv, NEW d \in Delivery, CheckDuplicate(d)
  PROVE  IInv'
  <1> DEFINE e == req[d].event
             step == IF IsDone(e) THEN "answer" ELSE "lock"
  <1>1. /\ req'[d] = [at |-> step, event |-> e, newer |-> req[d].newer]
        /\ \A c \in Delivery \ {d} : req'[c] = req[c]
    BY MovesKeepType, Fields DEF CheckDuplicate, ReqAt, At, Step
  <1>2. UNCHANGED <<webhook, shows, rows, applied>> /\ AckedIsProcessed'
    BY DEF CheckDuplicate, IInv, AckedIsProcessed
  <1>3. webhook[e] # "absent"
    BY DEF CheckDuplicate, At, IInv, RequestPhase
  <1>4. RequestPhase(d)' /\ ~HoldsEvent(d)' /\ ~HoldsSubscription(d)'
    BY <1>1, <1>2, <1>3 DEF RequestPhase, HoldsEvent, HoldsSubscription, IsDone
  <1>5. QED
    BY <1>1, <1>2, <1>4, QuietStep

(* Taking the lock of the event's row. *)
LEMMA LockEventKeeps ==
  ASSUME TypeOK, IInv, NEW d \in Delivery, LockEvent(d)
  PROVE  IInv'
  <1> DEFINE e == req[d].event
             step == IF webhook[e] = "processed" THEN "answer" ELSE "find"
  <1>1. /\ req'[d] = [at |-> step, event |-> e, newer |-> req[d].newer]
        /\ \A c \in Delivery \ {d} : req'[c] = req[c]
        /\ e \in Event
    BY MovesKeepType, Fields DEF LockEvent, ReqAt, At, Step
  <1>2. UNCHANGED <<webhook, shows, rows, applied>> /\ AckedIsProcessed'
    BY DEF LockEvent, IInv, AckedIsProcessed
  <1>3. webhook[e] \in {"processing", "processed"}
    BY <1>1 DEF LockEvent, At, IInv, RequestPhase, TypeOK
  <1>4. RequestPhase(d)' /\ ~HoldsSubscription(d)'
    BY <1>1, <1>2, <1>3 DEF RequestPhase, HoldsEvent, HoldsSubscription
  <1>5. \A c \in Delivery \ {d} : ~(HoldsEvent(c) /\ req[c].event = req'[d].event)
    BY <1>1 DEF LockEvent, EventLocked, HoldsEvent
  <1>6. QED
    BY <1>1, <1>2, <1>4, <1>5, QuietStep

(* Taking the lock of the subscription's row, or giving up. *)
LEMMA FindKeeps ==
  ASSUME TypeOK, IInv, NEW d \in Delivery, FindSubscription(d)
  PROVE  IInv'
  <1> DEFINE e == req[d].event
             s == SubscriptionOf[e]
  <1>1. UNCHANGED <<webhook, shows, rows, applied>> /\ AckedIsProcessed'
    BY DEF FindSubscription, IInv, AckedIsProcessed
  <1>2. CASE shows[s] = Unlinked
    <2>1. req'[d] = Idle /\ \A c \in Delivery \ {d} : req'[c] = req[c]
      BY <1>2, ReturnsKeepType DEF FindSubscription, Missing
    <2>2. RequestPhase(d)' /\ ~HoldsEvent(d)' /\ ~HoldsSubscription(d)'
      BY <2>1 DEF RequestPhase, HoldsEvent, HoldsSubscription, Idle
    <2>3. QED
      BY <1>1, <2>1, <2>2, QuietStep
  <1>3. CASE shows[s] # Unlinked
    <2>1. /\ req'[d] = [at |-> "read", event |-> e, newer |-> req[d].newer]
          /\ \A c \in Delivery \ {d} : req'[c] = req[c]
      BY <1>3, MovesKeepType, Fields DEF FindSubscription, ReqAt, At, Step
    <2>2. RequestPhase(d)'
      BY <1>1, <1>3, <2>1 DEF FindSubscription, At, IInv, RequestPhase, HoldsEvent,
                              HoldsSubscription
    <2>3. \A c \in Delivery \ {d} : ~(HoldsEvent(c) /\ req[c].event = req'[d].event)
      BY <2>1 DEF FindSubscription, At, IInv, LocksExclude, HoldsEvent
    <2>4. \A c \in Delivery \ {d} :
            ~(HoldsSubscription(c) /\
              SubscriptionOf[req[c].event] = SubscriptionOf[req'[d].event])
      BY <1>3, <2>1 DEF FindSubscription, SubscriptionLocked, HoldsSubscription
    <2>5. QED
      BY <1>1, <2>1, <2>2, <2>3, <2>4, QuietStep
  <1>4. QED
    BY <1>2, <1>3

LEMMA ReadKeeps ==
  ASSUME TypeOK, IInv, NEW d \in Delivery, ReadLatest(d)
  PROVE  IInv'
  <1> DEFINE e == req[d].event
  <1>1. Newer(e) \in BOOLEAN
    BY DEF Newer
  <1>2. /\ req'[d] = [at |-> "apply", event |-> e, newer |-> Newer(e)]
        /\ \A c \in Delivery \ {d} : req'[c] = req[c]
    BY <1>1, MovesKeepType DEF ReadLatest, At, Step
  <1>3. UNCHANGED <<webhook, shows, rows, applied>> /\ AckedIsProcessed'
    BY DEF ReadLatest, IInv, AckedIsProcessed
  <1>4. Newer(req[d].event)' = Newer(e)
    BY <1>2, <1>3, NewerKept
  <1>5. RequestPhase(d)'
    BY <1>2, <1>3, <1>4 DEF ReadLatest, At, IInv, RequestPhase, HoldsEvent,
                            HoldsSubscription
  <1>6. \A c \in Delivery \ {d} : ~(HoldsEvent(c) /\ req[c].event = req'[d].event)
    BY <1>2 DEF ReadLatest, At, IInv, LocksExclude, HoldsEvent
  <1>7. \A c \in Delivery \ {d} :
          ~(HoldsSubscription(c) /\
            SubscriptionOf[req[c].event] = SubscriptionOf[req'[d].event])
    BY <1>2 DEF ReadLatest, At, IInv, LocksExclude, HoldsSubscription
  <1>8. QED
    BY <1>2, <1>3, <1>5, <1>6, <1>7, QuietStep
LEMMA DeliverKeeps ==
  ASSUME TypeOK, IInv, NEW d \in Delivery, NEW e \in Event, Deliver(d, e)
  PROVE  IInv'
  <1>1. /\ req'[d] = [at |-> "ingest", event |-> e, newer |-> FALSE]
        /\ \A c \in Delivery \ {d} : req'[c] = req[c]
    BY DEF Deliver, TypeOK
  <1>2. UNCHANGED <<webhook, shows, rows, applied>> /\ AckedIsProcessed'
    BY DEF Deliver, IInv, AckedIsProcessed
  <1>3. RequestPhase(d)' /\ ~HoldsEvent(d)' /\ ~HoldsSubscription(d)'
    BY <1>1 DEF RequestPhase, HoldsEvent, HoldsSubscription
  <1>4. QED
    BY <1>1, <1>2, <1>3, QuietStep

(* Only a processed event is acknowledged. *)
LEMMA AnswerKeeps ==
  ASSUME TypeOK, IInv, NEW d \in Delivery, Answer(d)
  PROVE  IInv'
  <1>1. req'[d] = Idle /\ \A c \in Delivery \ {d} : req'[c] = req[c]
    BY ReturnsKeepType DEF Answer
  <1>2. UNCHANGED <<webhook, shows, rows, applied>>
    BY DEF Answer
  <1>3. webhook[req[d].event] = "processed"
    BY DEF Answer, At, IInv, RequestPhase
  <1>4. AckedIsProcessed'
    BY <1>2, <1>3 DEF Answer, IInv, AckedIsProcessed
  <1>5. RequestPhase(d)' /\ ~HoldsEvent(d)' /\ ~HoldsSubscription(d)'
    BY <1>1 DEF RequestPhase, HoldsEvent, HoldsSubscription, Idle
  <1>6. QED
    BY <1>1, <1>2, <1>4, <1>5, QuietStep

LEMMA FailKeeps ==
  ASSUME TypeOK, IInv, NEW d \in Delivery, Fail(d)
  PROVE  IInv'
  <1>1. req'[d] = Idle /\ \A c \in Delivery \ {d} : req'[c] = req[c]
    BY ReturnsKeepType DEF Fail
  <1>2. UNCHANGED <<webhook, shows, rows, applied>> /\ AckedIsProcessed'
    BY DEF Fail, IInv, AckedIsProcessed
  <1>3. RequestPhase(d)' /\ ~HoldsEvent(d)' /\ ~HoldsSubscription(d)'
    BY <1>1 DEF RequestPhase, HoldsEvent, HoldsSubscription, Idle
  <1>4. QED
    BY <1>1, <1>2, <1>3, QuietStep

(* An edit of a subscription that nobody has locked. *)
LEMMA EditKeeps ==
  ASSUME TypeOK, IInv, NEW s \in Subscription, EditSubscription(s)
  PROVE  IInv'
  <1>1. /\ shows' = [shows EXCEPT ![s] = NoEvent]
        /\ UNCHANGED <<webhook, rows, applied, req, acked, failures>>
    BY DEF EditSubscription
  <1>2. ASSUME NEW c \in Delivery PROVE RequestPhase(c)'
    <2>1. Newer(req[c].event)' = Newer(req[c].event)
      BY <1>1, NewerKept
    <2>2. HoldsSubscription(c) => SubscriptionOf[req[c].event] # s
      BY DEF EditSubscription, SubscriptionLocked, HoldsSubscription
    <2>3. HoldsSubscription(c) => SubscriptionOf[req[c].event] \in Subscription
      BY Fields DEF HoldsSubscription
    <2>4. QED
      BY <1>1, <2>1, <2>2, <2>3
         DEF IInv, RequestPhase, HoldsEvent, HoldsSubscription, TypeOK
  <1>3. LocksExclude'
    BY <1>1 DEF IInv, LocksExclude, HoldsEvent, HoldsSubscription
  <1>4. AppliedIsRecorded' /\ RecordedOnce' /\ AppliedInOrder' /\ AckedIsProcessed'
    BY <1>1 DEF IInv, AppliedIsRecorded, RecordedOnce, AppliedInOrder,
                AckedIsProcessed
  <1>5. NewestShows'
    BY <1>1 DEF IInv, NewestShows, TypeOK
  <1>6. QED
    BY <1>2, <1>3, <1>4, <1>5 DEF IInv

(* What is newer changes only when an event of the subscription is recorded. *)
LEMMA NewerApart ==
  ASSUME NEW c \in Delivery, req'[c].event = req[c].event,
         \A f \in Event : SubscriptionOf[f] = SubscriptionOf[req[c].event] =>
           rows'[f] = rows[f]
  PROVE  Newer(req[c].event)' = Newer(req[c].event)
  BY DEF Newer

(* The commit: its request was alone with the event and with the subscription,
   so that what it read of both still holds. *)
LEMMA ApplyKeeps ==
  ASSUME TypeOK, IInv, NEW d \in Delivery, Apply(d)
  PROVE  IInv'
  <1> DEFINE e == req[d].event
             s == SubscriptionOf[e]
  <1>1. /\ e \in Event
        /\ req'[d] = [at |-> "answer", event |-> e, newer |-> req[d].newer]
        /\ \A c \in Delivery \ {d} : req'[c] = req[c]
    BY MovesKeepType, Fields DEF Apply, ReqAt, At, Step
  <1>2. /\ HoldsEvent(d) /\ HoldsSubscription(d) /\ s \in Subscription
        /\ webhook[e] = "processing"
        /\ shows[s] # Unlinked
        /\ req[d].newer = Newer(e)
    BY <1>1 DEF Apply, At, IInv, RequestPhase, HoldsEvent, HoldsSubscription
  <1>3. /\ webhook' = [webhook EXCEPT ![e] = "processed"]
        /\ rows' = [rows EXCEPT ![e] = @ + 1]
        /\ acked' = acked
    BY DEF Apply, MarkProcessed
  <1>4. /\ rows[e] = 0 /\ rows'[e] = 1
        /\ \A f \in Event \ {e} : rows'[f] = rows[f] /\ webhook'[f] = webhook[f]
        /\ webhook'[e] = "processed"
        /\ \A f \in Event : rows[f] \in Nat
    BY <1>1, <1>2, <1>3 DEF IInv, RecordedOnce, TypeOK
  <1>5. ASSUME NEW c \in Delivery PROVE RequestPhase(c)'
    <2>1. CASE c = d
      BY <1>1, <1>4, <2>1 DEF RequestPhase, HoldsEvent, HoldsSubscription
    <2>2. CASE c # d
      <3>1. req'[c] = req[c]
        BY <1>1, <2>2
      <3>2. HoldsEvent(c) => req[c].event # e
        BY <1>2, <2>2 DEF IInv, LocksExclude
      <3>3. HoldsSubscription(c) => SubscriptionOf[req[c].event] # s
        BY <1>2, <2>2 DEF IInv, LocksExclude
      <3>4. req[c].at # "idle" =>
              req[c].event \in Event /\ SubscriptionOf[req[c].event] \in Subscription
        BY Fields
      <3>5. req[c].at = "apply" => Newer(req[c].event)' = Newer(req[c].event)
        BY <1>4, <3>1, <3>3, NewerApart DEF HoldsSubscription
      <3>6. \A t \in Subscription \ {s} : shows'[t] = shows[t]
        BY <1>1, <1>2 DEF Apply, TypeOK
      <3>7. QED
        BY <1>4, <3>1, <3>2, <3>3, <3>4, <3>5, <3>6
           DEF IInv, RequestPhase, HoldsEvent, HoldsSubscription
    <2>3. QED
      BY <2>1, <2>2
  <1>6. LocksExclude'
    BY <1>1 DEF IInv, LocksExclude, HoldsEvent, HoldsSubscription
  <1>7. RecordedOnce' /\ AckedIsProcessed'
    BY <1>3, <1>4 DEF IInv, RecordedOnce, AckedIsProcessed, TypeOK
  <1>8. AppliedIsRecorded'
    BY <1>1, <1>4 DEF Apply, IInv, AppliedIsRecorded, TypeOK
  <1>9. CASE req[d].newer
    <2>1. /\ shows' = [shows EXCEPT ![s] = e] /\ shows'[s] = e
          /\ applied' = applied \cup {e}
      BY <1>2, <1>9 DEF Apply, TypeOK
    <2>2. \A f \in Event : rows[f] > 0 /\ SubscriptionOf[f] = s =>
            Created[f] < Created[e]
      BY <1>2, <1>9 DEF Newer
    <2>3. \A f \in applied : f \in Event /\ rows[f] > 0
      BY DEF IInv, AppliedIsRecorded, TypeOK
    <2>4. AppliedInOrder'
      <3>1. \A f \in applied : SubscriptionOf[f] = s => Created[f] # Created[e]
        BY <1>1, <2>2, <2>3
      <3>2. \A f, g \in applied' : SubscriptionOf[f] = SubscriptionOf[g] /\ f # g =>
              Created[f] # Created[g]
        BY <2>1, <3>1 DEF IInv, AppliedInOrder
      <3>3. \A g \in Event : rows'[g] > 0 =>
              \E f \in applied' : /\ SubscriptionOf[f] = SubscriptionOf[g]
                                  /\ Created[f] >= Created[g]
        BY <1>1, <1>4, <2>1 DEF IInv, AppliedInOrder
      <3>4. QED
        BY <3>2, <3>3 DEF AppliedInOrder
    <2>5. NewestShows'
      <3>1. ASSUME NEW t \in Subscription, shows'[t] \in Event
            PROVE  /\ shows'[t] \in applied'
                   /\ \A f \in Event : rows'[f] > 0 /\ SubscriptionOf[f] = t =>
                        Created[f] <= Created[shows'[t]]
        <4>1. CASE t = s
          BY <1>1, <1>4, <2>1, <2>2, <4>1
        <4>2. CASE t # s
          <5>1. shows'[t] = shows[t]
            BY <2>1, <4>2 DEF TypeOK
          <5>2. QED
            BY <1>4, <2>1, <3>1, <4>2, <5>1 DEF IInv, NewestShows
        <4>3. QED
          BY <4>1, <4>2
      <3>2. QED
        BY <3>1 DEF NewestShows
    <2>6. QED
      BY <1>5, <1>6, <1>7, <1>8, <2>4, <2>5 DEF IInv
  <1>10. CASE ~req[d].newer
    <2>1. UNCHANGED <<shows, applied>>
      BY <1>10 DEF Apply
    <2>2. PICK f \in Event : /\ rows[f] > 0 /\ SubscriptionOf[f] = s
                             /\ Created[f] >= Created[e]
      BY <1>1, <1>2, <1>10 DEF Newer
    <2>3. AppliedInOrder'
      <3>1. \A g \in Event : rows'[g] > 0 =>
              \E h \in applied : /\ SubscriptionOf[h] = SubscriptionOf[g]
                                 /\ Created[h] >= Created[g]
        <4>1. PICK h \in applied : SubscriptionOf[h] = s /\ Created[h] >= Created[f]
          BY <2>2 DEF IInv, AppliedInOrder
        <4>2. h \in Event /\ Created[h] >= Created[e]
          BY <1>1, <2>2, <4>1 DEF TypeOK
        <4>3. QED
          BY <1>1, <1>4, <4>1, <4>2 DEF IInv, AppliedInOrder
      <3>2. QED
        BY <2>1, <3>1 DEF IInv, AppliedInOrder
    <2>4. NewestShows'
      <3>1. ASSUME NEW t \in Subscription, shows[t] \in Event,
                   NEW g \in Event, rows'[g] > 0, SubscriptionOf[g] = t
            PROVE  Created[g] <= Created[shows[t]]
        <4>1. CASE g = e
          <5>1. Created[f] <= Created[shows[t]]
            BY <2>2, <3>1, <4>1 DEF IInv, NewestShows
          <5>2. QED
            BY <1>1, <2>2, <3>1, <4>1, <5>1
        <4>2. CASE g # e
          BY <1>4, <3>1, <4>2 DEF IInv, NewestShows
        <4>3. QED
          BY <4>1, <4>2
      <3>2. QED
        BY <2>1, <3>1 DEF IInv, NewestShows
    <2>5. QED
      BY <1>5, <1>6, <1>7, <1>8, <2>3, <2>4 DEF IInv
  <1>11. QED
    BY <1>9, <1>10

LEMMA InvKept == TypeOK /\ IInv /\ [Next]_vars => IInv'
  <1> SUFFICES ASSUME TypeOK, IInv, [Next]_vars PROVE IInv'
    OBVIOUS
  <1>1. CASE UNCHANGED vars
    <2>1. ASSUME NEW c \in Delivery PROVE Newer(req[c].event)' = Newer(req[c].event)
      BY <1>1, NewerKept DEF vars
    <2>2. ASSUME NEW c \in Delivery PROVE RequestPhase(c)'
      BY <1>1, <2>1 DEF vars, IInv, RequestPhase, HoldsEvent, HoldsSubscription
    <2>3. QED
      BY <1>1, <2>2 DEF vars, IInv, LocksExclude, HoldsEvent, HoldsSubscription,
         AppliedIsRecorded, RecordedOnce, AppliedInOrder, NewestShows,
         AckedIsProcessed
  <1>2. CASE Next
    <2>1. ASSUME NEW d \in Delivery, Proceed(d) PROVE IInv'
      BY <2>1, IngestKeeps, DuplicateKeeps, LockEventKeeps, FindKeeps, ReadKeeps,
         ApplyKeeps, AnswerKeeps DEF Proceed
    <2>2. QED
      BY <1>2, <2>1, DeliverKeeps, FailKeeps, EditKeeps DEF Next
  <1>3. QED
    BY <1>1, <1>2

(* Requests keep out of each other's way for good. *)
THEOREM InvariantHolds == Spec => []IInv
  <1>1. Init => TypeOK /\ IInv
    BY TypeInitially, InvInitially
  <1>2. TypeOK /\ IInv /\ [Next]_vars => TypeOK' /\ IInv'
    BY TypeKept, InvKept
  <1>3. QED
    BY <1>1, <1>2, PTL DEF Spec

(* An event is recorded once however often it is delivered. *)
THEOREM EventsRecordedOnce == Spec => []RecordedOnce
  <1>1. IInv => RecordedOnce
    BY DEF IInv
  <1>2. QED
    BY <1>1, InvariantHolds, PTL

(* Events of a subscription are applied from older to newer ones, whatever order
   they arrive in. *)
THEOREM EventsAppliedInOrder == Spec => []AppliedInOrder
  <1>1. IInv => AppliedInOrder
    BY DEF IInv
  <1>2. QED
    BY <1>1, InvariantHolds, PTL

(* A subscription shows the newest event there is, unless it was edited since. *)
THEOREM SubscriptionIsCurrent == Spec => []NewestShows
  <1>1. IInv => NewestShows
    BY DEF IInv
  <1>2. QED
    BY <1>1, InvariantHolds, PTL

(* The provider hears 200 only of events whose effect is committed. *)
THEOREM OnlyProcessedAcked == Spec => []AckedIsProcessed
  <1>1. IInv => AckedIsProcessed
    BY DEF IInv
  <1>2. QED
    BY <1>1, InvariantHolds, PTL

-----------------------------------------------------------------------------
(* The webhook implements SubscriptionFeed *)

LEMMA FeedInitially == Init => Feed!FeedInit
  BY DEF Init, Feed!FeedInit

(* A step that neither marks an event nor touches a subscription stutters. *)
LEMMA FeedStutters ==
  ASSUME UNCHANGED <<webhook, shows>>
  PROVE  UNCHANGED Feed!feedVars
  BY DEF Feed!feedVars

(* Committing an event consumes it. *)
LEMMA ApplyConsumes ==
  ASSUME TypeOK, IInv, NEW d \in Delivery, NEW e \in Event, e = req[d].event, Apply(d)
  PROVE  Feed!Consume(e)
  <1>1. /\ webhook[e] = "processing"
        /\ shows[SubscriptionOf[e]] # Unlinked
        /\ req[d].newer = Newer(e)
    BY DEF Apply, At, IInv, RequestPhase, HoldsEvent, HoldsSubscription
  <1>2. webhook' = [webhook EXCEPT ![e] = "processed"]
    BY DEF Apply, MarkProcessed
  <1>3. {f \in Event : webhook'[f] = "processed"} =
          {f \in Event : webhook[f] = "processed"} \cup {e}
    BY <1>2 DEF TypeOK
  <1>4. Newer(e) <=> Feed!Newest(e)
    BY DEF IInv, RecordedOnce, Newer, Feed!Newest
  <1>5. shows' = IF Newer(e) THEN [shows EXCEPT ![SubscriptionOf[e]] = e] ELSE shows
    BY <1>1 DEF Apply
  <1>6. QED
    BY <1>1, <1>3, <1>4, <1>5 DEF Feed!Consume

LEMMA IngestStutters ==
  ASSUME TypeOK, NEW d \in Delivery, Ingest(d)
  PROVE  UNCHANGED Feed!feedVars
  <1>1. req[d].event \in Event
    BY Fields DEF Ingest, At
  <1>2. {f \in Event : webhook'[f] = "processed"} =
          {f \in Event : webhook[f] = "processed"}
    BY <1>1 DEF Ingest, TypeOK
  <1>3. QED
    BY <1>2 DEF Ingest, Feed!feedVars

LEMMA FeedSteps == TypeOK /\ IInv /\ [Next]_vars => [Feed!FeedNext]_(Feed!feedVars)
  <1> SUFFICES ASSUME TypeOK, IInv, [Next]_vars PROVE [Feed!FeedNext]_(Feed!feedVars)
    OBVIOUS
  <1>1. CASE UNCHANGED vars
    BY <1>1, FeedStutters DEF vars
  <1>2. ASSUME NEW d \in Delivery, NEW e \in Event, Deliver(d, e)
        PROVE  UNCHANGED Feed!feedVars
    BY <1>2, FeedStutters DEF Deliver
  <1>3. ASSUME NEW d \in Delivery, Proceed(d), ~Apply(d)
        PROVE  UNCHANGED Feed!feedVars
    BY <1>3, FeedStutters, IngestStutters
       DEF Proceed, CheckDuplicate, LockEvent, FindSubscription, ReadLatest, Answer
  <1>4. ASSUME NEW d \in Delivery, Apply(d) PROVE Feed!FeedNext
    <2>1. req[d].event \in Event
      BY <1>4, Fields DEF Apply, At
    <2>2. PICK e \in Event : e = req[d].event
      BY <2>1
    <2>3. Feed!Consume(e)
      BY <1>4, <2>2, ApplyConsumes
    <2>4. QED
      BY <2>3 DEF Feed!FeedNext
  <1>5. ASSUME NEW d \in Delivery, Fail(d) PROVE UNCHANGED Feed!feedVars
    BY <1>5, FeedStutters DEF Fail
  <1>6. ASSUME NEW s \in Subscription, EditSubscription(s) PROVE Feed!FeedNext
    <2>1. Feed!Edit(s)
      BY <1>6 DEF EditSubscription, Feed!Edit
    <2>2. QED
      BY <2>1 DEF Feed!FeedNext
  <1>7. QED
    BY <1>1, <1>2, <1>3, <1>4, <1>5, <1>6 DEF Next

(* The handler keeps the promise of SubscriptionFeed: each event is consumed at
   most once and only one newer than all before it shows. *)
THEOREM WebhookImplementsFeed == Spec => ImplementsFeed
  <1>1. TypeOK /\ IInv /\ [Next]_vars => [Feed!FeedNext]_(Feed!feedVars)
    BY FeedSteps
  <1>2. QED
    BY <1>1, FeedInitially, TypeCorrect, InvariantHolds, PTL
       DEF Spec, ImplementsFeed, Feed!FeedSpec
=============================================================================
