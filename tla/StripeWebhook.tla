---------------------------- MODULE StripeWebhook ----------------------------
(***************************************************************************)
(* POST /api/webhooks/stripe in the Go API: subscription events that the   *)
(* provider delivers at least once, in any order and concurrently.  A step *)
(* is one database statement of the handler; the transaction that applies  *)
(* an event holds the locks of its rows from the statement that takes them *)
(* to its end, and its writes show when it commits.                        *)
(***************************************************************************)
EXTENDS Integers

CONSTANTS
  Event,            \* events of the provider, by their id
  Subscription,     \* subscriptions of the provider
  SubscriptionOf,   \* the subscription an event is about
  Created,          \* event.created of each event, in seconds
  Delivery,         \* bound: requests that are being handled at a time
  MaxFailures,      \* bound: requests that fail
  NoEvent,          \* no event: a subscription as it was linked or edited
  Unlinked          \* no row carries this provider_ref

ASSUME EventAssumption ==
  /\ SubscriptionOf \in [Event -> Subscription]
  /\ Created \in [Event -> Nat \ {0}]
  /\ NoEvent \notin Event /\ Unlinked \notin Event /\ NoEvent # Unlinked
ASSUME FailureAssumption == MaxFailures \in Nat

VARIABLES
  webhook,    \* billing_webhook_event.status of each event
  shows,      \* the event whose status and period each user_subscription holds
  rows,       \* rows of subscription_event written for each event
  applied,    \* events whose row says applied
  req,        \* where the handler of each request is
  acked,      \* events that were answered with 200
  failures    \* requests that failed so far

vars == <<webhook, shows, rows, applied, req, acked, failures>>

Step == {"ingest", "duplicate", "lock", "find", "read", "apply", "answer"}
Request == [at : {"idle"}, event : {NoEvent}, newer : {FALSE}]
             \cup [at : Step, event : Event, newer : BOOLEAN]

TypeOK ==
  /\ webhook \in [Event -> {"absent", "processing", "processed"}]
  /\ shows \in [Subscription -> Event \cup {NoEvent, Unlinked}]
  /\ rows \in [Event -> Nat]
  /\ applied \subseteq Event
  /\ req \in [Delivery -> Request]
  /\ acked \subseteq Event
  /\ failures \in 0..MaxFailures

Idle == [at |-> "idle", event |-> NoEvent, newer |-> FALSE]

Init ==
  /\ webhook = [e \in Event |-> "absent"]
  /\ shows = [s \in Subscription |-> Unlinked]
  /\ rows = [e \in Event |-> 0]
  /\ applied = {}
  /\ req = [d \in Delivery |-> Idle]
  /\ acked = {}
  /\ failures = 0

-----------------------------------------------------------------------------
(* Each definition of this module named "bug" is a mistake that could be made in
   the definition after it; the specification uses none of them. *)

(* Locks that a transaction holds: of the event's row once it was found
   unprocessed, of the subscription's once it was found. *)
EventLocked(e) ==
  \E d \in Delivery : req[d].event = e /\ req[d].at \in {"find", "read", "apply"}

bugSubscriptionLocked(s) == FALSE
SubscriptionLocked(s) ==
  \E d \in Delivery : /\ req[d].at \in {"read", "apply"}
                      /\ SubscriptionOf[req[d].event] = s

bugNewer(e) ==
  \A f \in Event : rows[f] > 0 /\ SubscriptionOf[f] = SubscriptionOf[e] =>
    Created[f] <= Created[e]
(* event.created is later than the latest one recorded for the subscription. *)
Newer(e) ==
  \A f \in Event : rows[f] > 0 /\ SubscriptionOf[f] = SubscriptionOf[e] =>
    Created[f] < Created[e]

Moves(d, step, newer) ==
  req' = [req EXCEPT ![d] = [at |-> step, event |-> req[d].event, newer |-> newer]]
ReqAt(d, step) == Moves(d, step, req[d].newer)
Returns(d) == req' = [req EXCEPT ![d] = Idle]
At(d, step) == req[d].at = step

(* A request of the provider arrives, for an event that was sent before or not:
   signature and payload are checked and nothing is written. *)
Deliver(d, e) ==
  /\ At(d, "idle")
  /\ req' = [req EXCEPT ![d] = [at |-> "ingest", event |-> e, newer |-> FALSE]]
  /\ UNCHANGED <<webhook, shows, rows, applied, acked, failures>>

(* ingestWebhookEvent: insert, or run into the unique idempotency key. *)
Ingest(d) ==
  LET e == req[d].event IN
  /\ At(d, "ingest")
  /\ IF webhook[e] = "absent"
     THEN webhook' = [webhook EXCEPT ![e] = "processing"] /\ ReqAt(d, "lock")
     ELSE UNCHANGED webhook /\ ReqAt(d, "duplicate")
  /\ UNCHANGED <<shows, rows, applied, acked, failures>>

bugIsDone(e) == webhook[e] # "absent"
(* What makes a delivery of an event a mere repetition. *)
IsDone(e) == webhook[e] = "processed"

(* A duplicate of an event that was not processed is a retry. *)
CheckDuplicate(d) ==
  /\ At(d, "duplicate")
  /\ ReqAt(d, IF IsDone(req[d].event) THEN "answer" ELSE "lock")
  /\ UNCHANGED <<webhook, shows, rows, applied, acked, failures>>

(* applyStripeSubscriptionEvent locks the event's row and looks again. *)
LockEvent(d) ==
  LET e == req[d].event IN
  /\ At(d, "lock")
  /\ ~EventLocked(e)
  /\ ReqAt(d, IF webhook[e] = "processed" THEN "answer" ELSE "find")
  /\ UNCHANGED <<webhook, shows, rows, applied, acked, failures>>

bugMissing(d) == ReqAt(d, "answer")
(* No subscription is linked: the transaction is rolled back and the provider
   is told to come back. *)
Missing(d) == Returns(d)

FindSubscription(d) ==
  LET s == SubscriptionOf[req[d].event] IN
  /\ At(d, "find")
  /\ IF shows[s] = Unlinked THEN Missing(d)
                            ELSE ~SubscriptionLocked(s) /\ ReqAt(d, "read")
  /\ UNCHANGED <<webhook, shows, rows, applied, acked, failures>>

ReadLatest(d) ==
  /\ At(d, "read")
  /\ Moves(d, "apply", Newer(req[d].event))
  /\ UNCHANGED <<webhook, shows, rows, applied, acked, failures>>

bugMarkProcessed(e) == webhook' = [webhook EXCEPT ![e] = "done"]
MarkProcessed(e) == webhook' = [webhook EXCEPT ![e] = "processed"]

(* The subscription is updated if the event is newer, the event is recorded and
   marked, and the transaction commits. *)
Apply(d) ==
  LET e == req[d].event IN
  /\ At(d, "apply")
  /\ IF req[d].newer
     THEN /\ shows' = [shows EXCEPT ![SubscriptionOf[e]] = e]
          /\ applied' = applied \cup {e}
     ELSE UNCHANGED <<shows, applied>>
  /\ rows' = [rows EXCEPT ![e] = @ + 1]
  /\ MarkProcessed(e)
  /\ ReqAt(d, "answer")
  /\ UNCHANGED <<acked, failures>>

Answer(d) ==
  /\ At(d, "answer")
  /\ acked' = acked \cup {req[d].event}
  /\ Returns(d)
  /\ UNCHANGED <<webhook, shows, rows, applied, failures>>

(* A statement fails, the request is given up or the process dies: what was not
   committed is rolled back, and no 200 is sent. *)
Fail(d) ==
  /\ ~At(d, "idle")
  /\ failures < MaxFailures
  /\ failures' = failures + 1
  /\ Returns(d)
  /\ UNCHANGED <<webhook, shows, rows, applied, acked>>

(* A subscription is linked to the provider, its learner cancels it or an
   administrator edits it; the update waits for whoever holds the row. *)
EditSubscription(s) ==
  /\ ~SubscriptionLocked(s)
  /\ shows' = [shows EXCEPT ![s] = NoEvent]
  /\ UNCHANGED <<webhook, rows, applied, req, acked, failures>>

(* What the handler of a request does next. *)
Proceed(d) ==
  \/ Ingest(d) \/ CheckDuplicate(d) \/ LockEvent(d) \/ FindSubscription(d)
  \/ ReadLatest(d) \/ Apply(d) \/ Answer(d)

Next ==
  \/ \E d \in Delivery : \/ \E e \in Event : Deliver(d, e)
                         \/ Proceed(d)
                         \/ Fail(d)
  \/ \E s \in Subscription : EditSubscription(s)

Spec == Init /\ [][Next]_vars

(* Requests go on, and PostgreSQL grants a row lock to those who wait for it in
   turn; the provider repeats an event until it is answered with 200. *)
FairSpec ==
  /\ Spec
  /\ \A d \in Delivery : SF_vars(Proceed(d))
  /\ \A e \in Event : SF_vars(e \notin acked /\ \E d \in Delivery : Deliver(d, e))

-----------------------------------------------------------------------------
(* Properties *)

(* First deliveries, retries and repetitions of an event race: it is recorded
   once, exactly when it is marked processed. *)
RecordedOnce ==
  \A e \in Event : rows[e] = IF webhook[e] = "processed" THEN 1 ELSE 0

(* A subscription shows an applied event than which no applied one is newer,
   unless it was edited since. *)
NewestShows ==
  \A s \in Subscription : shows[s] \in Event =>
    /\ shows[s] \in applied
    /\ \A f \in Event : rows[f] > 0 /\ SubscriptionOf[f] = s =>
         Created[f] <= Created[shows[s]]

(* The provider is told to stop repeating an event only once its effect is
   committed: a crash between the two costs a repetition, never an event. *)
AckedIsProcessed == \A e \in acked : webhook[e] = "processed"

(* An event of a linked subscription is processed in the end, whatever request
   was the first to see it and wherever that one failed. *)
EventsAreProcessed ==
  \A e \in Event :
    webhook[e] = "processing" /\ shows[SubscriptionOf[e]] # Unlinked
      ~> webhook[e] = "processed"

(* The webhook keeps what SubscriptionFeed promises. *)
Feed == INSTANCE SubscriptionFeed WITH
  consumed <- {e \in Event : webhook[e] = "processed"}

ImplementsFeed == Feed!FeedSpec
=============================================================================
