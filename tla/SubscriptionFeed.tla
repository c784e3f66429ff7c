-------------------------- MODULE SubscriptionFeed --------------------------
(***************************************************************************)
(* What the subscription webhook promises: however often and in whatever   *)
(* order the events of a subscription are delivered, each is consumed at   *)
(* most once, and only an event that is newer than all consumed before it  *)
(* shows in the subscription.  StripeWebhook implements it.                *)
(***************************************************************************)
EXTENDS Integers

CONSTANTS Event, Subscription, SubscriptionOf, Created, NoEvent, Unlinked

VARIABLES
  shows,     \* the event whose data each subscription holds
  consumed   \* events that were consumed

feedVars == <<shows, consumed>>

FeedInit ==
  /\ shows = [s \in Subscription |-> Unlinked]
  /\ consumed = {}

Newest(e) == \A f \in consumed :
  SubscriptionOf[f] = SubscriptionOf[e] => Created[f] < Created[e]

Consume(e) ==
  /\ e \notin consumed
  /\ shows[SubscriptionOf[e]] # Unlinked
  /\ consumed' = consumed \cup {e}
  /\ shows' = IF Newest(e) THEN [shows EXCEPT ![SubscriptionOf[e]] = e] ELSE shows

(* A subscription is linked to the provider, or edited by an administrator. *)
Edit(s) ==
  /\ shows' = [shows EXCEPT ![s] = NoEvent]
  /\ UNCHANGED consumed

FeedNext == (\E e \in Event : Consume(e)) \/ (\E s \in Subscription : Edit(s))

FeedSpec == FeedInit /\ [][FeedNext]_feedVars
=============================================================================
