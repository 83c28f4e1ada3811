------------------------------ MODULE Webhook ------------------------------
(***************************************************************************)
(* The webhook dispatcher, webhook.rs: a queue of deliveries and a bounded *)
(* history of finished ones, behind one lock.  The dispatcher sends        *)
(* nothing: whoever holds a delivery's id attempts it and reports how the  *)
(* attempt went.  Reports come at any moment and in any order, late and    *)
(* twice, for any id handed out so far.                                    *)
(***************************************************************************)
EXTENDS Naturals, Sequences, SequencesExt

CONSTANTS Targets,            \* how many target_urls are configured
          MaxDeliveryRetries, \* max_retries
          QueueSizes,         \* values of max_queue_size, one per behaviour
          MaxDeliveries       \* bound: delivery ids handed out

ASSUME WebhookAssumption ==
    /\ Targets \in Nat \ {0} /\ MaxDeliveryRetries \in Nat /\ MaxDeliveries \in Nat
    /\ QueueSizes \subseteq Nat

VARIABLES max_queue_size,
          dispatcher  \* WebhookState

hooks == <<max_queue_size, dispatcher>>

DeliveryStatus == {"pending", "delivered", "failed", "abandoned"}

Delivery == [id : 1..MaxDeliveries, attempts : 0..(MaxDeliveryRetries + 1),
             status : DeliveryStatus]

WebhookTypeOK ==
    /\ max_queue_size \in QueueSizes
    /\ dispatcher.next_delivery_id \in 1..(MaxDeliveries + 1)
    /\ dispatcher.queue \in Seq(Delivery)
    /\ dispatcher.history \in Seq(Delivery)

WebhookInit ==
    /\ max_queue_size \in QueueSizes
    /\ dispatcher = [next_delivery_id |-> 1, queue |-> <<>>, history |-> <<>>]

(* A full queue gives up its oldest element; popping an empty one is       *)
(* nothing.                                                                *)
PushBounded(q, d) ==
    Append(IF Len(q) >= max_queue_size /\ q # <<>> THEN Tail(q) ELSE q, d)

(* One delivery to a target.                                               *)
QueueFor(state) ==
    [next_delivery_id |-> state.next_delivery_id + 1,
     queue            |-> PushBounded(state.queue, [id |-> state.next_delivery_id,
                                                    attempts |-> 0, status |-> "pending"]),
     history          |-> state.history]

(* The loop of enqueue_event, after n of the targets.                      *)
Enqueued[n \in Nat] == IF n = 0 THEN dispatcher ELSE QueueFor(Enqueued[n - 1])

enqueue_event ==
    /\ dispatcher.next_delivery_id + Targets <= MaxDeliveries + 1
    /\ dispatcher' = Enqueued[Targets]
    /\ UNCHANGED max_queue_size

(* Faulty: compares before it counts the attempt.                          *)
OutcomeUncounted(d, success) ==
    CASE success -> [d EXCEPT !.attempts = @ + 1, !.status = "delivered"]
      [] ~success /\ d.attempts > MaxDeliveryRetries ->
             [d EXCEPT !.attempts = @ + 1, !.status = "abandoned"]
      [] OTHER -> [d EXCEPT !.attempts = @ + 1, !.status = "failed"]

(* The delivery after one more attempt.                                    *)
Outcome(d, success) ==
    LET attempted == [d EXCEPT !.attempts = @ + 1]
    IN  CASE success -> [attempted EXCEPT !.status = "delivered"]
          [] ~success /\ attempted.attempts > MaxDeliveryRetries ->
                 [attempted EXCEPT !.status = "abandoned"]
          [] OTHER -> [attempted EXCEPT !.status = "failed"]

Finished(d) == d.status \in {"delivered", "abandoned"}

(* Faulty: a delivery to retry is queued as if it were new before it       *)
(* leaves its place.                                                       *)
SettleEvicting(state, i, success) ==
    LET d == state.queue[i]
    IN  IF Finished(Outcome(d, success))
        THEN [state EXCEPT !.queue = RemoveAt(@, i),
                           !.history = PushBounded(@, Outcome(d, success))]
        ELSE [state EXCEPT !.queue = RemoveAt(PushBounded(@, Outcome(d, success)), i)]

(* It leaves its place in the queue, for the history or for the back of    *)
(* the queue.                                                              *)
Settle(state, i, success) ==
    LET d == state.queue[i]
    IN  IF Finished(Outcome(d, success))
        THEN [state EXCEPT !.queue = RemoveAt(@, i),
                           !.history = PushBounded(@, Outcome(d, success))]
        ELSE [state EXCEPT !.queue = Append(RemoveAt(@, i), Outcome(d, success))]

(* An id that is not queued (finished, or given up) changes nothing.       *)
record_attempt_result(id, success) ==
    /\ \E i \in 1..Len(dispatcher.queue) :
          /\ dispatcher.queue[i].id = id
          /\ \A j \in 1..(i - 1) : dispatcher.queue[j].id # id
          /\ dispatcher' = Settle(dispatcher, i, success)
    /\ UNCHANGED max_queue_size

(* Every id is handed out and nothing is left to report.                   *)
WebhookIdle ==
    /\ dispatcher.next_delivery_id + Targets > MaxDeliveries + 1
    /\ UNCHANGED hooks

WebhookNext ==
    \/ enqueue_event
    \/ WebhookIdle
    \/ \E id \in 1..MaxDeliveries, success \in BOOLEAN : record_attempt_result(id, success)

WebhookSpec == WebhookInit /\ [][WebhookNext]_hooks

---------------------------------------------------------------------------
(* Properties.                                                             *)

Ids(q) == {q[i].id : i \in 1..Len(q)}

(* The number of attempts tells a delivery's status, in the queue and in   *)
(* the history, and nothing is attempted more than once plus the retries.  *)
AttemptsAccounted ==
    /\ \A i \in 1..Len(dispatcher.queue) :
          LET d == dispatcher.queue[i]
          IN  d.attempts <= MaxDeliveryRetries
              /\ d.status = IF d.attempts = 0 THEN "pending" ELSE "failed"
    /\ \A i \in 1..Len(dispatcher.history) :
          LET d == dispatcher.history[i]
          IN  \/ d.status = "delivered" /\ d.attempts \in 1..(MaxDeliveryRetries + 1)
              \/ d.status = "abandoned" /\ d.attempts = MaxDeliveryRetries + 1

(* Duplicated and late reports never multiply a delivery: it has one place,*)
(* in the queue or in the history, and both stay bounded (by one more than *)
(* configured when that is zero).                                          *)
OnePlaceEach ==
    /\ IsInjective([i \in 1..Len(dispatcher.queue) |-> dispatcher.queue[i].id])
    /\ IsInjective([i \in 1..Len(dispatcher.history) |-> dispatcher.history[i].id])
    /\ Ids(dispatcher.queue) \cap Ids(dispatcher.history) = {}
    /\ \A q \in {dispatcher.queue, dispatcher.history} :
          Len(q) <= max_queue_size \/ Len(q) = 1

(* Both of the above.                                                      *)
DeliveriesAccounted == WebhookTypeOK /\ AttemptsAccounted /\ OnePlaceEach

(* A delivery leaves the queue for the history, or because events arrived  *)
(* that no longer fit, the deliveries at the front first.  Once out it     *)
(* never returns: nothing finished is sent again.                          *)
LeavesForCause ==
    [][LET before == dispatcher.queue
           after  == dispatcher'.queue
           queued == dispatcher'.next_delivery_id - dispatcher.next_delivery_id
       IN  /\ \A i \in 1..Len(before) :
                 \/ before[i].id \in Ids(after) \cup Ids(dispatcher'.history)
                 \/ queued > 0 /\ i + max_queue_size <= Len(before) + queued
           /\ \A id \in Ids(after) \ Ids(before) : id >= dispatcher.next_delivery_id]_hooks
=============================================================================
