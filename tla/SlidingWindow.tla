--------------------------- MODULE SlidingWindow ---------------------------
(***************************************************************************)
(* The sliding-window limiter, sliding_limiter.rs.  The instant of a call  *)
(* is sampled under the mutex, so calls take effect in the order of their  *)
(* instants and each is one action.  A limit of zero is accepted by the    *)
(* constructor; the first call then panics and poisons the mutex.          *)
(*                                                                         *)
(* An instant that cannot be represented (window_duration reaches back     *)
(* before the first instant the platform knows) makes the cutoff now.      *)
(***************************************************************************)
EXTENDS Integers, Sequences, SequencesExt

CONSTANTS WindowKeys,
          Limits,         \* values of max_requests, one per behaviour
          Window,         \* window_duration
          Epochs,         \* instants at which the process may start
          WindowHorizon,  \* bound: how long a behaviour lasts
          NoVerdict

ASSUME WindowAssumption ==
    /\ Limits \subseteq Nat /\ Window \in Nat /\ Epochs \subseteq Nat
    /\ WindowHorizon \in Nat

VARIABLES max_requests,
          epoch,       \* when the process started
          instant,     \* the monotonic clock
          timestamps,  \* the state map; an absent key is the empty queue
          poisoned,    \* the mutex is poisoned
          granted,     \* history: instants of every admission since the last reset
          refused      \* history: until when a key was told to wait, while nothing
                       \* was admitted for it since

window == <<max_requests, epoch, instant, timestamps, poisoned, granted, refused>>

WindowTypeOK ==
    /\ max_requests \in Limits /\ epoch \in Epochs
    /\ instant \in epoch..(epoch + WindowHorizon)
    /\ timestamps \in [WindowKeys -> Seq(epoch..(epoch + WindowHorizon))]
    /\ granted \in [WindowKeys -> Seq(epoch..(epoch + WindowHorizon))]
    /\ poisoned \in BOOLEAN
    /\ refused \in [WindowKeys -> Nat \cup {NoVerdict}]

WindowInit ==
    /\ max_requests \in Limits
    /\ epoch \in Epochs
    /\ instant = epoch
    /\ timestamps = [k \in WindowKeys |-> <<>>]
    /\ poisoned = FALSE
    /\ granted = [k \in WindowKeys |-> <<>>]
    /\ refused = [k \in WindowKeys |-> NoVerdict]

(* now.checked_sub(window_duration).unwrap_or(now)                         *)
cutoff == IF instant >= Window THEN instant - Window ELSE instant

(* The front of a queue is popped as long as it is stale.                  *)
PopStale(q, least) ==
    LET fresh == {i \in DOMAIN q : q[i] >= least}
    IN  IF fresh = {} THEN <<>> ELSE SubSeq(q, Min(fresh), Len(q))

(* Faulty: forgets an instant that the window still covers.                *)
LiveShort(k) == PopStale(timestamps[k], cutoff + 2)

Live(k) == PopStale(timestamps[k], cutoff)

AtLimit(k) == Len(Live(k)) >= max_requests

(* Faulty: what has passed of the earliest request's window, not what is   *)
(* left of it.                                                             *)
RetryElapsed(k) == instant - Head(Live(k))

(* earliest + window_duration - now                                        *)
RetryAfter(k) == Head(Live(k)) + Window - instant

Admit(k) ==
    /\ ~poisoned
    /\ ~AtLimit(k)
    /\ timestamps' = [timestamps EXCEPT ![k] = Append(Live(k), instant)]
    /\ granted' = [granted EXCEPT ![k] = Append(@, instant)]
    /\ refused' = [refused EXCEPT ![k] = NoVerdict]
    /\ UNCHANGED <<max_requests, epoch, instant, poisoned>>

Refuse(k) ==
    /\ ~poisoned
    /\ AtLimit(k) /\ Live(k) # <<>>
    /\ timestamps' = [timestamps EXCEPT ![k] = Live(k)]
    /\ refused' = [refused EXCEPT ![k] = instant + RetryAfter(k)]
    /\ UNCHANGED <<max_requests, epoch, instant, poisoned, granted>>

(* front().unwrap() on an empty queue.                                     *)
Panic(k) ==
    /\ ~poisoned
    /\ AtLimit(k) /\ Live(k) = <<>>
    /\ timestamps' = [timestamps EXCEPT ![k] = <<>>]
    /\ poisoned' = TRUE
    /\ UNCHANGED <<max_requests, epoch, instant, granted, refused>>

(* lock().unwrap() on the poisoned mutex: every later call panics too.     *)
Unusable == poisoned /\ UNCHANGED window

Reset(k) ==
    /\ ~poisoned
    /\ timestamps' = [timestamps EXCEPT ![k] = <<>>]
    /\ granted' = [granted EXCEPT ![k] = <<>>]
    /\ refused' = [refused EXCEPT ![k] = NoVerdict]
    /\ UNCHANGED <<max_requests, epoch, instant, poisoned>>

WindowTick ==
    /\ instant < epoch + WindowHorizon
    /\ instant' = instant + 1
    /\ UNCHANGED <<max_requests, epoch, timestamps, poisoned, granted, refused>>

WindowNext ==
    \/ WindowTick \/ Unusable
    \/ \E k \in WindowKeys : Admit(k) \/ Refuse(k) \/ Panic(k) \/ Reset(k)

WindowSpec == WindowInit /\ [][WindowNext]_window

---------------------------------------------------------------------------
(* Properties.                                                             *)

(* Where the window reaches back no further than the clock, any span as    *)
(* long as the window admits a key's limit at most, however the calls are  *)
(* spread over it and whatever was forgotten in between.                   *)
WindowQuota ==
    epoch >= Window =>
        \A k \in WindowKeys, start \in epoch..(epoch + WindowHorizon) :
            Cardinality({i \in DOMAIN granted[k] :
                            start <= granted[k][i] /\ granted[k][i] <= start + Window})
                <= max_requests

(* A refused key that waits past the hint has room again, and the hint     *)
(* itself never asks for more than a window.  (A caller back at exactly    *)
(* the hinted instant is refused once more, with a hint of zero: an entry  *)
(* as old as the window still counts.)                                     *)
HintSufficient ==
    \A k \in WindowKeys : refused[k] # NoVerdict =>
        /\ instant > refused[k] => ~AtLimit(k)
        /\ refused[k] <= instant + Window

(* Only a limit of zero can panic.                                         *)
NeverPanics == max_requests > 0 => ~poisoned

(* Both of the above: a refusal always comes with a hint that can be met.  *)
RefusalsHelpful == WindowTypeOK /\ HintSufficient /\ NeverPanics
=============================================================================
