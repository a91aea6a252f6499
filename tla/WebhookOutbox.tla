--------------------------- MODULE WebhookOutbox ---------------------------
(***************************************************************************)
(* The webhook outbox (fiat-ledger-events.service.ts): dispatchers on      *)
(* several replicas lease a due event, post it and record the result under *)
(* the lease; an owner may replay an event at any time.                    *)
(*                                                                         *)
(* nextAttemptAt serves as due time and as lease, so it is modelled with   *)
(* the writer that tells two instants apart.  The app's endpoint is        *)
(* external.                                                               *)
(***************************************************************************)
EXTENDS Integers, FiniteSetsExt

CONSTANTS
    Events,
    Dispatchers,
    Nobody,
    LeaseTime,      \* one minute
    PostTime,       \* the abort signal of postWebhook
    MaxBackoff,     \* one hour
    MaxAttempts,    \* forty
    MaxReplays,     \* bound: replays
    OutboxHorizon   \* bound: time

ASSUME OutboxConstants ==
    /\ LeaseTime \in Nat /\ PostTime \in Nat /\ PostTime < LeaseTime
    /\ MaxBackoff \in Nat /\ MaxAttempts \in Nat \ {0} /\ Nobody \notin Dispatchers

VARIABLES
    event,      \* fiat_ledger_events
    received,   \* the endpoint answered 2xx since the last replay
    post,       \* each dispatcher's delivery under way
    oclock, replays

outboxVars == <<event, received, post, oclock, replays>>

Instant(at, by) == [at |-> at, by |-> by]
Resting0 == [pc |-> "idle", e |-> Nobody, next |-> Instant(0, Nobody), attempts |-> 0, since |-> 0, answer |-> "none"]

OutboxInit ==
    /\ event = [e \in Events |-> [status |-> "pending", attempts |-> 0, next |-> Instant(0, Nobody)]]
    /\ received = {} /\ post = [x \in Dispatchers |-> Resting0]
    /\ oclock = 0 /\ replays = 0

---------------------------------------------------------------------------

\* dispatchEvents: the due events are read ...
dispatchEvents(x, e) ==
    /\ post[x].pc = "idle"
    /\ event[e].status = "pending" /\ event[e].next.at <= oclock
    /\ post' = [post EXCEPT ![x] = [Resting0 EXCEPT !.pc = "lease", !.e = e, !.next = event[e].next,
                                                     !.attempts = event[e].attempts + 1]]
    /\ UNCHANGED <<event, received, oclock, replays>>

\* ... and leased if nobody has moved them since.
leaseEvent(x) ==
    /\ post[x].pc = "lease"
    /\ LET e == post[x].e
           lease == Instant(oclock + LeaseTime, x)
       IN  IF event[e].status = "pending" /\ event[e].next = post[x].next
           THEN /\ event' = [event EXCEPT ![e].next = lease]
                /\ post' = [post EXCEPT ![x].pc = "post", ![x].next = lease]
           ELSE UNCHANGED event /\ post' = [post EXCEPT ![x] = Resting0]
    /\ UNCHANGED <<received, oclock, replays>>

\* The app is looked up; without its secret nothing is sent.
lookupApp(x) ==
    /\ post[x].pc = "post"
    /\ \/ post' = [post EXCEPT ![x].pc = "sending", ![x].since = oclock]
       \/ post' = [post EXCEPT ![x].pc = "result", ![x].answer = "error"]
    /\ UNCHANGED <<event, received, oclock, replays>>

\* postWebhook: 2xx, another status, or no answer in time, received or not.
postWebhook(x) ==
    /\ post[x].pc = "sending"
    /\ \/ received' = received \cup {post[x].e} /\ post' = [post EXCEPT ![x].pc = "result", ![x].answer = "2xx"]
       \/ received' \in {received, received \cup {post[x].e}}
          /\ post' = [post EXCEPT ![x].pc = "result", ![x].answer = "error"]
    /\ UNCHANGED <<event, oclock, replays>>

Backoff(attempts) == Min({MaxBackoff, 2^attempts})

\* Mutant of StillLeased: the result is written whoever holds the event.
StillLeasedNot(x) == TRUE

StillLeased(x) == event[post[x].e].next = post[x].next

\* The result, if the lease still stands.
recordResult(x) ==
    /\ post[x].pc = "result"
    /\ LET e == post[x].e
           n == post[x].attempts
       IN  event' = [event EXCEPT ![e] =
               IF ~StillLeased(x) THEN @
               ELSE IF post[x].answer = "2xx" THEN [@ EXCEPT !.status = "delivered", !.attempts = n]
               ELSE [status |-> IF n >= MaxAttempts THEN "failed" ELSE "pending", attempts |-> n,
                     next |-> Instant(oclock + Backoff(n), Nobody)]]
    /\ post' = [post EXCEPT ![x] = Resting0]
    /\ UNCHANGED <<received, oclock, replays>>

\* replay, at any time: due now, attempts from zero.
replay(e) ==
    /\ replays < MaxReplays /\ replays' = replays + 1
    /\ event' = [event EXCEPT ![e] = [status |-> "pending", attempts |-> 0, next |-> Instant(oclock, Nobody)]]
    /\ received' = received \ {e}
    /\ UNCHANGED <<post, oclock>>

\* A dispatcher dies, or stalls for as long as it likes outside its post.
CrashDispatcher(x) ==
    /\ post[x].pc # "idle" /\ post' = [post EXCEPT ![x] = Resting0]
    /\ UNCHANGED <<event, received, oclock, replays>>

OutboxTick ==
    /\ oclock < OutboxHorizon /\ oclock' = oclock + 1
    /\ \A x \in Dispatchers : post[x].pc = "sending" => oclock < post[x].since + PostTime
    /\ UNCHANGED <<event, received, post, replays>>

OutboxNext ==
    \/ \E x \in Dispatchers, e \in Events : dispatchEvents(x, e)
    \/ \E x \in Dispatchers :
         leaseEvent(x) \/ lookupApp(x) \/ postWebhook(x) \/ recordResult(x) \/ CrashDispatcher(x)
    \/ \E e \in Events : replay(e)
    \/ OutboxTick

OutboxSpec == OutboxInit /\ [][OutboxNext]_outboxVars

---------------------------------------------------------------------------
\* Properties

OutboxTypeOK ==
    /\ \A e \in Events : /\ event[e].status \in {"pending", "delivered", "failed"}
                         /\ event[e].attempts \in 0..MaxAttempts
    /\ received \subseteq Events

\* An event is delivered only if the endpoint took it since the last replay: a
\* late result of an expired lease, or of a delivery the owner replayed, does
\* not settle it.
DeliveredWasReceived ==
    \A e \in Events : event[e].status = "delivered" => e \in received
=============================================================================
