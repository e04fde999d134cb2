------------------------------- MODULE Payments -------------------------------
(***************************************************************************)
(* Stripe's events from the webhook to the ledger: StripeWebhookService     *)
(* stores an event and enqueues a job for it, StripeEventsWorker credits    *)
(* the wallet in one transaction.  Both processes may crash between any two *)
(* of their steps; a job whose worker died runs again.                      *)
(***************************************************************************)
EXTENDS Naturals

CONSTANTS
    Events,         \* ids of Stripe events
    CreditEvents,   \* those of a type that buys time
    Walletless,     \* those whose user has no wallet
    ATTEMPTS,       \* defaultJobOptions.attempts
    DELIVERIES,     \* bound: times Stripe sends an event
    CRASHES         \* bound: crashes of the API or of the worker

ASSUME PaymentAssumption ==
    /\ CreditEvents \subseteq Events /\ Walletless \subseteq Events
    /\ ATTEMPTS \in Nat \ {0} /\ DELIVERIES \in Nat /\ CRASHES \in Nat

VARIABLES
    event,      \* stripe_events.status
    credits,    \* ledger_entries of the event (each in its wallet_lot)
    webhook,    \* the handler that inserted the row: before queue.add, before the answer
    accepted,   \* Stripe was told accepted
    delivered,  \* deliveries so far
    job,        \* the BullMQ job whose id is the event's
    run,        \* its runs: the one that holds the job's lock, one that lost it
    crashes

webhookVars == <<webhook, accepted, delivered>>
paymentVars == <<event, credits, webhookVars, job, run, crashes>>

-----------------------------------------------------------------------------
(* StripeWebhookService.persistAndEnqueue.                                  *)

\* Stripe sends an event until it has an answer, and now and then once more.  Only
\* the delivery that inserts the row goes on; the others answer duplicate.
Deliver(e) ==
    /\ delivered[e] < DELIVERIES
    /\ delivered' = [delivered EXCEPT ![e] = @ + 1]
    /\ IF event[e] # "none" THEN UNCHANGED <<event, webhook>>
       ELSE /\ event' = [event EXCEPT ![e] = "received"]
            /\ webhook' = [webhook EXCEPT ![e] = "enqueue"]
    /\ UNCHANGED <<credits, accepted, job, run, crashes>>

\* queue.add.
NewJob == [state |-> "waiting", made |-> 0, stalls |-> 0]
Enqueue(e) ==
    /\ webhook[e] = "enqueue"
    /\ job' = [job EXCEPT ![e] = NewJob]
    /\ webhook' = [webhook EXCEPT ![e] = "answer"]
    /\ UNCHANGED <<event, credits, accepted, delivered, run, crashes>>

Answer(e) ==
    /\ webhook[e] = "answer"
    /\ accepted' = [accepted EXCEPT ![e] = TRUE]
    /\ webhook' = [webhook EXCEPT ![e] = "idle"]
    /\ UNCHANGED <<event, credits, delivered, job, run, crashes>>

\* The API process ends; Stripe sees no answer.  What Redis took stays.
ApiCrash ==
    /\ crashes < CRASHES /\ \E e \in Events : webhook[e] # "idle"
    /\ crashes' = crashes + 1
    /\ webhook' = [e \in Events |-> "idle"]
    /\ UNCHANGED <<event, credits, accepted, delivered, job, run>>

-----------------------------------------------------------------------------
(* StripeEventsWorker.  A run is before or after the commit of its          *)
(* transaction; only the owner's result counts for the job.                 *)

Runs == {"owner", "stalled"}

Take(e) ==
    /\ job[e].state = "waiting"
    /\ job' = [job EXCEPT ![e].state = "active"]
    /\ run' = [run EXCEPT ![e]["owner"] = "before"]
    /\ UNCHANGED <<event, credits, webhookVars, crashes>>

\* BullMQ: a job whose lock ran out waits again, the second time it fails.
Stalled(j) == [j EXCEPT !.stalls = @ + 1, !.state = IF j.stalls = 0 THEN "waiting" ELSE "failed"]

\* The lock of 30 s ran out under a run that lives on.
Stall(e) ==
    /\ job[e].state = "active" /\ run[e]["stalled"] = "none" /\ crashes < CRASHES
    /\ crashes' = crashes + 1
    /\ job' = [job EXCEPT ![e] = Stalled(@)]
    /\ run' = [run EXCEPT ![e] = [r \in Runs |-> IF r = "stalled" THEN @["owner"] ELSE "none"]]
    /\ UNCHANGED <<event, credits, webhookVars>>

\* The worker process ends, and its runs with it.
WorkerCrash ==
    /\ crashes < CRASHES /\ \E e \in Events : job[e].state = "active"
    /\ crashes' = crashes + 1
    /\ job' = [e \in Events |-> IF job[e].state = "active" THEN Stalled(job[e]) ELSE job[e]]
    /\ run' = [e \in Events |-> [r \in Runs |-> "none"]]
    /\ UNCHANGED <<event, credits, webhookVars>>

\* The transaction throws and rolls back: a payment for a user without a wallet.
Throws(e) == event[e] = "received" /\ e \in CreditEvents /\ e \in Walletless

\* The inserts of the lot and of the ledger entry: on conflict do nothing.
InsertedOnce(n) == IF n > 0 THEN n ELSE n + 1

\* The transaction of process: under the event's lock, credit and mark.
Process(e, r) ==
    /\ run[e][r] = "before" /\ ~Throws(e)
    /\ credits' = [credits EXCEPT ![e] = IF event[e] = "received" /\ e \in CreditEvents THEN InsertedOnce(@) ELSE @]
    /\ event' = [event EXCEPT ![e] = "processed"]
    /\ run' = [run EXCEPT ![e][r] = "after"]
    /\ UNCHANGED <<webhookVars, job, crashes>>

Complete(e, r) ==
    /\ run[e][r] = "after"
    /\ run' = [run EXCEPT ![e][r] = "none"]
    /\ job' = IF r = "owner" THEN [job EXCEPT ![e].state = "completed"] ELSE job
    /\ UNCHANGED <<event, credits, webhookVars, crashes>>

\* Retried with a back-off until attempts is reached, then kept (removeOnFail false);
\* the copy for stripe-events-dlq is sent and not waited for.
MutantAfterFailure(j) == [j EXCEPT !.made = @ + 1, !.state = IF j.made + 1 < ATTEMPTS THEN "waiting" ELSE "removed"]
AfterFailure(j) == [j EXCEPT !.made = @ + 1, !.state = IF j.made + 1 < ATTEMPTS THEN "waiting" ELSE "failed"]
Fail(e, r) ==
    /\ run[e][r] = "before" /\ Throws(e)
    /\ run' = [run EXCEPT ![e][r] = "none"]
    /\ job' = IF r = "owner" THEN [job EXCEPT ![e] = AfterFailure(@)] ELSE job
    /\ UNCHANGED <<event, credits, webhookVars, crashes>>

-----------------------------------------------------------------------------
PaymentsInit ==
    /\ event = [e \in Events |-> "none"]
    /\ credits = [e \in Events |-> 0]
    /\ webhook = [e \in Events |-> "idle"]
    /\ accepted = [e \in Events |-> FALSE]
    /\ delivered = [e \in Events |-> 0]
    /\ job = [e \in Events |-> [NewJob EXCEPT !.state = "none"]]
    /\ run = [e \in Events |-> [r \in Runs |-> "none"]]
    /\ crashes = 0

PaymentsNext ==
    \/ ApiCrash \/ WorkerCrash
    \/ \E e \in Events : Deliver(e) \/ Enqueue(e) \/ Answer(e) \/ Take(e) \/ Stall(e)
    \/ \E e \in Events, r \in Runs : Process(e, r) \/ Complete(e, r) \/ Fail(e, r)

PaymentsSpec == PaymentsInit /\ [][PaymentsNext]_paymentVars

-----------------------------------------------------------------------------
\* An event Stripe was told is accepted has been credited exactly once, or is still
\* on its way to be - its job waits, or a run holds it - or its job is kept as
\* failed for the operator, whatever repeats, stalls and crashes happen in between
\* (persistAndEnqueue, process, the failed handler).
Paid(e) == event[e] = "processed" /\ credits[e] = (IF e \in CreditEvents THEN 1 ELSE 0)
AcceptedIsPaidOnce ==
    \A e \in Events : accepted[e] =>
        \/ Paid(e)
        \/ job[e].state \in {"waiting", "failed"}
        \/ job[e].state = "active" /\ run[e]["owner"] # "none"
=============================================================================
