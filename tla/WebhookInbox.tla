---------------------------- MODULE WebhookInbox ----------------------------
(***************************************************************************)
(* The inbox of Mercado Pago notifications: their reception (orders.ts),   *)
(* and the worker that every five seconds claims what is due, asks the     *)
(* provider for the state of the order and applies it                      *)
(* (mercado-pago-webhook-worker.ts), in a server that may stop, crash and  *)
(* start again (AppLock).  The provider's order is reduced to the number   *)
(* of its changes: notification n tells of the n-th, and is delivered      *)
(* again at will.                                                          *)
(*                                                                         *)
(* Times are kept as what is left of a wait or the age of a lock, so that  *)
(* the clock has no last instant.                                          *)
(***************************************************************************)
EXTENDS AppLock, SequencesExt, FiniteSetsExt

CONSTANTS
    MaxChanges,      \* bound: changes of the provider's order
    MaxRedeliveries, \* bound: notifications delivered again
    BatchSize,       \* events a run of the worker takes
    MaxAttempts,     \* the attempt after which an event is given up
    BackoffBase, BackoffCap, MaxExponent, \* the waits between attempts
    LockTimeout      \* age after which a claim is taken over

ASSUME InboxAssumption ==
    /\ {MaxChanges, MaxRedeliveries, MaxExponent} \subseteq Nat
    /\ {BatchSize, MaxAttempts, BackoffBase, BackoffCap, LockTimeout} \subseteq Nat \ {0}

VARIABLES
    changes,      \* how often the provider's order changed
    applied,      \* the latest change of the provider that a reconciliation brought
    received,     \* receivedAt of each row of WebhookEvent, counted; 0 without a row
    event,        \* each row
    worker,       \* MercadoPagoWebhookWorker of each process
    redeliveries

inboxVars == <<changes, applied, received, event, worker, redeliveries>>
vars == <<lockVars, inboxVars>>

Events == 1..MaxChanges
LastReceived == Max({received[e] : e \in Events} \cup {0})
NoLockAge == LockTimeout + 2
MostAttempts == MaxAttempts + MaxRedeliveries + MaxCrashes + 1

\* wait: what is left until nextAttemptAt.  lockAge: the time since lockedAt.
NewEvent == [status |-> "PENDING", attempts |-> 0, wait |-> 0, lockAge |-> NoLockAge]
Locked(e) == event[e].lockAge # NoLockAge
Due(e) == event[e].status = "PENDING" /\ event[e].wait = 0

\* elapsed: the time since the run began, which the run takes for the present.
IdleWorker == [stage |-> "IDLE", batch |-> <<>>, seen |-> <<>>, elapsed |-> 0, change |-> 0]
Working(p) == worker[p].stage # "IDLE"
Current(p) == Head(worker[p].batch)

InboxTypeOK ==
    /\ LockTypeOK
    /\ changes \in 0..MaxChanges /\ applied \in 0..changes
    /\ redeliveries \in 0..MaxRedeliveries
    /\ received \in [Events -> 0..(MaxChanges + MaxRedeliveries)]
    /\ \A e \in Events : received[e] # 0 => e <= changes
    /\ event \in [Events -> [status: {"PENDING", "PROCESSED", "FAILED"}, attempts: 0..MostAttempts,
                             wait: 0..BackoffCap, lockAge: 0..NoLockAge]]
    /\ \A p \in Processes :
           /\ worker[p].stage \in {"IDLE", "BATCH", "CLAIMED", "READ", "APPLIED"}
           /\ worker[p].change \in 0..changes
           /\ Len(worker[p].batch) <= BatchSize

Init ==
    /\ LockInit
    /\ changes = 0 /\ applied = 0 /\ redeliveries = 0
    /\ received = [e \in Events |-> 0]
    /\ event = [e \in Events |-> NewEvent]
    /\ worker = [p \in Processes |-> IdleWorker]

-----------------------------------------------------------------------------
(* The provider, and the route that receives its notifications.            *)

ProviderChanges ==
    /\ changes < MaxChanges
    /\ changes' = changes + 1
    /\ UNCHANGED <<lockVars, applied, received, event, worker, redeliveries>>

\* The upsert of a notification that has a row: it is due at once, free and not
\* given up; processedAt and attemptCount are left as they are.
ReceivedAgain(e) ==
    [event EXCEPT ![e].wait = 0, ![e].lockAge = NoLockAge,
                  ![e].status = IF @ = "FAILED" THEN "PENDING" ELSE @]

Receive(e) ==
    /\ \E p \in Processes : Running(p)
    /\ e <= changes
    /\ IF received[e] # 0
       THEN /\ redeliveries < MaxRedeliveries
            /\ redeliveries' = redeliveries + 1
            /\ event' = ReceivedAgain(e)
       ELSE UNCHANGED <<redeliveries, event>>
    /\ received' = [received EXCEPT ![e] = LastReceived + 1]
    /\ UNCHANGED <<lockVars, changes, applied, worker>>

-----------------------------------------------------------------------------
(* A run of the worker.                                                    *)

DueEvents == {e \in Events : received[e] # 0 /\ Due(e)}

\* orderBy receivedAt, take: before an event of the batch come the due ones received
\* before it, and only those.
OldestDue(batch) ==
    /\ Len(batch) = Min({BatchSize, Cardinality(DueEvents)})
    /\ \A i \in DOMAIN batch, e \in DueEvents :
           received[e] < received[batch[i]] <=> \E j \in 1..(i - 1) : batch[j] = e

\* A run works with the attemptCount it read here, and takes over the claims that
\* are too old at this instant.
Scan(p) ==
    /\ process[p] = "RUNNING"
    /\ ~Working(p)
    /\ \E batch \in SeqOf(DueEvents, BatchSize) :
        /\ batch # <<>>
        /\ OldestDue(batch)
        /\ worker' = [worker EXCEPT ![p] =
               [IdleWorker EXCEPT !.stage = "BATCH", !.batch = batch,
                                  !.seen = [i \in DOMAIN batch |->
                   [attempts |-> event[batch[i]].attempts,
                    stale |-> event[batch[i]].lockAge > LockTimeout]]]]
    /\ UNCHANGED <<lockVars, changes, applied, received, event, redeliveries>>

\* The next event of the batch, or the end of the run.
Advanced(w) ==
    IF Len(w.batch) = 1 THEN IdleWorker
    ELSE [w EXCEPT !.stage = "BATCH", !.batch = Tail(@), !.seen = Tail(@)]

\* Wrong form of Claimable: a claim is never taken over.
ClaimableUnlocked(p, e) == event[e].status = "PENDING" /\ ~Locked(e)

Claimable(p, e) ==
    /\ event[e].status = "PENDING"
    /\ Locked(e) => Head(worker[p].seen).stale /\ event[e].lockAge > LockTimeout

Claim(p) ==
    LET e == Current(p)
    IN  /\ worker[p].stage = "BATCH"
        /\ IF Claimable(p, e)
           THEN /\ event' = [event EXCEPT ![e].lockAge = Min({worker[p].elapsed, LockTimeout + 1}),
                                          ![e].attempts = @ + 1]
                /\ worker' = [worker EXCEPT ![p].stage = "CLAIMED"]
           ELSE /\ worker' = [worker EXCEPT ![p] = Advanced(@)]
                /\ UNCHANGED event
        /\ UNCHANGED <<lockVars, changes, applied, received, redeliveries>>

\* The state the provider answers with.
AskProvider(p) ==
    /\ worker[p].stage = "CLAIMED"
    /\ worker' = [worker EXCEPT ![p].stage = "READ", ![p].change = changes]
    /\ UNCHANGED <<lockVars, changes, applied, received, event, redeliveries>>

\* The transaction of reconcileMercadoOrder or reconcileMercadoPayment.  What an older
\* answer does to the order is modelled in OrderPayments.
Reconcile(p) ==
    /\ worker[p].stage = "READ"
    /\ applied' = Max({applied, worker[p].change})
    /\ worker' = [worker EXCEPT ![p].stage = "APPLIED"]
    /\ UNCHANGED <<lockVars, changes, received, event, redeliveries>>

\* Wrong form of MarkProcessed: before the answer is applied.
MarkProcessedUnapplied(p) ==
    /\ worker[p].stage = "READ"
    /\ event' = [event EXCEPT ![Current(p)].status = "PROCESSED", ![Current(p)].lockAge = NoLockAge,
                              ![Current(p)].wait = 0]
    /\ worker' = [worker EXCEPT ![p] = Advanced(@)]
    /\ UNCHANGED <<lockVars, changes, applied, received, redeliveries>>

MarkProcessed(p) ==
    /\ worker[p].stage = "APPLIED"
    /\ event' = [event EXCEPT ![Current(p)].status = "PROCESSED", ![Current(p)].lockAge = NoLockAge,
                              ![Current(p)].wait = 0]
    /\ worker' = [worker EXCEPT ![p] = Advanced(@)]
    /\ UNCHANGED <<lockVars, changes, applied, received, redeliveries>>

\* nextAttemptAt counts from the beginning of the run.
Backoff(attempt) == Min({BackoffCap, BackoffBase * 2 ^ Min({attempt - 1, MaxExponent})})

Permanent(attempt) == attempt >= MaxAttempts

\* The provider, or a step after its answer, failed.
FailAttempt(p) ==
    LET e == Current(p)
        attempt == Head(worker[p].seen).attempts + 1
    IN  /\ worker[p].stage \in {"CLAIMED", "READ", "APPLIED"}
        /\ event' = [event EXCEPT
               ![e].lockAge = NoLockAge,
               ![e].status = IF Permanent(attempt) THEN "FAILED" ELSE @,
               ![e].wait = IF Permanent(attempt) THEN 0
                           ELSE Max({0, Backoff(attempt) - worker[p].elapsed})]
        /\ worker' = [worker EXCEPT ![p] = Advanced(@)]
        /\ UNCHANGED <<lockVars, changes, applied, received, redeliveries>>

-----------------------------------------------------------------------------
(* Time, and the life of the processes.                                    *)

Tick ==
    /\ event' = [e \in Events |->
           [event[e] EXCEPT !.wait = Max({0, @ - 1}),
                            !.lockAge = IF Locked(e) THEN Min({@ + 1, LockTimeout + 1}) ELSE @]]
    /\ worker' = [p \in Processes |->
           IF Working(p) THEN [worker[p] EXCEPT !.elapsed = Min({@ + 1, BackoffCap})] ELSE IdleWorker]
    /\ UNCHANGED <<lockVars, changes, applied, received, redeliveries>>

CrashServer(p) ==
    /\ Crash(p)
    /\ worker' = [worker EXCEPT ![p] = IdleWorker]
    /\ UNCHANGED <<changes, applied, received, event, redeliveries>>

ReleaseAfterJobs(p) == ~Working(p) /\ ReleaseLock(p)

WorkerStep(p) ==
    \/ Scan(p)
    \/ Claim(p)
    \/ AskProvider(p)
    \/ Reconcile(p)
    \/ MarkProcessed(p)
    \/ FailAttempt(p)

Next ==
    \/ ProviderChanges
    \/ \E e \in Events : Receive(e)
    \/ Tick
    \/ \E p \in Processes : WorkerStep(p) \/ CrashServer(p)
    \/ \E p \in Processes : (StartStep(p) \/ Stop(p) \/ ReleaseAfterJobs(p)) /\ UNCHANGED inboxVars

\* Time passes, a run goes on to its end (each call to the provider has a time
\* limit, and either succeeds or fails), a stop ends, and the deployment starts
\* the server again, at length with every pid.
Fairness ==
    /\ WF_vars(Tick)
    /\ \A p \in Processes :
           /\ WF_vars(WorkerStep(p))
           /\ WF_vars(ReleaseAfterJobs(p) /\ UNCHANGED inboxVars)
           /\ WF_vars((WriteLock(p) \/ ReadLock(p) \/ UnlinkStale(p) \/ ReopenLock(p)) /\ UNCHANGED inboxVars)
           /\ SF_vars(Start(p) /\ UNCHANGED inboxVars)

Spec == Init /\ [][Next]_vars
FairSpec == Spec /\ Fairness

-----------------------------------------------------------------------------

\* An event is marked processed only after the shop's order was brought to
\* the change it told of, by a read made after it was received: neither a
\* crash between the steps of a run nor a notification delivered again
\* in the middle of one loses a change (runOnce, the upsert of the route).
ProcessedReflected ==
    \A e \in Events : event[e].status = "PROCESSED" => applied >= e

\* The attempts at an event are bounded: ten, one more for each time it is
\* delivered again, and one more for each crash, which leaves the count
\* raised and the event claimed (attemptCount, permanent).
AttemptsBounded ==
    \A e \in Events : event[e].attempts <= MaxAttempts + redeliveries + crashes

\* What was accepted is worked off: every notification that was received is
\* at length processed or given up, through crashes, a claim left by one and
\* failures of the provider, unless a crash left a lock file without a pid,
\* with which no server starts (the README's durable worker).
AcceptedEventsEnd ==
    \A e \in Events :
        (received[e] # 0) ~> (event[e].status # "PENDING" \/ Orphaned)

=============================================================================
