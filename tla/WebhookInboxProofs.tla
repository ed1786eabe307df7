------------------------- MODULE WebhookInboxProofs -------------------------
(***************************************************************************)
(* Proofs about the server and its inbox, for any set of pids and any      *)
(* number of crashes, stops, notifications and redeliveries.               *)
(*                                                                         *)
(* The lock file: when the deployment starts one process at a time, at     *)
(* most one process runs, whatever lock files crashes leave behind.        *)
(* SingleProcess is not inductive: LockInv ties each stage of a start to   *)
(* what the file must then say, and says that a lock found stale stays so. *)
(*                                                                         *)
(* The worker: what is marked processed was applied, however many          *)
(* processes run.  ReflectedInv adds what a run has behind it at each      *)
(* stage: its events were received, so the answer it reads includes them.  *)
(***************************************************************************)
EXTENDS WebhookInbox, FiniteSetTheorems, TLAPS

LockStages == {"DOWN", "REFUSED", "STALE", "UNLINKED", "CREATED", "RUNNING", "STOPPING"}

ProcessInv(p) ==
    /\ process[p] \in LockStages
    /\ Running(p) => lock = [by |-> p, pid |-> p]
    /\ process[p] = "CREATED" => lock = EmptyLock(p)
    /\ process[p] = "STALE" => lock.pid \in Processes /\ process[lock.pid] = "DOWN"
    /\ process[p] = "UNLINKED" => lock = NoLock

LockInv ==
    /\ DOMAIN process = Processes
    /\ lock \in [by : Processes \cup {NoProcess}, pid : Processes \cup {NoProcess}]
    /\ \A p \in Processes : ProcessInv(p)
    /\ \A p, r \in Starting : p = r

-----------------------------------------------------------------------------

LEMMA LockInvInit == Init => LockInv
  BY ProcessesAssumption
     DEF Init, LockInit, LockInv, ProcessInv, LockStages, Running, Starting, NoLock

LEMMA OneRuns == LockInv => SingleProcess
  BY DEF LockInv, ProcessInv, SingleProcess, Running

\* The deployment starts one at a time: the first step of a start finds no
\* other one under way.
LEMMA StartsAlone ==
    ASSUME MaxStarting <= 1, Cardinality(Starting) < MaxStarting
    PROVE  Starting = {}
<1>1. IsFiniteSet(Starting)
  BY ProcessesAssumption, FS_Subset DEF Starting
<1>2. Cardinality(Starting) \in Nat /\ MaxStarting \in Nat
  BY <1>1, FS_CardinalityType, ProcessesAssumption
<1>3. Cardinality(Starting) = 0
  BY <1>2
<1> QED
  BY <1>1, <1>3, FS_EmptySet

-----------------------------------------------------------------------------
(* One lemma per step.                                                      *)

LEMMA StartKeeps ==
    ASSUME MaxStarting <= 1, LockInv, NEW p \in Processes, Start(p)
    PROVE  LockInv'
<1>1. Starting = {}
  BY StartsAlone DEF Start
<1>2. \A r \in Processes : process[r] \in {"DOWN", "RUNNING", "STOPPING"}
  BY <1>1 DEF Starting, LockInv, ProcessInv, LockStages
<1>3. CASE lock = NoLock
  <2>1. /\ process' = [process EXCEPT ![p] = "CREATED"]
        /\ lock' = EmptyLock(p)
    BY <1>3 DEF Start, OpenLock, Become
  <2>2. \A r \in Processes : process[r] = "DOWN"
    BY <1>2, <1>3, ProcessesAssumption DEF LockInv, ProcessInv, Running, NoLock
  <2>3. \A r \in Processes : process'[r] = IF r = p THEN "CREATED" ELSE "DOWN"
    BY <2>1, <2>2 DEF LockInv
  <2>4. lock' \in [by : Processes \cup {NoProcess}, pid : Processes \cup {NoProcess}]
    BY <2>1 DEF EmptyLock
  <2>5. \A r \in Processes : ProcessInv(r)'
    BY <2>1, <2>3 DEF ProcessInv, LockStages, Running, EmptyLock
  <2>6. DOMAIN process' = Processes /\ \A q, r \in Starting' : q = r
    BY <2>1, <2>3 DEF Starting, LockInv
  <2> QED
    BY <2>4, <2>5, <2>6 DEF LockInv
<1>4. CASE lock # NoLock
  BY <1>2, <1>4 DEF Start, OpenLock, Become, LockInv, ProcessInv, LockStages, Running, Starting,
         EmptyLock
<1> QED
  BY <1>3, <1>4

LEMMA WriteLockKeeps ==
    ASSUME LockInv, NEW p \in Processes, WriteLock(p)
    PROVE  LockInv'
  BY ProcessesAssumption
     DEF WriteLock, Become, LockInv, ProcessInv, LockStages, Running, Starting, EmptyLock, NoLock

LEMMA ReadLockKeeps ==
    ASSUME LockInv, NEW p \in Processes, ReadLock(p)
    PROVE  LockInv'
  BY ProcessesAssumption
     DEF ReadLock, Become, Stale, Alive, LockInv, ProcessInv, LockStages, Running, Starting,
         EmptyLock, NoLock

LEMMA UnlinkStaleKeeps ==
    ASSUME LockInv, NEW p \in Processes, UnlinkStale(p)
    PROVE  LockInv'
  BY ProcessesAssumption
     DEF UnlinkStale, Become, LockInv, ProcessInv, LockStages, Running, Starting, EmptyLock, NoLock

LEMMA ReopenLockKeeps ==
    ASSUME LockInv, NEW p \in Processes, ReopenLock(p)
    PROVE  LockInv'
  BY ProcessesAssumption
     DEF ReopenLock, OpenLock, Become, LockInv, ProcessInv, LockStages, Running, Starting,
         EmptyLock, NoLock

LEMMA StopKeeps ==
    ASSUME LockInv, NEW p \in Processes, Stop(p)
    PROVE  LockInv'
  BY DEF Stop, Become, LockInv, ProcessInv, LockStages, Running, Starting, EmptyLock

LEMMA ReleaseLockKeeps ==
    ASSUME LockInv, NEW p \in Processes, ReleaseLock(p)
    PROVE  LockInv'
  BY ProcessesAssumption
     DEF ReleaseLock, Become, LockInv, ProcessInv, LockStages, Running, Starting, EmptyLock, NoLock

LEMMA CrashKeeps ==
    ASSUME LockInv, NEW p \in Processes, Crash(p)
    PROVE  LockInv'
  BY DEF Crash, Become, Alive, LockInv, ProcessInv, LockStages, Running, Starting, EmptyLock

LEMMA LockInvNext ==
    ASSUME MaxStarting <= 1, LockInv, [Next]_vars
    PROVE  LockInv'
<1>1. CASE UNCHANGED lockVars
  BY <1>1 DEF lockVars, LockInv, ProcessInv, Running, Starting
<1>2. ASSUME NEW p \in Processes, StartStep(p) PROVE LockInv'
  BY <1>2, StartKeeps, WriteLockKeeps, ReadLockKeeps, UnlinkStaleKeeps, ReopenLockKeeps
     DEF StartStep
<1>3. ASSUME NEW p \in Processes, Stop(p) \/ ReleaseAfterJobs(p) \/ CrashServer(p) PROVE LockInv'
  BY <1>3, StopKeeps, ReleaseLockKeeps, CrashKeeps DEF ReleaseAfterJobs, CrashServer
<1>4. CASE UNCHANGED vars
  BY <1>1, <1>4 DEF vars
<1>5. CASE ProviderChanges \/ Tick \/ \E e \in Events : Receive(e)
  BY <1>1, <1>5 DEF ProviderChanges, Tick, Receive
<1>6. CASE \E p \in Processes : WorkerStep(p)
  BY <1>1, <1>6
     DEF WorkerStep, Scan, Claim, AskProvider, Reconcile, MarkProcessed, FailAttempt
<1> QED
  BY <1>2, <1>3, <1>4, <1>5, <1>6 DEF Next

\* With one start at a time, no two processes of the server ever use the
\* database together: neither a lock left by a crash, nor its takeover, nor
\* the pid that another process had before lets a second one in.
THEOREM OneServer ==
    ASSUME MaxStarting <= 1
    PROVE  Spec => []SingleProcess
<1>1. LockInv /\ [Next]_vars => LockInv'
  BY LockInvNext
<1> QED
  BY <1>1, LockInvInit, OneRuns, PTL DEF Spec

-----------------------------------------------------------------------------
(* The worker.                                                              *)

Fields == {"stage", "batch", "seen", "elapsed", "change"}
Columns == {"status", "attempts", "wait", "lockAge"}

\* What a run of process p has behind it.
WorkerInv(p) ==
    /\ DOMAIN worker[p] = Fields
    /\ worker[p].stage \in {"IDLE", "BATCH", "CLAIMED", "READ", "APPLIED"}
    /\ worker[p].stage # "IDLE" =>
           /\ worker[p].batch \in Seq(Events) /\ worker[p].batch # <<>>
           /\ \A i \in 1..Len(worker[p].batch) : worker[p].batch[i] <= changes
    /\ worker[p].stage = "READ" => worker[p].change \in Nat /\ worker[p].change >= Current(p)
    /\ worker[p].stage = "APPLIED" => applied >= Current(p)

ReflectedInv ==
    /\ changes \in Nat /\ applied \in Nat
    /\ DOMAIN received = Events /\ \A e \in Events : received[e] # 0 => e <= changes
    /\ DOMAIN event = Events
    /\ \A e \in Events : /\ DOMAIN event[e] = Columns
                         /\ event[e].status = "PROCESSED" => applied >= e
    /\ DOMAIN worker = Processes
    /\ \A p \in Processes : WorkerInv(p)

LEMMA ReflectedInvInit == Init => ReflectedInv
BY DEF Init, ReflectedInv, WorkerInv, IdleWorker, NewEvent, Fields, Columns, Events

LEMMA MaxOfTwo ==
    ASSUME NEW a \in Nat, NEW b \in Nat
    PROVE  Max({a, b}) \in Nat /\ Max({a, b}) >= a /\ Max({a, b}) >= b
<1>1. \E x \in {a, b} : \A y \in {a, b} : x >= y
  OBVIOUS
<1> QED
  BY <1>1 DEF Max

LEMMA EventsNatural == \A e \in Events : e \in Nat
BY DEF Events

\* The events of a run.
LEMMA BatchEvents ==
    ASSUME ReflectedInv, NEW p \in Processes, Working(p)
    PROVE  /\ \A i \in 1..Len(worker[p].batch) : worker[p].batch[i] \in Nat
           /\ Current(p) \in Nat /\ Current(p) <= changes
<1>1. /\ worker[p].batch \in Seq(Events) /\ worker[p].batch # <<>>
      /\ \A i \in 1..Len(worker[p].batch) : worker[p].batch[i] <= changes
  BY DEF ReflectedInv, WorkerInv, Working
<1>2. \A i \in 1..Len(worker[p].batch) : worker[p].batch[i] \in Events
  BY <1>1
<1>3. Current(p) = worker[p].batch[1] /\ 1 \in 1..Len(worker[p].batch)
  BY <1>1 DEF Current
<1> QED
  BY <1>1, <1>2, <1>3, EventsNatural

\* A step that leaves the applied change and what was received alone and
\* processes no event keeps the invariant if it keeps that of the workers.
LEMMA WorkersOnly ==
    ASSUME ReflectedInv, UNCHANGED <<changes, applied, received>>,
           DOMAIN event' = Events, DOMAIN worker' = Processes,
           \A e \in Events : /\ DOMAIN event'[e] = Columns
                             /\ event'[e].status = "PROCESSED" => applied >= e,
           \A p \in Processes : WorkerInv(p)'
    PROVE  ReflectedInv'
BY DEF ReflectedInv

\* The worker of the process that steps, and the others'.
LEMMA OneWorker ==
    ASSUME ReflectedInv, NEW p \in Processes, NEW w, UNCHANGED <<changes, applied>>,
           worker' = [worker EXCEPT ![p] = w], WorkerInv(p)'
    PROVE  DOMAIN worker' = Processes /\ \A r \in Processes : WorkerInv(r)'
BY DEF ReflectedInv, WorkerInv, Current

LEMMA RestOfBatch ==
    ASSUME NEW batch \in Seq(Events), batch # <<>>, Len(batch) # 1
    PROVE  /\ Tail(batch) \in Seq(Events) /\ Tail(batch) # <<>>
           /\ \A i \in 1..Len(Tail(batch)) : i + 1 \in 1..Len(batch) /\ Tail(batch)[i] = batch[i + 1]
<1>1. Len(batch) \in Nat /\ Len(batch) # 0
  OBVIOUS
<1>2. Len(batch) > 1
  BY <1>1
<1>3. Tail(batch) \in Seq(Events) /\ Len(Tail(batch)) = Len(batch) - 1
  OBVIOUS
<1>4. Tail(batch) # <<>>
  <2>1. Len(<<>>) = 0
    OBVIOUS
  <2>2. Len(Tail(batch)) # 0
    BY <1>1, <1>2, <1>3
  <2> QED
    BY <2>1, <2>2, Zenon
<1> QED
  BY <1>1, <1>3, <1>4

LEMMA AdvancedInv ==
    ASSUME ReflectedInv, NEW p \in Processes, Working(p), UNCHANGED <<changes, applied>>,
           worker' = [worker EXCEPT ![p] = Advanced(@)]
    PROVE  DOMAIN worker' = Processes /\ \A r \in Processes : WorkerInv(r)'
<1>1. worker'[p] = Advanced(worker[p])
  BY DEF ReflectedInv
<1>2. /\ worker[p].batch \in Seq(Events) /\ worker[p].batch # <<>>
      /\ \A i \in 1..Len(worker[p].batch) : worker[p].batch[i] <= changes
      /\ DOMAIN worker[p] = Fields
  BY DEF ReflectedInv, WorkerInv, Working
<1>3. WorkerInv(p)'
  <2>1. CASE Len(worker[p].batch) = 1
    BY <1>1, <2>1 DEF Advanced, WorkerInv, IdleWorker, Fields
  <2>2. CASE Len(worker[p].batch) # 1
    <3>1. /\ Tail(worker[p].batch) \in Seq(Events) /\ Tail(worker[p].batch) # <<>>
          /\ \A i \in 1..Len(Tail(worker[p].batch)) : Tail(worker[p].batch)[i] <= changes
      BY <1>2, <2>2, RestOfBatch
    <3>2. /\ DOMAIN worker'[p] = Fields /\ worker'[p].stage = "BATCH"
          /\ worker'[p].batch = Tail(worker[p].batch)
      <4>1. worker'[p] = [worker[p] EXCEPT !.stage = "BATCH", !.batch = Tail(@), !.seen = Tail(@)]
        BY <1>1, <2>2 DEF Advanced
      <4> QED
        BY <1>2, <4>1 DEF Fields
    <3> QED
      BY <3>1, <3>2 DEF WorkerInv
  <2> QED
    BY <2>1, <2>2
<1>4. PICK w : worker' = [worker EXCEPT ![p] = w]
  OBVIOUS
<1> QED
  BY <1>3, <1>4, OneWorker

\* One lemma per step of the worker.
LEMMA ScanReflects ==
    ASSUME InboxAssumption, ReflectedInv, NEW p \in Processes, Scan(p)
    PROVE  ReflectedInv'
<1>1. PICK batch \in SeqOf(DueEvents, BatchSize) : \E seen :
        /\ batch # <<>>
        /\ worker' = [worker EXCEPT ![p] = [IdleWorker EXCEPT !.stage = "BATCH", !.batch = batch,
                                                              !.seen = seen]]
  BY DEF Scan
<1>2. UNCHANGED <<changes, applied, received, event>>
  BY DEF Scan
<1>3. batch \in Seq(Events) /\ \A i \in 1..Len(batch) : batch[i] <= changes
  <2>1. PICK m \in 0..BatchSize : batch \in [1..m -> DueEvents]
    BY <1>1 DEF SeqOf
  <2>2. batch \in Seq(DueEvents) /\ Len(batch) = m
    BY <2>1, InboxAssumption
  <2> QED
    BY <2>1, <2>2 DEF DueEvents, ReflectedInv
<1>4. WorkerInv(p)'
  <2>1. PICK seen :
          worker'[p] = [IdleWorker EXCEPT !.stage = "BATCH", !.batch = batch, !.seen = seen]
    BY <1>1 DEF ReflectedInv
  <2>2. /\ DOMAIN worker'[p] = Fields /\ worker'[p].stage = "BATCH" /\ worker'[p].batch = batch
    BY <2>1 DEF IdleWorker, Fields
  <2> QED
    BY <1>1, <1>2, <1>3, <2>2 DEF WorkerInv
<1>5. DOMAIN worker' = Processes /\ \A r \in Processes : WorkerInv(r)'
  BY <1>1, <1>2, <1>4, OneWorker
<1> QED
  BY <1>2, <1>5, WorkersOnly DEF ReflectedInv

\* A claim that fails leaves the row as it is.
LEMMA ClaimReflects ==
    ASSUME ReflectedInv, NEW p \in Processes, Claim(p)
    PROVE  ReflectedInv'
<1>1. UNCHANGED <<changes, applied, received>> /\ worker[p].stage = "BATCH"
  BY DEF Claim
<1>2. CASE worker' = [worker EXCEPT ![p] = Advanced(@)] /\ event' = event
  BY <1>1, <1>2, AdvancedInv, WorkersOnly DEF Working, ReflectedInv
<1>3. CASE /\ worker' = [worker EXCEPT ![p].stage = "CLAIMED"]
           /\ \E age, tries : event' = [event EXCEPT ![Current(p)].lockAge = age,
                                                     ![Current(p)].attempts = tries]
  <2>1. \A e \in Events : DOMAIN event'[e] = Columns /\ event'[e].status = event[e].status
    BY <1>3 DEF ReflectedInv, Columns
  <2>2. DOMAIN event' = Events
    BY <1>3 DEF ReflectedInv
  <2>3. worker' = [worker EXCEPT ![p] = [worker[p] EXCEPT !.stage = "CLAIMED"]]
    BY <1>3 DEF ReflectedInv
  <2>4. WorkerInv(p)'
    BY <1>1, <2>3 DEF ReflectedInv, WorkerInv, Fields
  <2> QED
    BY <1>1, <2>1, <2>2, <2>3, <2>4, OneWorker, WorkersOnly DEF ReflectedInv
<1> QED
  BY <1>2, <1>3 DEF Claim

\* The answer is read after the event it is asked for was received.
LEMMA AskReflects ==
    ASSUME ReflectedInv, NEW p \in Processes, AskProvider(p)
    PROVE  ReflectedInv'
<1>1. /\ UNCHANGED <<changes, applied, received, event>> /\ worker[p].stage = "CLAIMED"
      /\ worker' = [worker EXCEPT ![p] = [worker[p] EXCEPT !.stage = "READ", !.change = changes]]
  BY DEF AskProvider, ReflectedInv
<1>2. Current(p) <= changes
  BY <1>1 DEF Current, ReflectedInv, WorkerInv
<1>3. WorkerInv(p)'
  BY <1>1, <1>2 DEF ReflectedInv, WorkerInv, Fields, Current
<1> QED
  BY <1>1, <1>3, OneWorker, WorkersOnly DEF ReflectedInv

LEMMA ReconcileReflects ==
    ASSUME ReflectedInv, NEW p \in Processes, Reconcile(p)
    PROVE  ReflectedInv'
<1>1. /\ UNCHANGED <<changes, received, event>> /\ worker[p].stage = "READ"
      /\ applied' = Max({applied, worker[p].change})
      /\ worker' = [worker EXCEPT ![p] = [worker[p] EXCEPT !.stage = "APPLIED"]]
  BY DEF Reconcile, ReflectedInv
<1>2. worker[p].change \in Nat /\ worker[p].change >= Current(p) /\ applied \in Nat
  BY <1>1 DEF ReflectedInv, WorkerInv
<1>3. applied' \in Nat /\ applied' >= applied /\ applied' >= worker[p].change
  BY <1>1, <1>2, MaxOfTwo
<1>4. Current(p) \in Nat
  BY <1>1, BatchEvents DEF Working
<1>5. WorkerInv(p)'
  BY <1>1, <1>2, <1>3, <1>4 DEF ReflectedInv, WorkerInv, Fields, Current
<1>6. \A r \in Processes \ {p} : WorkerInv(r)'
  <2> SUFFICES ASSUME NEW r \in Processes \ {p} PROVE WorkerInv(r)'
    OBVIOUS
  <2>1. worker'[r] = worker[r] /\ changes' = changes
    BY <1>1 DEF ReflectedInv
  <2>2. worker[r].stage = "APPLIED" => Current(r) \in Nat
    BY BatchEvents DEF Working
  <2> QED
    BY <1>2, <1>3, <2>1, <2>2 DEF ReflectedInv, WorkerInv, Current
<1>7. \A e \in Events : event[e].status = "PROCESSED" => applied' >= e
  BY <1>2, <1>3 DEF ReflectedInv, Events
<1> QED
  BY <1>1, <1>3, <1>5, <1>6, <1>7 DEF ReflectedInv

\* Ending an attempt writes the row of the current event only.
LEMMA EndedReflects ==
    ASSUME ReflectedInv, NEW p \in Processes, MarkProcessed(p) \/ FailAttempt(p)
    PROVE  ReflectedInv'
<1>1. /\ UNCHANGED <<changes, applied, received>> /\ Working(p)
      /\ worker' = [worker EXCEPT ![p] = Advanced(@)]
  BY DEF MarkProcessed, FailAttempt, Working
<1>2. DOMAIN worker' = Processes /\ \A r \in Processes : WorkerInv(r)'
  BY <1>1, AdvancedInv
<1>3. DOMAIN event' = Events
  BY DEF MarkProcessed, FailAttempt, ReflectedInv
<1>4. ASSUME NEW e \in Events
      PROVE  /\ DOMAIN event'[e] = Columns
             /\ event'[e].status = "PROCESSED" => applied >= e
  <2>1. CASE MarkProcessed(p)
    <3>1. worker[p].stage = "APPLIED" /\ applied >= Current(p)
      BY <2>1 DEF MarkProcessed, ReflectedInv, WorkerInv
    <3>2. /\ DOMAIN event'[e] = Columns
          /\ event'[e].status = IF e = Current(p) THEN "PROCESSED" ELSE event[e].status
      BY <2>1 DEF MarkProcessed, ReflectedInv, Columns
    <3> QED
      BY <3>1, <3>2 DEF ReflectedInv
  <2>2. CASE FailAttempt(p)
    <3>1. /\ DOMAIN event'[e] = Columns
          /\ event'[e].status \in {event[e].status, "FAILED"}
      BY <2>2 DEF FailAttempt, ReflectedInv, Columns
    <3> QED
      BY <3>1 DEF ReflectedInv
  <2> QED
    BY <2>1, <2>2
<1> QED
  BY <1>1, <1>2, <1>3, <1>4, WorkersOnly

\* The provider changes, the route, the clock and the life of a process.
LEMMA OutsideReflects ==
    ASSUME ReflectedInv,
           \/ ProviderChanges \/ Tick \/ \E e \in Events : Receive(e)
           \/ \E p \in Processes : CrashServer(p)
           \/ UNCHANGED inboxVars
    PROVE  ReflectedInv'
<1>1. CASE ProviderChanges
  <2>1. changes' = changes + 1 /\ UNCHANGED <<applied, received, event, worker>>
    BY <1>1 DEF ProviderChanges
  <2>2. \A r \in Processes : WorkerInv(r)'
    <3> SUFFICES ASSUME NEW r \in Processes PROVE WorkerInv(r)'
      OBVIOUS
    <3>1. Working(r) =>
            \A i \in 1..Len(worker[r].batch) : worker[r].batch[i] \in Nat
      BY BatchEvents
    <3> QED
      BY <2>1, <3>1 DEF ReflectedInv, WorkerInv, Current, Working
  <2> QED
    BY <2>1, <2>2 DEF ReflectedInv, Events
<1>2. CASE Tick
  <2>1. UNCHANGED <<changes, applied, received>> /\ DOMAIN worker' = Processes /\ DOMAIN event' = Events
    BY <1>2 DEF Tick
  <2>2. \A e \in Events : DOMAIN event'[e] = Columns /\ event'[e].status = event[e].status
    BY <1>2 DEF Tick, ReflectedInv, Columns
  <2>3. ASSUME NEW r \in Processes PROVE WorkerInv(r)'
    <3>1. CASE Working(r)
      <4>1. PICK t : worker'[r] = [worker[r] EXCEPT !.elapsed = t]
        BY <1>2, <3>1 DEF Tick
      <4> QED
        BY <2>1, <4>1 DEF ReflectedInv, WorkerInv, Current, Fields
    <3>2. CASE ~Working(r)
      BY <1>2, <3>2 DEF Tick, WorkerInv, IdleWorker, Fields
    <3> QED
      BY <3>1, <3>2
  <2> QED
    BY <2>1, <2>2, <2>3, WorkersOnly DEF ReflectedInv
<1>3. ASSUME NEW e \in Events, Receive(e) PROVE ReflectedInv'
  <2>1. /\ UNCHANGED <<changes, applied, worker>> /\ e <= changes
        /\ \E n : received' = [received EXCEPT ![e] = n]
        /\ event' \in {event, ReceivedAgain(e)}
    BY <1>3 DEF Receive
  <2>2. DOMAIN received' = Events /\ \A q \in Events : received'[q] # 0 => q <= changes
    BY <2>1 DEF ReflectedInv
  <2>3. /\ DOMAIN event' = Events
        /\ \A q \in Events : /\ DOMAIN event'[q] = Columns
                             /\ event'[q].status \in {event[q].status, "PENDING"}
    BY <2>1 DEF ReceivedAgain, ReflectedInv, Columns
  <2>4. \A r \in Processes : WorkerInv(r)'
    BY <2>1 DEF ReflectedInv, WorkerInv, Current
  <2> QED
    BY <2>1, <2>2, <2>3, <2>4 DEF ReflectedInv
<1>4. ASSUME NEW p \in Processes, CrashServer(p) PROVE ReflectedInv'
  <2>1. UNCHANGED <<changes, applied, received, event>> /\ worker' = [worker EXCEPT ![p] = IdleWorker]
    BY <1>4 DEF CrashServer
  <2>2. WorkerInv(p)'
    BY <2>1 DEF ReflectedInv, WorkerInv, IdleWorker, Fields
  <2> QED
    BY <2>1, <2>2, OneWorker, WorkersOnly DEF ReflectedInv
<1>5. CASE UNCHANGED inboxVars
  BY <1>5 DEF inboxVars, ReflectedInv, WorkerInv, Current
<1> QED
  BY <1>1, <1>2, <1>3, <1>4, <1>5

LEMMA ReflectedInvNext == InboxAssumption /\ ReflectedInv /\ [Next]_vars => ReflectedInv'
<1> SUFFICES ASSUME InboxAssumption, ReflectedInv, [Next]_vars PROVE ReflectedInv'
  OBVIOUS
<1>1. ASSUME NEW p \in Processes, WorkerStep(p) PROVE ReflectedInv'
  BY <1>1, ScanReflects, ClaimReflects, AskReflects, ReconcileReflects, EndedReflects DEF WorkerStep
<1>2. CASE UNCHANGED vars
  BY <1>2, OutsideReflects DEF vars
<1> QED
  BY <1>1, <1>2, OutsideReflects DEF Next

\* An event is marked processed only when the shop's order shows the change
\* it told of: no crash between two steps, redelivery in the middle of one
\* or second process makes a run mark what it has not applied.
THEOREM ProcessedWasApplied == Spec => []ProcessedReflected
<1>1. ReflectedInv => ProcessedReflected
  BY DEF ReflectedInv, ProcessedReflected
<1> QED
  BY <1>1, InboxAssumption, ReflectedInvInit, ReflectedInvNext, PTL DEF Spec
=============================================================================
