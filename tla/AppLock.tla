------------------------------ MODULE AppLock ------------------------------
(***************************************************************************)
(* The start and the stop of the server (server.ts): the lock file that    *)
(* keeps a second process from using the same storage, taken by steps on   *)
(* the file system that other processes may come between, and left behind  *)
(* by a crash.  A process is named by its pid.                             *)
(***************************************************************************)
EXTENDS Naturals, FiniteSets

CONSTANTS
    Processes,   \* pids
    NoProcess,
    MaxStarting, \* processes the deployment starts at a time
    MaxCrashes,  \* bound: crashes of a process
    MaxStops     \* bound: orderly stops of a process

ASSUME ProcessesAssumption ==
    /\ IsFiniteSet(Processes)
    /\ NoProcess \notin Processes
    /\ {MaxStarting, MaxCrashes, MaxStops} \subseteq Nat

VARIABLES
    process, \* where each process stands
    lock,    \* app.lock: the process that created the file, and the pid written in it
    crashes, stops

lockVars == <<process, lock, crashes, stops>>

NoLock == [by |-> NoProcess, pid |-> NoProcess]
EmptyLock(p) == [by |-> p, pid |-> NoProcess]
Alive(p) == process[p] # "DOWN"
Running(p) == process[p] \in {"RUNNING", "STOPPING"}
Starting == {p \in Processes : process[p] \in {"REFUSED", "STALE", "UNLINKED", "CREATED"}}
Become(p, stage) == process' = [process EXCEPT ![p] = stage]

LockTypeOK ==
    /\ process \in [Processes -> {"DOWN", "REFUSED", "STALE", "UNLINKED", "CREATED", "RUNNING", "STOPPING"}]
    /\ lock \in [by: Processes \cup {NoProcess}, pid: Processes \cup {NoProcess}]
    /\ crashes \in 0..MaxCrashes /\ stops \in 0..MaxStops

LockInit ==
    /\ process = [p \in Processes |-> "DOWN"]
    /\ lock = NoLock
    /\ crashes = 0 /\ stops = 0

-----------------------------------------------------------------------------

\* writeLock: the file is created only when there is none.
OpenLock(p, otherwise) ==
    IF lock = NoLock
    THEN Become(p, "CREATED") /\ lock' = EmptyLock(p)
    ELSE Become(p, otherwise) /\ UNCHANGED lock

Start(p) ==
    /\ process[p] = "DOWN"
    /\ Cardinality(Starting) < MaxStarting
    /\ OpenLock(p, "REFUSED")
    /\ UNCHANGED <<crashes, stops>>

\* The pid is written after the file is created; main() goes on from there.
WriteLock(p) ==
    /\ process[p] = "CREATED"
    /\ lock' = IF lock.by = p THEN [lock EXCEPT !.pid = p] ELSE lock
    /\ Become(p, "RUNNING")
    /\ UNCHANGED <<crashes, stops>>

\* Wrong form of Stale: the owner's process is not looked for.
StaleUnlessOwn(p) == lock.pid \notin {NoProcess, p}

\* The owner that the file names has gone.
Stale(p) == lock.pid \notin {NoProcess, p} /\ ~Alive(lock.pid)

ReadLock(p) ==
    /\ process[p] = "REFUSED"
    /\ Become(p, IF Stale(p) THEN "STALE" ELSE "DOWN")
    /\ UNCHANGED <<lock, crashes, stops>>

UnlinkStale(p) ==
    /\ process[p] = "STALE"
    /\ lock' = NoLock
    /\ Become(p, "UNLINKED")
    /\ UNCHANGED <<crashes, stops>>

ReopenLock(p) ==
    /\ process[p] = "UNLINKED"
    /\ OpenLock(p, "DOWN")
    /\ UNCHANGED <<crashes, stops>>

\* shutdown(): the timers are stopped, then the lock is removed once no job is active.
Stop(p) ==
    /\ process[p] = "RUNNING"
    /\ stops < MaxStops
    /\ stops' = stops + 1
    /\ Become(p, "STOPPING")
    /\ UNCHANGED <<lock, crashes>>

ReleaseLock(p) ==
    /\ process[p] = "STOPPING"
    /\ lock' = NoLock
    /\ Become(p, "DOWN")
    /\ UNCHANGED <<crashes, stops>>

Crash(p) ==
    /\ Alive(p)
    /\ crashes < MaxCrashes
    /\ crashes' = crashes + 1
    /\ Become(p, "DOWN")
    /\ UNCHANGED <<lock, stops>>

StartStep(p) == Start(p) \/ WriteLock(p) \/ ReadLock(p) \/ UnlinkStale(p) \/ ReopenLock(p)

-----------------------------------------------------------------------------

\* At most one process uses the database and the storage (README.md: "una
\* sola instancia"; the comment of acquireLock says a process that loses
\* the race for a stale lock does not start).
SingleProcess == \A p, r \in Processes : Running(p) /\ Running(r) => p = r

\* A lock without a pid whose creator is gone: every start refuses it.
Orphaned == lock # NoLock /\ lock.pid = NoProcess /\ ~Alive(lock.by)

=============================================================================
