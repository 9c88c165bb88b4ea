----------------------------- MODULE QemuIothread -----------------------------
(***************************************************************************)
(* state() of src/connectors/flow-qemu-bridge/src/cpu.rs against the QEMU  *)
(* threads that share QEMU's iothread mutex.                               *)
(*                                                                         *)
(* state() resolves qemu_mutex_lock_iothread_impl (Option::unwrap), takes  *)
(* the iothread lock, then resolves qemu_mutex_unlock_iothread (unwrap)    *)
(* and releases it.  The symbols are looked up when the bridge is loaded   *)
(* into QEMU, so each may be missing.  QEMU's own threads (main loop,      *)
(* vCPUs) take and release the same mutex; they are the environment.       *)
(***************************************************************************)
EXTENDS Naturals

CONSTANTS
    Threads,                \* QEMU threads using the iothread lock
    Bridge,                 \* model value: the thread running state()
    Free,                   \* model value: the mutex is not held
    UnlockSymbolChoices,    \* whether QEMU_MUTEX_UNLOCK_IOTHREAD resolved
    MaxCalls                \* bound on calls of state()

ASSUME /\ UnlockSymbolChoices \subseteq BOOLEAN
       /\ MaxCalls \in Nat

VARIABLES
    holder,     \* the thread holding the iothread mutex, or Free
    pc,         \* [Threads -> {"idle", "waiting", "holding"}]
    bpc,        \* the bridge: "idle", "waiting", "locked" or "panicked"
    calls,      \* calls of state() made
    lockSym,    \* QEMU_MUTEX_LOCK_IOTHREAD_IMPL is Some
    unlockSym   \* QEMU_MUTEX_UNLOCK_IOTHREAD is Some

vars == <<holder, pc, bpc, calls, lockSym, unlockSym>>

Init ==
    /\ holder = Free
    /\ pc = [t \in Threads |-> "idle"]
    /\ bpc = "idle"
    /\ calls = 0
    /\ lockSym \in BOOLEAN
    /\ unlockSym \in UnlockSymbolChoices

-----------------------------------------------------------------------------
(* QEMU's threads.                                                         *)

QemuRequest(t) ==
    /\ pc[t] = "idle"
    /\ pc' = [pc EXCEPT ![t] = "waiting"]
    /\ UNCHANGED <<holder, bpc, calls, lockSym, unlockSym>>

QemuAcquire(t) ==
    /\ pc[t] = "waiting" /\ holder = Free
    /\ holder' = t
    /\ pc' = [pc EXCEPT ![t] = "holding"]
    /\ UNCHANGED <<bpc, calls, lockSym, unlockSym>>

QemuRelease(t) ==
    /\ pc[t] = "holding"
    /\ holder' = Free
    /\ pc' = [pc EXCEPT ![t] = "idle"]
    /\ UNCHANGED <<bpc, calls, lockSym, unlockSym>>

-----------------------------------------------------------------------------
(* state().                                                                *)

\* Mutant: `QEMU_MUTEX_UNLOCK_IOTHREAD.unwrap();` without the call: the
\* symbol is checked but the mutex is never released.
StateUnlockNotCalled ==
    /\ bpc = "locked"
    /\ bpc' = IF unlockSym THEN "idle" ELSE "panicked"
    /\ UNCHANGED <<holder, pc, calls, lockSym, unlockSym>>

\* Entering state(): QEMU_MUTEX_LOCK_IOTHREAD_IMPL.unwrap() panics if the
\* symbol is missing; otherwise the call of the lock function begins.
StateEnter ==
    /\ bpc = "idle" /\ calls < MaxCalls
    /\ calls' = calls + 1
    /\ bpc' = IF lockSym THEN "waiting" ELSE "panicked"
    /\ UNCHANGED <<holder, pc, lockSym, unlockSym>>

\* qemu_mutex_lock_iothread_impl returns once the mutex is ours.
StateLocked ==
    /\ bpc = "waiting" /\ holder = Free
    /\ holder' = Bridge
    /\ bpc' = "locked"
    /\ UNCHANGED <<pc, calls, lockSym, unlockSym>>

\* QEMU_MUTEX_UNLOCK_IOTHREAD.unwrap()(): a missing symbol panics the bridge
\* thread while it holds the mutex; otherwise the mutex is released and
\* state() returns Ok(()).
StateUnlock ==
    /\ bpc = "locked"
    /\ holder' = IF unlockSym THEN Free ELSE holder
    /\ bpc' = IF unlockSym THEN "idle" ELSE "panicked"
    /\ UNCHANGED <<pc, calls, lockSym, unlockSym>>

Next ==
    \/ \E t \in Threads : QemuRequest(t) \/ QemuAcquire(t) \/ QemuRelease(t)
    \/ StateEnter \/ StateLocked \/ StateUnlock

\* A holder leaves its critical section, and a free mutex goes to one of its
\* waiters (WF of the acquisitions as a whole, not of each thread: a
\* pthread mutex does not promise which waiter gets it).  The bridge thread
\* runs state() to its end once it has started.
Fairness ==
    /\ \A t \in Threads : WF_vars(QemuRelease(t))
    /\ WF_vars(\E t \in Threads : QemuAcquire(t))
    /\ WF_vars(StateLocked) /\ WF_vars(StateUnlock)

Spec == Init /\ [][Next]_vars /\ Fairness

-----------------------------------------------------------------------------
(* Properties.                                                             *)

\* Whatever state() does, a QEMU thread waiting for the iothread lock is
\* eventually followed by some QEMU thread holding it: the bridge never
\* keeps QEMU's main loop and vCPUs out for good.
QemuThreadsProgress ==
    (\E t \in Threads : pc[t] = "waiting") ~> (\E t \in Threads : pc[t] = "holding")
=============================================================================
