---------------------------- MODULE DeviceLease ----------------------------
(***************************************************************************)
(* DeviceLeaseManager of execution_control/device_lease.py: one asyncio    *)
(* lock per device key, waited for by tasks that race it against the       *)
(* cancellation of their run and may be cancelled themselves.              *)
(*                                                                         *)
(* An action is what one task does between two suspensions on the event    *)
(* loop. The tasks are the callers and, for each of them, the acquire task *)
(* and the watch task (wait_cancelled) that _acquire_lock creates; ready   *)
(* tasks may run in any order. asyncio.Lock and Task.cancel are modelled   *)
(* from the standard library they come from.                               *)
(***************************************************************************)
EXTENDS Integers, FiniteSets

CONSTANTS Callers,  \* the tasks that enter lease()
          Keys,     \* the device keys
          Entries,  \* the identities that _LeaseEntry objects can have
          NoEntry   \* no _LeaseEntry

ASSUME LeaseAssumption == /\ IsFiniteSet(Callers)
                          /\ NoEntry \notin Entries

VARIABLES
  entries,    \* _entries: the registered entry of a key, or NoEntry
  users,      \* _LeaseEntry.users
  locked,     \* _LeaseEntry.lock: is it locked
  pc,         \* where the caller is suspended
  key,        \* device_key of the caller
  mine,       \* the entry the caller refers to, or NoEntry
  scope,      \* the caller's probe: never cancelled, or an open or a
              \* cancelled scope
  acquire,    \* the acquire task
  ahead,      \* the futures before the acquire task's in the lock's deque
  watch,      \* the watch task
  thrown,     \* a CancelledError waits for the caller's next step
  cancelling  \* Task.cancelling() of the caller, counted in this lease

lockVars == <<entries, users, locked>>
vars == <<entries, users, locked, pc, key, mine, scope, acquire, ahead, watch,
          thrown, cancelling>>

(* racing: in asyncio.wait; awaiting: on the acquire task alone;           *)
(* reclaiming: in _cancel_acquire_task; settlingIn and settlingOut: in     *)
(* _cancel_and_settle, to return or to raise after it; holding: inside the *)
(* protected operation.                                                    *)
PCs == {"idle", "racing", "awaiting", "reclaiming", "settlingIn",
        "settlingOut", "holding"}

(* new: not started; waiting and woken: its future is pending, or has a    *)
(* result; doomed, unwaiting and unwoken: the same three, cancelled;       *)
(* granted and dropped: done, with the lock or cancelled.                  *)
InDeque       == {"waiting", "woken", "unwaiting", "unwoken"}
AcquireStates == InDeque \cup {"none", "new", "doomed", "granted", "dropped"}

Waiters(e) == {c \in Callers : mine[c] = e /\ acquire[c] \in InDeque}

Init ==
  /\ entries = [k \in Keys |-> NoEntry]
  /\ users = [e \in Entries |-> 0]
  /\ locked = [e \in Entries |-> FALSE]
  /\ pc = [c \in Callers |-> "idle"]
  /\ key \in [Callers -> Keys]
  /\ mine = [c \in Callers |-> NoEntry]
  /\ scope = [c \in Callers |-> "never"]
  /\ acquire = [c \in Callers |-> "none"]
  /\ ahead = [c \in Callers |-> {}]
  /\ watch = [c \in Callers |-> "none"]
  /\ thrown = [c \in Callers |-> FALSE]
  /\ cancelling = [c \in Callers |-> FALSE]

-----------------------------------------------------------------------------
(* The lock and the acquire task.                                          *)

(* The deque without the future of c.                                      *)
Dequeued(c) == [d \in Callers |-> IF d = c THEN {} ELSE ahead[d] \ {c}]

(* _wake_up_first: the first future of the deque gets a result if it is    *)
(* still pending.                                                          *)
WakeFirst(e, tasks, order) ==
  [d \in Callers |-> IF mine[d] = e /\ tasks[d] = "waiting" /\ order[d] = {}
                     THEN "woken" ELSE tasks[d]]

(* Lock.acquire takes a free lock at once, past cancelled futures only.    *)
AcquireStart(c) ==
  /\ acquire[c] = "new"
  /\ IF ~locked[mine[c]] /\ \A d \in Waiters(mine[c]) : acquire[d] = "unwaiting"
     THEN /\ acquire' = [acquire EXCEPT ![c] = "granted"]
          /\ locked' = [locked EXCEPT ![mine[c]] = TRUE]
          /\ UNCHANGED ahead
     ELSE /\ acquire' = [acquire EXCEPT ![c] = "waiting"]
          /\ ahead' = [ahead EXCEPT ![c] = Waiters(mine[c])]
          /\ UNCHANGED locked
  /\ UNCHANGED <<entries, users, pc, key, mine, scope, watch, thrown, cancelling>>

AcquireResume(c) ==
  /\ acquire[c] = "woken"
  /\ acquire' = [acquire EXCEPT ![c] = "granted"]
  /\ locked' = [locked EXCEPT ![mine[c]] = TRUE]
  /\ ahead' = Dequeued(c)
  /\ UNCHANGED <<entries, users, pc, key, mine, scope, watch, thrown, cancelling>>

(* The cancelled acquire task runs: a future of its own leaves the deque,  *)
(* and the next one is woken when the lock is free.                        *)
AcquireDropped(c) ==
  /\ acquire[c] \in {"doomed", "unwaiting", "unwoken"}
  /\ LET done == [acquire EXCEPT ![c] = "dropped"] IN
       /\ ahead' = Dequeued(c)
       /\ acquire' = IF acquire[c] = "doomed" \/ locked[mine[c]] THEN done
                     ELSE WakeFirst(mine[c], done, Dequeued(c))
  /\ UNCHANGED <<lockVars, pc, key, mine, scope, watch, thrown, cancelling>>

(* Task.cancel on the acquire task.                                        *)
Cancelled(state) == CASE state = "new"     -> "doomed"
                      [] state = "waiting" -> "unwaiting"
                      [] state = "woken"   -> "unwoken"
                      [] OTHER             -> state

(* wait_cancelled returns, or the watch task that was cancelled ends.      *)
WatchEnds(c) ==
  /\ \/ watch[c] = "pending" /\ scope[c] = "cancelled"
     \/ watch[c] = "cancelling"
  /\ watch' = [watch EXCEPT ![c] = "done"]
  /\ UNCHANGED <<lockVars, pc, key, mine, scope, acquire, ahead, thrown,
                 cancelling>>

-----------------------------------------------------------------------------
(* The caller.                                                             *)

(* A new _LeaseEntry is none of those still referred to.                   *)
Fresh(e) == /\ \A k \in Keys : entries[k] # e
            /\ \A c \in Callers : mine[c] # e

Start(c, k, s, e) ==
  /\ pc[c] = "idle"
  /\ entries' = [entries EXCEPT ![k] = e]
  /\ mine' = [mine EXCEPT ![c] = e]
  /\ pc' = [pc EXCEPT ![c] = IF s = "never" THEN "awaiting" ELSE "racing"]
  /\ key' = [key EXCEPT ![c] = k]
  /\ scope' = [scope EXCEPT ![c] = s]
  /\ acquire' = [acquire EXCEPT ![c] = "new"]
  /\ watch' = [watch EXCEPT ![c] = IF s = "never" THEN "none" ELSE "pending"]
  /\ UNCHANGED <<ahead, thrown, cancelling>>

(* Which of the fresh identities it gets makes no difference: one stands   *)
(* for all of them.                                                        *)
NewEntry == CHOOSE e \in Entries : Fresh(e)

BeginFirst(c, k, s) ==
  \E e \in Entries : /\ Fresh(e)
                     /\ e = NewEntry
                     /\ users' = [users EXCEPT ![e] = 1]
                     /\ locked' = [locked EXCEPT ![e] = FALSE]
                     /\ Start(c, k, s, e)

(* Mutant: every caller brings a lock of its own.                          *)
BeginAlone(c, k, s) == BeginFirst(c, k, s)

(* lease up to the first suspension of _acquire_lock. A scope that is      *)
(* cancelled already, or an invalid key, is refused without any effect.    *)
Begin(c, k, s) ==
  \/ entries[k] = NoEntry /\ BeginFirst(c, k, s)
  \/ /\ entries[k] # NoEntry
     /\ users' = [users EXCEPT ![entries[k]] = @ + 1]
     /\ UNCHANGED locked
     /\ Start(c, k, s, entries[k])

(* lock.release, when the caller has the lock.                             *)
Unlock(c) ==
  IF acquire[c] = "granted"
  THEN /\ locked' = [locked EXCEPT ![mine[c]] = FALSE]
       /\ acquire' = WakeFirst(mine[c], [acquire EXCEPT ![c] = "none"], ahead)
  ELSE /\ acquire' = [acquire EXCEPT ![c] = "none"]
       /\ UNCHANGED locked

(* The caller is out: what it referred to and its locals are gone.         *)
Forget(c) ==
  /\ pc' = [pc EXCEPT ![c] = "idle"]
  /\ mine' = [mine EXCEPT ![c] = NoEntry]
  /\ users' = [users EXCEPT ![mine[c]] = @ - 1]
  /\ scope' = [scope EXCEPT ![c] = "never"]
  /\ watch' = [watch EXCEPT ![c] = "none"]
  /\ thrown' = [thrown EXCEPT ![c] = FALSE]
  /\ cancelling' = [cancelling EXCEPT ![c] = FALSE]
  /\ UNCHANGED <<key, ahead>>

(* Mutant: the entry stays.                                                *)
DepartForgetful(c) == Forget(c) /\ UNCHANGED entries

(* The finally clause of lease, after the lock has been released.          *)
Depart(c) ==
  /\ Forget(c)
  /\ entries' = IF /\ users[mine[c]] = 1
                   /\ ~locked'[mine[c]]
                   /\ entries[key[c]] = mine[c]
                THEN [entries EXCEPT ![key[c]] = NoEntry]
                ELSE entries

(* The exception leaves _acquire_lock. _cancel_and_settle does not suspend *)
(* on a watch task that is done.                                           *)
Raise(c) ==
  IF watch[c] = "pending"
  THEN /\ pc' = [pc EXCEPT ![c] = "settlingOut"]
       /\ watch' = [watch EXCEPT ![c] = "cancelling"]
       /\ thrown' = [thrown EXCEPT ![c] = FALSE]
       /\ UNCHANGED <<entries, users, key, mine, scope, ahead, cancelling>>
  ELSE Depart(c)

Reclaim(c) ==
  /\ pc' = [pc EXCEPT ![c] = "reclaiming"]
  /\ acquire' = [acquire EXCEPT ![c] = Cancelled(@)]
  /\ thrown' = [thrown EXCEPT ![c] = FALSE]
  /\ UNCHANGED <<lockVars, key, mine, scope, ahead, watch, cancelling>>

(* Mutant: a lock that was acquired is not released.                       *)
FailWithLock(c) ==
  IF acquire[c] \in {"granted", "dropped"}
  THEN acquire' = [acquire EXCEPT ![c] = "none"] /\ UNCHANGED locked /\ Raise(c)
  ELSE Reclaim(c)

(* The except clause of _acquire_lock: an acquire task that is not done is *)
(* cancelled and waited for; a lock it has is released.                    *)
Fail(c) == IF acquire[c] \in {"granted", "dropped"}
           THEN Unlock(c) /\ Raise(c)
           ELSE Reclaim(c)

(* Mutant: asyncio.wait without the watch task.                            *)
ReadyOnLock(c) == thrown[c] \/ acquire[c] \in {"granted", "dropped"}

(* What the caller is suspended on is done, or it has been cancelled.      *)
Ready(c) == thrown[c] \/ acquire[c] \in {"granted", "dropped"} \/ watch[c] = "done"

(* Mutant: the cancellation is not checked after the acquisition.          *)
MustFailUnchecked(c) == thrown[c] \/ acquire[c] = "dropped"

(* The cancellation of the run, or of the caller, wins over the lock.      *)
MustFail(c) == thrown[c] \/ acquire[c] = "dropped" \/ scope[c] = "cancelled"

Resumes(c) == pc[c] \in {"racing", "awaiting"} /\ Ready(c)

GiveUp(c) == Resumes(c) /\ MustFail(c) /\ Fail(c)

Acquired(c) ==
  /\ Resumes(c)
  /\ ~MustFail(c)
  /\ IF watch[c] = "none"
     THEN pc' = [pc EXCEPT ![c] = "holding"] /\ UNCHANGED watch
     ELSE /\ pc' = [pc EXCEPT ![c] = "settlingIn"]
          /\ watch' = [watch EXCEPT ![c] = "cancelling"]
  /\ UNCHANGED <<lockVars, key, mine, scope, acquire, ahead, thrown, cancelling>>

(* The acquire task has ended; its CancelledError is swallowed, and the    *)
(* exception of the except clause goes on.                                 *)
Reclaimed(c) ==
  /\ pc[c] = "reclaiming"
  /\ acquire[c] \in {"granted", "dropped"}
  /\ Unlock(c)
  /\ Raise(c)

(* The watch task has ended; any CancelledError is suppressed, also one    *)
(* that was meant for the caller.                                          *)
SettledIn(c) ==
  /\ pc[c] = "settlingIn"
  /\ watch[c] = "done"
  /\ pc' = [pc EXCEPT ![c] = "holding"]
  /\ UNCHANGED <<lockVars, key, mine, scope, acquire, ahead, watch, thrown,
                 cancelling>>

SettledOut(c) ==
  /\ pc[c] = "settlingOut"
  /\ watch[c] = "done"
  /\ Unlock(c)
  /\ Depart(c)

(* The protected operation returns, raises or is cancelled.                *)
EndOperation(c) ==
  /\ pc[c] = "holding"
  /\ Unlock(c)
  /\ Depart(c)

CancelScope(c) ==
  /\ pc[c] # "idle"
  /\ scope[c] = "open"
  /\ scope' = [scope EXCEPT ![c] = "cancelled"]
  /\ UNCHANGED <<lockVars, pc, key, mine, acquire, ahead, watch, thrown, cancelling>>

(* Task.cancel on the caller: a time limit, or a sibling that failed. It   *)
(* reaches the caller through the task it is suspended on, if that task is *)
(* not done.                                                               *)
CancelCaller(c) ==
  /\ pc[c] # "idle"
  /\ cancelling' = [cancelling EXCEPT ![c] = TRUE]
  /\ IF pc[c] = "awaiting" /\ acquire[c] \notin {"granted", "dropped"}
     THEN acquire' = [acquire EXCEPT ![c] = Cancelled(@)] /\ UNCHANGED thrown
     ELSE /\ thrown' = [thrown EXCEPT ![c] = @ \/ pc[c] \in {"racing", "awaiting"}]
          /\ UNCHANGED acquire
  /\ UNCHANGED <<lockVars, pc, key, mine, scope, ahead, watch>>

-----------------------------------------------------------------------------
AcquireTask(c) == AcquireStart(c) \/ AcquireResume(c) \/ AcquireDropped(c)

CallerTask(c) ==
  GiveUp(c) \/ Acquired(c) \/ Reclaimed(c) \/ SettledIn(c) \/ SettledOut(c)

Next == \E c \in Callers :
  \/ \E k \in Keys, s \in {"never", "open"} : Begin(c, k, s)
  \/ AcquireTask(c) \/ WatchEnds(c) \/ CallerTask(c) \/ EndOperation(c)
  \/ CancelScope(c) \/ CancelCaller(c)

Spec == Init /\ [][Next]_vars

(* The event loop runs every task that is ready.                           *)
LoopFairness == \A c \in Callers : /\ WF_vars(AcquireTask(c))
                                   /\ WF_vars(WatchEnds(c))
                                   /\ WF_vars(CallerTask(c))

(* Device operations end: each has a time limit of its own.                *)
OperationsEnd == \A c \in Callers : WF_vars(EndOperation(c))

FairSpec == Spec /\ LoopFairness /\ OperationsEnd

-----------------------------------------------------------------------------
TypeOK ==
  /\ entries \in [Keys -> Entries \cup {NoEntry}]
  /\ users \in [Entries -> Nat]
  /\ locked \in [Entries -> BOOLEAN]
  /\ pc \in [Callers -> PCs]
  /\ key \in [Callers -> Keys]
  /\ mine \in [Callers -> Entries \cup {NoEntry}]
  /\ scope \in [Callers -> {"never", "open", "cancelled"}]
  /\ acquire \in [Callers -> AcquireStates]
  /\ ahead \in [Callers -> SUBSET Callers]
  /\ watch \in [Callers -> {"none", "pending", "cancelling", "done"}]
  /\ thrown \in [Callers -> BOOLEAN]
  /\ cancelling \in [Callers -> BOOLEAN]

(* PYTHON_CANCELLATION_AND_DEVICE_LEASES.md, 42: operations using the same *)
(* device key are mutually exclusive, whichever cancellations, hand-overs  *)
(* and removals of entries came before.                                    *)
MutualExclusion ==
  \A c, d \in Callers : pc[c] = "holding" /\ pc[d] = "holding" /\ key[c] = key[d]
                         => c = d

(* The same document, 48: an entry is registered exactly as long as some   *)
(* caller of its device is inside lease.                                   *)
EntriesAreInUse ==
  \A k \in Keys : entries[k] # NoEntry <=> \E c \in Callers : pc[c] # "idle" /\ key[c] = k

(* No cancellation leaks a lock: a lock that is locked was granted to one  *)
(* caller that is still inside lease and will release it.                  *)
LocksHaveOwners ==
  \A e \in Entries : locked[e] /\ (\E k \in Keys : entries[k] = e) =>
    \E c \in Callers : mine[c] = e /\ acquire[c] = "granted"

(* Neither a lock nor an entry outlives its callers.                       *)
NothingLeaks == EntriesAreInUse /\ LocksHaveOwners

(* The same document, 45 and 46: a caller whose scope is cancelled while   *)
(* it waits never enters, also when the lock was granted first.            *)
CancelledScopeStaysOut ==
  [][\A c \in Callers : pc[c] \in {"racing", "awaiting", "reclaiming"} /\ scope[c] = "cancelled"
       => pc'[c] \in {"racing", "awaiting", "reclaiming", "settlingOut", "idle"}]_vars

(* A waiter is let in or gives up, however the others are cancelled: no    *)
(* wake-up is lost.                                                        *)
EveryWaiterIsServed ==
  \A c \in Callers : (pc[c] \in {"racing", "awaiting"}) ~> (pc[c] \in {"idle", "holding"})

(* A waiter of a cancelled run leaves although the holder may never end:   *)
(* until it is out, some task of its own can take its next step.           *)
CancelledWaiterIsNeverBlocked ==
  \A c \in Callers : pc[c] \notin {"idle", "holding"} /\ scope[c] = "cancelled"
    => ENABLED (AcquireTask(c) \/ WatchEnds(c) \/ CallerTask(c))

(* Per-device mutual exclusion, carried out by tasks and a lock.           *)
Mutex == INSTANCE DeviceMutex WITH
           state  <- [c \in Callers |-> IF pc[c] \in {"idle", "holding"}
                                        THEN IF pc[c] = "idle" THEN "out" ELSE "holding"
                                        ELSE "waiting"],
           device <- key

ImplementsDeviceMutex == Mutex!Spec
=============================================================================
