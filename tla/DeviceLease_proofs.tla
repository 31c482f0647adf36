------------------------- MODULE DeviceLease_proofs -------------------------
(***************************************************************************)
(* Proofs about DeviceLease, for any finite set of callers and any keys:   *)
(* the leases of one device exclude each other, no cancellation leaks a    *)
(* lock or an entry, and the tasks implement DeviceMutex.                  *)
(***************************************************************************)
EXTENDS DeviceLease, FiniteSetTheorems, TLAPS

(* A caller refers to an entry exactly while it is inside lease, to the    *)
(* registered entry of its key; an entry is registered for one key.        *)
OneEntryPerKey ==
  /\ \A c \in Callers : /\ pc[c] = "idle" <=> mine[c] = NoEntry
                        /\ pc[c] = "idle" => acquire[c] = "none"
                        /\ mine[c] # NoEntry => entries[key[c]] = mine[c]
  /\ \A k, j \in Keys : entries[k] = entries[j] /\ entries[k] # NoEntry => k = j

Users(e) == {c \in Callers : mine[c] = e}

(* users counts the callers that refer to the entry; a registered entry    *)
(* has some.                                                               *)
UsersAreCounted ==
  /\ \A e \in Entries : users[e] = Cardinality(Users(e))
  /\ \A k \in Keys : entries[k] # NoEntry => \E c \in Callers : mine[c] = entries[k]

(* A granted lock is locked, and granted to one caller only; a locked one  *)
(* is granted.                                                             *)
OneOwner ==
  /\ \A c \in Callers : acquire[c] = "granted" => locked[mine[c]]
  /\ \A c, d \in Callers :
       acquire[c] = "granted" /\ acquire[d] = "granted" /\ mine[c] = mine[d] => c = d
  /\ LocksHaveOwners

(* The lock is only handed over to the head of its deque, and is free      *)
(* until the head takes it; a deque is totally ordered.                    *)
OrderlyHandover ==
  /\ \A c \in Callers :
       acquire[c] \in {"woken", "unwoken"} => ~locked[mine[c]] /\ ahead[c] = {}
  /\ \A c, d \in Callers :
       /\ c # d
       /\ mine[c] = mine[d]
       /\ acquire[c] \in InDeque
       /\ acquire[d] \in InDeque
       => c \in ahead[d] \/ d \in ahead[c]

(* A caller that goes in has the lock; one that goes out has not.          *)
StagesAgree ==
  \A c \in Callers :
    /\ pc[c] \in {"settlingIn", "holding"} => acquire[c] = "granted"
    /\ pc[c] = "settlingOut" => acquire[c] = "none"
    /\ pc[c] \in {"racing", "awaiting", "reclaiming"} => acquire[c] # "none"

(* What the grants and the deques are preserved by.                        *)
Locking == OneEntryPerKey /\ OneOwner /\ OrderlyHandover /\ StagesAgree

IInv == TypeOK /\ Locking /\ UsersAreCounted

(* While a caller waits for its lock, its watch task only ends because its *)
(* scope is cancelled.                                                     *)
WatchFollowsScope ==
  \A c \in Callers : pc[c] \in {"racing", "awaiting", "reclaiming"} =>
    watch[c] # "cancelling" /\ (watch[c] = "done" => scope[c] = "cancelled")

-----------------------------------------------------------------------------
(* The callers that refer to an entry are finitely many.                   *)
LEMMA UsersFinite == \A e \in Entries : IsFiniteSet(Users(e))
  BY LeaseAssumption, FS_Subset DEF Users

(* An entry that somebody refers to has a positive count, and a count of   *)
(* one leaves nobody else.                                                 *)
LEMMA CountOfUsers ==
  ASSUME TypeOK, UsersAreCounted, NEW c \in Callers, mine[c] # NoEntry
  PROVE  /\ users[mine[c]] \in Nat \ {0}
         /\ users[mine[c]] = 1 => \A d \in Callers : mine[d] = mine[c] => d = c
<1> DEFINE e == mine[c]
<1>1. e \in Entries /\ c \in Users(e) /\ IsFiniteSet(Users(e))
  BY UsersFinite DEF TypeOK, Users
<1>2. Users(e) # {} /\ Cardinality(Users(e)) = users[e]
  BY <1>1 DEF UsersAreCounted
<1>3. users[e] \in Nat \ {0}
  BY <1>1, <1>2, FS_EmptySet, FS_CardinalityType
<1>4. ASSUME users[e] = 1 PROVE \A d \in Callers : mine[d] = mine[c] => d = c
  <2>1. PICK x : Users(e) = {x}
    BY <1>1, <1>2, <1>4, FS_Singleton
  <2> QED BY <2>1, <1>1 DEF Users
<1> QED BY <1>3, <1>4

(* A step that leaves the references alone leaves their counts alone.      *)
LEMMA CountUnchanged ==
  ASSUME UsersAreCounted, UNCHANGED <<mine, users, entries>>
  PROVE  UsersAreCounted'
BY DEF UsersAreCounted, Users

(* Locking or unlocking one entry leaves the others as they are.           *)
LEMMA LockUpdate ==
  ASSUME NEW f \in [Entries -> BOOLEAN], NEW e \in Entries, NEW b \in BOOLEAN,
         NEW g, g = [f EXCEPT ![e] = b]
  PROVE  /\ g \in [Entries -> BOOLEAN]
         /\ g[e] = b
         /\ \A d \in Entries : d # e => g[d] = f[d]
  BY Zenon

(* Setting or clearing one flag keeps the flags a Boolean function.        *)
LEMMA FlagUpdate ==
  ASSUME NEW f \in [Callers -> BOOLEAN], NEW c, NEW b \in BOOLEAN
  PROVE  [f EXCEPT ![c] = b] \in [Callers -> BOOLEAN]
  BY Zenon

(* A step of the acquire task.                                             *)
LEMMA StartStep ==
  ASSUME IInv, NEW c \in Callers, AcquireStart(c) PROVE IInv'
<1> USE DEF IInv, InDeque, AcquireStates
<1>1. pc[c] # "idle" /\ mine[c] \in Entries /\ acquire[c] = "new"
  BY DEF TypeOK, Locking, OneEntryPerKey, AcquireStart
<1>2. UNCHANGED <<entries, users, pc, key, mine, scope, watch, thrown, cancelling>>
  BY DEF AcquireStart
<1>3. CASE ~locked[mine[c]] /\ \A d \in Waiters(mine[c]) : acquire[d] = "unwaiting"
  <2>1. acquire' = [acquire EXCEPT ![c] = "granted"] /\ ahead' = ahead
        /\ locked' = [locked EXCEPT ![mine[c]] = TRUE]
    BY <1>3 DEF AcquireStart
  <2>2. /\ locked' \in [Entries -> BOOLEAN]
        /\ locked'[mine[c]] = TRUE
        /\ \A d \in Entries : d # mine[c] => locked'[d] = locked[d]
    BY <1>1, <2>1, LockUpdate DEF TypeOK
  <2>3. TypeOK'
    BY <1>1, <1>2, <2>1, <2>2 DEF TypeOK
  <2>4. OneOwner'
    BY <1>1, <1>2, <1>3, <2>1, <2>2 DEF Locking, OneOwner, LocksHaveOwners, TypeOK, OneEntryPerKey
  <2>5. OrderlyHandover'
    BY <1>1, <1>2, <1>3, <2>1, <2>2 DEF Locking, OrderlyHandover, Waiters, TypeOK, OneEntryPerKey
  <2> QED BY <1>1, <1>2, <2>1, <2>3, <2>4, <2>5, CountUnchanged
       DEF Locking, OneEntryPerKey, StagesAgree, TypeOK
<1>4. CASE ~(~locked[mine[c]] /\ \A d \in Waiters(mine[c]) : acquire[d] = "unwaiting")
  <2>1. acquire' = [acquire EXCEPT ![c] = "waiting"] /\ locked' = locked
        /\ ahead' = [ahead EXCEPT ![c] = Waiters(mine[c])]
    BY <1>4 DEF AcquireStart
  <2>2. TypeOK'
    BY <1>1, <1>2, <2>1 DEF TypeOK, Waiters
  <2>3. OneOwner'
    BY <1>1, <1>2, <2>1 DEF Locking, OneOwner, LocksHaveOwners, TypeOK
  <2>4. OrderlyHandover'
    BY <1>1, <1>2, <2>1 DEF Locking, OrderlyHandover, Waiters, TypeOK
  <2> QED BY <1>1, <1>2, <2>1, <2>2, <2>3, <2>4, CountUnchanged
       DEF Locking, OneEntryPerKey, StagesAgree, TypeOK
<1> QED BY <1>3, <1>4

LEMMA ResumeStep ==
  ASSUME IInv, NEW c \in Callers, AcquireResume(c) PROVE IInv'
<1> USE DEF IInv, AcquireResume, InDeque, AcquireStates, Dequeued
<1>1. pc[c] # "idle" /\ mine[c] \in Entries
  BY DEF TypeOK, Locking, OneEntryPerKey
<1>2. TypeOK'
  BY <1>1 DEF TypeOK
<1>3. OneEntryPerKey'
  BY <1>1 DEF Locking, OneEntryPerKey, TypeOK
<1>4. OneOwner'
  BY <1>1 DEF Locking, OneOwner, OrderlyHandover, LocksHaveOwners, TypeOK
<1>5. OrderlyHandover'
  BY <1>1 DEF Locking, OrderlyHandover, TypeOK
<1>6. StagesAgree'
  BY <1>1 DEF Locking, StagesAgree, TypeOK
<1>7. UsersAreCounted'
  BY CountUnchanged
<1> QED BY <1>2, <1>3, <1>4, <1>5, <1>6, <1>7 DEF Locking

LEMMA DroppedStep ==
  ASSUME IInv, NEW c \in Callers, AcquireDropped(c) PROVE IInv'
<1> USE DEF IInv, AcquireDropped, InDeque, AcquireStates, Dequeued, WakeFirst
<1>1. pc[c] # "idle" /\ mine[c] \in Entries
  BY DEF TypeOK, Locking, OneEntryPerKey
<1>2. TypeOK'
  BY <1>1 DEF TypeOK, lockVars
<1>3. OneEntryPerKey'
  BY <1>1 DEF Locking, OneEntryPerKey, TypeOK, lockVars
<1>4. OneOwner'
  BY <1>1 DEF Locking, OneOwner, LocksHaveOwners, TypeOK, lockVars
<1>5. OrderlyHandover'
  BY <1>1 DEF Locking, OrderlyHandover, TypeOK, lockVars
<1>6. StagesAgree'
  BY <1>1 DEF Locking, StagesAgree, TypeOK, lockVars
<1>7. UsersAreCounted'
  BY CountUnchanged DEF lockVars
<1> QED BY <1>2, <1>3, <1>4, <1>5, <1>6, <1>7 DEF Locking

(* Releasing a lock that the caller has wakes the head of the deque.       *)
LEMMA UnlockStep ==
  ASSUME IInv, NEW c \in Callers, mine[c] \in Entries, Unlock(c),
         acquire[c] \in {"granted", "dropped", "none"}
  PROVE  /\ locked' \in [Entries -> BOOLEAN]
         /\ acquire' \in [Callers -> AcquireStates]
         /\ acquire'[c] = "none"
         /\ \A d \in Callers : d # c =>
              \/ acquire'[d] = acquire[d]
              \/ /\ acquire[d] = "waiting" /\ acquire'[d] = "woken"
                 /\ mine[d] = mine[c] /\ ahead[d] = {}
                 /\ acquire[c] = "granted"
         /\ acquire[c] = "granted" => ~locked'[mine[c]]
         /\ acquire[c] # "granted" => locked' = locked
         /\ \A e \in Entries : e # mine[c] => locked'[e] = locked[e]
<1> USE DEF IInv, AcquireStates, InDeque
<1>1. CASE acquire[c] = "granted"
  <2>1. locked' = [locked EXCEPT ![mine[c]] = FALSE]
    BY <1>1 DEF Unlock
  <2>2. /\ locked' \in [Entries -> BOOLEAN]
        /\ locked'[mine[c]] = FALSE
        /\ \A e \in Entries : e # mine[c] => locked'[e] = locked[e]
    BY <2>1, LockUpdate DEF TypeOK
  <2> QED BY <1>1, <2>2 DEF Unlock, WakeFirst, TypeOK
<1>2. CASE acquire[c] # "granted"
  BY <1>2 DEF Unlock, TypeOK
<1> QED BY <1>1, <1>2

(* The acquire task is over and the caller goes out: lock first, entry     *)
(* after it.                                                               *)
LEMMA ExitStep ==
  ASSUME IInv, NEW c \in Callers, pc[c] # "idle", Unlock(c), Depart(c),
         acquire[c] \in {"granted", "dropped", "none"}
  PROVE  IInv'
<1> USE DEF IInv, AcquireStates, InDeque
<1> DEFINE Registered == \A k \in Keys : entries'[k] # NoEntry =>
                           \E d \in Callers : mine'[d] = entries'[k]
<1>0. PICK e \in Entries : e = mine[c]
  BY DEF TypeOK, Locking, OneEntryPerKey
<1>1. e = mine[c] /\ e # NoEntry /\ entries[key[c]] = e /\ key[c] \in Keys
  BY <1>0, LeaseAssumption DEF TypeOK, Locking, OneEntryPerKey
<1>2. /\ locked' \in [Entries -> BOOLEAN]
      /\ acquire' \in [Callers -> AcquireStates]
      /\ acquire'[c] = "none"
      /\ \A d \in Callers : d # c =>
           \/ acquire'[d] = acquire[d]
           \/ /\ acquire[d] = "waiting" /\ acquire'[d] = "woken"
              /\ mine[d] = e /\ ahead[d] = {}
              /\ acquire[c] = "granted"
      /\ acquire[c] = "granted" => ~locked'[e]
      /\ acquire[c] # "granted" => locked' = locked
      /\ \A x \in Entries : x # e => locked'[x] = locked[x]
  BY <1>1, UnlockStep
<1>3. /\ users[e] \in Nat \ {0}
      /\ users[e] = 1 => \A d \in Callers : mine[d] = e => d = c
  BY <1>1, CountOfUsers
<1>4. /\ pc' = [pc EXCEPT ![c] = "idle"]
      /\ mine' = [mine EXCEPT ![c] = NoEntry]
      /\ users' = [users EXCEPT ![e] = @ - 1]
      /\ UNCHANGED <<key, ahead>>
  BY <1>1 DEF Depart, Forget
<1>5. ASSUME users[e] = 1 PROVE OneEntryPerKey' /\ OneOwner' /\ Registered
  <2>1. ~locked'[e]
    BY <1>1, <1>2, <1>3, <1>5 DEF Locking, OneOwner, LocksHaveOwners
  <2>2. entries' = [entries EXCEPT ![key[c]] = NoEntry]
    BY <1>1, <1>5, <2>1 DEF Depart
  <2>3. \A d \in Callers : d # c => mine'[d] = mine[d] /\ mine[d] # e
    BY <1>3, <1>4, <1>5 DEF TypeOK
  <2>4. OneEntryPerKey'
    BY <1>1, <1>2, <1>4, <2>2, <2>3 DEF Locking, OneEntryPerKey, TypeOK
  <2>5. OneOwner'
    <3>1. \A d \in Callers : acquire'[d] = "granted" => locked'[mine'[d]]
      BY <1>1, <1>2, <1>4, <2>3 DEF Locking, OneOwner, OneEntryPerKey, TypeOK
    <3>2. \A x, y \in Callers : acquire'[x] = "granted" /\ acquire'[y] = "granted"
                                /\ mine'[x] = mine'[y] => x = y
      BY <1>1, <1>2, <1>4, <2>3 DEF Locking, OneOwner, TypeOK
    <3>3. ASSUME NEW x \in Entries, locked'[x], NEW k \in Keys, entries'[k] = x
          PROVE  \E d \in Callers : mine'[d] = x /\ acquire'[d] = "granted"
      <4>1. locked[x] /\ entries[k] = x /\ x # e
        BY <1>1, <1>2, <3>3, <2>2, LeaseAssumption DEF Locking, OneEntryPerKey, TypeOK
      <4>2. PICK d \in Callers : mine[d] = x /\ acquire[d] = "granted"
        BY <4>1 DEF Locking, OneOwner, LocksHaveOwners
      <4>3. d # c
        BY <1>1, <1>2, <4>1, <4>2, <3>3
      <4> QED BY <1>2, <2>3, <4>2, <4>3
    <3> QED BY <3>1, <3>2, <3>3 DEF OneOwner, LocksHaveOwners
  <2>6. Registered
    BY <1>1, <1>4, <2>2, <2>3 DEF UsersAreCounted, TypeOK, Locking, OneEntryPerKey
  <2> QED BY <2>4, <2>5, <2>6
<1>6. ASSUME users[e] # 1 PROVE OneEntryPerKey' /\ OneOwner' /\ Registered
  <2>1. entries' = entries
    BY <1>1, <1>6 DEF Depart
  <2>2. PICK another \in Callers : another # c /\ mine[another] = e
    <3>1. c \in Users(e) /\ IsFiniteSet(Users(e)) /\ Cardinality(Users(e)) = users[e]
      BY <1>1, UsersFinite DEF Users, UsersAreCounted
    <3>2. Users(e) # {c}
      BY <3>1, <1>6, FS_Singleton
    <3> QED BY <3>1, <3>2 DEF Users
  <2>3. \A x \in Callers : x # c => mine'[x] = mine[x]
    BY <1>4 DEF TypeOK
  <2>4. OneEntryPerKey'
    BY <1>1, <1>2, <1>4, <2>1, <2>3 DEF Locking, OneEntryPerKey, TypeOK
  <2>5. OneOwner'
    <3>1. \A d \in Callers : acquire'[d] = "granted" => locked'[mine'[d]]
      BY <1>1, <1>2, <1>4, <2>3 DEF Locking, OneOwner, OneEntryPerKey, TypeOK
    <3>2. \A x, y \in Callers : acquire'[x] = "granted" /\ acquire'[y] = "granted"
                                /\ mine'[x] = mine'[y] => x = y
      BY <1>1, <1>2, <1>4, <2>3 DEF Locking, OneOwner, TypeOK
    <3>3. ASSUME NEW x \in Entries, locked'[x], NEW k \in Keys, entries'[k] = x
          PROVE  \E d \in Callers : mine'[d] = x /\ acquire'[d] = "granted"
      <4>1. locked[x] /\ entries[k] = x
        BY <1>1, <1>2, <3>3, <2>1 DEF Locking, OneEntryPerKey, TypeOK
      <4>2. PICK d \in Callers : mine[d] = x /\ acquire[d] = "granted"
        BY <4>1 DEF Locking, OneOwner, LocksHaveOwners
      <4>3. d # c
        BY <1>1, <1>2, <4>1, <4>2, <3>3
      <4> QED BY <1>2, <2>3, <4>2, <4>3
    <3> QED BY <3>1, <3>2, <3>3 DEF OneOwner, LocksHaveOwners
  <2>6. Registered
    BY <1>1, <1>4, <2>1, <2>2, <2>3 DEF UsersAreCounted, TypeOK
  <2> QED BY <2>4, <2>5, <2>6
<1>7. OneEntryPerKey' /\ OneOwner' /\ Registered
  BY <1>5, <1>6
<1>8. \A x \in Entries : users'[x] = Cardinality(Users(x)')
  <2>1. ASSUME NEW x \in Entries, x # e PROVE users'[x] = Cardinality(Users(x)')
    <3>1. Users(x)' = Users(x)
      BY <1>1, <1>4, <2>1, LeaseAssumption DEF Users, TypeOK
    <3> QED BY <1>1, <1>4, <2>1, <3>1 DEF UsersAreCounted, TypeOK
  <2>2. users'[e] = Cardinality(Users(e)')
    <3>1. Users(e)' = Users(e) \ {c}
      BY <1>1, <1>4 DEF Users, TypeOK
    <3>2. c \in Users(e) /\ IsFiniteSet(Users(e)) /\ users[e] = Cardinality(Users(e))
      BY <1>1, UsersFinite DEF Users, UsersAreCounted
    <3>3. Cardinality(Users(e) \ {c}) = users[e] - 1
      BY <3>2, FS_RemoveElement
    <3> QED BY <1>1, <1>4, <3>1, <3>3 DEF TypeOK
  <2> QED BY <2>1, <2>2
<1>9. OrderlyHandover'
  <2>1. ASSUME NEW a \in Callers, acquire'[a] \in {"woken", "unwoken"}
        PROVE  ~locked'[mine'[a]] /\ ahead'[a] = {}
    BY <1>1, <1>2, <1>4, <2>1 DEF Locking, OrderlyHandover, OneOwner, OneEntryPerKey, TypeOK
  <2>2. ASSUME NEW a \in Callers, NEW b \in Callers, a # b, mine'[a] = mine'[b],
               acquire'[a] \in InDeque, acquire'[b] \in InDeque
        PROVE  a \in ahead'[b] \/ b \in ahead'[a]
    <3>1. a # c /\ b # c
      BY <1>2, <2>2
    <3> QED BY <1>1, <1>2, <1>4, <2>2, <3>1 DEF Locking, OrderlyHandover, TypeOK
  <2> QED BY <2>1, <2>2 DEF OrderlyHandover
<1>10. StagesAgree'
  BY <1>2, <1>4 DEF Locking, StagesAgree, TypeOK
<1>11. TypeOK'
  <2>1. /\ thrown' \in [Callers -> BOOLEAN]
        /\ cancelling' \in [Callers -> BOOLEAN]
    BY FlagUpdate DEF Depart, Forget, TypeOK
  <2>2. /\ scope' \in [Callers -> {"never", "open", "cancelled"}]
        /\ watch' \in [Callers -> {"none", "pending", "cancelling", "done"}]
    BY DEF Depart, Forget, TypeOK
  <2>3. users' \in [Entries -> Nat]
    BY <1>1, <1>3, <1>4 DEF TypeOK
  <2>4. entries' \in [Keys -> Entries \cup {NoEntry}]
    BY DEF Depart, TypeOK
  <2> QED BY <1>2, <1>4, <2>1, <2>2, <2>3, <2>4 DEF TypeOK, PCs
<1> QED BY <1>7, <1>8, <1>9, <1>10, <1>11 DEF Locking, UsersAreCounted

(* The acquire task is over, and the watch task is waited for.             *)
LEMMA WaitStep ==
  ASSUME IInv, NEW c \in Callers, pc[c] # "idle", Unlock(c),
         acquire[c] \in {"granted", "dropped"},
         pc' = [pc EXCEPT ![c] = "settlingOut"],
         watch' = [watch EXCEPT ![c] = "cancelling"],
         thrown' = [thrown EXCEPT ![c] = FALSE],
         UNCHANGED <<entries, users, key, mine, scope, ahead, cancelling>>
  PROVE  IInv'
<1> USE DEF IInv, AcquireStates, InDeque
<1>0. PICK e \in Entries : e = mine[c]
  BY DEF TypeOK, Locking, OneEntryPerKey
<1>1. e = mine[c] /\ e # NoEntry
  BY <1>0, LeaseAssumption
<1>2. /\ locked' \in [Entries -> BOOLEAN]
      /\ acquire' \in [Callers -> AcquireStates]
      /\ acquire'[c] = "none"
      /\ \A d \in Callers : d # c =>
           \/ acquire'[d] = acquire[d]
           \/ /\ acquire[d] = "waiting" /\ acquire'[d] = "woken"
              /\ mine[d] = e /\ ahead[d] = {}
              /\ acquire[c] = "granted"
      /\ acquire[c] = "granted" => ~locked'[e]
      /\ acquire[c] # "granted" => locked' = locked
      /\ \A x \in Entries : x # e => locked'[x] = locked[x]
  BY <1>1, UnlockStep
<1>3. OneEntryPerKey'
  BY <1>1, <1>2 DEF Locking, OneEntryPerKey, TypeOK
<1>4. OneOwner'
  <2>1. \A d \in Callers : acquire'[d] = "granted" => locked'[mine'[d]]
    BY <1>1, <1>2 DEF Locking, OneOwner, OneEntryPerKey, TypeOK
  <2>2. \A x, y \in Callers : acquire'[x] = "granted" /\ acquire'[y] = "granted"
                              /\ mine'[x] = mine'[y] => x = y
    BY <1>1, <1>2 DEF Locking, OneOwner, TypeOK
  <2>3. ASSUME NEW x \in Entries, locked'[x], NEW k \in Keys, entries'[k] = x
        PROVE  \E d \in Callers : mine'[d] = x /\ acquire'[d] = "granted"
    <3>1. locked[x]
      BY <1>1, <1>2, <2>3 DEF TypeOK
    <3>2. PICK d \in Callers : mine[d] = x /\ acquire[d] = "granted"
      BY <2>3, <3>1 DEF Locking, OneOwner, LocksHaveOwners
    <3>3. d # c
      BY <1>1, <1>2, <2>3, <3>2
    <3> QED BY <1>2, <3>2, <3>3
  <2> QED BY <2>1, <2>2, <2>3 DEF OneOwner, LocksHaveOwners
<1>5. OrderlyHandover'
  <2>1. ASSUME NEW a \in Callers, acquire'[a] \in {"woken", "unwoken"}
        PROVE  ~locked'[mine'[a]] /\ ahead'[a] = {}
    BY <1>1, <1>2, <2>1 DEF Locking, OrderlyHandover, OneOwner, OneEntryPerKey, TypeOK
  <2>2. ASSUME NEW a \in Callers, NEW b \in Callers, a # b, mine'[a] = mine'[b],
               acquire'[a] \in InDeque, acquire'[b] \in InDeque
        PROVE  a \in ahead'[b] \/ b \in ahead'[a]
    BY <1>1, <1>2, <2>2 DEF Locking, OrderlyHandover, TypeOK
  <2> QED BY <2>1, <2>2 DEF OrderlyHandover
<1>6. StagesAgree'
  BY <1>2 DEF Locking, StagesAgree, TypeOK
<1>7. TypeOK'
  <2>1. thrown' \in [Callers -> BOOLEAN]
    BY FlagUpdate DEF TypeOK
  <2> QED BY <1>2, <2>1 DEF TypeOK, PCs
<1> QED BY <1>3, <1>4, <1>5, <1>6, <1>7, CountUnchanged DEF Locking

(* Cancelling the acquire task leaves its place in the deque, and the lock *)
(* of a task that is done, as they are.                                    *)
LEMMA CancelStep ==
  ASSUME IInv, NEW c \in Callers, pc[c] # "idle",
         acquire' = [acquire EXCEPT ![c] = Cancelled(@)],
         UNCHANGED <<lockVars, key, mine, scope, ahead, watch>>,
         \/ pc' = pc
         \/ pc' = [pc EXCEPT ![c] = "reclaiming"] /\ acquire[c] # "none",
         thrown' \in [Callers -> BOOLEAN],
         cancelling' \in [Callers -> BOOLEAN]
  PROVE  IInv'
<1> USE DEF IInv, AcquireStates, InDeque, lockVars
<1>1. mine[c] \in Entries
  BY DEF TypeOK, Locking, OneEntryPerKey
<1>2. /\ acquire' \in [Callers -> AcquireStates]
      /\ \A d \in Callers :
           /\ acquire'[d] = "granted" <=> acquire[d] = "granted"
           /\ acquire'[d] = "none" <=> acquire[d] = "none"
           /\ acquire'[d] \in InDeque <=> acquire[d] \in InDeque
           /\ acquire'[d] \in {"woken", "unwoken"} => acquire[d] \in {"woken", "unwoken"}
  BY DEF Cancelled, TypeOK
<1>3. TypeOK'
  BY <1>2 DEF TypeOK, PCs
<1>4. OneEntryPerKey'
  BY <1>1, <1>2, LeaseAssumption DEF Locking, OneEntryPerKey, TypeOK
<1>5. OneOwner'
  BY <1>2 DEF Locking, OneOwner, LocksHaveOwners
<1>6. OrderlyHandover'
  BY <1>2 DEF Locking, OrderlyHandover
<1>7. StagesAgree'
  BY <1>2 DEF Locking, StagesAgree, TypeOK
<1> QED BY <1>3, <1>4, <1>5, <1>6, <1>7, CountUnchanged DEF Locking

(* Steps that touch neither the lock nor the acquire task; only a caller   *)
(* that has the lock goes in.                                              *)
LEMMA LocalStep ==
  ASSUME IInv, NEW c \in Callers,
         UNCHANGED <<lockVars, key, mine, acquire, ahead>>,
         \/ pc' = pc
         \/ /\ pc[c] # "idle" /\ acquire[c] = "granted"
            /\ \E there \in {"settlingIn", "holding"} : pc' = [pc EXCEPT ![c] = there],
         scope' \in [Callers -> {"never", "open", "cancelled"}],
         watch' \in [Callers -> {"none", "pending", "cancelling", "done"}],
         thrown' \in [Callers -> BOOLEAN],
         cancelling' \in [Callers -> BOOLEAN]
  PROVE  IInv'
<1> USE DEF IInv, lockVars
<1>1. TypeOK'
  BY DEF TypeOK, PCs
<1>2. OneEntryPerKey'
  BY DEF Locking, OneEntryPerKey, TypeOK
<1>3. OneOwner'
  BY DEF Locking, OneOwner, LocksHaveOwners
<1>4. OrderlyHandover'
  BY DEF Locking, OrderlyHandover
<1>5. StagesAgree'
  BY DEF Locking, StagesAgree, TypeOK
<1> QED BY <1>1, <1>2, <1>3, <1>4, <1>5, CountUnchanged DEF Locking

(* A caller comes in, with a new entry or with the registered one.         *)
LEMMA BeginStep ==
  ASSUME IInv, NEW c \in Callers, NEW k \in Keys, NEW s \in {"never", "open"},
         Begin(c, k, s)
  PROVE  IInv'
<1> USE DEF IInv, AcquireStates, InDeque
<1>1. PICK e \in Entries :
        /\ Start(c, k, s, e)
        /\ \/ /\ entries[k] = NoEntry
              /\ Fresh(e)
              /\ users' = [users EXCEPT ![e] = 1]
              /\ locked' = [locked EXCEPT ![e] = FALSE]
           \/ /\ entries[k] = e
              /\ users' = [users EXCEPT ![e] = @ + 1]
              /\ locked' = locked
  BY DEF Begin, BeginFirst, TypeOK
<1>2. /\ pc[c] = "idle" /\ mine[c] = NoEntry /\ acquire[c] = "none" /\ e # NoEntry
      /\ entries' = [entries EXCEPT ![k] = e]
      /\ mine' = [mine EXCEPT ![c] = e]
      /\ key' = [key EXCEPT ![c] = k]
      /\ acquire' = [acquire EXCEPT ![c] = "new"]
      /\ \E p \in {"racing", "awaiting"} : pc' = [pc EXCEPT ![c] = p]
      /\ UNCHANGED <<ahead, thrown, cancelling>>
  BY <1>1, LeaseAssumption DEF Start, Locking, OneEntryPerKey
<1>3. /\ locked' \in [Entries -> BOOLEAN]
      /\ \A x \in Entries : x # e => locked'[x] = locked[x]
      /\ \/ Fresh(e) /\ entries[k] = NoEntry /\ locked'[e] = FALSE
         \/ entries[k] = e /\ locked' = locked
  <2>1. CASE locked' = [locked EXCEPT ![e] = FALSE] /\ entries[k] = NoEntry /\ Fresh(e)
    BY <2>1, LockUpdate DEF TypeOK
  <2>2. CASE entries[k] = e /\ locked' = locked
    BY <2>2 DEF TypeOK
  <2> QED BY <1>1, <2>1, <2>2
<1>4. TypeOK'
  <2>1. scope' \in [Callers -> {"never", "open", "cancelled"}]
        /\ watch' \in [Callers -> {"none", "pending", "cancelling", "done"}]
    BY <1>1 DEF Start, TypeOK
  <2>2. users \in [Entries -> Nat] /\ users[e] + 1 \in Nat
    BY DEF TypeOK
  <2>3. users' \in [Entries -> Nat]
    <3>1. CASE users' = [users EXCEPT ![e] = 1]
      BY <2>2, <3>1
    <3>2. CASE users' = [users EXCEPT ![e] = @ + 1]
      BY <2>2, <3>2
    <3> QED BY <1>1, <3>1, <3>2
  <2>4. pc' \in [Callers -> PCs] /\ acquire' \in [Callers -> AcquireStates]
    BY <1>2 DEF TypeOK, PCs
  <2>5. /\ entries' \in [Keys -> Entries \cup {NoEntry}]
        /\ mine' \in [Callers -> Entries \cup {NoEntry}]
        /\ key' \in [Callers -> Keys]
    BY <1>2 DEF TypeOK
  <2>6. /\ ahead' \in [Callers -> SUBSET Callers]
        /\ thrown' \in [Callers -> BOOLEAN]
        /\ cancelling' \in [Callers -> BOOLEAN]
    BY <1>2 DEF TypeOK
  <2> QED BY <1>3, <2>1, <2>3, <2>4, <2>5, <2>6 DEF TypeOK
<1>5. OneEntryPerKey'
  BY <1>1, <1>2 DEF Locking, OneEntryPerKey, Fresh, TypeOK
<1>6. OneOwner'
  <2>1. \A d \in Callers : acquire'[d] = "granted" =>
          d # c /\ acquire[d] = "granted" /\ mine'[d] = mine[d] /\ mine[d] \in Entries
    BY <1>2 DEF TypeOK, Locking, OneEntryPerKey
  <2>2. \A d \in Callers : acquire'[d] = "granted" => locked'[mine'[d]]
    BY <1>3, <2>1 DEF Locking, OneOwner, Fresh
  <2>3. \A x, y \in Callers : acquire'[x] = "granted" /\ acquire'[y] = "granted"
                              /\ mine'[x] = mine'[y] => x = y
    BY <2>1 DEF Locking, OneOwner
  <2>4. ASSUME NEW x \in Entries, locked'[x], NEW j \in Keys, entries'[j] = x
        PROVE  \E d \in Callers : mine'[d] = x /\ acquire'[d] = "granted"
    <3>1. locked[x] /\ \E i \in Keys : entries[i] = x
      BY <1>2, <1>3, <2>4 DEF TypeOK
    <3>2. PICK d \in Callers : mine[d] = x /\ acquire[d] = "granted"
      BY <3>1 DEF Locking, OneOwner, LocksHaveOwners
    <3> QED BY <1>2, <3>2 DEF TypeOK
  <2> QED BY <2>2, <2>3, <2>4 DEF OneOwner, LocksHaveOwners
<1>7. OrderlyHandover'
  <2>1. ASSUME NEW a \in Callers, acquire'[a] \in {"woken", "unwoken"}
        PROVE  ~locked'[mine'[a]] /\ ahead'[a] = {}
    <3>1. a # c /\ acquire[a] \in {"woken", "unwoken"} /\ mine'[a] = mine[a] /\ mine[a] \in Entries
      BY <1>2, <2>1 DEF TypeOK, Locking, OneEntryPerKey
    <3> QED BY <1>2, <1>3, <3>1 DEF Locking, OrderlyHandover, Fresh
  <2>2. ASSUME NEW a \in Callers, NEW b \in Callers, a # b, mine'[a] = mine'[b],
               acquire'[a] \in InDeque, acquire'[b] \in InDeque
        PROVE  a \in ahead'[b] \/ b \in ahead'[a]
    <3>1. a # c /\ b # c
      BY <1>2, <2>2 DEF TypeOK
    <3> QED BY <1>2, <2>2, <3>1 DEF Locking, OrderlyHandover, TypeOK
  <2> QED BY <2>1, <2>2 DEF OrderlyHandover
<1>8. StagesAgree'
  BY <1>2 DEF Locking, StagesAgree, TypeOK
<1>9. UsersAreCounted'
  <2>1. ASSUME NEW x \in Entries, x # e PROVE users'[x] = Cardinality(Users(x)')
    <3>1. Users(x)' = Users(x)
      BY <1>2, <2>1, LeaseAssumption DEF Users, TypeOK
    <3> QED BY <1>1, <2>1, <3>1 DEF UsersAreCounted, TypeOK
  <2>2. users'[e] = Cardinality(Users(e)')
    <3>1. Users(e)' = Users(e) \cup {c} /\ c \notin Users(e) /\ IsFiniteSet(Users(e))
      BY <1>2, UsersFinite DEF Users, TypeOK
    <3>2. Cardinality(Users(e)') = Cardinality(Users(e)) + 1
      BY <3>1, FS_AddElement
    <3>3. CASE Fresh(e) /\ users' = [users EXCEPT ![e] = 1]
      <4>1. Users(e) = {}
        BY <3>3 DEF Fresh, Users
      <4> QED BY <3>2, <3>3, <4>1, FS_EmptySet DEF TypeOK
    <3>4. CASE users' = [users EXCEPT ![e] = @ + 1]
      BY <3>2, <3>4 DEF UsersAreCounted, TypeOK
    <3> QED BY <1>1, <3>3, <3>4
  <2>3. \A j \in Keys : entries'[j] # NoEntry => \E d \in Callers : mine'[d] = entries'[j]
    BY <1>2 DEF UsersAreCounted, TypeOK
  <2> QED BY <2>1, <2>2, <2>3 DEF UsersAreCounted
<1> QED BY <1>4, <1>5, <1>6, <1>7, <1>8, <1>9 DEF Locking

-----------------------------------------------------------------------------
(* No caller is inside, and no entry exists, at first.                     *)
LEMMA Initially == Init => IInv
<1> SUFFICES ASSUME Init PROVE IInv
  OBVIOUS
<1> USE DEF Init
<1>1. TypeOK
  BY DEF TypeOK, PCs, AcquireStates, InDeque
<1>2. Locking
  BY LeaseAssumption DEF Locking, OneEntryPerKey, OneOwner, LocksHaveOwners,
                         OrderlyHandover, StagesAgree, InDeque
<1>3. UsersAreCounted
  <2>1. \A e \in Entries : Users(e) = {}
    BY LeaseAssumption DEF Users
  <2> QED BY <2>1, FS_EmptySet DEF UsersAreCounted
<1> QED BY <1>1, <1>2, <1>3 DEF IInv

(* The exception of a caller without a task in the deque goes on.          *)
LEMMA RaiseStep ==
  ASSUME IInv, NEW c \in Callers, pc[c] # "idle", Unlock(c), Raise(c),
         acquire[c] \in {"granted", "dropped"}
  PROVE  IInv'
<1>1. CASE watch[c] = "pending"
  BY <1>1, WaitStep DEF Raise
<1>2. CASE watch[c] # "pending"
  BY <1>2, ExitStep DEF Raise
<1> QED BY <1>1, <1>2

(* One step for each action of a caller and its tasks.                     *)
LEMMA Preserved == IInv /\ WatchFollowsScope /\ [Next]_vars => IInv'
<1> SUFFICES ASSUME IInv, WatchFollowsScope, [Next]_vars PROVE IInv'
  OBVIOUS
<1>1. CASE UNCHANGED vars
  <2>1. TypeOK' /\ UsersAreCounted'
    BY <1>1, CountUnchanged DEF IInv, TypeOK, vars
  <2>2. Locking'
    BY <1>1 DEF IInv, Locking, OneEntryPerKey, OneOwner, LocksHaveOwners,
                OrderlyHandover, StagesAgree, vars
  <2> QED BY <2>1, <2>2 DEF IInv
<1>2. ASSUME NEW c \in Callers, NEW k \in Keys, NEW s \in {"never", "open"},
             Begin(c, k, s)
      PROVE  IInv'
  BY <1>2, BeginStep
<1>3. ASSUME NEW c \in Callers, AcquireTask(c) PROVE IInv'
  BY <1>3, StartStep, ResumeStep, DroppedStep DEF AcquireTask
<1>4. ASSUME NEW c \in Callers, WatchEnds(c) PROVE IInv'
  BY <1>4, LocalStep DEF WatchEnds, IInv, TypeOK
<1>5. ASSUME NEW c \in Callers, GiveUp(c) PROVE IInv'
  <2>1. pc[c] # "idle" /\ acquire[c] # "none" /\ Fail(c)
    BY <1>5 DEF GiveUp, Resumes, IInv, Locking, StagesAgree
  <2>2. CASE acquire[c] \in {"granted", "dropped"}
    BY <2>1, <2>2, RaiseStep DEF Fail
  <2>3. CASE acquire[c] \notin {"granted", "dropped"}
    <3>1. Reclaim(c)
      BY <2>1, <2>3 DEF Fail
    <3>2. thrown' \in [Callers -> BOOLEAN] /\ cancelling' \in [Callers -> BOOLEAN]
      BY <3>1, FlagUpdate DEF Reclaim, IInv, TypeOK
    <3> QED BY <2>1, <3>1, <3>2, CancelStep DEF Reclaim
  <2> QED BY <2>2, <2>3
<1>6. ASSUME NEW c \in Callers, Acquired(c) PROVE IInv'
  <2>1. pc[c] # "idle" /\ acquire[c] = "granted"
    BY <1>6 DEF Acquired, Resumes, Ready, MustFail, WatchFollowsScope, IInv, TypeOK, AcquireStates, InDeque
  <2>2. watch' \in [Callers -> {"none", "pending", "cancelling", "done"}]
    BY <1>6 DEF Acquired, IInv, TypeOK
  <2> QED BY <1>6, <2>1, <2>2, LocalStep DEF Acquired, IInv, TypeOK
<1>7. ASSUME NEW c \in Callers, Reclaimed(c) PROVE IInv'
  BY <1>7, RaiseStep DEF Reclaimed
<1>8. ASSUME NEW c \in Callers, SettledIn(c) PROVE IInv'
  <2>1. pc[c] # "idle" /\ acquire[c] = "granted"
    BY <1>8 DEF SettledIn, IInv, Locking, StagesAgree
  <2> QED BY <1>8, <2>1, LocalStep DEF SettledIn, IInv, TypeOK
<1>9. ASSUME NEW c \in Callers, SettledOut(c) PROVE IInv'
  <2>1. pc[c] # "idle" /\ acquire[c] = "none"
    BY <1>9 DEF SettledOut, IInv, Locking, StagesAgree
  <2> QED BY <1>9, <2>1, ExitStep DEF SettledOut
<1>10. ASSUME NEW c \in Callers, EndOperation(c) PROVE IInv'
  <2>1. pc[c] # "idle" /\ acquire[c] = "granted"
    BY <1>10 DEF EndOperation, IInv, Locking, StagesAgree
  <2> QED BY <1>10, <2>1, ExitStep DEF EndOperation
<1>11. ASSUME NEW c \in Callers, CancelScope(c) PROVE IInv'
  BY <1>11, LocalStep DEF CancelScope, IInv, TypeOK
<1>12. ASSUME NEW c \in Callers, CancelCaller(c) PROVE IInv'
  <2>1. pc[c] # "idle" /\ cancelling' \in [Callers -> BOOLEAN]
    BY <1>12, FlagUpdate DEF CancelCaller, IInv, TypeOK
  <2>2. CASE pc[c] = "awaiting" /\ acquire[c] \notin {"granted", "dropped"}
    BY <1>12, <2>1, <2>2, CancelStep DEF CancelCaller, IInv, TypeOK
  <2>3. CASE ~(pc[c] = "awaiting" /\ acquire[c] \notin {"granted", "dropped"})
    <3>1. PICK b \in BOOLEAN : thrown' = [thrown EXCEPT ![c] = b]
      BY <1>12, <2>3 DEF CancelCaller
    <3>2. thrown' \in [Callers -> BOOLEAN]
      BY <3>1, FlagUpdate DEF IInv, TypeOK
    <3> QED BY <1>12, <2>1, <2>3, <3>2, LocalStep DEF CancelCaller, IInv, TypeOK
  <2> QED BY <2>2, <2>3
<1> QED BY <1>1, <1>2, <1>3, <1>4, <1>5, <1>6, <1>7, <1>8, <1>9, <1>10, <1>11, <1>12
     DEF Next, CallerTask

(* Only Acquired and Raise cancel the watch task, and they leave the wait. *)
LEMMA WatchPreserved == TypeOK /\ WatchFollowsScope /\ [Next]_vars => WatchFollowsScope'
<1> SUFFICES ASSUME TypeOK, WatchFollowsScope, [Next]_vars PROVE WatchFollowsScope'
  OBVIOUS
<1> USE DEF TypeOK, WatchFollowsScope
<1>1. CASE UNCHANGED vars
  BY <1>1 DEF vars
<1>2. ASSUME NEW c \in Callers, NEW k \in Keys, NEW s \in {"never", "open"},
             Begin(c, k, s)
      PROVE  WatchFollowsScope'
  BY <1>2 DEF Begin, BeginFirst, Start
<1>3. ASSUME NEW c \in Callers, AcquireTask(c) PROVE WatchFollowsScope'
  BY <1>3 DEF AcquireTask, AcquireStart, AcquireResume, AcquireDropped
<1>4. ASSUME NEW c \in Callers, WatchEnds(c) PROVE WatchFollowsScope'
  BY <1>4 DEF WatchEnds
<1>5. ASSUME NEW c \in Callers, Raise(c) PROVE WatchFollowsScope'
  BY <1>5 DEF Raise, Depart, Forget
<1>6. ASSUME NEW c \in Callers, GiveUp(c) PROVE WatchFollowsScope'
  BY <1>5, <1>6 DEF GiveUp, Fail, Reclaim, Resumes
<1>7. ASSUME NEW c \in Callers, Acquired(c) PROVE WatchFollowsScope'
  BY <1>7 DEF Acquired
<1>8. ASSUME NEW c \in Callers, SettledIn(c) PROVE WatchFollowsScope'
  BY <1>8 DEF SettledIn
<1>9. ASSUME NEW c \in Callers, Depart(c) PROVE WatchFollowsScope'
  BY <1>9 DEF Depart, Forget
<1>10. ASSUME NEW c \in Callers, CancelScope(c) PROVE WatchFollowsScope'
  BY <1>10 DEF CancelScope
<1>11. ASSUME NEW c \in Callers, CancelCaller(c) PROVE WatchFollowsScope'
  BY <1>11 DEF CancelCaller
<1> QED BY <1>1, <1>2, <1>3, <1>4, <1>5, <1>6, <1>7, <1>8, <1>9, <1>10, <1>11
     DEF Next, CallerTask, Reclaimed, SettledOut, EndOperation

(* The inductive invariant holds in every reachable state.                 *)
THEOREM LeaseInvariant == Spec => []IInv
<1>1. Init => WatchFollowsScope
  BY DEF Init, WatchFollowsScope
<1>2. IInv => TypeOK
  BY DEF IInv
<1> QED BY <1>1, <1>2, Initially, Preserved, WatchPreserved, PTL DEF Spec

(* Every reachable state of the leases is well typed.                      *)
THEOREM LeaseTypes == Spec => []TypeOK
<1>1. IInv => TypeOK
  BY DEF IInv
<1> QED BY <1>1, LeaseInvariant, PTL

(* Operations on one device exclude each other, for any number of callers  *)
(* and devices and any interleaving of cancellations: two that hold have   *)
(* the same entry and both have been granted its lock.                     *)
THEOREM LeaseExclusion == Spec => []MutualExclusion
<1>1. IInv => MutualExclusion
  BY DEF IInv, Locking, OneEntryPerKey, OneOwner, StagesAgree, MutualExclusion, TypeOK
<1> QED BY <1>1, LeaseInvariant, PTL

(* An entry is registered exactly while some caller of its device is       *)
(* inside: none is removed too early, none is left behind.                 *)
THEOREM NoEntryLeaks == Spec => []EntriesAreInUse
<1>1. IInv => EntriesAreInUse
  BY LeaseAssumption DEF IInv, Locking, OneEntryPerKey, UsersAreCounted, EntriesAreInUse, TypeOK
<1> QED BY <1>1, LeaseInvariant, PTL

(* A locked lock of a registered entry has a caller inside that will       *)
(* release it: no cancellation leaks a lock.                               *)
THEOREM NoLockLeaks == Spec => []LocksHaveOwners
<1>1. IInv => LocksHaveOwners
  BY DEF IInv, Locking, OneOwner
<1> QED BY <1>1, LeaseInvariant, PTL

(* Together: neither a lock nor an entry outlives its callers.             *)
THEOREM LeasesDoNotLeak == Spec => []NothingLeaks
<1>1. EntriesAreInUse /\ LocksHaveOwners => NothingLeaks
  BY DEF NothingLeaks
<1> QED BY <1>1, NoEntryLeaks, NoLockLeaks, PTL

(* A caller whose scope is cancelled while it waits does not go in,        *)
(* whichever of the lock and the cancellation came first.                  *)
THEOREM CancellationWins == Spec => CancelledScopeStaysOut
<1>1. ASSUME TypeOK, [Next]_vars, NEW a \in Callers, scope[a] = "cancelled",
             pc[a] \in {"racing", "awaiting", "reclaiming"}
      PROVE  pc'[a] \in {"racing", "awaiting", "reclaiming", "settlingOut", "idle"}
  <2> USE <1>1 DEF TypeOK
  <2>1. CASE UNCHANGED vars
    BY <2>1 DEF vars
  <2>2. ASSUME NEW c \in Callers, NEW k \in Keys, NEW s \in {"never", "open"},
               Begin(c, k, s)
        PROVE  pc'[a] = pc[a]
    BY <2>2 DEF Begin, BeginFirst, Start
  <2>3. ASSUME NEW c \in Callers,
               AcquireTask(c) \/ WatchEnds(c) \/ CancelScope(c) \/ CancelCaller(c)
        PROVE  pc'[a] = pc[a]
    BY <2>3 DEF AcquireTask, AcquireStart, AcquireResume, AcquireDropped, WatchEnds,
                CancelScope, CancelCaller
  <2>4. ASSUME NEW c \in Callers, Depart(c) PROVE pc'[a] \in {pc[a], "idle"}
    BY <2>4 DEF Depart, Forget
  <2>5. ASSUME NEW c \in Callers, Raise(c) PROVE pc'[a] \in {pc[a], "idle", "settlingOut"}
    BY <2>4, <2>5 DEF Raise
  <2>6. ASSUME NEW c \in Callers, GiveUp(c)
        PROVE  pc'[a] \in {pc[a], "idle", "settlingOut", "reclaiming"}
    BY <2>5, <2>6 DEF GiveUp, Fail, Reclaim
  <2>7. ASSUME NEW c \in Callers, Acquired(c) \/ SettledIn(c) PROVE pc'[a] = pc[a]
    BY <2>7 DEF Acquired, MustFail, SettledIn
  <2> QED BY <2>1, <2>2, <2>3, <2>4, <2>5, <2>6, <2>7
       DEF Next, CallerTask, Reclaimed, SettledOut, EndOperation
<1>2. TypeOK /\ [Next]_vars => [\A c \in Callers :
         pc[c] \in {"racing", "awaiting", "reclaiming"} /\ scope[c] = "cancelled"
           => pc'[c] \in {"racing", "awaiting", "reclaiming", "settlingOut", "idle"}]_vars
  BY <1>1
<1> QED BY <1>2, LeaseTypes, PTL DEF Spec, CancelledScopeStaysOut

(* The lock, its deque and the racing tasks carry out mutual exclusion per *)
(* device: a caller is let in only when nobody holds its device, and       *)
(* everything else is asking, leaving or not seen from outside.            *)
THEOREM LeasesImplementMutex == Spec => ImplementsDeviceMutex
<1> DEFINE Seen(p) == IF p \in {"idle", "holding"}
                      THEN IF p = "idle" THEN "out" ELSE "holding"
                      ELSE "waiting"
<1> DEFINE state == [c \in Callers |-> Seen(pc[c])]
<1>1. Init => Mutex!Init
  BY DEF Init, Mutex!Init
<1>2. ASSUME TypeOK, MutualExclusion', [Next]_vars
      PROVE  [Mutex!Next]_Mutex!vars
  <2> USE <1>2 DEF TypeOK, PCs
  <2>1. ASSUME UNCHANGED vars PROVE UNCHANGED Mutex!vars
    BY <2>1 DEF vars, Mutex!vars
  <2>2. ASSUME NEW c \in Callers, NEW k \in Keys, NEW s \in {"never", "open"},
               Begin(c, k, s)
        PROVE  Mutex!Ask(c, k)
    <3>1. pc[c] = "idle" /\ key' = [key EXCEPT ![c] = k]
          /\ \E p \in {"racing", "awaiting"} : pc' = [pc EXCEPT ![c] = p]
      BY <2>2 DEF Begin, BeginFirst, Start
    <3> QED BY <3>1 DEF Mutex!Ask
  <2>3. ASSUME NEW c \in Callers,
               AcquireTask(c) \/ WatchEnds(c) \/ CancelScope(c) \/ CancelCaller(c)
        PROVE  UNCHANGED Mutex!vars
    BY <2>3 DEF AcquireTask, AcquireStart, AcquireResume, AcquireDropped, WatchEnds,
                CancelScope, CancelCaller, lockVars, Mutex!vars
  <2>4. ASSUME NEW c \in Callers, pc[c] # "idle", pc' = [pc EXCEPT ![c] = "idle"], key' = key
        PROVE  Mutex!GoOut(c)
    BY <2>4 DEF Mutex!GoOut
  <2>5. ASSUME NEW c \in Callers, NEW p \in {"reclaiming", "settlingIn", "settlingOut"},
               pc[c] \notin {"idle", "holding"}, pc' = [pc EXCEPT ![c] = p], key' = key
        PROVE  UNCHANGED Mutex!vars
    BY <2>5 DEF Mutex!vars
  <2>6. ASSUME NEW c \in Callers, pc[c] \notin {"idle", "holding"},
               pc' = [pc EXCEPT ![c] = "holding"], key' = key
        PROVE  Mutex!LetIn(c)
    <3>1. ASSUME NEW d \in Callers, state[d] = "holding" PROVE key[d] # key[c]
      <4>1. pc[d] = "holding" /\ d # c /\ pc'[d] = "holding" /\ pc'[c] = "holding"
        BY <2>6, <3>1
      <4> QED BY <2>6, <4>1 DEF MutualExclusion
    <3>2. state[c] = "waiting" /\ state' = [state EXCEPT ![c] = "holding"]
      BY <2>6
    <3> QED BY <2>6, <3>1, <3>2 DEF Mutex!LetIn
  <2>7. ASSUME NEW c \in Callers, Depart(c)
        PROVE  pc' = [pc EXCEPT ![c] = "idle"] /\ key' = key
    BY <2>7 DEF Depart, Forget
  <2>8. ASSUME NEW c \in Callers, Raise(c), pc[c] \notin {"idle", "holding"}
        PROVE  [Mutex!Next]_Mutex!vars
    BY <2>4, <2>5, <2>7, <2>8 DEF Raise, Mutex!Next
  <2>9. ASSUME NEW c \in Callers, GiveUp(c) PROVE [Mutex!Next]_Mutex!vars
    BY <2>5, <2>8, <2>9 DEF GiveUp, Resumes, Fail, Reclaim
  <2>10. ASSUME NEW c \in Callers, Acquired(c) PROVE [Mutex!Next]_Mutex!vars
    BY <2>5, <2>6, <2>10 DEF Acquired, Resumes, Mutex!Next
  <2>11. ASSUME NEW c \in Callers, Reclaimed(c) PROVE [Mutex!Next]_Mutex!vars
    BY <2>8, <2>11 DEF Reclaimed
  <2>12. ASSUME NEW c \in Callers, SettledIn(c) PROVE [Mutex!Next]_Mutex!vars
    BY <2>6, <2>12 DEF SettledIn, Mutex!Next
  <2>13. ASSUME NEW c \in Callers, SettledOut(c) \/ EndOperation(c)
         PROVE  [Mutex!Next]_Mutex!vars
    BY <2>4, <2>7, <2>13 DEF SettledOut, EndOperation, Mutex!Next
  <2> QED BY <2>1, <2>2, <2>3, <2>9, <2>10, <2>11, <2>12, <2>13
       DEF Next, CallerTask, Mutex!Next
<1> QED BY <1>1, <1>2, LeaseTypes, LeaseExclusion, PTL
     DEF Spec, ImplementsDeviceMutex, Mutex!Spec
=============================================================================
