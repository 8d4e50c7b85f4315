------------------------------- MODULE Timelock -------------------------------
(***************************************************************************)
(* The DAO timelock (contracts/dao/timelock/Timelock.sol with its          *)
(* extension FeiDAOTimelock.sol): its admin queues transactions, waits,    *)
(* and executes them; guardians and governors of Core may pause it and     *)
(* veto what is queued.                                                    *)
(*                                                                         *)
(* A governor queues, cancels or executes all the actions of a proposal in *)
(* one transaction of the chain, so those operations take a batch: a       *)
(* sequence of calls made in order, all of them or none.                   *)
(***************************************************************************)
EXTENDS Integers, Sequences, Functions, FiniteSets

CONSTANTS
  Account,          \* addresses that may become admin or oversee the timelock
  NoAccount,        \* address(0)
  FirstAdmin,       \* the admin set by the constructor
  Overseer,         \* the guardians and governors of Core
  CoreGovernor,     \* the governors among them
  Dao,              \* the admin that has updateTimelock: FeiDAO
  MinDelay, MaxDelay, FirstDelay, GracePeriod, RollbackDeadline,
  Call,             \* actions on contracts outside this model
  Payloads,         \* sequences of actions the admin may batch
  Etas,             \* bound: the execution times that callers name
  MaxTime           \* bound: the last timestamp explored

ASSUME TimelockAssumption ==
  /\ NoAccount \notin Account
  /\ FirstAdmin \in Account
  /\ CoreGovernor \subseteq Overseer /\ Overseer \subseteq Account
  /\ MinDelay \in Nat /\ MaxDelay \in Nat
  /\ FirstDelay \in MinDelay .. MaxDelay
  /\ GracePeriod \in Nat
  /\ RollbackDeadline \in Nat
  /\ Etas \subseteq Nat /\ MaxTime \in Nat

VARIABLES
  now,              \* block.timestamp
  admin, pendingAdmin, delay,
  queued,           \* queuedTransactions: the transactions whose flag is set
  paused,
  attached,         \* FALSE once rollback pointed FeiDAO to another timelock
  executed,         \* history: every transaction executed so far
  queuedAt,         \* history: when each transaction was last queued
  named             \* history: pending admins named by governors of Core

config == <<admin, pendingAdmin, delay, paused, attached>>
history == <<executed, queuedAt, named>>
timelockVars == <<config, queued, history>>
vars == <<now, timelockVars>>

(* What a transaction does to the timelock when it runs: a call to setDelay, *)
(* setPendingAdmin or, the timelock being a governor of Core, pause; or      *)
(* something elsewhere.                                                      *)
Action ==
  [kind : {"setDelay"}, arg : Nat]
    \cup [kind : {"setPendingAdmin"}, arg : Account \cup {NoAccount}]
    \cup [kind : {"pause"}, arg : {NoAccount}]
    \cup [kind : {"call"}, arg : Call]

ASSUME PayloadAssumption == Payloads \subseteq Seq(Action)

(* The hash of a transaction stands for its contents, eta included. *)
Tx == [action : Action, eta : Nat]
Batch(payload, eta) ==
  [i \in 1 .. Len(payload) |-> [action |-> payload[i], eta |-> eta]]

----------------------------------------------------------------------------
Init ==
  /\ now = 0
  /\ admin = FirstAdmin
  /\ pendingAdmin = NoAccount
  /\ delay = FirstDelay
  /\ queued = {}
  /\ paused = FALSE
  /\ attached = TRUE
  /\ executed = {}
  /\ queuedAt = [t \in {} |-> 0]
  /\ named = {}

(* FeiDAO calls the timelock it points to. *)
FromAdmin(caller) == caller = admin /\ (caller = Dao => attached)

(* Faulty: the eta need only lie in the future. *)
QueueNoDelay(caller, txs) ==
  /\ ~paused
  /\ FromAdmin(caller)
  /\ \A t \in Range(txs) : t.eta >= now
  /\ queued' = queued \cup Range(txs)
  /\ queuedAt' = [t \in DOMAIN queuedAt \cup Range(txs) |->
                    IF t \in Range(txs) THEN now ELSE queuedAt[t]]
  /\ UNCHANGED <<now, config, executed, named>>

Queue(caller, txs) ==
  /\ ~paused
  /\ FromAdmin(caller)
  /\ \A t \in Range(txs) : t.eta >= now + delay
  /\ queued' = queued \cup Range(txs)
  /\ queuedAt' = [t \in DOMAIN queuedAt \cup Range(txs) |->
                    IF t \in Range(txs) THEN now ELSE queuedAt[t]]
  /\ UNCHANGED <<now, config, executed, named>>

(* cancelTransaction does not require that the transaction is queued, nor   *)
(* that the timelock is not paused.                                         *)
Cancel(caller, txs) ==
  /\ FromAdmin(caller)
  /\ queued' = queued \ Range(txs)
  /\ UNCHANGED <<now, config, history>>

VetoTransactions(caller, txs) ==
  /\ caller \in Overseer
  /\ queued' = queued \ Range(txs)
  /\ UNCHANGED <<now, config, history>>

(* The arguments a batch passes to one function, by position. *)
Calls(txs, kind) == {i \in 1 .. Len(txs) : txs[i].action.kind = kind}
LastArg(txs, kind, default) ==
  IF Calls(txs, kind) = {} THEN default
  ELSE txs[CHOOSE i \in Calls(txs, kind) : \A j \in Calls(txs, kind) : j <= i].action.arg

(* None of the calls reverts on account of the timelock itself: setDelay    *)
(* checks its range, and nothing runs after a pause.                        *)
BatchSucceeds(txs) ==
  /\ \A i \in Calls(txs, "setDelay") : txs[i].action.arg \in MinDelay .. MaxDelay
  /\ \A i \in Calls(txs, "pause") : i = Len(txs)

(* Faulty: the flag alone decides, pause or no pause. *)
NotPausedIgnored == TRUE
NotPaused == ~paused

Executable(t) ==
  /\ t \in queued
  /\ now >= t.eta
  /\ now <= t.eta + GracePeriod

(* Faulty: the flag of an executed transaction stays set. *)
ExecuteKeepsFlag(caller, txs) ==
  /\ NotPaused
  /\ FromAdmin(caller)
  /\ IsInjective(txs)
  /\ \A t \in Range(txs) : Executable(t)
  /\ BatchSucceeds(txs)
  /\ UNCHANGED queued
  /\ executed' = executed \cup Range(txs)
  /\ delay' = LastArg(txs, "setDelay", delay)
  /\ pendingAdmin' = LastArg(txs, "setPendingAdmin", pendingAdmin)
  /\ paused' = (Calls(txs, "pause") # {})
  /\ UNCHANGED <<now, admin, attached, queuedAt, named>>

(* The flag of a transaction is cleared when it runs, so the second of two  *)
(* equal calls of a batch reverts.  A call that reverts reverts the batch.  *)
Execute(caller, txs) ==
  /\ NotPaused
  /\ FromAdmin(caller)
  /\ IsInjective(txs)
  /\ \A t \in Range(txs) : Executable(t)
  /\ BatchSucceeds(txs)
  /\ queued' = queued \ Range(txs)
  /\ executed' = executed \cup Range(txs)
  /\ delay' = LastArg(txs, "setDelay", delay)
  /\ pendingAdmin' = LastArg(txs, "setPendingAdmin", pendingAdmin)
  /\ paused' = (Calls(txs, "pause") # {})
  /\ UNCHANGED <<now, admin, attached, queuedAt, named>>

(* Faulty: anybody may take the role, once one was offered. *)
AcceptAdminAnyone(caller) ==
  /\ pendingAdmin # NoAccount
  /\ admin' = caller
  /\ pendingAdmin' = NoAccount
  /\ UNCHANGED <<now, delay, paused, attached, queued, history>>

AcceptAdmin(caller) ==
  /\ caller = pendingAdmin
  /\ admin' = caller
  /\ pendingAdmin' = NoAccount
  /\ UNCHANGED <<now, delay, paused, attached, queued, history>>

GovernorSetPendingAdmin(caller, new) ==
  /\ caller \in CoreGovernor
  /\ pendingAdmin' = new
  /\ named' = named \cup {new}
  /\ UNCHANGED <<now, admin, delay, paused, attached, queued, executed, queuedAt>>

Pause(caller) ==
  /\ caller \in Overseer
  /\ ~paused
  /\ paused' = TRUE
  /\ UNCHANGED <<now, admin, pendingAdmin, delay, attached, queued, history>>

Unpause(caller) ==
  /\ caller \in Overseer
  /\ paused
  /\ paused' = FALSE
  /\ UNCHANGED <<now, admin, pendingAdmin, delay, attached, queued, history>>

(* updateTimelock of any other admin does not exist, and the call reverts. *)
Rollback(caller) ==
  /\ caller \in Overseer
  /\ now <= RollbackDeadline
  /\ admin = Dao /\ attached
  /\ attached' = FALSE
  /\ UNCHANGED <<now, admin, pendingAdmin, delay, paused, queued, history>>

(* External: a block with a later timestamp. *)
AdvanceTime ==
  /\ now < MaxTime
  /\ \E t \in now + 1 .. MaxTime : now' = t
  /\ UNCHANGED timelockVars

Next ==
  \/ AdvanceTime
  \/ \E caller \in Account :
       \/ \E p \in Payloads, eta \in Etas :
            \/ Queue(caller, Batch(p, eta))
            \/ Cancel(caller, Batch(p, eta))
            \/ VetoTransactions(caller, Batch(p, eta))
            \/ Execute(caller, Batch(p, eta))
       \/ AcceptAdmin(caller)
       \/ \E a \in Account \cup {NoAccount} : GovernorSetPendingAdmin(caller, a)
       \/ Pause(caller)
       \/ Unpause(caller)
       \/ Rollback(caller)

Spec == Init /\ [][Next]_vars

----------------------------------------------------------------------------
TypeOK ==
  /\ now \in Nat
  /\ admin \in Account
  /\ pendingAdmin \in Account \cup {NoAccount}
  /\ delay \in MinDelay .. MaxDelay
  /\ queued \subseteq Tx
  /\ paused \in BOOLEAN
  /\ attached \in BOOLEAN
  /\ executed \subseteq Tx
  /\ DOMAIN queuedAt \subseteq Tx
  /\ \A t \in DOMAIN queuedAt : queuedAt[t] \in Nat
  /\ named \subseteq Account \cup {NoAccount}

(* Timelock.sol:97, 141-142.  A transaction runs no sooner than the minimum *)
(* delay after it was last queued, whatever happened to the delay, the admin *)
(* or the queue in between.                                                  *)
DelayRespected ==
  [][\A t \in executed' \ executed :
       /\ t \in DOMAIN queuedAt
       /\ now >= queuedAt[t] + MinDelay]_vars

(* Timelock.sol:97, 145.  With a positive minimum delay an executed          *)
(* transaction is never in the queue again: one hash runs at most once, even  *)
(* when the admin tries to queue it anew.                                     *)
ExecutedOnce == executed \cap queued = {}

(* Timelock.sol:66, 75, 83; FeiDAOTimelock.sol:60.  Nobody becomes admin, and *)
(* the delay never changes, but by a transaction that waited out the time     *)
(* lock; only a governor of Core may offer the role directly.                 *)
ConfigWaitedOut ==
  /\ admin # FirstAdmin =>
       \/ admin \in named
       \/ \E t \in executed : t.action = [kind |-> "setPendingAdmin", arg |-> admin]
  /\ delay # FirstDelay =>
       \E t \in executed : t.action = [kind |-> "setDelay", arg |-> delay]

(* FeiDAOTimelock.sol:8-11.  While the timelock is paused nothing enters its *)
(* queue or leaves it to run, so only an overseer, and no transaction of its *)
(* own, ends the pause.                                                      *)
PausedIsInert ==
  [][paused => executed' = executed /\ queued' \subseteq queued]_vars
=============================================================================
