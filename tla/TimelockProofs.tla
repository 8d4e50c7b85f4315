---------------------------- MODULE TimelockProofs ----------------------------
(***************************************************************************)
(* Proofs about the DAO timelock for any accounts, delays and payloads.    *)
(*                                                                         *)
(* The inductive invariant IInv adds to the checked properties what links  *)
(* the queue to the clock: a transaction in the queue was queued at least  *)
(* the minimum delay before its eta, and an executed one has its eta in    *)
(* the past.  A transaction whose eta has passed cannot be queued again,   *)
(* which is why a hash runs once.                                          *)
(***************************************************************************)
EXTENDS Timelock, ArithmeticProofs

QueuedInTime ==
  \A t \in queued : t \in DOMAIN queuedAt /\ t.eta >= queuedAt[t] + MinDelay

ExecutedInPast == \A t \in executed : t.eta <= now

(* A pending admin was offered the role like an admin was. *)
PendingWaitedOut ==
  pendingAdmin # NoAccount =>
    \/ pendingAdmin \in named
    \/ \E t \in executed : t.action = [kind |-> "setPendingAdmin", arg |-> pendingAdmin]

(* ExecutedOnce is inductive only if the minimum delay is positive. *)
IInv ==
  /\ TypeOK
  /\ QueuedInTime
  /\ ExecutedInPast
  /\ ConfigWaitedOut
  /\ PendingWaitedOut
  /\ MinDelay > 0 => ExecutedOnce

----------------------------------------------------------------------------
(* The range of a sequence holds its elements. *)
LEMMA RangeOfSeq ==
  ASSUME NEW S, NEW s \in Seq(S)
  PROVE  /\ Range(s) \subseteq S
         /\ \A i \in 1 .. Len(s) : s[i] \in Range(s)
<1>1. DOMAIN s = 1 .. Len(s) /\ \A i \in 1 .. Len(s) : s[i] \in S
  OBVIOUS
<1> QED BY <1>1 DEF Range

(* LastArg returns the default or the argument of one call of the batch. *)
LEMMA LastArgOfBatch ==
  ASSUME NEW txs \in Seq(Tx), NEW kind, NEW default
  PROVE  \/ LastArg(txs, kind, default) = default
         \/ \E i \in Calls(txs, kind) :
              LastArg(txs, kind, default) = txs[i].action.arg
<1>1. CASE Calls(txs, kind) = {}
  BY <1>1 DEF LastArg
<1>2. CASE Calls(txs, kind) # {}
  <2>1. \E i \in Calls(txs, kind) : \A j \in Calls(txs, kind) : j <= i
    <3>1. Calls(txs, kind) \in SUBSET (1 .. Len(txs)) /\ Len(txs) \in Nat
      BY DEF Calls
    <3> QED BY <1>2, <3>1, LastExists
  <2> QED BY <1>2, <2>1 DEF LastArg
<1> QED BY <1>1, <1>2

(* A batch made of a payload is a sequence of transactions of one eta. *)
LEMMA BatchType ==
  ASSUME NEW p \in Payloads, NEW eta \in Nat
  PROVE  /\ Batch(p, eta) \in Seq(Tx)
         /\ Range(Batch(p, eta)) \subseteq Tx
<1>1. p \in Seq(Action)
  BY PayloadAssumption
<1>2. Batch(p, eta) \in [1 .. Len(p) -> Tx]
  BY <1>1 DEF Batch, Tx
<1>3. Batch(p, eta) \in Seq(Tx)
  BY <1>1, <1>2
<1> QED BY <1>3, RangeOfSeq

----------------------------------------------------------------------------
LEMMA InitInvariant == Init => IInv
<1> SUFFICES ASSUME Init PROVE IInv
  OBVIOUS
<1>1. DOMAIN queuedAt = {}
  BY DEF Init
<1>2. TypeOK
  BY <1>1, TimelockAssumption DEF Init, TypeOK
<1>3. /\ QueuedInTime /\ ExecutedInPast /\ ConfigWaitedOut
      /\ PendingWaitedOut /\ ExecutedOnce
  BY DEF Init, QueuedInTime, ExecutedInPast, ConfigWaitedOut, PendingWaitedOut,
         ExecutedOnce
<1> QED BY <1>2, <1>3 DEF IInv

LEMMA QueueInvariant ==
  ASSUME IInv, NEW caller \in Account, NEW txs \in Seq(Tx), Queue(caller, txs)
  PROVE  IInv'
<1> USE TimelockAssumption DEF IInv, Queue, config
<1>1. Range(txs) \subseteq Tx /\ \A t \in Range(txs) : t.eta \in Nat
  <2>1. Range(txs) \subseteq Tx
    BY RangeOfSeq
  <2> QED BY <2>1 DEF Tx
<1>2. TypeOK'
  BY <1>1 DEF TypeOK
<1>3. QueuedInTime'
  BY <1>1 DEF TypeOK, QueuedInTime
<1>4. ExecutedInPast' /\ ConfigWaitedOut' /\ PendingWaitedOut'
  BY DEF ExecutedInPast, ConfigWaitedOut, PendingWaitedOut
<1>5. MinDelay > 0 => ExecutedOnce'
  BY <1>1 DEF TypeOK, ExecutedInPast, ExecutedOnce
<1> QED BY <1>2, <1>3, <1>4, <1>5

(* Removing from the queue endangers nothing. *)
LEMMA DequeueInvariant ==
  ASSUME IInv, NEW txs, queued' = queued \ txs,
         UNCHANGED <<now, config, history>>
  PROVE  IInv'
  BY DEF IInv, TypeOK, QueuedInTime, ExecutedInPast, ConfigWaitedOut,
         PendingWaitedOut, ExecutedOnce, config, history

LEMMA ExecuteInvariant ==
  ASSUME IInv, NEW caller \in Account, NEW txs \in Seq(Tx), Execute(caller, txs)
  PROVE  IInv'
<1> USE TimelockAssumption DEF IInv
<1>1. /\ Range(txs) \subseteq Tx
      /\ \A i \in 1 .. Len(txs) : txs[i] \in Range(txs) /\ txs[i].action \in Action
      /\ \A t \in Range(txs) : t.eta <= now
      /\ queued' = queued \ Range(txs)
      /\ executed' = executed \cup Range(txs)
      /\ now' = now /\ admin' = admin /\ attached' = attached
      /\ queuedAt' = queuedAt /\ named' = named /\ paused' \in BOOLEAN
  <2>1. Range(txs) \subseteq Tx /\ \A i \in 1 .. Len(txs) : txs[i] \in Range(txs)
    BY RangeOfSeq
  <2> QED BY <2>1 DEF Tx, Execute, Executable
<1>2. delay' = delay \/ \E t \in executed' : t.action = [kind |-> "setDelay", arg |-> delay']
  <2>1. delay' = LastArg(txs, "setDelay", delay)
    BY DEF Execute
  <2>2. CASE delay' # delay
    <3>1. PICK i \in Calls(txs, "setDelay") : delay' = txs[i].action.arg
      BY <2>1, <2>2, LastArgOfBatch
    <3>2. /\ i \in 1 .. Len(txs) /\ txs[i].action.kind = "setDelay"
      BY <3>1 DEF Calls
    <3>3. txs[i].action = [kind |-> "setDelay", arg |-> delay']
      BY <1>1, <3>1, <3>2 DEF Action
    <3> QED BY <1>1, <3>2, <3>3
  <2> QED BY <2>2
<1>3. delay' \in MinDelay .. MaxDelay
  BY LastArgOfBatch DEF Execute, BatchSucceeds, TypeOK
<1>4. \/ pendingAdmin' = pendingAdmin
      \/ \E t \in executed' : t.action = [kind |-> "setPendingAdmin", arg |-> pendingAdmin']
  <2>1. pendingAdmin' = LastArg(txs, "setPendingAdmin", pendingAdmin)
    BY DEF Execute
  <2>2. CASE pendingAdmin' # pendingAdmin
    <3>1. PICK i \in Calls(txs, "setPendingAdmin") : pendingAdmin' = txs[i].action.arg
      BY <2>1, <2>2, LastArgOfBatch
    <3>2. /\ i \in 1 .. Len(txs) /\ txs[i].action.kind = "setPendingAdmin"
      BY <3>1 DEF Calls
    <3>3. txs[i].action = [kind |-> "setPendingAdmin", arg |-> pendingAdmin']
      BY <1>1, <3>1, <3>2 DEF Action
    <3> QED BY <1>1, <3>2, <3>3
  <2> QED BY <2>2
<1>5. pendingAdmin' \in Account \cup {NoAccount}
  <2>1. CASE pendingAdmin' = pendingAdmin
    BY <2>1 DEF TypeOK
  <2>2. CASE pendingAdmin' # pendingAdmin
    <3>1. PICK t \in executed' : t.action = [kind |-> "setPendingAdmin", arg |-> pendingAdmin']
      BY <1>4, <2>2
    <3>2. t.action \in Action
      BY <1>1, <3>1 DEF TypeOK, Tx
    <3> QED BY <3>1, <3>2 DEF Action
  <2> QED BY <2>1, <2>2
<1>6. TypeOK'
  BY <1>1, <1>3, <1>5 DEF TypeOK
<1>7. QueuedInTime' /\ ExecutedInPast'
  BY <1>1 DEF QueuedInTime, ExecutedInPast
<1>8. ConfigWaitedOut'
  BY <1>1, <1>2 DEF ConfigWaitedOut
<1>9. PendingWaitedOut'
  BY <1>1, <1>4 DEF PendingWaitedOut
<1>10. MinDelay > 0 => ExecutedOnce'
  BY <1>1 DEF ExecutedOnce
<1> QED BY <1>6, <1>7, <1>8, <1>9, <1>10

LEMMA AcceptAdminInvariant ==
  ASSUME IInv, NEW caller \in Account, AcceptAdmin(caller)
  PROVE  IInv'
  BY TimelockAssumption
  DEF IInv, AcceptAdmin, TypeOK, QueuedInTime, ExecutedInPast, ConfigWaitedOut,
      PendingWaitedOut, ExecutedOnce, history

LEMMA GovernorSetPendingAdminInvariant ==
  ASSUME IInv, NEW caller \in Account, NEW new \in Account \cup {NoAccount},
         GovernorSetPendingAdmin(caller, new)
  PROVE  IInv'
  BY DEF IInv, GovernorSetPendingAdmin, TypeOK, QueuedInTime, ExecutedInPast,
         ConfigWaitedOut, PendingWaitedOut, ExecutedOnce

(* Pausing, unpausing and rolling back touch two flags only. *)
LEMMA FlagsInvariant ==
  ASSUME IInv, paused' \in BOOLEAN, attached' \in BOOLEAN,
         UNCHANGED <<now, admin, pendingAdmin, delay, queued, history>>
  PROVE  IInv'
  BY DEF IInv, TypeOK, QueuedInTime, ExecutedInPast, ConfigWaitedOut,
         PendingWaitedOut, ExecutedOnce, history

LEMMA AdvanceTimeInvariant ==
  ASSUME IInv, now' \in Nat, now' >= now, UNCHANGED timelockVars
  PROVE  IInv'
  BY DEF IInv, TypeOK, QueuedInTime, ExecutedInPast, ConfigWaitedOut, Tx,
         PendingWaitedOut, ExecutedOnce, timelockVars, config, history

LEMMA NextInvariant == IInv /\ [Next]_vars => IInv'
<1> SUFFICES ASSUME IInv, [Next]_vars PROVE IInv'
  OBVIOUS
<1>1. CASE UNCHANGED vars
  BY <1>1, AdvanceTimeInvariant DEF vars, IInv, TypeOK
<1>2. CASE AdvanceTime
  BY <1>2, AdvanceTimeInvariant, TimelockAssumption DEF AdvanceTime, IInv, TypeOK
<1>3. ASSUME NEW caller \in Account, NEW p \in Payloads, NEW eta \in Etas,
             \/ Queue(caller, Batch(p, eta))
             \/ Cancel(caller, Batch(p, eta))
             \/ VetoTransactions(caller, Batch(p, eta))
             \/ Execute(caller, Batch(p, eta))
      PROVE  IInv'
  <2>1. Batch(p, eta) \in Seq(Tx)
    BY BatchType, TimelockAssumption
  <2>2. CASE Queue(caller, Batch(p, eta))
    BY <2>1, <2>2, QueueInvariant
  <2>3. CASE Cancel(caller, Batch(p, eta)) \/ VetoTransactions(caller, Batch(p, eta))
    BY <2>3, DequeueInvariant DEF Cancel, VetoTransactions
  <2>4. CASE Execute(caller, Batch(p, eta))
    BY <2>1, <2>4, ExecuteInvariant
  <2> QED BY <1>3, <2>2, <2>3, <2>4
<1>4. ASSUME NEW caller \in Account, AcceptAdmin(caller) PROVE IInv'
  BY <1>4, AcceptAdminInvariant
<1>5. ASSUME NEW caller \in Account, NEW a \in Account \cup {NoAccount},
             GovernorSetPendingAdmin(caller, a)
      PROVE  IInv'
  BY <1>5, GovernorSetPendingAdminInvariant
<1>6. ASSUME NEW caller \in Account, Pause(caller) \/ Unpause(caller) \/ Rollback(caller)
      PROVE  IInv'
  BY <1>6, FlagsInvariant DEF Pause, Unpause, Rollback, IInv, TypeOK
<1> QED BY <1>1, <1>2, <1>3, <1>4, <1>5, <1>6 DEF Next

----------------------------------------------------------------------------
(* Every reachable state satisfies the inductive invariant. *)
THEOREM Invariance == Spec => []IInv
  BY InitInvariant, NextInvariant, PTL DEF Spec

(* Timelock.sol:43-47.  The variables keep their types; in particular the    *)
(* delay stays within the bounds of the constructor and setDelay.            *)
THEOREM TypeCorrect == Spec => []TypeOK
<1>1. IInv => TypeOK
  BY DEF IInv
<1> QED BY <1>1, Invariance, PTL

(* Timelock.sol:97, 145.  With a positive minimum delay no executed          *)
(* transaction is in the queue again, so none runs twice.                    *)
THEOREM RunsOnce == ASSUME MinDelay > 0 PROVE Spec => []ExecutedOnce
<1>1. IInv => ExecutedOnce
  BY DEF IInv
<1> QED BY <1>1, Invariance, PTL

(* Timelock.sol:66, 75, 83.  The admin and the delay change only by what      *)
(* waited out the time lock, or a governor of Core.                          *)
THEOREM ConfigSafe == Spec => []ConfigWaitedOut
<1>1. IInv => ConfigWaitedOut
  BY DEF IInv
<1> QED BY <1>1, Invariance, PTL

(* Timelock.sol:97, 141-142.  A transaction runs at least the minimum delay   *)
(* after it was last queued.                                                 *)
THEOREM DelaySafe == Spec => DelayRespected
<1> DEFINE Late == \A t \in executed' \ executed :
                     /\ t \in DOMAIN queuedAt
                     /\ now >= queuedAt[t] + MinDelay
<1>1. ASSUME IInv, Next PROVE Late
  <2>1. CASE executed' = executed
    BY <2>1
  <2>2. ASSUME NEW caller \in Account, NEW p \in Payloads, NEW eta \in Etas,
               Execute(caller, Batch(p, eta))
        PROVE  Late
    <3> SUFFICES ASSUME NEW t \in executed' \ executed
                 PROVE  t \in DOMAIN queuedAt /\ now >= queuedAt[t] + MinDelay
      OBVIOUS
    <3>1. t \in queued /\ t.eta <= now
      BY <2>2 DEF Execute, Executable
    <3>2. t.eta \in Nat /\ now \in Nat
      BY <1>1, <3>1 DEF IInv, TypeOK, Tx
    <3>3. t \in DOMAIN queuedAt /\ queuedAt[t] \in Nat /\ t.eta >= queuedAt[t] + MinDelay
      BY <1>1, <3>1 DEF IInv, QueuedInTime, TypeOK
    <3> QED BY <3>1, <3>2, <3>3, TimelockAssumption
  <2> QED BY <1>1, <2>1, <2>2 DEF Next, AdvanceTime, Queue, Cancel, VetoTransactions,
            AcceptAdmin, GovernorSetPendingAdmin, Pause, Unpause, Rollback,
            timelockVars, config, history
<1>2. IInv /\ [Next]_vars => [Late]_vars
  BY <1>1
<1> QED BY <1>2, Invariance, PTL DEF Spec, DelayRespected

(* FeiDAOTimelock.sol:8-11.  A paused timelock executes nothing and takes     *)
(* nothing into its queue.                                                   *)
THEOREM PauseSafe == Spec => PausedIsInert
<1> DEFINE Inert == paused => executed' = executed /\ queued' \subseteq queued
<1>1. Next => Inert
  <2>1. ASSUME NEW c, NEW t, Queue(c, t) \/ Execute(c, t) PROVE Inert
    BY <2>1 DEF Queue, Execute, NotPaused
  <2>2. ASSUME NEW c, NEW t, Cancel(c, t) PROVE Inert
    BY <2>2 DEF Cancel, history
  <2>3. ASSUME NEW c, NEW ts, VetoTransactions(c, ts) PROVE Inert
    BY <2>3 DEF VetoTransactions, history
  <2>4. ASSUME AdvanceTime PROVE Inert
    BY <2>4 DEF AdvanceTime, timelockVars, config, history
  <2>5. ASSUME NEW c, AcceptAdmin(c) \/ Pause(c) \/ Unpause(c) \/ Rollback(c) PROVE Inert
    BY <2>5 DEF AcceptAdmin, Pause, Unpause, Rollback, config, history
  <2>6. ASSUME NEW c, NEW a, GovernorSetPendingAdmin(c, a) PROVE Inert
    BY <2>6 DEF GovernorSetPendingAdmin, config, history
  <2> HIDE DEF Inert
  <2> QED
    BY <2>1, <2>2, <2>3, <2>4, <2>5, <2>6 DEF Next
<1>2. [Next]_vars => [Inert]_vars
  BY <1>1
<1> QED BY <1>2, PTL DEF Spec, PausedIsInert
=============================================================================
