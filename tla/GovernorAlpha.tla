---------------------------- MODULE GovernorAlpha ----------------------------
(***************************************************************************)
(* The governor (contracts/dao/governor/GovernorAlpha.sol) together with   *)
(* the timelock it administers and the votes it reads from TRIBE.          *)
(*                                                                         *)
(* The timelock is that of module Timelock, with its oversight (veto and   *)
(* pause): FeiDAO's rollback hands it to this governor.  Whoever else gets *)
(* the role of admin may do with the queue what he likes.  TRIBE enters as *)
(* the VoteLedger that module MCTribeLedger shows it to be.                *)
(***************************************************************************)
EXTENDS Integers, Sequences, Functions, FiniteSets

CONSTANTS
  Voter,            \* the accounts that propose and vote
  Governor,         \* the address of this contract, admin of the timelock
  Guardian,         \* the guardian set by the constructor
  NoAccount,        \* address(0)
  Overseer, CoreGovernor,
  QuorumVotes, ProposalThreshold, VotingDelay, VotingPeriod,
  MinDelay, MaxDelay, FirstDelay, GracePeriod,
  Call,
  Payloads,         \* what proposals may do
  Supply,
  Distributions,    \* how the votes may be spread among the voters
  Heirs,            \* bound: the accounts that are offered a role
  OtherActions,     \* bound: what an admin other than the governor queues
  LastMove,         \* bound: votes move until this block
  MaxProposals,     \* bound
  MaxUndecided,     \* bound: the transactions queued without a vote
  MaxBlock,         \* bound
  BlockTimes        \* the seconds a block may take

Account == Voter \cup {Governor, Guardian}

ASSUME GovernorAssumption ==
  /\ IsFiniteSet(Voter)
  /\ Governor \notin Voter \cup {Guardian, NoAccount}
  /\ NoAccount \notin Account
  /\ QuorumVotes \in Nat /\ ProposalThreshold \in Nat
  /\ VotingDelay \in Nat \ {0} /\ VotingPeriod \in Nat \ {0}
  /\ MinDelay \in Nat /\ MaxDelay \in Nat /\ FirstDelay \in MinDelay .. MaxDelay
  /\ GracePeriod \in Nat \ {0}
  /\ Supply \in Nat
  /\ Distributions \subseteq {d \in [Voter -> 0 .. Supply] : SumFunction(d) <= Supply}
  /\ BlockTimes \subseteq Nat \ {0}
  /\ Heirs \subseteq Account
  /\ LastMove \in Nat /\ MaxProposals \in Nat /\ MaxUndecided \in Nat /\ MaxBlock \in Nat

VARIABLES
  block, votes, past,
  now, admin, pendingAdmin, delay, queued, paused, attached,
  executed, queuedAt, named,
  guardian,
  proposals,        \* the proposals in order: proposals[id], proposalCount = Len
  latestProposalIds,
  offered,          \* history: what the guardian queued to hand the role on
  foreign,          \* history: what another admin queued or executed
  lifted            \* history: what a veto or another admin took from the queue

ledgerVars == <<block, votes, past>>
timelockVars == <<admin, pendingAdmin, delay, queued, paused, attached,
                  executed, queuedAt, named>>
governorVars == <<guardian, proposals, latestProposalIds>>
historyVars == <<offered, foreign, lifted>>
vars == <<ledgerVars, now, timelockVars, governorVars, historyVars>>

(* Another admin than FeiDAO: rollback always reverts. *)
TL == INSTANCE Timelock WITH
  FirstAdmin <- Governor, Dao <- NoAccount,
  RollbackDeadline <- 0, Etas <- {}, MaxTime <- 0

ASSUME PayloadAssumption ==
  Payloads \subseteq Seq(TL!Action) /\ OtherActions \subseteq TL!Action

(* tribe.getPriorVotes *)
PriorVotes(a, b) == IF b = 0 THEN 0 ELSE past[b][a]

----------------------------------------------------------------------------
Init ==
  /\ block = 1
  /\ votes \in Distributions
  /\ past = <<>>
  /\ TL!Init
  /\ guardian = Guardian
  /\ proposals = <<>>
  /\ latestProposalIds = [v \in Voter |-> 0]
  /\ offered = {} /\ foreign = {} /\ lifted = {}

Passed(p) ==
  /\ proposals[p].forVotes > proposals[p].againstVotes
  /\ proposals[p].forVotes >= QuorumVotes

(* Faulty: a canceled proposal goes on. *)
StateUncanceled(p) ==
  LET proposal == proposals[p]
  IN IF block <= proposal.startBlock THEN "Pending"
     ELSE IF block <= proposal.endBlock THEN "Active"
     ELSE IF ~Passed(p) THEN "Defeated"
     ELSE IF proposal.eta = 0 THEN "Succeeded"
     ELSE IF proposal.executed THEN "Executed"
     ELSE IF now >= proposal.eta + GracePeriod THEN "Expired"
     ELSE "Queued"

(* The tests are made in this order; the first that holds decides. *)
State(p) ==
  LET proposal == proposals[p]
  IN IF proposal.canceled THEN "Canceled"
     ELSE IF block <= proposal.startBlock THEN "Pending"
     ELSE IF block <= proposal.endBlock THEN "Active"
     ELSE IF ~Passed(p) THEN "Defeated"
     ELSE IF proposal.eta = 0 THEN "Succeeded"
     ELSE IF proposal.executed THEN "Executed"
     ELSE IF now >= proposal.eta + GracePeriod THEN "Expired"
     ELSE "Queued"

Txs(p) == TL!Batch(proposals[p].targets, proposals[p].eta)

(* Faulty: a proposer may open a second vote while one is running. *)
NoLiveProposalUnchecked(caller) == caller \in Voter

NoLiveProposal(caller) ==
  latestProposalIds[caller] # 0 =>
    State(latestProposalIds[caller]) \notin {"Active", "Pending"}

Propose(caller, payload) ==
  /\ Len(proposals) < MaxProposals
  /\ PriorVotes(caller, block - 1) > ProposalThreshold
  /\ NoLiveProposal(caller)
  /\ proposals' = Append(proposals,
       [proposer |-> caller, eta |-> 0, targets |-> payload,
        startBlock |-> block + VotingDelay,
        endBlock |-> block + VotingDelay + VotingPeriod,
        forVotes |-> 0, againstVotes |-> 0,
        canceled |-> FALSE, executed |-> FALSE,
        receipts |-> [v \in Voter |->
          [hasVoted |-> FALSE, support |-> FALSE, votes |-> 0]]])
  /\ latestProposalIds' = [latestProposalIds EXCEPT ![caller] = Len(proposals')]
  /\ UNCHANGED <<ledgerVars, now, timelockVars, guardian, historyVars>>

(* Faulty: overwrites what is already queued for the same second. *)
NoneQueuedUnchecked(txs) == txs # <<>>

(* _queueOrRevert: an action already queued for this eta, by another          *)
(* proposal or earlier in this one, reverts the whole.                        *)
NoneQueued(txs) == IsInjective(txs) /\ Range(txs) \cap queued = {}

QueueProposal(p) ==
  /\ State(p) = "Succeeded"
  /\ LET txs == TL!Batch(proposals[p].targets, now + delay)
     IN /\ NoneQueued(txs)
        /\ TL!Queue(Governor, txs)
  /\ proposals' = [proposals EXCEPT ![p].eta = now + delay]
  /\ UNCHANGED <<ledgerVars, guardian, latestProposalIds, historyVars>>

ExecuteProposal(p) ==
  /\ State(p) = "Queued"
  /\ TL!Execute(Governor, Txs(p))
  /\ proposals' = [proposals EXCEPT ![p].executed = TRUE]
  /\ UNCHANGED <<ledgerVars, guardian, latestProposalIds, historyVars>>

(* Faulty: cancels whatever has not been executed. *)
CancelProposalLate(caller, p) ==
  /\ State(p) # "Executed"
  /\ caller = guardian
  /\ TL!Cancel(Governor, Txs(p))
  /\ proposals' = [proposals EXCEPT ![p].canceled = TRUE]
  /\ UNCHANGED <<ledgerVars, guardian, latestProposalIds, historyVars>>

(* The proposal has no eta yet, so the calls to the timelock cancel nothing  *)
(* it has queued; but they require that the governor still is its admin.     *)
CancelProposal(caller, p) ==
  /\ State(p) \in {"Active", "Pending"}
  /\ \/ caller = guardian
     \/ PriorVotes(proposals[p].proposer, block - 1) < ProposalThreshold
  /\ TL!Cancel(Governor, Txs(p))
  /\ proposals' = [proposals EXCEPT ![p].canceled = TRUE]
  /\ UNCHANGED <<ledgerVars, guardian, latestProposalIds, historyVars>>

WithBallot(proposal, voter, support, n) ==
  [proposal EXCEPT !.forVotes = @ + (IF support THEN n ELSE 0),
                   !.againstVotes = @ + (IF support THEN 0 ELSE n),
                   !.receipts[voter] =
                     [hasVoted |-> TRUE, support |-> support, votes |-> n]]

(* Faulty: the votes of the moment, which can be moved and used again. *)
CastBallotNow(voter, p, support) ==
  /\ State(p) = "Active"
  /\ ~proposals[p].receipts[voter].hasVoted
  /\ proposals' = [proposals EXCEPT ![p] = WithBallot(@, voter, support, votes[voter])]
  /\ UNCHANGED <<ledgerVars, now, timelockVars, guardian, latestProposalIds, historyVars>>

(* The body shared by castVote and castVoteBySig. *)
CastBallot(voter, p, support) ==
  /\ State(p) = "Active"
  /\ ~proposals[p].receipts[voter].hasVoted
  /\ proposals' = [proposals EXCEPT
       ![p] = WithBallot(@, voter, support, PriorVotes(voter, @.startBlock))]
  /\ UNCHANGED <<ledgerVars, now, timelockVars, guardian, latestProposalIds, historyVars>>

CastVote(caller, p, support) == CastBallot(caller, p, support)

(* The signatory is whoever signed the ballot, which carries no nonce: the  *)
(* receipt alone keeps it from counting twice.                              *)
CastVoteBySig(signatory, p, support) == CastBallot(signatory, p, support)

AcceptAdmin ==
  /\ TL!AcceptAdmin(Governor)
  /\ UNCHANGED <<ledgerVars, governorVars, historyVars>>

TransferGuardian(caller, new) ==
  /\ caller = guardian
  /\ guardian' = new
  /\ UNCHANGED <<ledgerVars, now, timelockVars, proposals, latestProposalIds, historyVars>>

Abdicate(caller) ==
  /\ caller = guardian
  /\ guardian' = NoAccount
  /\ UNCHANGED <<ledgerVars, now, timelockVars, proposals, latestProposalIds, historyVars>>

SetPendingAdminTx(new, eta) ==
  TL!Batch(<<[kind |-> "setPendingAdmin", arg |-> new]>>, eta)

QueueSetTimelockPendingAdmin(caller, new, eta) ==
  /\ caller = guardian
  /\ TL!Queue(Governor, SetPendingAdminTx(new, eta))
  /\ offered' = offered \cup Range(SetPendingAdminTx(new, eta))
  /\ UNCHANGED <<ledgerVars, governorVars, foreign, lifted>>

ExecuteSetTimelockPendingAdmin(caller, new, eta) ==
  /\ caller = guardian
  /\ TL!Execute(Governor, SetPendingAdminTx(new, eta))
  /\ UNCHANGED <<ledgerVars, governorVars, historyVars>>

(* What the overseers do on the timelock, and an offered admin accepting. *)
Veto(caller, txs) ==
  /\ TL!VetoTransactions(caller, txs)
  /\ lifted' = lifted \cup (queued \ queued')
  /\ UNCHANGED <<ledgerVars, governorVars, offered, foreign>>

Oversee(caller) ==
  /\ \/ TL!Pause(caller)
     \/ TL!Unpause(caller)
     \/ \E a \in Heirs : TL!GovernorSetPendingAdmin(caller, a)
     \/ caller # Governor /\ TL!AcceptAdmin(caller)
  /\ UNCHANGED <<ledgerVars, governorVars, historyVars>>

(* An admin that is not the governor: no vote and no proposal stands before *)
(* what it queues, and it may cancel or run what the governor has queued.   *)
OtherAdminQueues(caller, action, eta) ==
  /\ caller # Governor
  /\ TL!Queue(caller, TL!Batch(<<action>>, eta))
  /\ foreign' = foreign \cup {[action |-> action, eta |-> eta]}
  /\ UNCHANGED <<ledgerVars, governorVars, offered, lifted>>

OtherAdminCancels(caller, t) ==
  /\ caller # Governor
  /\ TL!Cancel(caller, <<t>>)
  /\ lifted' = lifted \cup {t}
  /\ UNCHANGED <<ledgerVars, governorVars, offered, foreign>>

OtherAdminExecutes(caller, t) ==
  /\ caller # Governor
  /\ TL!Execute(caller, <<t>>)
  /\ foreign' = foreign \cup {t}
  /\ lifted' = lifted \cup {t}
  /\ UNCHANGED <<ledgerVars, governorVars, offered>>

MayQueueUndecided == Cardinality(offered \cup foreign) < MaxUndecided

(* Holders move votes; after the bound, only without changing the spread. *)
MoveVotes ==
  /\ votes' \in Distributions
  /\ block > LastMove => votes' = votes
  /\ UNCHANGED <<block, past, now, timelockVars, governorVars, historyVars>>

AdvanceBlock ==
  /\ block < MaxBlock
  /\ block' = block + 1
  /\ past' = Append(past, votes)
  /\ \E s \in BlockTimes : now' = now + s
  /\ UNCHANGED <<votes, timelockVars, governorVars, historyVars>>

Next ==
  \/ AdvanceBlock
  \/ MoveVotes
  \/ \E caller \in Voter, payload \in Payloads : Propose(caller, payload)
  \/ \E p \in 1 .. Len(proposals) :
       \/ QueueProposal(p)
       \/ ExecuteProposal(p)
       \/ \E caller \in Account : CancelProposal(caller, p)
       \/ \E v \in Voter, support \in BOOLEAN :
            CastVote(v, p, support) \/ CastVoteBySig(v, p, support)
  \/ AcceptAdmin
  \/ \E caller \in Account, new \in Heirs :
       \/ TransferGuardian(caller, new)
       \/ MayQueueUndecided /\ QueueSetTimelockPendingAdmin(caller, new, now + delay)
       \/ \E t \in queued : ExecuteSetTimelockPendingAdmin(caller, new, t.eta)
  \/ \E caller \in Account :
       \/ Abdicate(caller)
       \/ Oversee(caller)
       \/ \E p \in 1 .. Len(proposals) : Veto(caller, Txs(p))
       \/ \E t \in queued :
            \/ Veto(caller, <<t>>)
            \/ OtherAdminCancels(caller, t)
            \/ OtherAdminExecutes(caller, t)
       \/ \E action \in OtherActions, eta \in now + delay .. now + MaxDelay :
            MayQueueUndecided /\ OtherAdminQueues(caller, action, eta)

Spec == Init /\ [][Next]_vars

----------------------------------------------------------------------------
Proposal ==
  [proposer : Voter, eta : Nat, targets : Seq(TL!Action),
   startBlock : Nat, endBlock : Nat, forVotes : Nat, againstVotes : Nat,
   canceled : BOOLEAN, executed : BOOLEAN,
   receipts : [Voter -> [hasVoted : BOOLEAN, support : BOOLEAN, votes : 0 .. Supply]]]

TypeOK ==
  /\ block \in Nat
  /\ past \in Seq([Voter -> 0 .. Supply]) /\ Len(past) = block - 1
  /\ TL!TypeOK
  /\ guardian \in Account \cup {NoAccount}
  /\ proposals \in Seq(Proposal)
  /\ latestProposalIds \in [Voter -> 0 .. Len(proposals)]
  /\ offered \cup foreign \cup lifted \subseteq TL!Tx

(* GovernorAlpha.sol:308-328.  The phases that `state` computes from blocks,  *)
(* timestamps, votes and flags only ever follow one another as the abstract   *)
(* lifecycle says: nothing canceled, defeated, expired or executed returns.   *)
Lifecycle == INSTANCE ProposalLifecycle WITH
  phase <- [p \in 1 .. Len(proposals) |-> State(p)]
KeepsLifecycle == Lifecycle!Spec

(* A vote that won with a quorum and was never canceled put t into the queue. *)
Decided(p, t) ==
  /\ proposals[p].eta # 0 /\ t \in Range(Txs(p))
  /\ ~proposals[p].canceled
  /\ proposals[p].forVotes > proposals[p].againstVotes
  /\ proposals[p].forVotes >= QuorumVotes

(* A governor of Core, a vote or the guardian named another admin. *)
RoleGivenAway ==
  \E a \in Account \ {Governor} :
    \/ a \in named
    \/ \E t \in executed :
         /\ t.action = [kind |-> "setPendingAdmin", arg |-> a]
         /\ t \in offered \/ \E p \in 1 .. Len(proposals) : Decided(p, t)

(* GovernorAlpha.sol:215-306; Timelock.sol:89-162.  What the timelock has      *)
(* executed was decided by a vote and run by its proposal; or it hands on the  *)
(* role of admin, and the guardian queued it, or ran it for a vote; or another *)
(* admin did.  And nothing is of another admin unless a governor of Core, a    *)
(* vote or the guardian named one: as long as they do not, votes decide.       *)
OnlyPassedProposalsAct ==
  /\ \A t \in executed :
       \/ \E p \in 1 .. Len(proposals) :
            /\ Decided(p, t)
            /\ proposals[p].executed \/ t.action.kind = "setPendingAdmin"
       \/ t \in offered
       \/ t \in foreign
  /\ foreign # {} => RoleGivenAway

VotesCast(p, support) ==
  SumFunctionOnSet([v \in Voter |-> PriorVotes(v, proposals[p].startBlock)],
    {v \in Voter : /\ proposals[p].receipts[v].hasVoted
                   /\ proposals[p].receipts[v].support = support})

(* GovernorAlpha.sol:351-373.  Each side of a vote is the votes that those who *)
(* chose it had at the start block; moving tokens about while the vote runs    *)
(* changes nothing, and both sides together never exceed the supply.           *)
TallyIsSnapshot ==
  \A p \in 1 .. Len(proposals) :
    /\ proposals[p].forVotes > 0 \/ proposals[p].againstVotes > 0 =>
         /\ proposals[p].forVotes = VotesCast(p, TRUE)
         /\ proposals[p].againstVotes = VotesCast(p, FALSE)
    /\ proposals[p].forVotes + proposals[p].againstVotes <= Supply

(* GovernorAlpha.sol:170-181.  An account has at most one proposal that is     *)
(* pending or open for votes.                                                  *)
OneLiveProposal ==
  \A p, q \in 1 .. Len(proposals) :
    /\ proposals[p].proposer = proposals[q].proposer
    /\ State(p) \in {"Pending", "Active"} /\ State(q) \in {"Pending", "Active"}
    => p = q

(* GovernorAlpha.sol:229-241.  Every action of a proposal that the governor    *)
(* shows as queued is in the timelock's queue, so no two proposals count on    *)
(* one entry: unless an overseer vetoed it, another admin cancelled or ran it, *)
(* or it hands on the role of admin and the guardian ran it.                   *)
QueuedIsBacked ==
  \A p \in 1 .. Len(proposals) : State(p) = "Queued" =>
    \A t \in Range(Txs(p)) :
      \/ t \in queued \cup lifted
      \/ t \in executed /\ t.action.kind = "setPendingAdmin"
=============================================================================
