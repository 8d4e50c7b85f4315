---------------------------- MODULE GovernorProofs ----------------------------
(***************************************************************************)
(* Proofs about the governor for any voters, votes, periods and payloads.  *)
(*                                                                         *)
(* An account never has two proposals that are pending or open for votes.  *)
(* The code only asks about the latest proposal of an account.  That this  *)
(* is enough is an invariant: every proposal but the latest of its         *)
(* proposer is no longer live, and what is no longer live stays so,        *)
(* because blocks only grow and what is canceled remains canceled.         *)
(*                                                                         *)
(* The phases follow the abstract lifecycle, because an eta is a trace of  *)
(* victory: a proposal that has one is past its vote, not canceled, and    *)
(* has won (Settled).  What runs on the timelock was decided: whatever is  *)
(* queued was put there by a vote, by the guardian or by another admin,    *)
(* and nobody is or becomes that admin whom none of the former and no      *)
(* governor of Core named (ActsInv).                                       *)
(*                                                                         *)
(* A tally is a snapshot: at most one side counts each voter, with what    *)
(* the record of a finished block says, and records share the supply       *)
(* (TallyInv).  And what is queued stays backed: where a transaction       *)
(* is queued nobody queues it again, so two proposals never count on one,  *)
(* unless it was taken from the queue in between (QueueInv).               *)
(***************************************************************************)
EXTENDS GovernorAlpha, ArithmeticProofs, SequenceTheorems

Ids == 1 .. Len(proposals)

Live(p) == ~proposals[p].canceled /\ block <= proposals[p].endBlock

Types ==
  /\ block \in Nat /\ block >= 1
  /\ votes \in [Voter -> 0 .. Supply]
  /\ past \in Seq([Voter -> 0 .. Supply]) /\ Len(past) = block - 1
  /\ now \in Nat /\ delay \in Nat
  /\ proposals \in Seq(Proposal)
  /\ latestProposalIds \in [Voter -> 0 .. Len(proposals)]

VotingOrdered == \A p \in Ids : proposals[p].startBlock <= proposals[p].endBlock

EarlierAreOver ==
  \A p \in Ids :
    LET latest == latestProposalIds[proposals[p].proposer]
    IN p <= latest /\ (p # latest => ~Live(p))

IInv == Types /\ VotingOrdered /\ EarlierAreOver

----------------------------------------------------------------------------
(* Sequences and votes. *)

LEMMA ProposalType ==
  ASSUME Types, NEW p \in Ids
  PROVE  /\ proposals[p] \in Proposal /\ Len(proposals) \in Nat /\ p \in Nat
         /\ proposals[p].proposer \in Voter /\ proposals[p].eta \in Nat
         /\ proposals[p].startBlock \in Nat /\ proposals[p].endBlock \in Nat
         /\ proposals[p].forVotes \in Nat /\ proposals[p].againstVotes \in Nat
         /\ proposals[p].canceled \in BOOLEAN
         /\ proposals[p].receipts \in
              [Voter -> [hasVoted : BOOLEAN, support : BOOLEAN, votes : 0 .. Supply]]
<1>1. proposals[p] \in Proposal /\ Len(proposals) \in Nat
  BY ElementOfSeq, LenProperties DEF Types, Ids
<1> QED
  BY <1>1 DEF Proposal, Ids

(* GovernorAlpha.sol:308-316.  A proposal is live until its end block is over. *)
LEMMA LiveMeansOpen ==
  ASSUME Types, VotingOrdered, NEW p \in Ids
  PROVE  State(p) \in {"Pending", "Active"} <=> Live(p)
<1>1. /\ proposals[p].startBlock \in Nat /\ proposals[p].endBlock \in Nat /\ block \in Nat
      /\ proposals[p].startBlock <= proposals[p].endBlock
      /\ proposals[p].canceled \in BOOLEAN
  BY ProposalType DEF Types, VotingOrdered
<1> QED
  BY <1>1 DEF State, Live

(* Votes are asked for at a block that is over. *)
LEMMA PriorVotesType ==
  ASSUME Types, NEW v \in Voter, NEW b \in Nat, b < block
  PROVE  PriorVotes(v, b) \in 0 .. Supply
<1>1. CASE b = 0
  BY <1>1, GovernorAssumption DEF PriorVotes
<1>2. CASE b # 0
  <2>1. b \in 1 .. Len(past)
    BY <1>2 DEF Types
  <2>2. past[b] \in [Voter -> 0 .. Supply]
    BY <2>1, ElementOfSeq DEF Types
  <2> QED
    BY <1>2, <2>2 DEF PriorVotes
<1> QED
  BY <1>1, <1>2

(* Timelock.sol:129-165.  Whatever a batch does, the delay is a number after it. *)
LEMMA ExecuteDelay ==
  ASSUME NEW caller, NEW payload, Len(payload) \in Nat, NEW eta, delay \in Nat,
         TL!Execute(caller, TL!Batch(payload, eta))
  PROVE  now' = now /\ delay' \in Nat
<1> DEFINE txs == TL!Batch(payload, eta)
           calls == TL!Calls(txs, "setDelay")
<1>1. /\ now' = now
      /\ delay' = TL!LastArg(txs, "setDelay", delay)
      /\ \A i \in calls : txs[i].action.arg \in MinDelay .. MaxDelay
  BY DEF TL!Execute, TL!BatchSucceeds
<1>2. CASE calls = {}
  BY <1>1, <1>2 DEF TL!LastArg
<1>3. CASE calls # {}
  <2> DEFINE S == {[action |-> payload[i], eta |-> eta] : i \in 1 .. Len(payload)}
  <2>1. txs \in [1 .. Len(payload) -> S]
    BY DEF TL!Batch
  <2> HIDE DEF S
  <2>2. Len(txs) \in Nat
    <3> HIDE DEF txs
    <3>1. txs \in Seq(S)
      BY <2>1
    <3> QED
      BY <3>1, LenProperties
  <2>3. calls \in SUBSET (1 .. Len(txs))
    BY DEF TL!Calls
  <2> HIDE DEF txs, calls
  <2>4. \E i \in calls : \A j \in calls : j <= i
    BY <1>3, <2>2, <2>3, LastExists
  <2>5. delay' = txs[CHOOSE i \in calls : \A j \in calls : j <= i].action.arg
    BY <1>1, <1>3 DEF TL!LastArg, calls
  <2>6. delay' \in MinDelay .. MaxDelay
    BY <1>1, <2>4, <2>5
  <2> QED
    BY <1>1, <2>6, GovernorAssumption
<1> QED
  BY <1>2, <1>3

(* The same for a single transaction, which sets the delay to its argument. *)
LEMMA ExecuteDelayOfOne ==
  ASSUME NEW caller, NEW t, delay \in Nat, TL!Execute(caller, <<t>>)
  PROVE  now' = now /\ delay' \in Nat
<1> DEFINE calls == TL!Calls(<<t>>, "setDelay")
<1>1. /\ now' = now
      /\ delay' = TL!LastArg(<<t>>, "setDelay", delay)
      /\ \A i \in calls : (<<t>>)[i].action.arg \in MinDelay .. MaxDelay
  BY DEF TL!Execute, TL!BatchSucceeds
<1>2. calls \subseteq {1}
  BY DEF TL!Calls
<1>3. CASE calls = {}
  BY <1>1, <1>3 DEF TL!LastArg
<1>4. CASE calls # {}
  <2>1. calls = {1}
    BY <1>2, <1>4
  <2> HIDE DEF calls
  <2>2. \E i \in calls : \A j \in calls : j <= i
    BY <2>1
  <2>3. delay' = (<<t>>)[CHOOSE i \in calls : \A j \in calls : j <= i].action.arg
    BY <1>1, <1>4 DEF TL!LastArg, calls
  <2>4. delay' \in MinDelay .. MaxDelay
    BY <1>1, <2>2, <2>3
  <2> QED
    BY <1>1, <2>4, GovernorAssumption
<1> QED
  BY <1>3, <1>4
----------------------------------------------------------------------------
(* The invariant. *)

(* A step that at most cancels, and makes no proposal. *)
LEMMA ProposalsKept ==
  ASSUME IInv, Types',
         Len(proposals') = Len(proposals),
         \A p \in Ids : /\ proposals'[p].proposer = proposals[p].proposer
                        /\ proposals'[p].startBlock = proposals[p].startBlock
                        /\ proposals'[p].endBlock = proposals[p].endBlock
                        /\ proposals[p].canceled => proposals'[p].canceled,
         block <= block', latestProposalIds' = latestProposalIds
  PROVE  IInv'
<1>1. Ids' = Ids
  BY DEF Ids
<1>2. VotingOrdered'
  BY <1>1 DEF IInv, VotingOrdered
<1>3. ASSUME NEW p \in Ids, Live(p)' PROVE Live(p)
  <2>1. proposals[p].endBlock \in Nat /\ block \in Nat /\ block' \in Nat
    BY ProposalType DEF IInv, Types
  <2> QED
    BY <1>3, <2>1 DEF Live
<1>4. EarlierAreOver'
  BY <1>1, <1>3 DEF IInv, EarlierAreOver
<1> QED
  BY <1>2, <1>4 DEF IInv

(* One proposal is replaced by another state of it. *)
LEMMA ProposalReplaced ==
  ASSUME IInv, NEW p \in Ids, NEW new \in Proposal,
         new.proposer = proposals[p].proposer,
         new.startBlock = proposals[p].startBlock, new.endBlock = proposals[p].endBlock,
         proposals[p].canceled => new.canceled,
         proposals' = [proposals EXCEPT ![p] = new],
         UNCHANGED <<block, votes, past, latestProposalIds>>,
         now' \in Nat, delay' \in Nat
  PROVE  IInv'
<1>1. /\ proposals' \in Seq(Proposal) /\ Len(proposals') = Len(proposals)
      /\ \A q \in Ids : proposals'[q] = IF q = p THEN new ELSE proposals[q]
  BY ExceptSeq DEF IInv, Types, Ids
<1>2. Types'
  BY <1>1 DEF IInv, Types
<1>3. block \in Nat
  BY DEF IInv, Types
<1> QED
  BY <1>1, <1>2, <1>3, ProposalsKept

(* GovernorAlpha.sol:155-213. *)
LEMMA ProposeInvariant ==
  ASSUME IInv, NEW caller \in Voter, NEW payload \in Payloads, Propose(caller, payload)
  PROVE  IInv'
<1> DEFINE n == Len(proposals)
           new == [proposer |-> caller, eta |-> 0, targets |-> payload,
                   startBlock |-> block + VotingDelay,
                   endBlock |-> block + VotingDelay + VotingPeriod,
                   forVotes |-> 0, againstVotes |-> 0,
                   canceled |-> FALSE, executed |-> FALSE,
                   receipts |-> [v \in Voter |->
                     [hasVoted |-> FALSE, support |-> FALSE, votes |-> 0]]]
<1>1. /\ proposals' = Append(proposals, new)
      /\ latestProposalIds' = [latestProposalIds EXCEPT ![caller] = Len(proposals')]
      /\ UNCHANGED <<block, votes, past, now, delay>>
      /\ NoLiveProposal(caller)
  BY DEF Propose, ledgerVars, timelockVars
<1>2. block \in Nat /\ proposals \in Seq(Proposal) /\ n \in Nat
      /\ latestProposalIds \in [Voter -> 0 .. n]
  BY LenProperties DEF IInv, Types
<1>3. /\ new \in Proposal /\ new.proposer = caller
      /\ new.startBlock <= new.endBlock
  <2>1. payload \in Seq(TL!Action)
    BY PayloadAssumption
  <2>2. block + VotingDelay \in Nat /\ block + VotingDelay + VotingPeriod \in Nat
          /\ block + VotingDelay <= block + VotingDelay + VotingPeriod
    BY <1>2, GovernorAssumption
  <2>3. [v \in Voter |-> [hasVoted |-> FALSE, support |-> FALSE, votes |-> 0]]
          \in [Voter -> [hasVoted : BOOLEAN, support : BOOLEAN, votes : 0 .. Supply]]
    BY GovernorAssumption
  <2> QED
    BY <2>1, <2>2, <2>3 DEF Proposal
<1> HIDE DEF new
<1>4. /\ proposals' \in Seq(Proposal) /\ Len(proposals') = n + 1
      /\ \A i \in 1 .. n : proposals'[i] = proposals[i]
      /\ proposals'[n + 1] = new
  BY <1>1, <1>2, <1>3, AppendProperties
<1> HIDE DEF n
<1>5. /\ latestProposalIds' \in [Voter -> 0 .. n + 1]
      /\ latestProposalIds'[caller] = n + 1
      /\ \A v \in Voter \ {caller} : latestProposalIds'[v] = latestProposalIds[v]
  BY <1>1, <1>2, <1>4
<1>6. Types'
  BY <1>1, <1>4, <1>5 DEF IInv, Types
<1>7. VotingOrdered'
  <2>1. SUFFICES ASSUME NEW p \in 1 .. n + 1
                 PROVE  proposals'[p].startBlock <= proposals'[p].endBlock
    BY <1>4 DEF VotingOrdered, Ids
  <2>2. p = n + 1 \/ p \in 1 .. n
    BY <1>2
  <2> QED
    BY <1>3, <1>4, <2>2 DEF IInv, VotingOrdered, Ids, n
<1>8. EarlierAreOver'
  <2>1. SUFFICES ASSUME NEW p \in 1 .. n + 1
                 PROVE  /\ p <= latestProposalIds'[proposals'[p].proposer]
                        /\ p # latestProposalIds'[proposals'[p].proposer] => ~Live(p)'
    BY <1>4 DEF EarlierAreOver, Ids
  <2>2. CASE p = n + 1
    BY <1>2, <1>3, <1>4, <1>5, <2>2
  <2>3. CASE p \in 1 .. n
    <3>1. /\ p \in Ids /\ proposals'[p] = proposals[p] /\ proposals[p].proposer \in Voter
          /\ p <= latestProposalIds[proposals[p].proposer]
          /\ p # latestProposalIds[proposals[p].proposer] => ~Live(p)
      BY <1>4, <2>3, ProposalType DEF IInv, EarlierAreOver, Ids, n
    <3>2. Live(p)' = Live(p)
      BY <1>1, <3>1 DEF Live
    <3>3. CASE proposals[p].proposer # caller
      BY <1>5, <3>1, <3>2, <3>3
    <3>4. CASE proposals[p].proposer = caller
      <4>1. latestProposalIds'[proposals'[p].proposer] = n + 1
        BY <1>5, <3>1, <3>4
      <4>2. ~Live(p)
        <5>1. CASE p # latestProposalIds[caller]
          BY <3>1, <3>4, <5>1
        <5>2. CASE p = latestProposalIds[caller]
          <6>1. State(p) \notin {"Pending", "Active"}
            BY <1>1, <1>2, <2>3, <5>2 DEF NoLiveProposal
          <6> QED
            BY <3>1, <6>1, LiveMeansOpen DEF IInv
        <5> QED
          BY <5>1, <5>2
      <4> QED
        BY <1>2, <2>3, <3>2, <4>1, <4>2
    <3> QED
      BY <3>3, <3>4
  <2> QED
    BY <1>2, <2>2, <2>3
<1> QED
  BY <1>6, <1>7, <1>8 DEF IInv

(* GovernorAlpha.sol:215-228. *)
LEMMA QueueInvariant ==
  ASSUME IInv, NEW p \in Ids, QueueProposal(p)
  PROVE  IInv'
<1> DEFINE new == [proposals[p] EXCEPT !.eta = now + delay]
<1>1. /\ now \in Nat /\ delay \in Nat
      /\ now' = now /\ delay' = delay
      /\ UNCHANGED <<block, votes, past, latestProposalIds>>
      /\ proposals' = [proposals EXCEPT ![p] = new]
  BY DEF IInv, Types, QueueProposal, TL!Queue, TL!config, ledgerVars
<1>2. /\ new \in Proposal /\ new.proposer = proposals[p].proposer
      /\ new.startBlock = proposals[p].startBlock /\ new.endBlock = proposals[p].endBlock
      /\ new.canceled = proposals[p].canceled
  <2>1. proposals[p] \in Proposal /\ now + delay \in Nat
    BY <1>1, ProposalType DEF IInv
  <2> QED
    BY <2>1 DEF Proposal
<1> HIDE DEF new
<1> QED
  BY <1>1, <1>2, ProposalReplaced

(* GovernorAlpha.sol:243-260. *)
LEMMA ExecuteInvariant ==
  ASSUME IInv, NEW p \in Ids, ExecuteProposal(p)
  PROVE  IInv'
<1> DEFINE new == [proposals[p] EXCEPT !.executed = TRUE]
<1>1. /\ UNCHANGED <<block, votes, past, latestProposalIds>>
      /\ proposals' = [proposals EXCEPT ![p] = new]
      /\ TL!Execute(Governor, TL!Batch(proposals[p].targets, proposals[p].eta))
  BY DEF ExecuteProposal, Txs, ledgerVars
<1>2. proposals[p] \in Proposal /\ proposals[p].targets \in Seq(TL!Action)
  BY ProposalType DEF IInv, Proposal
<1>3. now' \in Nat /\ delay' \in Nat
  <2>1. Len(proposals[p].targets) \in Nat
    BY <1>2, LenProperties
  <2>2. now \in Nat /\ delay \in Nat
    BY DEF IInv, Types
  <2> QED
    BY <1>1, <2>1, <2>2, ExecuteDelay
<1>4. /\ new \in Proposal /\ new.proposer = proposals[p].proposer
      /\ new.startBlock = proposals[p].startBlock /\ new.endBlock = proposals[p].endBlock
      /\ new.canceled = proposals[p].canceled
  BY <1>2 DEF Proposal
<1> HIDE DEF new
<1> QED
  BY <1>1, <1>3, <1>4, ProposalReplaced

(* GovernorAlpha.sol:262-283. *)
LEMMA CancelInvariant ==
  ASSUME IInv, NEW caller, NEW p \in Ids, CancelProposal(caller, p)
  PROVE  IInv'
<1> DEFINE new == [proposals[p] EXCEPT !.canceled = TRUE]
<1>1. /\ UNCHANGED <<block, votes, past, latestProposalIds, now, delay>>
      /\ proposals' = [proposals EXCEPT ![p] = new]
      /\ now \in Nat /\ delay \in Nat
  BY DEF CancelProposal, TL!Cancel, TL!config, ledgerVars, IInv, Types
<1>2. /\ new \in Proposal /\ new.proposer = proposals[p].proposer
      /\ new.startBlock = proposals[p].startBlock /\ new.endBlock = proposals[p].endBlock
      /\ new.canceled
  BY ProposalType DEF IInv, Proposal
<1> HIDE DEF new
<1> QED
  BY <1>1, <1>2, ProposalReplaced

(* GovernorAlpha.sol:346-376.  A vote counts what the voter had at a block that *)
(* is over.                                                                    *)
LEMMA BallotInvariant ==
  ASSUME IInv, NEW v \in Voter, NEW p \in Ids, NEW support \in BOOLEAN,
         CastBallot(v, p, support)
  PROVE  IInv'
<1> DEFINE n == PriorVotes(v, proposals[p].startBlock)
           old == proposals[p]
           new == WithBallot(old, v, support, n)
<1>1. /\ old \in Proposal /\ old.startBlock \in Nat
      /\ old.forVotes \in Nat /\ old.againstVotes \in Nat
      /\ old.receipts \in [Voter -> [hasVoted : BOOLEAN, support : BOOLEAN, votes : 0 .. Supply]]
      /\ proposals \in Seq(Proposal) /\ DOMAIN proposals = Ids
      /\ now \in Nat /\ delay \in Nat
  BY ProposalType, LenProperties DEF IInv, Types, Ids
<1>2. n \in 0 .. Supply /\ n \in Nat
  <2>1. State(p) = "Active"
    BY DEF CastBallot
  <2>2. old.startBlock < block
    BY <1>1, <2>1 DEF State, IInv, Types
  <2> QED
    BY <1>1, <2>2, PriorVotesType, GovernorAssumption DEF IInv
<1>3. /\ UNCHANGED <<block, votes, past, latestProposalIds, now, delay>>
      /\ proposals' = [proposals EXCEPT ![p] = new]
  <2>1. UNCHANGED <<block, votes, past, latestProposalIds, now, delay>>
    BY DEF CastBallot, ledgerVars, timelockVars
  <2>2. proposals' = [proposals EXCEPT ![p] = new]
    BY DEF CastBallot
  <2> QED
    BY <2>1, <2>2
<1>4. /\ new \in Proposal /\ new.proposer = old.proposer
      /\ new.startBlock = old.startBlock /\ new.endBlock = old.endBlock
      /\ new.canceled = old.canceled
  <2> HIDE DEF n
  <2>1. /\ old.forVotes + (IF support THEN n ELSE 0) \in Nat
        /\ old.againstVotes + (IF support THEN 0 ELSE n) \in Nat
    BY <1>1, <1>2
  <2>2. [old.receipts EXCEPT ![v] = [hasVoted |-> TRUE, support |-> support, votes |-> n]]
          \in [Voter -> [hasVoted : BOOLEAN, support : BOOLEAN, votes : 0 .. Supply]]
    BY <1>1, <1>2
  <2> QED
    BY <1>1, <2>1, <2>2 DEF Proposal, WithBallot
<1> HIDE DEF new
<1> QED
  BY <1>1, <1>3, <1>4, ProposalReplaced

(* Steps on the timelock alone, of the guardian or of the overseers. *)
LEMMA TimelockInvariant ==
  ASSUME IInv,
         UNCHANGED <<block, votes, past, proposals, latestProposalIds>>,
         now' \in Nat, delay' \in Nat
  PROVE  IInv'
<1>1. Types'
  BY DEF IInv, Types
<1>2. block \in Nat
  BY DEF IInv, Types
<1> QED
  BY <1>1, <1>2, ProposalsKept

LEMMA InitInvariant == Init => IInv
<1> SUFFICES ASSUME Init PROVE IInv
  OBVIOUS
<1>1. delay \in Nat /\ now \in Nat
  BY GovernorAssumption DEF Init, TL!Init
<1>2. Types
  <2>1. votes \in [Voter -> 0 .. Supply]
    BY GovernorAssumption DEF Init
  <2> QED
    BY <1>1, <2>1 DEF Init, Types
<1> QED
  BY <1>2 DEF Init, IInv, VotingOrdered, EarlierAreOver, Ids

LEMMA NextInvariant == IInv /\ [Next]_vars => IInv'
<1> SUFFICES ASSUME IInv, [Next]_vars PROVE IInv'
  OBVIOUS
<1>0. now \in Nat /\ delay \in Nat
  BY DEF IInv, Types
<1>1. CASE AdvanceBlock
  <2>1. /\ block' = block + 1 /\ past' = Append(past, votes) /\ now' \in Nat
        /\ UNCHANGED <<votes, delay, proposals, latestProposalIds>>
    BY <1>0, <1>1, GovernorAssumption DEF AdvanceBlock, timelockVars, governorVars
  <2>2. past' \in Seq([Voter -> 0 .. Supply]) /\ Len(past') = Len(past) + 1
    BY <2>1, AppendProperties DEF IInv, Types
  <2>3. Types' /\ block <= block'
    BY <1>0, <2>1, <2>2 DEF IInv, Types
  <2> QED
    BY <2>1, <2>3, ProposalsKept
<1>2. CASE MoveVotes
  <2>1. votes' \in [Voter -> 0 .. Supply]
    BY <1>2, GovernorAssumption DEF MoveVotes
  <2>2. UNCHANGED <<block, past, now, delay, proposals, latestProposalIds>>
    BY <1>2 DEF MoveVotes, timelockVars, governorVars
  <2>3. Types' /\ block <= block'
    BY <2>1, <2>2 DEF IInv, Types
  <2> QED
    BY <2>2, <2>3, ProposalsKept
<1>3. ASSUME NEW caller \in Voter, NEW payload \in Payloads, Propose(caller, payload)
      PROVE  IInv'
  BY <1>3, ProposeInvariant
<1>4. ASSUME NEW p \in Ids,
             \/ QueueProposal(p)
             \/ ExecuteProposal(p)
             \/ \E caller \in Account : CancelProposal(caller, p)
             \/ \E v \in Voter, support \in BOOLEAN :
                  CastVote(v, p, support) \/ CastVoteBySig(v, p, support)
      PROVE  IInv'
  BY <1>4, QueueInvariant, ExecuteInvariant, CancelInvariant, BallotInvariant
  DEF CastVote, CastVoteBySig
<1>5. CASE AcceptAdmin
  <2>1. UNCHANGED <<block, votes, past, proposals, latestProposalIds, now, delay>>
    BY <1>5 DEF AcceptAdmin, TL!AcceptAdmin, ledgerVars, governorVars
  <2> QED
    BY <1>0, <2>1, TimelockInvariant
<1>6. ASSUME NEW caller \in Account, NEW new,
             TransferGuardian(caller, new) \/ Abdicate(caller)
      PROVE  IInv'
  <2>1. UNCHANGED <<block, votes, past, proposals, latestProposalIds, now, delay>>
    BY <1>6 DEF TransferGuardian, Abdicate, ledgerVars, timelockVars
  <2> QED
    BY <1>0, <2>1, TimelockInvariant
<1>7. ASSUME NEW caller \in Account, NEW new, NEW eta,
             QueueSetTimelockPendingAdmin(caller, new, eta)
      PROVE  IInv'
  <2>1. UNCHANGED <<block, votes, past, proposals, latestProposalIds, now, delay>>
    BY <1>7 DEF QueueSetTimelockPendingAdmin, TL!Queue, TL!config, ledgerVars, governorVars
  <2> QED
    BY <1>0, <2>1, TimelockInvariant
<1>8. ASSUME NEW caller \in Account, NEW new, NEW eta,
             ExecuteSetTimelockPendingAdmin(caller, new, eta)
      PROVE  IInv'
  <2>1. UNCHANGED <<block, votes, past, proposals, latestProposalIds>>
    BY <1>8 DEF ExecuteSetTimelockPendingAdmin, ledgerVars, governorVars
  <2> DEFINE payload == <<[kind |-> "setPendingAdmin", arg |-> new]>>
  <2>2. TL!Execute(Governor, TL!Batch(payload, eta)) /\ Len(payload) = 1
    BY <1>8 DEF ExecuteSetTimelockPendingAdmin, SetPendingAdminTx
  <2> HIDE DEF payload
  <2>3. now' \in Nat /\ delay' \in Nat
    BY <1>0, <2>2, ExecuteDelay
  <2> QED
    BY <2>1, <2>3, TimelockInvariant
<1>9. ASSUME NEW caller \in Account, NEW txs, Oversee(caller) \/ Veto(caller, txs)
      PROVE  IInv'
  <2>1. UNCHANGED <<block, votes, past, proposals, latestProposalIds, now, delay>>
    BY <1>9 DEF Oversee, Veto, TL!VetoTransactions, TL!Pause, TL!Unpause,
       TL!GovernorSetPendingAdmin, TL!AcceptAdmin, TL!config, ledgerVars, governorVars
  <2> QED
    BY <1>0, <2>1, TimelockInvariant
<1>11. ASSUME NEW caller \in Account, NEW action, NEW eta, NEW t,
              \/ OtherAdminQueues(caller, action, eta)
              \/ OtherAdminCancels(caller, t)
       PROVE  IInv'
  <2>1. UNCHANGED <<block, votes, past, proposals, latestProposalIds, now, delay>>
    BY <1>11 DEF OtherAdminQueues, OtherAdminCancels, TL!Queue, TL!Cancel, TL!config,
       ledgerVars, governorVars
  <2> QED
    BY <1>0, <2>1, TimelockInvariant
<1>12. ASSUME NEW caller \in Account, NEW t, OtherAdminExecutes(caller, t)
       PROVE  IInv'
  <2>1. UNCHANGED <<block, votes, past, proposals, latestProposalIds>>
    BY <1>12 DEF OtherAdminExecutes, ledgerVars, governorVars
  <2>2. now' \in Nat /\ delay' \in Nat
    BY <1>0, <1>12, ExecuteDelayOfOne DEF OtherAdminExecutes
  <2> QED
    BY <2>1, <2>2, TimelockInvariant
<1>10. CASE UNCHANGED vars
  <2>1. UNCHANGED <<block, votes, past, proposals, latestProposalIds, now, delay>>
    BY <1>10 DEF vars, ledgerVars, timelockVars, governorVars
  <2> QED
    BY <1>0, <2>1, TimelockInvariant
<1> QED
  BY <1>1, <1>2, <1>3, <1>4, <1>5, <1>6, <1>7, <1>8, <1>9, <1>10, <1>11, <1>12 DEF Next, Ids

----------------------------------------------------------------------------
(* The life of a proposal. *)

(* A proposal gets an eta only once it has won, and runs only after that. *)
Settled(p) ==
  /\ proposals[p].startBlock < proposals[p].endBlock
  /\ proposals[p].eta # 0 =>
       block > proposals[p].endBlock /\ ~proposals[p].canceled /\ Passed(p)
  /\ proposals[p].executed => proposals[p].eta # 0

AllSettled == \A p \in Ids : Settled(p)

Phases == [p \in 1 .. Len(proposals) |-> State(p)]

Follows(from, to) == from = to \/ <<from, to>> \in Lifecycle!Leads

(* What each step is shown to do. *)
StepOK == AllSettled' /\ [Lifecycle!Next]_Phases

(* Every phase is followed by itself or by one that may follow it. *)
LEMMA PhasesProgress ==
  ASSUME Len(proposals) \in Nat, Len(proposals') = Len(proposals),
         \A p \in Ids : Follows(State(p), State(p)')
  PROVE  Lifecycle!Next
<1> DEFINE n == Len(proposals)
           new == [p \in 1 .. n |-> State(p)']
<1>1. Phases' = new
  BY DEF Phases
<1>2. Len(Phases) = n /\ Len(new) = n /\ DOMAIN Phases = 1 .. n
  BY DEF Phases
<1>3. \A p \in 1 .. n : Phases[p] = State(p) /\ new[p] = State(p)'
  BY DEF Phases
<1>4. Lifecycle!Progress
  BY <1>1, <1>2, <1>3 DEF Lifecycle!Progress, Phases, Follows, Ids
<1> QED
  BY <1>4 DEF Lifecycle!Next

(* A step that leaves every proposal, the block and the time alone. *)
LEMMA ProposalsUntouched ==
  ASSUME IInv, AllSettled,
         UNCHANGED <<block, now, proposals>>
  PROVE  StepOK
<1>1. AllSettled'
  BY DEF AllSettled, Settled, Passed, Ids
<1>2. UNCHANGED Phases
  BY DEF Phases, State, Passed
<1> QED
  BY <1>1, <1>2 DEF StepOK

(* A step that replaces one proposal, which was not executed. *)
LEMMA ProposalMoves ==
  ASSUME IInv, AllSettled, NEW p \in Ids, NEW new \in Proposal,
         proposals' = [proposals EXCEPT ![p] = new], UNCHANGED <<block, now>>,
         Settled(p)', Follows(State(p), State(p)')
  PROVE  StepOK
<1>1. /\ Len(proposals') = Len(proposals) /\ Len(proposals) \in Nat
      /\ \A q \in Ids : proposals'[q] = IF q = p THEN new ELSE proposals[q]
  BY ExceptSeq, LenProperties DEF IInv, Types, Ids
<1>2. ASSUME NEW q \in Ids, q # p
      PROVE  Settled(q)' /\ State(q)' = State(q)
  <2>1. proposals'[q] = proposals[q]
    BY <1>1, <1>2
  <2> QED
    BY <2>1 DEF AllSettled, Settled, Passed, State
<1>3. AllSettled'
  BY <1>1, <1>2 DEF AllSettled, Ids
<1>4. Lifecycle!Next
  BY <1>1, <1>2, PhasesProgress DEF Follows
<1> QED
  BY <1>3, <1>4 DEF StepOK

(* GovernorAlpha.sol:215-227.  What has won and is queued can still be executed. *)
LEMMA QueueStep ==
  ASSUME IInv, AllSettled, NEW p \in Ids, QueueProposal(p)
  PROVE  StepOK
<1> DEFINE new == [proposals[p] EXCEPT !.eta = now + delay]
<1>1. /\ now \in Nat /\ delay \in Nat /\ now' = now /\ block' = block /\ executed' = executed
      /\ proposals' = [proposals EXCEPT ![p] = new] /\ State(p) = "Succeeded"
  BY DEF IInv, Types, QueueProposal, TL!Queue, ledgerVars
<1>2. /\ proposals[p] \in Proposal /\ proposals \in Seq(Proposal)
      /\ proposals[p].startBlock \in Nat /\ proposals[p].endBlock \in Nat /\ block \in Nat
      /\ proposals[p].canceled \in BOOLEAN
  BY ProposalType DEF IInv, Types
<1>3. /\ new \in Proposal /\ new.eta = now + delay
      /\ new.startBlock = proposals[p].startBlock /\ new.endBlock = proposals[p].endBlock
      /\ new.canceled = proposals[p].canceled /\ new.executed = proposals[p].executed
      /\ new.forVotes = proposals[p].forVotes /\ new.againstVotes = proposals[p].againstVotes
  <2>1. now + delay \in Nat
    BY <1>1
  <2> QED
    BY <1>2, <2>1 DEF Proposal
<1> HIDE DEF new
<1>4. proposals'[p] = new
  BY <1>1, <1>2, <1>3, ExceptSeq DEF Ids
<1>5. /\ ~proposals[p].canceled /\ block > proposals[p].endBlock /\ Passed(p)
      /\ proposals[p].eta = 0
  BY <1>1, <1>2 DEF State
<1>6. ~proposals[p].executed /\ proposals[p].startBlock < proposals[p].endBlock
  BY <1>5 DEF AllSettled, Settled
<1>7. Passed(p)'
  BY <1>3, <1>4, <1>5 DEF Passed
<1>8. Settled(p)'
  BY <1>1, <1>3, <1>4, <1>5, <1>6, <1>7 DEF Settled
<1>9. State(p)' \in {"Succeeded", "Queued"}
  <2>1. ~(now >= now + delay + GracePeriod)
    BY <1>1, GovernorAssumption
  <2> QED
    BY <1>1, <1>2, <1>3, <1>4, <1>5, <1>6, <1>7, <2>1 DEF State
<1>10. Follows(State(p), State(p)')
  BY <1>1, <1>9 DEF Follows, Lifecycle!Leads
<1> QED
  BY <1>1, <1>3, <1>6, <1>8, <1>10, ProposalMoves

(* GovernorAlpha.sol:262-288.  Only what can still be voted on is canceled. *)
LEMMA CancelStep ==
  ASSUME IInv, AllSettled, NEW caller, NEW p \in Ids,
         CancelProposal(caller, p)
  PROVE  StepOK
<1> DEFINE new == [proposals[p] EXCEPT !.canceled = TRUE]
<1>1. /\ now' = now /\ block' = block /\ executed' = executed
      /\ proposals' = [proposals EXCEPT ![p] = new] /\ State(p) \in {"Active", "Pending"}
  BY DEF CancelProposal, TL!Cancel, TL!history, ledgerVars
<1>2. /\ proposals[p] \in Proposal /\ proposals \in Seq(Proposal)
      /\ proposals[p].endBlock \in Nat /\ block \in Nat
  BY ProposalType DEF IInv, Types
<1>3. /\ new \in Proposal /\ new.eta = proposals[p].eta
      /\ new.startBlock = proposals[p].startBlock /\ new.endBlock = proposals[p].endBlock
      /\ new.canceled = TRUE /\ new.executed = proposals[p].executed
  BY <1>2 DEF Proposal
<1> HIDE DEF new
<1>4. proposals'[p] = new
  BY <1>1, <1>2, <1>3, ExceptSeq DEF Ids
<1>5. Live(p)
  BY <1>1, LiveMeansOpen DEF IInv
<1>6. proposals[p].eta = 0 /\ ~proposals[p].executed
        /\ proposals[p].startBlock < proposals[p].endBlock
  BY <1>2, <1>5 DEF Live, AllSettled, Settled
<1>7. Settled(p)'
  BY <1>3, <1>4, <1>6 DEF Settled
<1>8. State(p)' = "Canceled"
  BY <1>3, <1>4 DEF State
<1>9. Follows(State(p), State(p)')
  BY <1>1, <1>8 DEF Follows, Lifecycle!Leads
<1> QED
  BY <1>1, <1>3, <1>6, <1>7, <1>9, ProposalMoves

(* GovernorAlpha.sol:351-373.  A vote moves no phase. *)
LEMMA BallotStep ==
  ASSUME IInv, AllSettled, IInv',
         NEW v \in Voter, NEW p \in Ids, NEW support \in BOOLEAN, CastBallot(v, p, support)
  PROVE  StepOK
<1> DEFINE new == WithBallot(proposals[p], v, support, PriorVotes(v, proposals[p].startBlock))
<1>1. /\ now' = now /\ block' = block /\ executed' = executed /\ State(p) = "Active"
      /\ proposals' = [proposals EXCEPT ![p] = new]
  BY DEF CastBallot, ledgerVars, timelockVars
<1>2. /\ proposals[p] \in Proposal /\ proposals \in Seq(Proposal)
      /\ proposals[p].startBlock \in Nat /\ proposals[p].endBlock \in Nat /\ block \in Nat
      /\ proposals[p].canceled \in BOOLEAN
  BY ProposalType DEF IInv, Types
<1>3. /\ new.eta = proposals[p].eta
      /\ new.startBlock = proposals[p].startBlock /\ new.endBlock = proposals[p].endBlock
      /\ new.canceled = proposals[p].canceled /\ new.executed = proposals[p].executed
  BY <1>2 DEF Proposal, WithBallot
<1> HIDE DEF new
<1>4. proposals'[p] = new
  BY <1>1, <1>2 DEF Ids
<1>5. new \in Proposal
  <2>1. proposals' \in Seq(Proposal) /\ Len(proposals') = Len(proposals)
    BY <1>1, <1>2 DEF IInv, Types
  <2>2. p \in 1 .. Len(proposals')
    BY <2>1 DEF Ids
  <2> QED
    BY <1>4, <2>1, <2>2, ElementOfSeq
<1>6. ~proposals[p].canceled /\ block > proposals[p].startBlock /\ block <= proposals[p].endBlock
  BY <1>1, <1>2 DEF State
<1>7. proposals[p].eta = 0 /\ ~proposals[p].executed
        /\ proposals[p].startBlock < proposals[p].endBlock
  BY <1>2, <1>6 DEF AllSettled, Settled
<1>8. Settled(p)'
  BY <1>3, <1>4, <1>7 DEF Settled
<1>9. State(p)' = "Active"
  BY <1>1, <1>2, <1>3, <1>4, <1>6 DEF State
<1> QED
  BY <1>1, <1>5, <1>7, <1>8, <1>9, ProposalMoves DEF Follows

(* GovernorAlpha.sol:243-260.  What is queued becomes executed. *)
LEMMA ExecuteStep ==
  ASSUME IInv, AllSettled, NEW p \in Ids, ExecuteProposal(p)
  PROVE  StepOK
<1> DEFINE new == [proposals[p] EXCEPT !.executed = TRUE]
<1>1. /\ now' = now /\ block' = block /\ State(p) = "Queued"
      /\ executed' = executed \cup Range(Txs(p))
      /\ proposals' = [proposals EXCEPT ![p] = new]
  BY DEF ExecuteProposal, TL!Execute, TL!Range, Range, ledgerVars
<1>2. /\ proposals[p] \in Proposal /\ proposals \in Seq(Proposal)
      /\ proposals[p].startBlock \in Nat /\ proposals[p].endBlock \in Nat /\ block \in Nat
      /\ proposals[p].canceled \in BOOLEAN
  BY ProposalType DEF IInv, Types
<1>3. /\ new \in Proposal /\ new.eta = proposals[p].eta /\ new.targets = proposals[p].targets
      /\ new.startBlock = proposals[p].startBlock /\ new.endBlock = proposals[p].endBlock
      /\ new.canceled = proposals[p].canceled /\ new.executed = TRUE
      /\ new.forVotes = proposals[p].forVotes /\ new.againstVotes = proposals[p].againstVotes
  BY <1>2 DEF Proposal
<1> HIDE DEF new
<1>4. /\ Len(proposals') = Len(proposals) /\ Len(proposals) \in Nat
      /\ \A q \in Ids : proposals'[q] = IF q = p THEN new ELSE proposals[q]
  BY <1>1, <1>2, <1>3, ExceptSeq, LenProperties DEF Ids
<1>5. /\ ~proposals[p].canceled /\ block > proposals[p].endBlock /\ Passed(p)
      /\ proposals[p].eta # 0 /\ proposals[p].startBlock < proposals[p].endBlock
  BY <1>1, <1>2 DEF State, AllSettled, Settled
<1>6. Passed(p)'
  BY <1>3, <1>4, <1>5 DEF Passed
<1>7. Settled(p)'
  BY <1>1, <1>3, <1>4, <1>5, <1>6 DEF Settled
<1>8. State(p)' = "Executed"
  BY <1>1, <1>2, <1>3, <1>4, <1>5, <1>6 DEF State
<1>9. ASSUME NEW q \in Ids, q # p
      PROVE  Settled(q)' /\ State(q)' = State(q)
  <2>1. proposals'[q] = proposals[q]
    BY <1>4, <1>9
  <2> QED
    BY <1>1, <2>1 DEF AllSettled, Settled, Passed, State
<1>10. AllSettled'
  BY <1>4, <1>7, <1>9 DEF AllSettled, Ids
<1>11. Lifecycle!Next
  <2>1. Follows(State(p), State(p)')
    BY <1>1, <1>8 DEF Follows, Lifecycle!Leads
  <2> QED
    BY <1>4, <1>9, <2>1, PhasesProgress DEF Follows
<1> QED
  BY <1>10, <1>11 DEF StepOK

(* GovernorAlpha.sol:155-213.  A new proposal is pending and settles nothing. *)
LEMMA ProposeStep ==
  ASSUME IInv, AllSettled, IInv',
         NEW caller \in Voter, NEW payload \in Payloads, Propose(caller, payload)
  PROVE  StepOK
<1> DEFINE n == Len(proposals)
           new == [proposer |-> caller, eta |-> 0, targets |-> payload,
                   startBlock |-> block + VotingDelay,
                   endBlock |-> block + VotingDelay + VotingPeriod,
                   forVotes |-> 0, againstVotes |-> 0,
                   canceled |-> FALSE, executed |-> FALSE,
                   receipts |-> [v \in Voter |->
                     [hasVoted |-> FALSE, support |-> FALSE, votes |-> 0]]]
<1>1. /\ proposals' = Append(proposals, new)
      /\ UNCHANGED <<block, now, executed>>
  BY DEF Propose, ledgerVars, timelockVars
<1>2. block \in Nat /\ proposals \in Seq(Proposal) /\ n \in Nat
  BY LenProperties DEF IInv, Types
<1>3. /\ Len(proposals') = n + 1 /\ \A i \in 1 .. n : proposals'[i] = proposals[i]
      /\ proposals'[n + 1] = new
  <2> HIDE DEF new
  <2> QED
    BY <1>1, <1>2
<1>4. /\ new.startBlock < new.endBlock /\ new.eta = 0 /\ new.executed = FALSE
      /\ new.canceled = FALSE /\ block <= new.startBlock
  BY <1>2, GovernorAssumption
<1> HIDE DEF new, n
<1>5. ASSUME NEW p, p = n + 1
      PROVE  Settled(p)' /\ State(p)' = "Pending"
  <2>1. proposals'[p] = new
    BY <1>3, <1>5
  <2> QED
    BY <1>1, <1>4, <2>1 DEF Settled, State
<1>6. ASSUME NEW p \in 1 .. n
      PROVE  Settled(p)' /\ State(p)' = State(p)
  <2>1. proposals'[p] = proposals[p] /\ p \in Ids
    BY <1>3 DEF Ids, n
  <2> QED
    BY <1>1, <2>1 DEF AllSettled, Settled, Passed, State, Txs, TL!Batch
<1>7. AllSettled'
  <2> SUFFICES ASSUME NEW p \in 1 .. n + 1 PROVE Settled(p)'
    BY <1>3 DEF AllSettled, Ids
  <2>1. p \in 1 .. n \/ p = n + 1
    BY <1>2
  <2> QED
    BY <1>5, <1>6, <2>1
<1>8. Lifecycle!Next
  <2>1. Phases' = [p \in 1 .. n + 1 |-> State(p)']
    BY <1>3 DEF Phases
  <2>2. Phases = [p \in 1 .. n |-> State(p)]
    BY DEF Phases, n
  <2>3. Phases' = [p \in 1 .. n + 1 |-> IF p = n + 1 THEN "Pending" ELSE Phases[p]]
    <3>1. ASSUME NEW p \in 1 .. n + 1
          PROVE  State(p)' = IF p = n + 1 THEN "Pending" ELSE Phases[p]
      <4>1. p \in 1 .. n \/ p = n + 1
        BY <1>2
      <4> QED
        BY <1>2, <1>5, <1>6, <2>2, <4>1
    <3> QED
      BY <2>1, <3>1
  <2>4. Phases \in Seq(Lifecycle!Phase) /\ Len(Phases) = n
    <3>1. \A p \in 1 .. n : State(p) \in Lifecycle!Phase
      BY DEF State, Lifecycle!Phase
    <3> QED
      BY <1>2, <2>2, <3>1
  <2> DEFINE longer == Append(Phases, "Pending")
  <2>5. /\ longer \in Seq(Lifecycle!Phase) /\ Len(longer) = n + 1
        /\ longer[n + 1] = "Pending" /\ \A p \in 1 .. n : longer[p] = Phases[p]
    <3>1. "Pending" \in Lifecycle!Phase
      BY DEF Lifecycle!Phase
    <3> QED
      BY <1>2, <2>4, <3>1, AppendProperties
  <2> HIDE DEF longer
  <2>6. longer = [p \in 1 .. n + 1 |-> longer[p]]
    BY <2>5
  <2>7. ASSUME NEW p \in 1 .. n + 1
        PROVE  longer[p] = IF p = n + 1 THEN "Pending" ELSE Phases[p]
    <3>1. p \in 1 .. n \/ p = n + 1
      BY <1>2
    <3> QED
      BY <1>2, <2>5, <3>1
  <2>8. Phases' = longer
    BY <2>3, <2>6, <2>7
  <2> QED
    BY <2>8 DEF Lifecycle!Next, Lifecycle!Propose, Phases, longer
<1> QED
  BY <1>7, <1>8 DEF StepOK

(* GovernorAlpha.sol:308-328.  Blocks and seconds open votes, close them and let *)
(* what is queued expire.                                                        *)
LEMMA AdvanceBlockStep ==
  ASSUME IInv, AllSettled, AdvanceBlock
  PROVE  StepOK
<1>1. /\ block' = block + 1 /\ proposals' = proposals /\ executed' = executed
      /\ block \in Nat /\ now \in Nat /\ now' \in Nat /\ now <= now'
      /\ Len(proposals) \in Nat
  BY GovernorAssumption, LenProperties
  DEF AdvanceBlock, timelockVars, governorVars, IInv, Types
<1>2. ASSUME NEW p \in Ids
      PROVE  Settled(p)' /\ Follows(State(p), State(p)')
  <2>1. /\ proposals[p].startBlock \in Nat /\ proposals[p].endBlock \in Nat
        /\ proposals[p].eta \in Nat /\ proposals[p].canceled \in BOOLEAN
    BY ProposalType DEF IInv
  <2>2. Settled(p)
    BY DEF AllSettled
  <2>3. /\ Passed(p)' <=> Passed(p)
        /\ State(p)' = IF proposals[p].canceled THEN "Canceled"
                       ELSE IF block + 1 <= proposals[p].startBlock THEN "Pending"
                       ELSE IF block + 1 <= proposals[p].endBlock THEN "Active"
                       ELSE IF ~Passed(p) THEN "Defeated"
                       ELSE IF proposals[p].eta = 0 THEN "Succeeded"
                       ELSE IF proposals[p].executed THEN "Executed"
                       ELSE IF now' >= proposals[p].eta + GracePeriod THEN "Expired"
                       ELSE "Queued"
    BY <1>1 DEF Passed, State
  <2>4. Settled(p)'
    BY <1>1, <2>1, <2>2 DEF Settled, Passed
  <2>5. CASE proposals[p].canceled
    <3>1. State(p) = "Canceled" /\ State(p)' = "Canceled"
      BY <2>3, <2>5 DEF State
    <3> QED
      BY <2>4, <3>1 DEF Follows
  <2>6. CASE ~proposals[p].canceled /\ block <= proposals[p].startBlock
    <3>1. State(p) = "Pending"
      BY <2>6 DEF State
    <3>2. State(p)' \in {"Pending", "Active"}
      <4>1. block + 1 <= proposals[p].endBlock
        BY <1>1, <2>1, <2>2, <2>6 DEF Settled
      <4> QED
        BY <2>3, <2>6, <4>1
    <3> QED
      BY <2>4, <3>1, <3>2 DEF Follows, Lifecycle!Leads
  <2>7. CASE /\ ~proposals[p].canceled /\ ~(block <= proposals[p].startBlock)
             /\ block <= proposals[p].endBlock
    <3>1. State(p) = "Active"
      BY <2>7 DEF State
    <3>2. proposals[p].eta = 0 /\ ~(block + 1 <= proposals[p].startBlock)
      BY <1>1, <2>1, <2>2, <2>7 DEF Settled
    <3>3. State(p)' \in {"Active", "Defeated", "Succeeded"}
      BY <2>3, <2>7, <3>2
    <3> QED
      BY <2>4, <3>1, <3>3 DEF Follows, Lifecycle!Leads
  <2>8. CASE /\ ~proposals[p].canceled /\ ~(block <= proposals[p].startBlock)
             /\ ~(block <= proposals[p].endBlock)
    <3>1. ~(block + 1 <= proposals[p].startBlock) /\ ~(block + 1 <= proposals[p].endBlock)
      BY <1>1, <2>1, <2>8
    <3>2. CASE ~Passed(p)
      <4>1. State(p) = "Defeated" /\ State(p)' = "Defeated"
        BY <2>3, <2>8, <3>1, <3>2 DEF State
      <4> QED
        BY <2>4, <4>1 DEF Follows
    <3>3. CASE Passed(p) /\ (proposals[p].eta = 0 \/ proposals[p].executed)
      <4>1. State(p)' = State(p)
        BY <2>3, <2>8, <3>1, <3>3 DEF State
      <4> QED
        BY <2>4, <4>1 DEF Follows
    <3>4. CASE Passed(p) /\ proposals[p].eta # 0 /\ ~proposals[p].executed
      <4>1. now >= proposals[p].eta + GracePeriod => now' >= proposals[p].eta + GracePeriod
        BY <1>1, <2>1, GovernorAssumption
      <4>2. State(p) = IF now >= proposals[p].eta + GracePeriod THEN "Expired" ELSE "Queued"
        BY <2>8, <3>4 DEF State
      <4>3. State(p)' = IF now' >= proposals[p].eta + GracePeriod THEN "Expired" ELSE "Queued"
        BY <2>3, <2>8, <3>1, <3>4
      <4> QED
        BY <2>4, <4>1, <4>2, <4>3 DEF Follows, Lifecycle!Leads
    <3> QED
      BY <3>2, <3>3, <3>4
  <2> QED
    BY <2>4, <2>5, <2>6, <2>7, <2>8
<1>3. AllSettled'
  BY <1>1, <1>2 DEF AllSettled, Ids
<1>4. Lifecycle!Next
  BY <1>1, <1>2, PhasesProgress
<1> QED
  BY <1>3, <1>4 DEF StepOK

LEMMA NextStep ==
  ASSUME IInv, AllSettled, [Next]_vars
  PROVE  StepOK
<1>0. IInv'
  BY NextInvariant
<1>1. CASE AdvanceBlock
  BY <1>1, AdvanceBlockStep
<1>2. CASE MoveVotes
  <2>1. UNCHANGED <<block, now, proposals>>
    BY <1>2 DEF MoveVotes, timelockVars, governorVars
  <2> QED
    BY <2>1, ProposalsUntouched
<1>3. ASSUME NEW caller \in Voter, NEW payload \in Payloads, Propose(caller, payload)
      PROVE  StepOK
  BY <1>0, <1>3, ProposeStep
<1>4. ASSUME NEW p \in Ids,
             \/ QueueProposal(p)
             \/ ExecuteProposal(p)
             \/ \E caller \in Account : CancelProposal(caller, p)
             \/ \E v \in Voter, support \in BOOLEAN :
                  CastVote(v, p, support) \/ CastVoteBySig(v, p, support)
      PROVE  StepOK
  BY <1>0, <1>4, QueueStep, ExecuteStep, CancelStep, BallotStep DEF CastVote, CastVoteBySig
<1>5. CASE AcceptAdmin
  <2>1. UNCHANGED <<block, now, proposals>>
    BY <1>5 DEF AcceptAdmin, TL!AcceptAdmin, TL!history, ledgerVars, governorVars
  <2> QED
    BY <2>1, ProposalsUntouched
<1>6. ASSUME NEW caller \in Account, NEW new,
             TransferGuardian(caller, new) \/ Abdicate(caller)
      PROVE  StepOK
  <2>1. UNCHANGED <<block, now, proposals>>
    BY <1>6 DEF TransferGuardian, Abdicate, ledgerVars, timelockVars
  <2> QED
    BY <2>1, ProposalsUntouched
<1>7. ASSUME NEW caller \in Account, NEW new, NEW eta,
             QueueSetTimelockPendingAdmin(caller, new, eta)
      PROVE  StepOK
  <2>1. UNCHANGED <<block, now, proposals>>
    BY <1>7 DEF QueueSetTimelockPendingAdmin, TL!Queue, ledgerVars, governorVars
  <2> QED
    BY <2>1, ProposalsUntouched
<1>8. ASSUME NEW caller \in Account, NEW new, NEW eta,
             ExecuteSetTimelockPendingAdmin(caller, new, eta)
      PROVE  StepOK
  <2>1. UNCHANGED <<block, now, proposals>>
    BY <1>8 DEF ExecuteSetTimelockPendingAdmin, TL!Execute, ledgerVars, governorVars
  <2> QED
    BY <2>1, ProposalsUntouched
<1>9. ASSUME NEW caller \in Account, NEW txs, Oversee(caller) \/ Veto(caller, txs)
      PROVE  StepOK
  <2>1. UNCHANGED <<block, now, proposals>>
    BY <1>9 DEF Oversee, Veto, TL!VetoTransactions, TL!Pause, TL!Unpause,
       TL!GovernorSetPendingAdmin, TL!AcceptAdmin, ledgerVars, governorVars
  <2> QED
    BY <2>1, ProposalsUntouched
<1>11. ASSUME NEW caller \in Account, NEW action, NEW eta, NEW t,
              \/ OtherAdminQueues(caller, action, eta)
              \/ OtherAdminCancels(caller, t)
              \/ OtherAdminExecutes(caller, t)
       PROVE  StepOK
  <2>1. UNCHANGED <<block, now, proposals>>
    BY <1>11 DEF OtherAdminQueues, OtherAdminCancels, OtherAdminExecutes, TL!Queue, TL!Cancel,
       TL!Execute, ledgerVars, governorVars
  <2> QED
    BY <2>1, ProposalsUntouched
<1>10. CASE UNCHANGED vars
  <2>1. UNCHANGED <<block, now, proposals>>
    BY <1>10 DEF vars, ledgerVars, timelockVars, governorVars
  <2> QED
    BY <2>1, ProposalsUntouched
<1> QED
  BY <1>1, <1>2, <1>3, <1>4, <1>5, <1>6, <1>7, <1>8, <1>9, <1>10, <1>11 DEF Next, Ids

(* Nothing is proposed at first. *)
LEMMA InitSettled == Init => AllSettled /\ Phases = <<>>
BY DEF Init, AllSettled, Phases, Ids

----------------------------------------------------------------------------
(* The tally. *)

(* What the voters had at the start block, and those who chose one side. *)
Prior(p) == [v \in Voter |-> PriorVotes(v, proposals[p].startBlock)]
Side(p, support) ==
  {v \in Voter : /\ proposals[p].receipts[v].hasVoted
                 /\ proposals[p].receipts[v].support = support}

(* Nobody has voted before the start block is over, and then each side has   *)
(* the votes that its voters had at it.                                      *)
Snapshot(p) ==
  /\ block <= proposals[p].startBlock =>
       /\ proposals[p].forVotes = 0 /\ proposals[p].againstVotes = 0
       /\ \A v \in Voter : ~proposals[p].receipts[v].hasVoted
  /\ block > proposals[p].startBlock =>
       /\ proposals[p].forVotes = VotesCast(p, TRUE)
       /\ proposals[p].againstVotes = VotesCast(p, FALSE)

TallyInv ==
  /\ IInv
  /\ votes \in Distributions
  /\ \A b \in 1 .. block - 1 : past[b] \in Distributions
  /\ \A p \in Ids : Snapshot(p)

LEMMA CastMeans ==
  ASSUME NEW p, NEW support
  PROVE  VotesCast(p, support) = SumFunctionOnSet(Prior(p), Side(p, support))
BY DEF VotesCast, Prior, Side

LEMMA PriorType ==
  ASSUME IInv, NEW p \in Ids, block > proposals[p].startBlock, NEW support
  PROVE  /\ \A v \in Voter : Prior(p)[v] \in 0 .. Supply /\ Prior(p)[v] \in Int
         /\ Side(p, support) \in SUBSET Voter /\ IsFiniteSet(Side(p, support))
         /\ IsFiniteSet(Voter)
<1>1. proposals[p].startBlock \in Nat /\ proposals[p].startBlock < block
  BY ProposalType DEF IInv, Types
<1>2. \A v \in Voter : Prior(p)[v] \in 0 .. Supply
  BY <1>1, PriorVotesType DEF IInv, Prior
<1>3. Side(p, support) \in SUBSET Voter /\ IsFiniteSet(Voter)
  BY GovernorAssumption DEF Side
<1> QED
  BY <1>2, <1>3, FS_Subset, GovernorAssumption

(* Both sides together are some of the voters, who share the supply. *)
LEMMA TallyWithinSupply ==
  ASSUME TallyInv, NEW p \in Ids
  PROVE  proposals[p].forVotes + proposals[p].againstVotes <= Supply
<1>1. /\ IInv /\ block \in Nat /\ proposals[p].startBlock \in Nat /\ Snapshot(p)
  BY ProposalType DEF TallyInv, IInv, Types
<1>2. CASE block <= proposals[p].startBlock
  BY <1>1, <1>2, GovernorAssumption DEF Snapshot
<1>3. CASE block > proposals[p].startBlock
  <2> DEFINE f == Prior(p)
             S == Side(p, TRUE)
             T == Side(p, FALSE)
  <2>1. /\ \A v \in Voter : f[v] \in Nat /\ f[v] \in Int
        /\ S \in SUBSET Voter /\ T \in SUBSET Voter
        /\ IsFiniteSet(S) /\ IsFiniteSet(T) /\ IsFiniteSet(Voter)
    <3>1. \A v \in Voter : f[v] \in 0 .. Supply /\ f[v] \in Int
      BY <1>1, <1>3, PriorType
    <3>2. /\ S \in SUBSET Voter /\ IsFiniteSet(S) /\ IsFiniteSet(Voter)
          /\ T \in SUBSET Voter /\ IsFiniteSet(T)
      BY <1>1, <1>3, PriorType
    <3>3. Supply \in Nat
      BY GovernorAssumption
    <3> HIDE DEF f, S, T
    <3> QED
      BY <3>1, <3>2, <3>3
  <2>2. S \cap T = {}
    BY DEF Side
  <2>3. /\ proposals[p].forVotes = SumFunctionOnSet(f, S)
        /\ proposals[p].againstVotes = SumFunctionOnSet(f, T)
    <3>1. /\ proposals[p].forVotes = VotesCast(p, TRUE)
          /\ proposals[p].againstVotes = VotesCast(p, FALSE)
      BY <1>1, <1>3 DEF Snapshot
    <3>2. VotesCast(p, TRUE) = SumFunctionOnSet(f, S) /\ VotesCast(p, FALSE) = SumFunctionOnSet(f, T)
      BY CastMeans
    <3> QED
      BY <3>1, <3>2
  <2>4. SumFunctionOnSet(f, Voter) <= Supply
    <3>1. CASE proposals[p].startBlock = 0
      <4>1. \A v \in Voter : f[v] = 0 /\ f[v] = f[v] + f[v]
        BY <3>1 DEF Prior, PriorVotes
      <4> HIDE DEF f
      <4>2. /\ SumFunctionOnSet(f, Voter) = SumFunctionOnSet(f, Voter) + SumFunctionOnSet(f, Voter)
            /\ SumFunctionOnSet(f, Voter) \in Int
        BY <2>1, <4>1, SumOfPairs, SumIsInt
      <4> QED
        BY <4>2, GovernorAssumption
    <3>2. CASE proposals[p].startBlock # 0
      <4> DEFINE d == past[proposals[p].startBlock]
      <4>1. proposals[p].startBlock \in 1 .. block - 1
        BY <1>1, <1>3, <3>2
      <4>2. d \in Distributions
        BY <4>1 DEF TallyInv
      <4>3. DOMAIN d = Voter /\ SumFunction(d) <= Supply
        BY <4>2, GovernorAssumption
      <4>4. \A v \in Voter : f[v] = d[v]
        BY <3>2 DEF Prior, PriorVotes
      <4> HIDE DEF d, f
      <4>5. SumFunctionOnSet(f, Voter) = SumFunctionOnSet(d, Voter)
        BY <2>1, <4>4, SumAgrees
      <4> QED
        BY <4>3, <4>5 DEF SumFunction
    <3> QED
      BY <3>1, <3>2
  <2> HIDE DEF f, S, T
  <2>5. SumFunctionOnSet(f, S \cup T) = SumFunctionOnSet(f, S) + SumFunctionOnSet(f, T)
    BY <2>1, <2>2, SumOfUnion
  <2>6. SumFunctionOnSet(f, S \cup T) <= SumFunctionOnSet(f, Voter)
    <3>1. S \cup T \in SUBSET Voter
      BY <2>1
    <3> QED
      BY <2>1, <3>1, SumOfPart
  <2>7. /\ SumFunctionOnSet(f, Voter) \in Int /\ SumFunctionOnSet(f, S) \in Int
        /\ SumFunctionOnSet(f, T) \in Int /\ Supply \in Int
    <3>1. (\A v \in S : f[v] \in Int) /\ (\A v \in T : f[v] \in Int)
      BY <2>1
    <3> QED
      BY <2>1, <3>1, SumIsInt, GovernorAssumption
  <2> QED
    BY <2>3, <2>4, <2>5, <2>6, <2>7
<1> QED
  BY <1>1, <1>2, <1>3

(* A step that leaves the votes of a proposal alone. *)
LEMMA SnapshotKept ==
  ASSUME NEW p, Snapshot(p), block' = block, past' = past,
         proposals'[p].startBlock = proposals[p].startBlock,
         proposals'[p].forVotes = proposals[p].forVotes,
         proposals'[p].againstVotes = proposals[p].againstVotes,
         proposals'[p].receipts = proposals[p].receipts
  PROVE  Snapshot(p)'
BY DEF Snapshot, VotesCast, PriorVotes

(* A step that leaves the votes of every proposal alone. *)
LEMMA TalliesKept ==
  ASSUME TallyInv, IInv', UNCHANGED <<block, past>>, votes' \in Distributions,
         Len(proposals') = Len(proposals),
         \A p \in Ids : /\ proposals'[p].startBlock = proposals[p].startBlock
                        /\ proposals'[p].forVotes = proposals[p].forVotes
                        /\ proposals'[p].againstVotes = proposals[p].againstVotes
                        /\ proposals'[p].receipts = proposals[p].receipts
  PROVE  TallyInv'
<1>1. Ids' = Ids
  BY DEF Ids
<1>2. \A p \in Ids : Snapshot(p)'
  BY SnapshotKept DEF TallyInv
<1> QED
  BY <1>1, <1>2 DEF TallyInv

(* One proposal is replaced, and its votes stay. *)
LEMMA TallyReplaced ==
  ASSUME TallyInv, IInv', UNCHANGED <<block, past, votes>>, NEW p \in Ids, NEW new,
         proposals' = [proposals EXCEPT ![p] = new],
         new.startBlock = proposals[p].startBlock,
         new.forVotes = proposals[p].forVotes,
         new.againstVotes = proposals[p].againstVotes,
         new.receipts = proposals[p].receipts
  PROVE  TallyInv'
<1>1. proposals \in Seq(Proposal) /\ proposals' \in Seq(Proposal)
  BY DEF TallyInv, IInv, Types
<1>2. Len(proposals') = Len(proposals)
  <2>1. DOMAIN proposals' = DOMAIN proposals
    OBVIOUS
  <2>2. /\ DOMAIN proposals = 1 .. Len(proposals) /\ Len(proposals) \in Nat
        /\ DOMAIN proposals' = 1 .. Len(proposals') /\ Len(proposals') \in Nat
    BY <1>1, LenProperties
  <2> QED
    BY <2>1, <2>2
<1>3. \A q \in Ids : proposals'[q] = IF q = p THEN new ELSE proposals[q]
  BY <1>1, LenProperties DEF Ids
<1>4. votes' \in Distributions
  BY DEF TallyInv
<1> QED
  BY <1>2, <1>3, <1>4, TalliesKept

(* GovernorAlpha.sol:186-204.  A new vote starts later, with nothing. *)
LEMMA ProposeTally ==
  ASSUME TallyInv, IInv', NEW caller \in Voter, NEW payload \in Payloads,
         Propose(caller, payload)
  PROVE  TallyInv'
<1> DEFINE n == Len(proposals)
           new == [proposer |-> caller, eta |-> 0, targets |-> payload,
                   startBlock |-> block + VotingDelay,
                   endBlock |-> block + VotingDelay + VotingPeriod,
                   forVotes |-> 0, againstVotes |-> 0,
                   canceled |-> FALSE, executed |-> FALSE,
                   receipts |-> [v \in Voter |->
                     [hasVoted |-> FALSE, support |-> FALSE, votes |-> 0]]]
<1>1. /\ proposals' = Append(proposals, new)
      /\ UNCHANGED <<block, past, votes>>
  BY DEF Propose, ledgerVars
<1>2. block \in Nat /\ proposals \in Seq(Proposal) /\ n \in Nat
  BY LenProperties DEF TallyInv, IInv, Types
<1>3. /\ Len(proposals') = n + 1 /\ \A i \in 1 .. n : proposals'[i] = proposals[i]
      /\ proposals'[n + 1] = new
  <2> HIDE DEF new
  <2> QED
    BY <1>1, <1>2
<1>4. /\ new.forVotes = 0 /\ new.againstVotes = 0
      /\ \A v \in Voter : ~new.receipts[v].hasVoted
      /\ block <= new.startBlock /\ new.startBlock \in Nat
  BY <1>2, GovernorAssumption
<1> HIDE DEF new, n
<1>5. ASSUME NEW p, p = n + 1 PROVE Snapshot(p)'
  <2>1. proposals'[p] = new /\ block' = block /\ ~ (block > new.startBlock)
    BY <1>1, <1>2, <1>3, <1>4, <1>5
  <2> QED
    BY <1>4, <2>1 DEF Snapshot
<1>6. ASSUME NEW p \in 1 .. n PROVE Snapshot(p)'
  <2>1. proposals'[p] = proposals[p] /\ Snapshot(p)
    BY <1>3 DEF TallyInv, Ids, n
  <2> QED
    BY <1>1, <2>1, SnapshotKept
<1>7. \A p \in 1 .. n + 1 : p \in 1 .. n \/ p = n + 1
  BY <1>2
<1>8. \A p \in Ids' : Snapshot(p)'
  BY <1>3, <1>5, <1>6, <1>7 DEF Ids
<1> QED
  BY <1>1, <1>8 DEF TallyInv

(* GovernorAlpha.sol:351-373.  A ballot adds its voter to one side, once. *)
LEMMA BallotTally ==
  ASSUME TallyInv, IInv', NEW v \in Voter, NEW p \in Ids, NEW support \in BOOLEAN,
         CastBallot(v, p, support)
  PROVE  TallyInv'
<1> DEFINE n == PriorVotes(v, proposals[p].startBlock)
           old == proposals[p]
           new == WithBallot(old, v, support, n)
<1>1. /\ UNCHANGED <<block, votes, past>> /\ State(p) = "Active"
      /\ ~old.receipts[v].hasVoted
      /\ proposals' = [proposals EXCEPT ![p] = new]
  BY DEF CastBallot, ledgerVars
<1>2. /\ IInv /\ Types /\ Snapshot(p) /\ proposals \in Seq(Proposal) /\ old \in Proposal
      /\ old.startBlock \in Nat /\ old.endBlock \in Nat /\ block \in Nat
      /\ old.forVotes \in Nat /\ old.againstVotes \in Nat
      /\ old.receipts \in [Voter -> [hasVoted : BOOLEAN, support : BOOLEAN, votes : 0 .. Supply]]
      /\ Len(proposals) \in Nat
  BY ProposalType, LenProperties DEF TallyInv, IInv, Types
<1>3. block > old.startBlock
  BY <1>1, <1>2 DEF State
<1>4. n \in Int /\ n = Prior(p)[v]
  BY <1>2, <1>3, PriorType DEF Prior
<1>5. /\ new.startBlock = old.startBlock
      /\ new.forVotes = old.forVotes + (IF support THEN n ELSE 0)
      /\ new.againstVotes = old.againstVotes + (IF support THEN 0 ELSE n)
      /\ new.receipts = [old.receipts EXCEPT
           ![v] = [hasVoted |-> TRUE, support |-> support, votes |-> n]]
  <2> HIDE DEF n
  <2> QED
    BY <1>2 DEF WithBallot, Proposal
<1> HIDE DEF n, new
<1>6. /\ Len(proposals') = Len(proposals) /\ Ids' = Ids
      /\ \A q \in Ids : proposals'[q] = IF q = p THEN new ELSE proposals[q]
  <2>1. proposals' \in Seq(Proposal) /\ DOMAIN proposals = Ids
    BY <1>2, LenProperties DEF IInv, Types, Ids
  <2>2. DOMAIN proposals' = DOMAIN proposals
    BY <1>1
  <2>3. DOMAIN proposals' = 1 .. Len(proposals') /\ Len(proposals') \in Nat
    BY <2>1, LenProperties
  <2>4. Len(proposals') = Len(proposals)
    BY <1>2, <2>1, <2>2, <2>3 DEF Ids
  <2> QED
    BY <1>1, <2>1, <2>4 DEF Ids
<1>7. Prior(p)' = Prior(p)
  BY <1>1, <1>5, <1>6 DEF Prior, PriorVotes
<1>8. /\ Side(p, support)' = Side(p, support) \cup {v} /\ v \notin Side(p, support)
      /\ \A s \in BOOLEAN : s # support => Side(p, s)' = Side(p, s)
  <2>1. proposals'[p].receipts = new.receipts
    BY <1>6
  <2>2. \A x \in Voter \ {v} : proposals'[p].receipts[x] = old.receipts[x]
    BY <1>2, <1>5, <2>1
  <2>3. /\ proposals'[p].receipts[v].hasVoted
        /\ proposals'[p].receipts[v].support = support
    BY <1>2, <1>5, <2>1
  <2>4. v \notin Side(p, support)
    BY <1>1 DEF Side
  <2>5. Side(p, support)' = Side(p, support) \cup {v}
    BY <2>2, <2>3 DEF Side
  <2>6. ASSUME NEW s \in BOOLEAN, s # support PROVE Side(p, s)' = Side(p, s)
    BY <1>1, <2>2, <2>3, <2>6 DEF Side
  <2> QED
    BY <2>4, <2>5, <2>6
<1>9. SumFunctionOnSet(Prior(p), Side(p, support) \cup {v})
        = n + SumFunctionOnSet(Prior(p), Side(p, support))
  <2>1. /\ IsFiniteSet(Side(p, support))
        /\ \A x \in Side(p, support) \cup {v} : Prior(p)[x] \in Int
    BY <1>2, <1>3, PriorType
  <2> QED
    BY <1>4, <1>8, <2>1, SumAdds
<1>10. ASSUME NEW s \in BOOLEAN
       PROVE  /\ s = support => VotesCast(p, s)' = n + VotesCast(p, s)
              /\ s # support => VotesCast(p, s)' = VotesCast(p, s)
  <2>1. VotesCast(p, s)' = SumFunctionOnSet(Prior(p)', Side(p, s)')
    BY DEF VotesCast, Prior, Side
  <2> QED
    BY <1>7, <1>8, <1>9, <2>1, CastMeans
<1>11. PICK yes, no : yes = VotesCast(p, TRUE) /\ no = VotesCast(p, FALSE)
  OBVIOUS
<1>12. old.forVotes = yes /\ old.againstVotes = no
  BY <1>2, <1>3, <1>11 DEF Snapshot
<1>13. Snapshot(p)'
  <2>1. proposals'[p] = new /\ block' = block /\ ~ (block <= new.startBlock)
    BY <1>1, <1>2, <1>3, <1>5, <1>6
  <2>2. yes + n = n + yes /\ no + n = n + no /\ yes + 0 = yes /\ no + 0 = no
    BY <1>2, <1>4, <1>12
  <2>3. new.forVotes = VotesCast(p, TRUE)' /\ new.againstVotes = VotesCast(p, FALSE)'
    <3>1. CASE support = TRUE
      <4>1. new.forVotes = yes + n /\ new.againstVotes = no + 0
        BY <1>5, <1>12, <3>1
      <4>2. VotesCast(p, TRUE)' = n + yes /\ VotesCast(p, FALSE)' = no
        BY <1>10, <1>11, <3>1, Zenon
      <4> QED
        BY <2>2, <4>1, <4>2, Zenon
    <3>2. CASE support = FALSE
      <4>1. new.forVotes = yes + 0 /\ new.againstVotes = no + n
        BY <1>5, <1>12, <3>2
      <4>2. VotesCast(p, TRUE)' = yes /\ VotesCast(p, FALSE)' = n + no
        BY <1>10, <1>11, <3>2, Zenon
      <4> QED
        BY <2>2, <4>1, <4>2, Zenon
    <3> QED
      BY <3>1, <3>2
  <2> QED
    BY <2>1, <2>3 DEF Snapshot
<1>14. ASSUME NEW q \in Ids, q # p PROVE Snapshot(q)'
  <2>1. proposals'[q] = proposals[q] /\ Snapshot(q)
    BY <1>6, <1>14 DEF TallyInv
  <2> QED
    BY <1>1, <2>1, SnapshotKept
<1> QED
  BY <1>1, <1>6, <1>13, <1>14 DEF TallyInv

(* A start block that ends becomes a record, and nobody has voted yet. *)
LEMMA AdvanceBlockTally ==
  ASSUME TallyInv, IInv', AdvanceBlock
  PROVE  TallyInv'
<1>1. /\ block' = block + 1 /\ past' = Append(past, votes)
      /\ UNCHANGED <<votes, proposals>> /\ IInv /\ Ids' = Ids
      /\ block \in Nat /\ block >= 1 /\ Len(past) = block - 1
      /\ past \in Seq([Voter -> 0 .. Supply]) /\ votes \in [Voter -> 0 .. Supply]
  BY DEF AdvanceBlock, governorVars, Ids, TallyInv, IInv, Types
<1>2. /\ \A b \in 1 .. block - 1 : past'[b] = past[b]
      /\ past'[block] = votes
  BY <1>1, AppendProperties
<1>3. \A b \in 1 .. block' - 1 : past'[b] \in Distributions
  <2>1. ASSUME NEW b \in 1 .. block' - 1 PROVE past'[b] \in Distributions
    <3>1. b \in 1 .. block - 1 \/ b = block
      BY <1>1
    <3> QED
      BY <1>2, <3>1 DEF TallyInv
  <2> QED
    BY <2>1
<1>4. ASSUME NEW p \in Ids PROVE Snapshot(p)'
  <2>1. proposals[p].startBlock \in Nat /\ Snapshot(p)
    BY <1>1, ProposalType DEF TallyInv, IInv
  <2>2. CASE block + 1 <= proposals[p].startBlock
    <3>1. block <= proposals[p].startBlock /\ ~ (block' > proposals[p].startBlock)
      BY <1>1, <2>1, <2>2
    <3> QED
      BY <1>1, <2>1, <3>1 DEF Snapshot
  <2>3. CASE block = proposals[p].startBlock
    <3>1. block <= proposals[p].startBlock /\ ~ (block' <= proposals[p].startBlock)
      BY <1>1, <2>1, <2>3
    <3>2. /\ proposals[p].forVotes = 0 /\ proposals[p].againstVotes = 0
          /\ \A v \in Voter : ~proposals[p].receipts[v].hasVoted
      BY <2>1, <3>1 DEF Snapshot
    <3>3. ASSUME NEW s PROVE VotesCast(p, s)' = 0
      <4>1. {v \in Voter : /\ proposals'[p].receipts[v].hasVoted
                           /\ proposals'[p].receipts[v].support = s} = {}
        BY <1>1, <3>2
      <4> QED
        BY <4>1, SumOfNone DEF VotesCast
    <3> QED
      BY <1>1, <3>1, <3>2, <3>3 DEF Snapshot
  <2>4. CASE block > proposals[p].startBlock
    <3>1. /\ ~ (block' <= proposals[p].startBlock)
          /\ proposals[p].startBlock = 0 \/ proposals[p].startBlock \in 1 .. block - 1
      BY <1>1, <2>1, <2>4
    <3>2. \A v \in Voter : PriorVotes(v, proposals[p].startBlock)'
                             = PriorVotes(v, proposals[p].startBlock)
      BY <1>1, <1>2, <3>1 DEF PriorVotes
    <3>3. \A s : VotesCast(p, s)' = VotesCast(p, s)
      BY <1>1, <3>2 DEF VotesCast
    <3> QED
      BY <1>1, <2>1, <2>4, <3>1, <3>3 DEF Snapshot
  <2> QED
    BY <1>1, <2>1, <2>2, <2>3, <2>4
<1> QED
  BY <1>1, <1>3, <1>4 DEF TallyInv

LEMMA InitTally == Init => TallyInv
<1> SUFFICES ASSUME Init PROVE TallyInv
  OBVIOUS
<1>1. IInv /\ votes \in Distributions /\ Ids = {} /\ 1 .. block - 1 = {}
  BY InitInvariant DEF Init, Ids
<1> QED
  BY <1>1 DEF TallyInv

LEMMA NextTally == TallyInv /\ [Next]_vars => TallyInv'
<1> SUFFICES ASSUME TallyInv, [Next]_vars PROVE TallyInv'
  OBVIOUS
<1>0. IInv /\ IInv' /\ votes \in Distributions
  BY NextInvariant DEF TallyInv
<1>1. CASE AdvanceBlock
  BY <1>0, <1>1, AdvanceBlockTally
<1>2. ASSUME UNCHANGED <<block, past, proposals>>, votes' \in Distributions
      PROVE  TallyInv'
  BY <1>0, <1>2, TalliesKept
<1>3. CASE MoveVotes
  BY <1>2, <1>3 DEF MoveVotes, governorVars
<1>4. ASSUME NEW caller \in Voter, NEW payload \in Payloads, Propose(caller, payload)
      PROVE  TallyInv'
  BY <1>0, <1>4, ProposeTally
<1>5. ASSUME NEW p \in Ids,
             \/ QueueProposal(p)
             \/ ExecuteProposal(p)
             \/ \E caller \in Account : CancelProposal(caller, p)
      PROVE  TallyInv'
  <2>1. proposals[p] \in Proposal
    BY <1>0, ProposalType DEF IInv
  <2>2. ASSUME NEW new, proposals' = [proposals EXCEPT ![p] = new],
               \/ new = [proposals[p] EXCEPT !.eta = now + delay]
               \/ new = [proposals[p] EXCEPT !.executed = TRUE]
               \/ new = [proposals[p] EXCEPT !.canceled = TRUE],
               UNCHANGED <<block, past, votes>>
        PROVE  TallyInv'
    <3>1. /\ new.startBlock = proposals[p].startBlock
          /\ new.forVotes = proposals[p].forVotes
          /\ new.againstVotes = proposals[p].againstVotes
          /\ new.receipts = proposals[p].receipts
      BY <2>1, <2>2 DEF Proposal
    <3> QED
      BY <1>0, <2>2, <3>1, TallyReplaced
  <2>3. CASE QueueProposal(p)
    BY <2>2, <2>3 DEF QueueProposal, ledgerVars
  <2>4. CASE ExecuteProposal(p)
    BY <2>2, <2>4 DEF ExecuteProposal, ledgerVars
  <2>5. CASE \E caller \in Account : CancelProposal(caller, p)
    BY <2>2, <2>5 DEF CancelProposal, ledgerVars
  <2> QED
    BY <1>5, <2>3, <2>4, <2>5
<1>6. ASSUME NEW p \in Ids,
             \E v \in Voter, support \in BOOLEAN :
               CastVote(v, p, support) \/ CastVoteBySig(v, p, support)
      PROVE  TallyInv'
  BY <1>0, <1>6, BallotTally DEF CastVote, CastVoteBySig
<1>7. ASSUME \/ AcceptAdmin
             \/ \E caller \in Account, new \in Heirs :
                  \/ TransferGuardian(caller, new)
                  \/ QueueSetTimelockPendingAdmin(caller, new, now + delay)
                  \/ \E t \in queued : ExecuteSetTimelockPendingAdmin(caller, new, t.eta)
             \/ \E caller \in Account : Abdicate(caller) \/ Oversee(caller)
             \/ \E caller \in Account, txs \in {Txs(p) : p \in Ids} \cup {<<t>> : t \in queued} :
                  Veto(caller, txs)
             \/ \E caller \in Account, t \in queued :
                  OtherAdminCancels(caller, t) \/ OtherAdminExecutes(caller, t)
             \/ \E caller \in Account, action \in OtherActions, eta \in now + delay .. now + MaxDelay :
                  OtherAdminQueues(caller, action, eta)
      PROVE  TallyInv'
  <2>1. UNCHANGED ledgerVars /\ proposals' = proposals
    BY <1>7 DEF AcceptAdmin, TransferGuardian, QueueSetTimelockPendingAdmin,
       ExecuteSetTimelockPendingAdmin, Abdicate, Oversee, Veto, OtherAdminQueues,
       OtherAdminCancels, OtherAdminExecutes, governorVars
  <2> QED
    BY <1>0, <1>2, <2>1 DEF ledgerVars
<1>8. CASE UNCHANGED vars
  BY <1>0, <1>2, <1>8 DEF vars, ledgerVars, governorVars
<1> QED
  BY <1>1, <1>3, <1>4, <1>5, <1>6, <1>7, <1>8 DEF Next, Ids

----------------------------------------------------------------------------
(* What queued proposals count on. *)

(* A proposal that was queued and has not run counts on its transactions.    *)
Claims(p) == proposals[p].eta # 0 /\ ~proposals[p].executed
IsOffer(t) == t.action.kind = "setPendingAdmin"

Backed(t) == t \in queued \cup lifted \/ (t \in executed /\ IsOffer(t))

ClaimsBacked == \A p \in Ids : Claims(p) => \A t \in Range(Txs(p)) : Backed(t)

(* No two proposals count on one transaction, but for an offer of the role   *)
(* that the guardian made run in between, and what was taken from the queue. *)
Shared(t) == IsOffer(t) \/ t \in lifted

ClaimsApart ==
  \A p, q \in Ids : p # q /\ Claims(p) /\ Claims(q) =>
    \A t \in Range(Txs(p)) \cap Range(Txs(q)) : Shared(t)

QueueInv ==
  /\ IInv /\ AllSettled
  /\ ClaimsBacked /\ ClaimsApart

(* The transactions of a proposal carry its eta. *)
LEMMA TxsCarryEta ==
  ASSUME IInv, NEW p \in Ids, NEW t \in Range(Txs(p))
  PROVE  t.eta = proposals[p].eta
<1> DEFINE n == Len(proposals[p].targets)
           f == [i \in 1 .. n |-> [action |-> proposals[p].targets[i], eta |-> proposals[p].eta]]
<1>1. Txs(p) = f
  BY DEF Txs, TL!Batch
<1>2. PICK i \in 1 .. n : t = f[i]
  BY <1>1 DEF Range
<1> QED
  BY <1>2

(* A step that makes no claim and takes no backing away. *)
LEMMA ClaimsKept ==
  ASSUME ClaimsBacked, ClaimsApart, lifted \subseteq lifted',
         \A p \in Ids' : Claims(p)' => p \in Ids /\ Claims(p) /\ Txs(p)' = Txs(p),
         \A p \in Ids : Claims(p) /\ Claims(p)' =>
           \A t \in Range(Txs(p)) : Backed(t) => Backed(t)'
  PROVE  ClaimsBacked' /\ ClaimsApart'
BY DEF ClaimsBacked, ClaimsApart, Range, Shared, IsOffer

(* A step on the timelock that leaves every proposal. *)
LEMMA TimelockKeepsClaims ==
  ASSUME ClaimsBacked, ClaimsApart, proposals' = proposals, lifted \subseteq lifted',
         \A t : Backed(t) => Backed(t)'
  PROVE  ClaimsBacked' /\ ClaimsApart'
<1>1. Ids' = Ids /\ \A p : (Claims(p)' <=> Claims(p)) /\ Txs(p)' = Txs(p)
  BY DEF Ids, Claims, Txs, TL!Batch
<1> QED
  BY <1>1, ClaimsKept

(* What a step does to one proposal, the others stay. *)
LEMMA OneProposalChanges ==
  ASSUME IInv, IInv', NEW p \in Ids, NEW new, proposals' = [proposals EXCEPT ![p] = new]
  PROVE  /\ Ids' = Ids
         /\ proposals'[p] = new
         /\ \A q \in Ids : q # p =>
              /\ proposals'[q] = proposals[q]
              /\ (Claims(q)' <=> Claims(q)) /\ Txs(q)' = Txs(q)
<1>1. /\ DOMAIN proposals = Ids /\ Len(proposals) \in Nat
      /\ DOMAIN proposals' = 1 .. Len(proposals') /\ Len(proposals') \in Nat
  BY LenProperties DEF IInv, Types, Ids
<1>2. Ids' = Ids
  BY <1>1 DEF Ids
<1>3. \A q \in Ids : proposals'[q] = IF q = p THEN new ELSE proposals[q]
  BY <1>1
<1> QED
  BY <1>2, <1>3 DEF Claims, Txs, TL!Batch

(* GovernorAlpha.sol:215-241.  What is queued already cannot be queued again, *)
(* so a new claim meets another only where the guardian has run an offer.     *)
LEMMA QueueClaims ==
  ASSUME QueueInv, IInv', NEW p \in Ids, QueueProposal(p)
  PROVE  ClaimsBacked' /\ ClaimsApart'
<1> DEFINE new == [proposals[p] EXCEPT !.eta = now + delay]
           txs == TL!Batch(proposals[p].targets, now + delay)
<1>1. /\ proposals' = [proposals EXCEPT ![p] = new] /\ Range(txs) \cap queued = {}
      /\ queued' = queued \cup Range(txs) /\ executed' = executed /\ lifted' = lifted
  BY DEF QueueProposal, NoneQueued, TL!Queue, TL!Range, Range, historyVars
<1>2. proposals[p] \in Proposal /\ IInv
  BY ProposalType DEF QueueInv, IInv
<1>3. new.targets = proposals[p].targets /\ new.eta = now + delay
  BY <1>2 DEF Proposal
<1> HIDE DEF new
<1>4. /\ Ids' = Ids /\ proposals'[p] = new
      /\ \A q \in Ids : q # p => (Claims(q)' <=> Claims(q)) /\ Txs(q)' = Txs(q)
  BY <1>1, <1>2, OneProposalChanges
<1>5. Txs(p)' = txs
  BY <1>3, <1>4 DEF Txs, TL!Batch
<1> HIDE DEF txs
<1>6. \A t : Backed(t) => Backed(t)'
  BY <1>1 DEF Backed, IsOffer
<1>7. ClaimsBacked'
  <2>1. ASSUME NEW q \in Ids, Claims(q)', NEW t \in Range(Txs(q)') PROVE Backed(t)'
    <3>1. CASE q = p
      BY <1>1, <1>5, <2>1, <3>1 DEF Backed
    <3>2. CASE q # p
      BY <1>4, <1>6, <2>1, <3>2 DEF QueueInv, ClaimsBacked
    <3> QED
      BY <3>1, <3>2
  <2> QED
    BY <1>4, <2>1 DEF ClaimsBacked, Range
<1>8. ASSUME NEW q \in Ids, q # p, Claims(q)', NEW t, t \in Range(txs), t \in Range(Txs(q))
      PROVE  Shared(t)
  BY <1>1, <1>4, <1>8 DEF QueueInv, ClaimsBacked, Backed, Shared
<1>9. ClaimsApart'
  <2>1. ASSUME NEW q \in Ids, NEW r \in Ids, q # r, Claims(q)', Claims(r)',
               NEW t, t \in Range(Txs(q)'), t \in Range(Txs(r)')
        PROVE  Shared(t)
    <3>1. CASE q = p
      BY <1>4, <1>5, <1>8, <2>1, <3>1
    <3>2. CASE r = p
      BY <1>4, <1>5, <1>8, <2>1, <3>2
    <3>3. CASE q # p /\ r # p
      BY <1>1, <1>4, <2>1, <3>3 DEF QueueInv, ClaimsApart, Shared, IsOffer
    <3> QED
      BY <3>1, <3>2, <3>3
  <2> QED
    BY <1>1, <1>4, <2>1 DEF ClaimsApart, Shared, IsOffer, Range
<1> QED
  BY <1>7, <1>9

(* GovernorAlpha.sol:243-260.  What runs is taken from nobody else. *)
LEMMA ExecuteClaims ==
  ASSUME QueueInv, IInv', NEW p \in Ids, ExecuteProposal(p)
  PROVE  ClaimsBacked' /\ ClaimsApart'
<1> DEFINE new == [proposals[p] EXCEPT !.executed = TRUE]
<1>1. /\ proposals' = [proposals EXCEPT ![p] = new] /\ State(p) = "Queued"
      /\ queued' = queued \ Range(Txs(p)) /\ executed' = executed \cup Range(Txs(p))
      /\ lifted' = lifted
  BY DEF ExecuteProposal, TL!Execute, TL!Range, Range, historyVars
<1>2. proposals[p] \in Proposal /\ IInv /\ ClaimsBacked /\ ClaimsApart
  BY ProposalType DEF QueueInv, IInv
<1>3. new.executed
  BY <1>2 DEF Proposal
<1> HIDE DEF new
<1>4. /\ Ids' = Ids /\ ~Claims(p)'
      /\ \A q \in Ids : q # p => (Claims(q)' <=> Claims(q)) /\ Txs(q)' = Txs(q)
  <2>1. /\ Ids' = Ids /\ proposals'[p] = new
        /\ \A q \in Ids : q # p => (Claims(q)' <=> Claims(q)) /\ Txs(q)' = Txs(q)
    BY <1>1, <1>2, OneProposalChanges
  <2> QED
    BY <1>3, <2>1 DEF Claims
<1>5. Claims(p)
  BY <1>1 DEF State, Claims
<1>6. ASSUME NEW q \in Ids, Claims(q), Claims(q)', NEW t \in Range(Txs(q)), Backed(t)
      PROVE  Backed(t)'
  <2>1. q # p
    BY <1>4, <1>6
  <2>2. CASE t \in Range(Txs(p))
    BY <1>1, <1>2, <1>5, <1>6, <2>1, <2>2 DEF ClaimsApart, Shared, Backed, IsOffer
  <2>3. CASE t \notin Range(Txs(p))
    BY <1>1, <1>6, <2>3 DEF Backed, IsOffer
  <2> QED
    BY <2>2, <2>3
<1> QED
  BY <1>1, <1>2, <1>4, <1>6, ClaimsKept

(* GovernorAlpha.sol:262-283.  A proposal that can be canceled has no eta, so *)
(* nothing that another one counts on leaves the queue.                       *)
LEMMA CancelClaims ==
  ASSUME QueueInv, IInv', NEW caller, NEW p \in Ids, CancelProposal(caller, p)
  PROVE  ClaimsBacked' /\ ClaimsApart'
<1> DEFINE new == [proposals[p] EXCEPT !.canceled = TRUE]
<1>1. /\ proposals' = [proposals EXCEPT ![p] = new] /\ State(p) \in {"Active", "Pending"}
      /\ queued' = queued \ Range(Txs(p)) /\ executed' = executed /\ lifted' = lifted
  BY DEF CancelProposal, TL!Cancel, TL!Range, Range, TL!history, historyVars
<1>2. /\ proposals[p] \in Proposal /\ IInv /\ ClaimsBacked /\ ClaimsApart
      /\ proposals[p].endBlock \in Nat /\ block \in Nat
  BY ProposalType DEF QueueInv, IInv, Types
<1>3. proposals[p].eta = 0
  <2>1. Live(p)
    BY <1>1, <1>2, LiveMeansOpen DEF IInv
  <2> QED
    BY <1>2, <2>1 DEF Live, QueueInv, AllSettled, Settled
<1>4. new.eta = 0
  BY <1>2, <1>3 DEF Proposal
<1> HIDE DEF new
<1>5. /\ Ids' = Ids /\ ~Claims(p)'
      /\ \A q \in Ids : q # p => (Claims(q)' <=> Claims(q)) /\ Txs(q)' = Txs(q)
  <2>1. /\ Ids' = Ids /\ proposals'[p] = new
        /\ \A q \in Ids : q # p => (Claims(q)' <=> Claims(q)) /\ Txs(q)' = Txs(q)
    BY <1>1, <1>2, OneProposalChanges
  <2> QED
    BY <1>4, <2>1 DEF Claims
<1>6. ASSUME NEW q \in Ids, Claims(q), NEW t \in Range(Txs(q)), Backed(t)
      PROVE  Backed(t)'
  <2>1. t \notin Range(Txs(p))
    BY <1>2, <1>3, <1>6, TxsCarryEta DEF Claims
  <2> QED
    BY <1>1, <1>6, <2>1 DEF Backed, IsOffer
<1> QED
  BY <1>1, <1>2, <1>5, <1>6, ClaimsKept

(* GovernorAlpha.sol:351-373.  A ballot changes no claim. *)
LEMMA BallotClaims ==
  ASSUME QueueInv, IInv', NEW v \in Voter, NEW p \in Ids, NEW support \in BOOLEAN,
         CastBallot(v, p, support)
  PROVE  ClaimsBacked' /\ ClaimsApart'
<1> DEFINE new == WithBallot(proposals[p], v, support, PriorVotes(v, proposals[p].startBlock))
<1>1. /\ proposals' = [proposals EXCEPT ![p] = new]
      /\ queued' = queued /\ executed' = executed /\ lifted' = lifted
  BY DEF CastBallot, timelockVars, historyVars
<1>2. proposals[p] \in Proposal /\ IInv /\ ClaimsBacked /\ ClaimsApart
  BY ProposalType DEF QueueInv, IInv
<1>3. /\ new.eta = proposals[p].eta /\ new.executed = proposals[p].executed
      /\ new.targets = proposals[p].targets
  BY <1>2 DEF Proposal, WithBallot
<1> HIDE DEF new
<1>4. /\ Ids' = Ids /\ proposals'[p] = new
      /\ \A q \in Ids : q # p => (Claims(q)' <=> Claims(q)) /\ Txs(q)' = Txs(q)
  BY <1>1, <1>2, OneProposalChanges
<1>5. (Claims(p)' <=> Claims(p)) /\ Txs(p)' = Txs(p)
  BY <1>3, <1>4 DEF Claims, Txs, TL!Batch
<1>6. \A t : Backed(t) => Backed(t)'
  BY <1>1 DEF Backed, IsOffer
<1> QED
  BY <1>1, <1>2, <1>4, <1>5, <1>6, ClaimsKept

LEMMA ProposeClaims ==
  ASSUME QueueInv, IInv', NEW caller \in Voter, NEW payload \in Payloads,
         Propose(caller, payload)
  PROVE  ClaimsBacked' /\ ClaimsApart'
<1> DEFINE n == Len(proposals)
           new == [proposer |-> caller, eta |-> 0, targets |-> payload,
                   startBlock |-> block + VotingDelay,
                   endBlock |-> block + VotingDelay + VotingPeriod,
                   forVotes |-> 0, againstVotes |-> 0,
                   canceled |-> FALSE, executed |-> FALSE,
                   receipts |-> [v \in Voter |->
                     [hasVoted |-> FALSE, support |-> FALSE, votes |-> 0]]]
<1>1. /\ proposals' = Append(proposals, new) /\ new.eta = 0
      /\ queued' = queued /\ executed' = executed /\ lifted' = lifted
  BY DEF Propose, timelockVars, historyVars
<1>2. /\ proposals \in Seq(Proposal) /\ n \in Nat
      /\ ClaimsBacked /\ ClaimsApart
  BY LenProperties DEF QueueInv, IInv, Types
<1> HIDE DEF new
<1>3. /\ Len(proposals') = n + 1 /\ \A i \in 1 .. n : proposals'[i] = proposals[i]
      /\ proposals'[n + 1] = new
  BY <1>1, <1>2
<1> HIDE DEF n
<1>4. \A p \in 1 .. n + 1 : p \in 1 .. n \/ p = n + 1
  BY <1>2
<1>5. \A p \in Ids' : Claims(p)' => p \in Ids /\ Claims(p) /\ Txs(p)' = Txs(p)
  <2>1. ASSUME NEW p \in 1 .. n
        PROVE  (Claims(p)' <=> Claims(p)) /\ Txs(p)' = Txs(p)
    BY <1>3 DEF Claims, Txs, TL!Batch
  <2>2. ASSUME NEW p, p = n + 1 PROVE ~Claims(p)'
    BY <1>1, <1>3, <2>2 DEF Claims
  <2> QED
    BY <1>3, <1>4, <2>1, <2>2 DEF Ids, n
<1>6. \A t : Backed(t) => Backed(t)'
  BY <1>1 DEF Backed, IsOffer
<1> QED
  BY <1>1, <1>2, <1>5, <1>6, ClaimsKept

LEMMA InitQueue == Init => QueueInv
<1> SUFFICES ASSUME Init PROVE QueueInv
  OBVIOUS
<1>1. IInv /\ AllSettled /\ Ids = {}
  BY InitInvariant, InitSettled DEF Init, Ids
<1> QED
  BY <1>1 DEF QueueInv, ClaimsBacked, ClaimsApart

LEMMA NextQueue == QueueInv /\ [Next]_vars => QueueInv'
<1> SUFFICES ASSUME QueueInv, [Next]_vars PROVE QueueInv'
  OBVIOUS
<1>0. IInv' /\ AllSettled' /\ ClaimsBacked /\ ClaimsApart
  BY NextInvariant, NextStep DEF QueueInv, StepOK
<1> SUFFICES ClaimsBacked' /\ ClaimsApart'
  BY <1>0 DEF QueueInv
<1>1. ASSUME proposals' = proposals, queued \subseteq queued' \cup lifted',
             executed \subseteq executed', lifted \subseteq lifted'
      PROVE  ClaimsBacked' /\ ClaimsApart'
  BY <1>0, <1>1, TimelockKeepsClaims DEF Backed, IsOffer
<1>2. CASE AdvanceBlock \/ MoveVotes
  BY <1>1, <1>2 DEF AdvanceBlock, MoveVotes, timelockVars, governorVars, historyVars
<1>3. ASSUME NEW caller \in Voter, NEW payload \in Payloads, Propose(caller, payload)
      PROVE  ClaimsBacked' /\ ClaimsApart'
  BY <1>0, <1>3, ProposeClaims
<1>4. ASSUME NEW p \in Ids,
             \/ QueueProposal(p)
             \/ ExecuteProposal(p)
             \/ \E caller \in Account : CancelProposal(caller, p)
             \/ \E v \in Voter, support \in BOOLEAN :
                  CastVote(v, p, support) \/ CastVoteBySig(v, p, support)
      PROVE  ClaimsBacked' /\ ClaimsApart'
  BY <1>0, <1>4, QueueClaims, ExecuteClaims, CancelClaims, BallotClaims
  DEF CastVote, CastVoteBySig
<1>5. CASE AcceptAdmin
  BY <1>1, <1>5 DEF AcceptAdmin, TL!AcceptAdmin, TL!history, governorVars, historyVars
<1>6. ASSUME NEW caller \in Account, NEW new,
             TransferGuardian(caller, new) \/ Abdicate(caller)
      PROVE  ClaimsBacked' /\ ClaimsApart'
  BY <1>1, <1>6 DEF TransferGuardian, Abdicate, timelockVars, historyVars
<1>7. ASSUME NEW caller \in Account, NEW new, NEW eta,
             QueueSetTimelockPendingAdmin(caller, new, eta)
      PROVE  ClaimsBacked' /\ ClaimsApart'
  BY <1>1, <1>7 DEF QueueSetTimelockPendingAdmin, TL!Queue, governorVars
<1>8. ASSUME NEW caller \in Account, NEW new, NEW eta,
             ExecuteSetTimelockPendingAdmin(caller, new, eta)
      PROVE  ClaimsBacked' /\ ClaimsApart'
  <2> DEFINE txs == SetPendingAdminTx(new, eta)
  <2>1. /\ proposals' = proposals
        /\ executed' = executed \cup Range(txs) /\ queued' = queued \ Range(txs)
        /\ lifted' = lifted
    BY <1>8 DEF ExecuteSetTimelockPendingAdmin, TL!Execute, TL!Range, Range, governorVars,
       historyVars
  <2>2. \A t \in Range(txs) : IsOffer(t)
    BY DEF SetPendingAdminTx, TL!Batch, Range, IsOffer
  <2> HIDE DEF txs
  <2>3. \A t : Backed(t) => Backed(t)'
    BY <2>1, <2>2 DEF Backed, IsOffer
  <2> QED
    BY <1>0, <2>1, <2>3, TimelockKeepsClaims
<1>9. ASSUME NEW caller \in Account, NEW txs, Oversee(caller) \/ Veto(caller, txs)
      PROVE  ClaimsBacked' /\ ClaimsApart'
  <2>1. CASE Oversee(caller)
    BY <1>1, <2>1 DEF Oversee, TL!Pause, TL!Unpause, TL!GovernorSetPendingAdmin,
       TL!AcceptAdmin, TL!history, governorVars, historyVars
  <2>2. CASE Veto(caller, txs)
    BY <1>1, <2>2 DEF Veto, TL!VetoTransactions, TL!history, governorVars
  <2> QED
    BY <1>9, <2>1, <2>2
<1>11. ASSUME NEW caller \in Account, NEW action, NEW eta, OtherAdminQueues(caller, action, eta)
       PROVE  ClaimsBacked' /\ ClaimsApart'
  BY <1>1, <1>11 DEF OtherAdminQueues, TL!Queue, governorVars
<1>12. ASSUME NEW caller \in Account, NEW t,
              OtherAdminCancels(caller, t) \/ OtherAdminExecutes(caller, t)
       PROVE  ClaimsBacked' /\ ClaimsApart'
  <2>1. TL!Range(<<t>>) = {t}
    BY DEF TL!Range
  <2>2. /\ proposals' = proposals /\ queued' = queued \ {t} /\ executed \subseteq executed'
        /\ lifted' = lifted \cup {t}
    BY <1>12, <2>1 DEF OtherAdminCancels, OtherAdminExecutes, TL!Cancel, TL!Execute,
       TL!history, governorVars
  <2> QED
    BY <1>1, <2>2
<1>10. CASE UNCHANGED vars
  BY <1>1, <1>10 DEF vars, timelockVars, governorVars, historyVars
<1> QED
  BY <1>2, <1>3, <1>4, <1>5, <1>6, <1>7, <1>8, <1>9, <1>10, <1>11, <1>12 DEF Next, Ids

----------------------------------------------------------------------------
(* What runs on the timelock. *)

OfGovernor(t) == t \in offered \/ \E p \in Ids : Decided(p, t)

(* What is queued, and what has run, was decided or is of another admin. *)
Ran(t) ==
  \/ \E p \in Ids :
       /\ Decided(p, t)
       /\ proposals[p].executed \/ t.action.kind = "setPendingAdmin"
  \/ t \in offered
  \/ t \in foreign

AllDecided ==
  /\ \A t \in queued : OfGovernor(t) \/ t \in foreign
  /\ \A t \in executed : Ran(t)

(* Another admin, or one to be, was named. *)
OtherAdmin == admin # Governor \/ pendingAdmin \notin {Governor, NoAccount} \/ foreign # {}
OthersWereNamed == OtherAdmin => RoleGivenAway

(* Every block takes time, so no proposal is queued at second zero. *)
TimeRuns == now >= block - 1

ActsInv == IInv /\ AllSettled /\ AllDecided /\ OthersWereNamed /\ TimeRuns

(* A proposal that has an eta keeps what was decided. *)
Stands(p) ==
  /\ p \in Ids'
  /\ proposals'[p].eta = proposals[p].eta /\ proposals'[p].targets = proposals[p].targets
  /\ proposals'[p].canceled = proposals[p].canceled
  /\ proposals'[p].forVotes = proposals[p].forVotes
  /\ proposals'[p].againstVotes = proposals[p].againstVotes
  /\ proposals[p].executed => proposals'[p].executed

(* GovernorAlpha.sol:215-283, 351-373.  Only executing moves a proposal that was *)
(* queued: to be queued, canceled or voted on it must not have an eta.           *)
LEMMA DecisionsStand ==
  ASSUME IInv, AllSettled, [Next]_vars, NEW p \in Ids, proposals[p].eta # 0
  PROVE  Stands(p)
<1>0. IInv'
  BY NextInvariant
<1>1. CASE proposals' = proposals
  BY <1>1 DEF Stands, Ids
<1>2. ASSUME NEW caller \in Voter, NEW payload \in Payloads, Propose(caller, payload)
      PROVE  Stands(p)
  <2>1. PICK new : proposals' = Append(proposals, new)
    BY <1>2 DEF Propose
  <2>2. proposals \in Seq(Proposal) /\ Len(proposals) \in Nat
    BY LenProperties DEF IInv, Types
  <2>3. /\ Len(proposals') = Len(proposals) + 1
        /\ \A i \in 1 .. Len(proposals) : proposals'[i] = proposals[i]
    BY <2>1, <2>2
  <2>4. p \in Ids' /\ proposals'[p] = proposals[p]
    BY <2>2, <2>3 DEF Ids
  <2> QED
    BY <2>4 DEF Stands
<1>3. ASSUME NEW q \in Ids, NEW new, proposals' = [proposals EXCEPT ![q] = new],
             q = p => new = [proposals[p] EXCEPT !.executed = TRUE]
      PROVE  Stands(p)
  <2>1. Ids' = Ids /\ (q # p => proposals'[p] = proposals[p]) /\ proposals'[q] = new
    BY <1>0, <1>3, OneProposalChanges
  <2>2. proposals[p] \in Proposal
    BY ProposalType DEF IInv
  <2>3. CASE q # p
    BY <2>1, <2>3 DEF Stands
  <2>4. CASE q = p
    BY <1>3, <2>1, <2>2, <2>4 DEF Stands, Proposal
  <2> QED
    BY <2>3, <2>4
<1>4. ASSUME NEW q \in Ids,
             \/ QueueProposal(q)
             \/ ExecuteProposal(q)
             \/ \E caller \in Account : CancelProposal(caller, q)
             \/ \E v \in Voter, support \in BOOLEAN :
                  CastVote(v, q, support) \/ CastVoteBySig(v, q, support)
      PROVE  Stands(p)
  <2>1. CASE ExecuteProposal(q)
    <3>1. proposals' = [proposals EXCEPT ![q] = [proposals[q] EXCEPT !.executed = TRUE]]
      BY <2>1 DEF ExecuteProposal
    <3> QED
      BY <1>3, <3>1
  <2>2. State(q) \in {"Succeeded", "Active", "Pending"} => proposals[q].eta = 0
    <3>1. /\ proposals[q].endBlock \in Nat /\ block \in Nat
      BY ProposalType DEF IInv, Types
    <3>2. State(q) \in {"Active", "Pending"} => Live(q)
      BY LiveMeansOpen DEF IInv
    <3>3. Live(q) => proposals[q].eta = 0
      BY <3>1 DEF Live, AllSettled, Settled
    <3>4. State(q) = "Succeeded" => proposals[q].eta = 0
      BY DEF State
    <3> QED
      BY <3>2, <3>3, <3>4
  <2>3. CASE QueueProposal(q)
    <3>1. /\ proposals' = [proposals EXCEPT ![q] = [proposals[q] EXCEPT !.eta = now + delay]]
          /\ State(q) = "Succeeded"
      BY <2>3 DEF QueueProposal
    <3> QED
      BY <1>3, <2>2, <3>1
  <2>4. CASE \E caller \in Account : CancelProposal(caller, q)
    <3>1. /\ proposals' = [proposals EXCEPT ![q] = [proposals[q] EXCEPT !.canceled = TRUE]]
          /\ State(q) \in {"Active", "Pending"}
      BY <2>4 DEF CancelProposal
    <3> QED
      BY <1>3, <2>2, <3>1
  <2>5. ASSUME NEW v \in Voter, NEW support \in BOOLEAN, CastBallot(v, q, support)
        PROVE  Stands(p)
    <3> DEFINE new == WithBallot(proposals[q], v, support, PriorVotes(v, proposals[q].startBlock))
    <3>1. proposals' = [proposals EXCEPT ![q] = new] /\ State(q) = "Active"
      BY <2>5 DEF CastBallot
    <3> HIDE DEF new
    <3> QED
      BY <1>3, <2>2, <3>1
  <2> QED
    BY <1>4, <2>1, <2>3, <2>4, <2>5 DEF CastVote, CastVoteBySig
<1>5. ASSUME \/ AdvanceBlock
             \/ MoveVotes
             \/ AcceptAdmin
             \/ \E caller \in Account, new \in Heirs :
                  \/ TransferGuardian(caller, new)
                  \/ QueueSetTimelockPendingAdmin(caller, new, now + delay)
                  \/ \E t \in queued : ExecuteSetTimelockPendingAdmin(caller, new, t.eta)
             \/ \E caller \in Account : Abdicate(caller) \/ Oversee(caller)
             \/ \E caller \in Account, txs \in {Txs(q) : q \in Ids} \cup {<<t>> : t \in queued} :
                  Veto(caller, txs)
             \/ \E caller \in Account, t \in queued :
                  OtherAdminCancels(caller, t) \/ OtherAdminExecutes(caller, t)
             \/ \E caller \in Account, action \in OtherActions, eta \in now + delay .. now + MaxDelay :
                  OtherAdminQueues(caller, action, eta)
      PROVE  proposals' = proposals
  BY <1>5 DEF AdvanceBlock, MoveVotes, AcceptAdmin, TransferGuardian, QueueSetTimelockPendingAdmin,
     ExecuteSetTimelockPendingAdmin, Abdicate, Oversee, Veto, OtherAdminQueues,
     OtherAdminCancels, OtherAdminExecutes, governorVars
<1>6. CASE UNCHANGED vars
  BY <1>1, <1>6 DEF vars, governorVars
<1> QED
  BY <1>1, <1>2, <1>4, <1>5, <1>6 DEF Next, Ids

LEMMA DecidedStands ==
  ASSUME NEW p \in Ids, NEW t, Decided(p, t), Stands(p)
  PROVE  p \in Ids' /\ Decided(p, t)' /\ (proposals[p].executed => proposals'[p].executed)
<1>1. Txs(p)' = Txs(p)
  BY DEF Stands, Txs, TL!Batch
<1> QED
  BY <1>1 DEF Decided, Stands

(* Only a new block takes time. *)
LEMMA TimeGoesOn ==
  ASSUME IInv, TimeRuns, [Next]_vars
  PROVE  TimeRuns'
<1>1. block \in Nat /\ now \in Nat
  BY DEF IInv, Types
<1>2. CASE AdvanceBlock
  <2>1. PICK s \in BlockTimes : now' = now + s /\ block' = block + 1
    BY <1>2 DEF AdvanceBlock
  <2>2. s \in Nat \ {0}
    BY GovernorAssumption
  <2> QED
    BY <1>1, <2>1, <2>2 DEF TimeRuns
<1>3. CASE UNCHANGED <<block, now>>
  BY <1>3 DEF TimeRuns
<1>4. ASSUME NEW caller, NEW txs,
             \/ TL!Queue(caller, txs) \/ TL!Cancel(caller, txs) \/ TL!Execute(caller, txs)
             \/ TL!VetoTransactions(caller, txs)
      PROVE  now' = now
  BY <1>4 DEF TL!Queue, TL!Cancel, TL!Execute, TL!VetoTransactions
<1>5. ASSUME NEW caller,
             \/ TL!AcceptAdmin(caller) \/ TL!Pause(caller) \/ TL!Unpause(caller)
             \/ \E a \in Heirs : TL!GovernorSetPendingAdmin(caller, a)
      PROVE  now' = now
  BY <1>5 DEF TL!AcceptAdmin, TL!Pause, TL!Unpause, TL!GovernorSetPendingAdmin
<1>6. CASE MoveVotes \/ UNCHANGED vars
  BY <1>3, <1>6 DEF MoveVotes, vars, ledgerVars
<1>7. CASE \E caller \in Voter, payload \in Payloads : Propose(caller, payload)
  BY <1>3, <1>7 DEF Propose, ledgerVars
<1>8. CASE \E p \in 1 .. Len(proposals) :
             \/ QueueProposal(p)
             \/ ExecuteProposal(p)
             \/ \E caller \in Account : CancelProposal(caller, p)
  <2>1. block' = block
    BY <1>8 DEF QueueProposal, ExecuteProposal, CancelProposal, ledgerVars
  <2>2. now' = now
    BY <1>4, <1>8 DEF QueueProposal, ExecuteProposal, CancelProposal
  <2> QED
    BY <1>3, <2>1, <2>2
<1>9. CASE \E p \in 1 .. Len(proposals), v \in Voter, support \in BOOLEAN :
             CastVote(v, p, support) \/ CastVoteBySig(v, p, support)
  BY <1>3, <1>9 DEF CastVote, CastVoteBySig, CastBallot, ledgerVars
<1>10. CASE \E caller \in Account, new \in Heirs :
              \/ TransferGuardian(caller, new)
              \/ QueueSetTimelockPendingAdmin(caller, new, now + delay)
              \/ \E t \in queued : ExecuteSetTimelockPendingAdmin(caller, new, t.eta)
  <2>1. block' = block
    BY <1>10 DEF TransferGuardian, QueueSetTimelockPendingAdmin, ExecuteSetTimelockPendingAdmin,
       ledgerVars
  <2>2. now' = now
    BY <1>4, <1>10 DEF TransferGuardian, QueueSetTimelockPendingAdmin,
       ExecuteSetTimelockPendingAdmin
  <2> QED
    BY <1>3, <2>1, <2>2
<1>11. CASE \/ AcceptAdmin
            \/ \E caller \in Account : Abdicate(caller) \/ Oversee(caller)
  <2>1. block' = block
    BY <1>11 DEF AcceptAdmin, Abdicate, Oversee, ledgerVars
  <2>2. now' = now
    BY <1>5, <1>11 DEF AcceptAdmin, Abdicate, Oversee
  <2> QED
    BY <1>3, <2>1, <2>2
<1>12. CASE \E caller \in Account :
              \/ \E p \in 1 .. Len(proposals) : Veto(caller, Txs(p))
              \/ \E t \in queued :
                   \/ Veto(caller, <<t>>)
                   \/ OtherAdminCancels(caller, t)
                   \/ OtherAdminExecutes(caller, t)
              \/ \E action \in OtherActions, eta \in now + delay .. now + MaxDelay :
                   OtherAdminQueues(caller, action, eta)
  <2>1. block' = block
    BY <1>12 DEF Veto, OtherAdminCancels, OtherAdminExecutes, OtherAdminQueues, ledgerVars
  <2>2. now' = now
    BY <1>4, <1>12 DEF Veto, OtherAdminCancels, OtherAdminExecutes, OtherAdminQueues
  <2> QED
    BY <1>3, <2>1, <2>2
<1> QED
  BY <1>2, <1>6, <1>7, <1>8, <1>9, <1>10, <1>11, <1>12 DEF Next

(* A step is fit if all that it queues or runs was decided or is of another *)
(* admin, and it makes nobody admin but one who was named.                  *)
LEMMA ActsKept ==
  ASSUME ActsInv, [Next]_vars,
         executed \subseteq executed', offered \subseteq offered',
         foreign \subseteq foreign', named \subseteq named',
         \A t \in queued' \ queued : OfGovernor(t)' \/ t \in foreign',
         \A t \in executed' \ executed : Ran(t)',
         OtherAdmin' => OtherAdmin \/ RoleGivenAway'
  PROVE  ActsInv'
<1>1. IInv' /\ AllSettled'
  BY NextInvariant, NextStep DEF ActsInv, StepOK
<1>2. ASSUME NEW p \in Ids, NEW t, Decided(p, t)
      PROVE  p \in Ids' /\ Decided(p, t)' /\ (proposals[p].executed => proposals'[p].executed)
  <2>1. Stands(p)
    BY <1>2, DecisionsStand DEF ActsInv, Decided
  <2> QED
    BY <1>2, <2>1, DecidedStands
<1>3. \A t \in queued : OfGovernor(t)' \/ t \in foreign'
  <2>1. ASSUME NEW t \in queued PROVE OfGovernor(t)' \/ t \in foreign'
    <3>1. CASE t \in offered \/ t \in foreign
      BY <3>1 DEF OfGovernor
    <3>2. CASE \E p \in Ids : Decided(p, t)
      <4>1. PICK p \in Ids : Decided(p, t)
        BY <3>2
      <4>2. p \in Ids' /\ Decided(p, t)'
        BY <1>2, <4>1
      <4> QED
        BY <4>2 DEF OfGovernor
    <3> QED
      BY <2>1, <3>1, <3>2 DEF ActsInv, AllDecided, OfGovernor
  <2> QED
    BY <2>1
<1>4. \A t \in executed : Ran(t)'
  <2>1. ASSUME NEW t \in executed PROVE Ran(t)'
    <3>1. CASE t \in offered \/ t \in foreign
      BY <3>1 DEF Ran
    <3>2. CASE \E p \in Ids : /\ Decided(p, t)
                              /\ proposals[p].executed \/ t.action.kind = "setPendingAdmin"
      <4>1. PICK p \in Ids : /\ Decided(p, t)
                             /\ proposals[p].executed \/ t.action.kind = "setPendingAdmin"
        BY <3>2
      <4>2. /\ p \in Ids' /\ Decided(p, t)'
            /\ proposals'[p].executed \/ t.action.kind = "setPendingAdmin"
        BY <1>2, <4>1
      <4> QED
        BY <4>2 DEF Ran
    <3> QED
      BY <2>1, <3>1, <3>2 DEF ActsInv, AllDecided, Ran
  <2> QED
    BY <2>1
<1>5. AllDecided'
  BY <1>3, <1>4 DEF AllDecided
<1>6. RoleGivenAway => RoleGivenAway'
  <2>1. ASSUME NEW a \in Account \ {Governor}, NEW t \in executed,
               t.action = [kind |-> "setPendingAdmin", arg |-> a],
               t \in offered \/ \E p \in Ids : Decided(p, t)
        PROVE  RoleGivenAway'
    <3>1. t \in offered' \/ \E p \in Ids' : Decided(p, t)'
      BY <1>2, <2>1
    <3> QED
      BY <2>1, <3>1 DEF RoleGivenAway, Ids
  <2>2. ASSUME NEW a \in Account \ {Governor}, a \in named
        PROVE  RoleGivenAway'
    BY <2>2 DEF RoleGivenAway
  <2> QED
    BY <2>1, <2>2 DEF RoleGivenAway, Ids
<1>7. OthersWereNamed'
  BY <1>6 DEF ActsInv, OthersWereNamed
<1>8. TimeRuns'
  BY TimeGoesOn DEF ActsInv
<1> QED
  BY <1>1, <1>5, <1>7, <1>8 DEF ActsInv

(* Timelock.sol:82-87, 129-165.  A batch that runs leaves the admin, and offers *)
(* the role to nobody but the argument of one of its own calls.                 *)
LEMMA ExecuteOffers ==
  ASSUME NEW caller, NEW S, NEW txs \in Seq(S), TL!Execute(caller, txs)
  PROVE  /\ admin' = admin /\ named' = named
         /\ \/ pendingAdmin' = pendingAdmin
            \/ \E t \in Range(txs) : IsOffer(t) /\ pendingAdmin' = t.action.arg
<1> DEFINE calls == TL!Calls(txs, "setPendingAdmin")
<1>1. /\ admin' = admin /\ named' = named
      /\ pendingAdmin' = TL!LastArg(txs, "setPendingAdmin", pendingAdmin)
  BY DEF TL!Execute
<1>2. CASE calls = {}
  BY <1>1, <1>2 DEF TL!LastArg
<1>3. CASE calls # {}
  <2>1. Len(txs) \in Nat /\ DOMAIN txs = 1 .. Len(txs)
    BY LenProperties
  <2>2. /\ calls \in SUBSET (1 .. Len(txs))
        /\ \A i \in calls : txs[i].action.kind = "setPendingAdmin"
    BY DEF TL!Calls
  <2>3. pendingAdmin' = txs[CHOOSE i \in calls : \A j \in calls : j <= i].action.arg
    BY <1>1, <1>3 DEF TL!LastArg
  <2> HIDE DEF calls
  <2>4. \E i \in calls : \A j \in calls : j <= i
    BY <1>3, <2>1, <2>2, LastExists
  <2>5. PICK i \in calls : pendingAdmin' = txs[i].action.arg
    BY <2>3, <2>4
  <2>6. txs[i] \in Range(txs) /\ IsOffer(txs[i])
    BY <2>1, <2>2, <2>5 DEF Range, IsOffer
  <2> QED
    BY <1>1, <2>5, <2>6
<1> QED
  BY <1>2, <1>3

(* GovernorAlpha.sol:215-227.  What a proposal queues has won. *)
LEMMA QueueActs ==
  ASSUME ActsInv, [Next]_vars, NEW p \in Ids, QueueProposal(p)
  PROVE  ActsInv'
<1> DEFINE new == [proposals[p] EXCEPT !.eta = now + delay]
           txs == TL!Batch(proposals[p].targets, now + delay)
<1>1. /\ proposals' = [proposals EXCEPT ![p] = new] /\ State(p) = "Succeeded"
      /\ queued' = queued \cup Range(txs)
      /\ UNCHANGED <<executed, offered, foreign, named, admin, pendingAdmin>>
  BY DEF QueueProposal, TL!Queue, TL!Range, Range, TL!config, historyVars
<1>2. /\ proposals[p] \in Proposal /\ IInv /\ IInv'
      /\ proposals[p].endBlock \in Nat /\ proposals[p].startBlock \in Nat
      /\ block \in Nat /\ now \in Nat /\ delay \in Nat
      /\ proposals[p].canceled \in BOOLEAN
  BY ProposalType, NextInvariant DEF ActsInv, IInv, Types
<1>3. /\ new.targets = proposals[p].targets /\ new.eta = now + delay
      /\ new.canceled = proposals[p].canceled
      /\ new.forVotes = proposals[p].forVotes /\ new.againstVotes = proposals[p].againstVotes
  BY <1>2 DEF Proposal
<1> HIDE DEF new
<1>4. Ids' = Ids /\ proposals'[p] = new
  BY <1>1, <1>2, OneProposalChanges
<1>5. Txs(p)' = txs
  BY <1>3, <1>4 DEF Txs, TL!Batch
<1> HIDE DEF txs
<1>6. now + delay # 0
  <2>1. block > proposals[p].endBlock /\ proposals[p].startBlock < proposals[p].endBlock
    BY <1>1, <1>2 DEF State, ActsInv, AllSettled, Settled
  <2> QED
    BY <1>2, <2>1 DEF ActsInv, TimeRuns
<1>7. Passed(p) /\ ~proposals[p].canceled
  BY <1>1, <1>2 DEF State
<1>8. ASSUME NEW t \in Range(txs) PROVE Decided(p, t)'
  <2>1. t \in Range(Txs(p))'
    BY <1>5 DEF Range
  <2> QED
    BY <1>3, <1>4, <1>6, <1>7, <2>1 DEF Decided, Passed
<1>9. \A t \in queued' \ queued : OfGovernor(t)'
  BY <1>1, <1>4, <1>8 DEF OfGovernor
<1> QED
  BY <1>1, <1>9, ActsKept DEF OtherAdmin

(* GovernorAlpha.sol:243-260.  What a proposal runs has won. *)
LEMMA ExecuteActs ==
  ASSUME ActsInv, [Next]_vars, NEW p \in Ids, ExecuteProposal(p)
  PROVE  ActsInv'
<1> DEFINE new == [proposals[p] EXCEPT !.executed = TRUE]
           txs == Txs(p)
<1>1. /\ proposals' = [proposals EXCEPT ![p] = new] /\ State(p) = "Queued"
      /\ queued' \subseteq queued /\ executed' = executed \cup Range(txs)
      /\ UNCHANGED <<offered, foreign>>
      /\ TL!Execute(Governor, txs)
  BY DEF ExecuteProposal, TL!Execute, TL!Range, Range, historyVars
<1>2. /\ proposals[p] \in Proposal /\ IInv /\ IInv'
      /\ proposals[p].targets \in Seq(TL!Action)
      /\ proposals[p].canceled \in BOOLEAN
  BY ProposalType, NextInvariant DEF ActsInv, Proposal, IInv
<1>3. Ids' = Ids /\ proposals'[p] = new /\ new.executed
  <2>1. new.executed
    BY <1>2 DEF Proposal
  <2> HIDE DEF new
  <2> QED
    BY <1>1, <1>2, <2>1, OneProposalChanges
<1>4. /\ ~proposals[p].canceled /\ Passed(p) /\ proposals[p].eta # 0
  BY <1>1, <1>2 DEF State
<1>5. ASSUME NEW t \in Range(txs) PROVE Decided(p, t)'
  <2>1. Decided(p, t)
    BY <1>4 DEF Decided, Passed
  <2>2. Stands(p)
    BY <1>4, DecisionsStand DEF ActsInv
  <2> QED
    BY <2>1, <2>2, DecidedStands
<1>6. \A t \in executed' \ executed : Ran(t)'
  BY <1>1, <1>3, <1>5 DEF Ran
<1> DEFINE n == Len(proposals[p].targets)
           f == [i \in 1 .. n |-> [action |-> proposals[p].targets[i], eta |-> proposals[p].eta]]
<1>7. n \in Nat /\ \A i \in 1 .. n : proposals[p].targets[i] \in TL!Action
  BY <1>2, ElementOfSeq, LenProperties
<1>8. txs = f
  BY DEF Txs, TL!Batch
<1>9. /\ txs \in Seq([action : TL!Action, eta : {proposals[p].eta}])
      /\ \A t \in Range(txs) : t.action \in TL!Action
  <2> HIDE DEF txs
  <2>1. \A i \in 1 .. n : f[i] \in [action : TL!Action, eta : {proposals[p].eta}]
    BY <1>7
  <2> HIDE DEF n
  <2>2. f \in Seq([action : TL!Action, eta : {proposals[p].eta}]) /\ DOMAIN f = 1 .. n
    BY <1>7, <2>1
  <2>3. \A t \in Range(f) : \E i \in 1 .. n : t = f[i]
    BY <2>2 DEF Range
  <2> HIDE DEF f
  <2> QED
    BY <1>8, <2>1, <2>2, <2>3
<1> HIDE DEF txs
<1>10. /\ admin' = admin /\ named' = named
       /\ \/ pendingAdmin' = pendingAdmin
          \/ \E t \in Range(txs) : IsOffer(t) /\ pendingAdmin' = t.action.arg
  BY <1>1, <1>9, ExecuteOffers
<1>11. ASSUME NEW t \in Range(txs), IsOffer(t), pendingAdmin' = t.action.arg,
              pendingAdmin' \notin {Governor, NoAccount}
       PROVE  RoleGivenAway'
  <2>1. t.action \in [kind : {"setPendingAdmin"}, arg : Account \cup {NoAccount}]
    BY <1>9, <1>11 DEF TL!Action, IsOffer
  <2>2. pendingAdmin' \in Account \ {Governor}
    BY <1>11, <2>1
  <2>3. t.action = [kind |-> "setPendingAdmin", arg |-> pendingAdmin']
    BY <1>11, <2>1
  <2>4. t \in executed' /\ \E q \in Ids' : Decided(q, t)'
    BY <1>1, <1>3, <1>5
  <2> QED
    BY <2>2, <2>3, <2>4 DEF RoleGivenAway, Ids
<1>12. OtherAdmin' => OtherAdmin \/ RoleGivenAway'
  BY <1>1, <1>10, <1>11 DEF OtherAdmin
<1> QED
  BY <1>1, <1>6, <1>10, <1>12, ActsKept

(* GovernorAlpha.sol:293-306.  The guardian runs offers of the role only, which it *)
(* queued itself, or a vote did, or another admin.                                 *)
LEMMA OfferActs ==
  ASSUME ActsInv, [Next]_vars, NEW caller, NEW new \in Heirs, NEW eta,
         ExecuteSetTimelockPendingAdmin(caller, new, eta)
  PROVE  ActsInv'
<1> DEFINE action == [kind |-> "setPendingAdmin", arg |-> new]
           t == [action |-> action, eta |-> eta]
           txs == SetPendingAdminTx(new, eta)
<1>1. txs = <<t>> /\ IsOffer(t)
  BY DEF SetPendingAdminTx, TL!Batch, IsOffer
<1>2. t.action = action /\ action.arg = new
  OBVIOUS
<1>3. TL!Execute(Governor, txs) /\ UNCHANGED historyVars
  BY DEF ExecuteSetTimelockPendingAdmin
<1> HIDE DEF action, t, txs
<1>4. Range(txs) = {t} /\ TL!Range(txs) = {t} /\ txs \in Seq({t})
  BY <1>1 DEF Range, TL!Range
<1>5. /\ t \in queued /\ queued' \subseteq queued /\ executed' = executed \cup {t}
      /\ UNCHANGED <<offered, foreign>>
  BY <1>3, <1>4 DEF TL!Execute, TL!Executable, historyVars
<1>6. admin' = admin /\ named' = named /\ (pendingAdmin' = pendingAdmin \/ pendingAdmin' = new)
  BY <1>2, <1>3, <1>4, ExecuteOffers
<1>7. (t \in offered' \/ \E p \in Ids' : Decided(p, t)') \/ t \in foreign
  <2>1. CASE t \in offered \/ t \in foreign
    BY <1>5, <2>1
  <2>2. CASE \E p \in Ids : Decided(p, t)
    <3>1. PICK p \in Ids : Decided(p, t)
      BY <2>2
    <3>2. Stands(p)
      BY <3>1, DecisionsStand DEF ActsInv, Decided
    <3> QED
      BY <3>1, <3>2, DecidedStands
  <2> QED
    BY <1>5, <2>1, <2>2 DEF ActsInv, AllDecided, OfGovernor
<1>8. Ran(t)'
  BY <1>1, <1>5, <1>7 DEF Ran, IsOffer
<1>9. OtherAdmin' => OtherAdmin \/ RoleGivenAway'
  <2>1. CASE t \in foreign
    BY <2>1 DEF OtherAdmin
  <2>2. CASE t \notin foreign /\ pendingAdmin' = new /\ new # Governor
    <3>1. new \in Account \ {Governor} /\ t \in executed'
      BY <1>5, <2>2, GovernorAssumption
    <3> QED
      BY <1>2, <1>7, <2>2, <3>1 DEF RoleGivenAway, Ids, action
  <2>3. CASE pendingAdmin' = new /\ new = Governor
    BY <1>5, <1>6, <2>3 DEF OtherAdmin
  <2>4. CASE pendingAdmin' = pendingAdmin
    BY <1>5, <1>6, <2>4 DEF OtherAdmin
  <2> QED
    BY <1>6, <2>1, <2>2, <2>3, <2>4
<1> QED
  BY <1>5, <1>6, <1>8, <1>9, ActsKept

LEMMA InitActs == Init => ActsInv
<1> SUFFICES ASSUME Init PROVE ActsInv
  OBVIOUS
<1>1. IInv /\ AllSettled
  BY InitInvariant, InitSettled
<1>2. /\ queued = {} /\ executed = {} /\ foreign = {} /\ admin = Governor
      /\ pendingAdmin = NoAccount /\ now = 0 /\ block = 1
  BY DEF Init, TL!Init
<1> QED
  BY <1>1, <1>2 DEF ActsInv, AllDecided, OthersWereNamed, OtherAdmin, TimeRuns

LEMMA NextActs == ActsInv /\ [Next]_vars => ActsInv'
<1> SUFFICES ASSUME ActsInv, [Next]_vars PROVE ActsInv'
  OBVIOUS
<1>1. ASSUME UNCHANGED <<executed, offered, foreign, named, admin, pendingAdmin>>,
             queued' \subseteq queued
      PROVE  ActsInv'
  BY <1>1, ActsKept DEF OtherAdmin
<1>2. CASE AdvanceBlock \/ MoveVotes
  BY <1>1, <1>2 DEF AdvanceBlock, MoveVotes, timelockVars, historyVars
<1>3. ASSUME NEW caller \in Voter, NEW payload \in Payloads, Propose(caller, payload)
      PROVE  ActsInv'
  BY <1>1, <1>3 DEF Propose, timelockVars, historyVars
<1>4. ASSUME NEW p \in Ids,
             \/ QueueProposal(p)
             \/ ExecuteProposal(p)
             \/ \E caller \in Account : CancelProposal(caller, p)
             \/ \E v \in Voter, support \in BOOLEAN :
                  CastVote(v, p, support) \/ CastVoteBySig(v, p, support)
      PROVE  ActsInv'
  <2>1. CASE \E caller \in Account : CancelProposal(caller, p)
    BY <1>1, <2>1 DEF CancelProposal, TL!Cancel, TL!config, TL!history, historyVars
  <2>2. CASE \E v \in Voter, support \in BOOLEAN : CastBallot(v, p, support)
    BY <1>1, <2>2 DEF CastBallot, timelockVars, historyVars
  <2> QED
    BY <1>4, <2>1, <2>2, QueueActs, ExecuteActs DEF CastVote, CastVoteBySig
<1>5. CASE AcceptAdmin
  BY <1>5, ActsKept DEF AcceptAdmin, TL!AcceptAdmin, TL!history, historyVars, OtherAdmin
<1>6. ASSUME NEW caller \in Account, NEW new,
             TransferGuardian(caller, new) \/ Abdicate(caller)
      PROVE  ActsInv'
  BY <1>1, <1>6 DEF TransferGuardian, Abdicate, timelockVars, historyVars
<1>7. ASSUME NEW caller \in Account, NEW new, NEW eta,
             QueueSetTimelockPendingAdmin(caller, new, eta)
      PROVE  ActsInv'
  <2>1. /\ queued' = queued \cup Range(SetPendingAdminTx(new, eta))
        /\ offered' = offered \cup Range(SetPendingAdminTx(new, eta))
        /\ UNCHANGED <<executed, foreign, named, admin, pendingAdmin>>
    BY <1>7 DEF QueueSetTimelockPendingAdmin, TL!Queue, TL!Range, Range, TL!config
  <2>2. \A t \in queued' \ queued : OfGovernor(t)'
    BY <2>1 DEF OfGovernor
  <2> QED
    BY <2>1, <2>2, ActsKept DEF OtherAdmin
<1>8. ASSUME NEW caller \in Account, NEW new \in Heirs, NEW eta,
             ExecuteSetTimelockPendingAdmin(caller, new, eta)
      PROVE  ActsInv'
  BY <1>8, OfferActs
<1>9. ASSUME NEW caller \in Account, NEW txs, Oversee(caller) \/ Veto(caller, txs)
      PROVE  ActsInv'
  <2>1. CASE Veto(caller, txs)
    BY <1>1, <2>1 DEF Veto, TL!VetoTransactions, TL!config, TL!history
  <2>2. CASE TL!Pause(caller) \/ TL!Unpause(caller)
    <3>1. UNCHANGED <<queued, executed, named, admin, pendingAdmin>>
      BY <2>2 DEF TL!Pause, TL!Unpause, TL!history
    <3>2. CASE Oversee(caller)
      BY <1>1, <3>1, <3>2 DEF Oversee, historyVars
    <3> QED
      BY <1>9, <2>1, <3>2
  <2>3. ASSUME NEW a \in Heirs, TL!GovernorSetPendingAdmin(caller, a), UNCHANGED historyVars
        PROVE  ActsInv'
    <3>1. /\ UNCHANGED <<queued, executed, offered, foreign, admin>>
          /\ named' = named \cup {a} /\ pendingAdmin' = a
      BY <2>3 DEF TL!GovernorSetPendingAdmin, historyVars
    <3>2. a # Governor => RoleGivenAway'
      BY <3>1, GovernorAssumption DEF RoleGivenAway
    <3> QED
      BY <3>1, <3>2, ActsKept DEF OtherAdmin
  <2>4. CASE caller # Governor /\ TL!AcceptAdmin(caller) /\ UNCHANGED historyVars
    <3>1. /\ UNCHANGED <<queued, executed, offered, foreign, named>>
          /\ pendingAdmin = caller
      BY <2>4 DEF TL!AcceptAdmin, TL!history, historyVars
    <3>2. OtherAdmin
      BY <2>4, <3>1, GovernorAssumption DEF OtherAdmin
    <3> QED
      BY <3>1, <3>2, ActsKept
  <2> QED
    BY <1>9, <2>1, <2>2, <2>3, <2>4 DEF Oversee
<1>10. CASE UNCHANGED vars
  BY <1>1, <1>10 DEF vars, timelockVars, historyVars
<1>11. ASSUME NEW caller \in Account, NEW action, NEW eta, OtherAdminQueues(caller, action, eta)
       PROVE  ActsInv'
  <2> DEFINE t == [action |-> action, eta |-> eta]
  <2>1. TL!Range(TL!Batch(<<action>>, eta)) = {t}
    BY DEF TL!Range, TL!Batch
  <2>2. /\ queued' = queued \cup {t} /\ foreign' = foreign \cup {t} /\ OtherAdmin
        /\ UNCHANGED <<executed, offered, named>>
    BY <1>11, <2>1 DEF OtherAdminQueues, TL!Queue, TL!FromAdmin, OtherAdmin
  <2> HIDE DEF t
  <2> QED
    BY <2>2, ActsKept
<1>12. ASSUME NEW caller \in Account, NEW t, OtherAdminCancels(caller, t)
       PROVE  ActsInv'
  BY <1>1, <1>12 DEF OtherAdminCancels, TL!Cancel, TL!config, TL!history
<1>13. ASSUME NEW caller \in Account, NEW t, OtherAdminExecutes(caller, t)
       PROVE  ActsInv'
  <2>1. TL!Range(<<t>>) = {t}
    BY DEF TL!Range
  <2>2. /\ queued' \subseteq queued /\ executed' = executed \cup {t}
        /\ foreign' = foreign \cup {t} /\ OtherAdmin
        /\ UNCHANGED <<offered, named>>
    BY <1>13, <2>1 DEF OtherAdminExecutes, TL!Execute, TL!FromAdmin, OtherAdmin
  <2>3. Ran(t)'
    BY <2>2 DEF Ran
  <2> QED
    BY <2>2, <2>3, ActsKept
<1> QED
  BY <1>2, <1>3, <1>4, <1>5, <1>6, <1>7, <1>8, <1>9, <1>10, <1>11, <1>12, <1>13 DEF Next, Ids

----------------------------------------------------------------------------
(* The theorems. *)

(* GovernorAlpha.sol:170-181.  No account ever has two proposals that are     *)
(* pending or open for votes.                                                *)
THEOREM OneProposalAtATime == Spec => []OneLiveProposal
<1>1. IInv => OneLiveProposal
  <2> SUFFICES ASSUME IInv, NEW p \in Ids, NEW q \in Ids,
                      proposals[p].proposer = proposals[q].proposer,
                      State(p) \in {"Pending", "Active"}, State(q) \in {"Pending", "Active"}
               PROVE  p = q
    BY DEF OneLiveProposal, Ids
  <2>1. Live(p) /\ Live(q)
    BY LiveMeansOpen DEF IInv
  <2> QED
    BY <2>1 DEF IInv, EarlierAreOver
<1> QED
  BY <1>1, InitInvariant, NextInvariant, PTL DEF Spec

(* GovernorAlpha.sol:99-149.  Proposals, receipts and tallies keep their types; *)
(* votes are asked for at blocks that are over only.                           *)
THEOREM GovernorTypeCorrect == Spec => []Types
<1>1. IInv => Types
  BY DEF IInv
<1> QED
  BY <1>1, InitInvariant, NextInvariant, PTL DEF Spec

(* GovernorAlpha.sol:215-306; Timelock.sol:89-162.  Whatever the guardian, the *)
(* overseers and other admins do: what the timelock has executed was decided   *)
(* by a vote and run by its proposal, or hands on the role of admin and comes  *)
(* from the guardian or a vote, or is of another admin; and there is nothing   *)
(* of another admin unless a vote, the guardian or a governor of Core has      *)
(* named one.                                                                  *)
THEOREM OnlyPassedActs == Spec => []OnlyPassedProposalsAct
<1>1. ActsInv => OnlyPassedProposalsAct
  BY DEF ActsInv, AllDecided, Ran, OthersWereNamed, OtherAdmin, OnlyPassedProposalsAct, Ids
<1> QED
  BY <1>1, InitActs, NextActs, PTL DEF Spec

(* GovernorAlpha.sol:308-328.  The phase computed from blocks, times, votes and *)
(* flags goes through the abstract lifecycle, for any number of proposals.      *)
THEOREM ImplementsLifecycle == Spec => KeepsLifecycle
<1>1. Init => IInv /\ AllSettled
  BY InitInvariant, InitSettled
<1>2. IInv /\ AllSettled /\ [Next]_vars
        => IInv' /\ AllSettled' /\ [Lifecycle!Next]_Phases
  BY NextInvariant, NextStep DEF StepOK
<1>3. Init => Lifecycle!Init
  BY InitSettled DEF Lifecycle!Init, Phases
<1>4. [Lifecycle!Next]_Phases
        => [Lifecycle!Next]_([p \in 1 .. Len(proposals) |-> State(p)])
  BY DEF Phases
<1> QED
  BY <1>1, <1>2, <1>3, <1>4, PTL DEF Spec, KeepsLifecycle, Lifecycle!Spec

(* GovernorAlpha.sol:351-373.  Each side of every vote is the votes that its *)
(* voters had at the start block, and both are within the supply, however    *)
(* tokens move and whoever votes, by call or by signature.                   *)
THEOREM TalliesAreSnapshots == Spec => []TallyIsSnapshot
<1>1. TallyInv => TallyIsSnapshot
  <2>1. ASSUME TallyInv, NEW p \in Ids,
               proposals[p].forVotes > 0 \/ proposals[p].againstVotes > 0
        PROVE  /\ proposals[p].forVotes = VotesCast(p, TRUE)
               /\ proposals[p].againstVotes = VotesCast(p, FALSE)
    <3>1. Snapshot(p) /\ block \in Nat /\ proposals[p].startBlock \in Nat
      BY <2>1, ProposalType DEF TallyInv, IInv, Types
    <3>2. ~ (block <= proposals[p].startBlock)
      BY <2>1, <3>1 DEF Snapshot
    <3>3. block > proposals[p].startBlock
      BY <3>1, <3>2
    <3> QED
      BY <3>1, <3>3 DEF Snapshot
  <2> QED
    BY <2>1, TallyWithinSupply DEF TallyIsSnapshot, Ids
<1> QED
  BY <1>1, InitTally, NextTally, PTL DEF Spec

(* GovernorAlpha.sol:229-241.  Whatever the guardian, the overseers and other *)
(* admins do: all that a queued proposal needs stays in the queue of the       *)
(* timelock, unless an overseer or another admin took it from there, or it is  *)
(* an offer of the admin role that has already run.                            *)
THEOREM QueuedStaysBacked == Spec => []QueuedIsBacked
<1>1. QueueInv => QueuedIsBacked
  <2>1. ASSUME QueueInv, NEW p \in Ids, State(p) = "Queued", NEW t \in Range(Txs(p))
        PROVE  \/ t \in queued \cup lifted
               \/ t \in executed /\ t.action.kind = "setPendingAdmin"
    <3>1. Claims(p)
      BY <2>1 DEF State, Claims
    <3> QED
      BY <2>1, <3>1 DEF QueueInv, ClaimsBacked, Backed, IsOffer
  <2> QED
    BY <2>1 DEF QueuedIsBacked, Ids
<1> QED
  BY <1>1, InitQueue, NextQueue, PTL DEF Spec
=============================================================================
