-------------------------------- MODULE Tribe --------------------------------
(***************************************************************************)
(* The TRIBE governance token (contracts/tribe/Tribe.sol): a token whose   *)
(* holders delegate their balance as votes.  Every change of a delegate's  *)
(* votes is recorded as a checkpoint, so that a governor can ask for the   *)
(* votes a delegate had at the end of an earlier block.                    *)
(*                                                                         *)
(* Each action is one external call; it either commits entirely or         *)
(* reverts (a require that fails is a conjunct that is false).             *)
(***************************************************************************)
EXTENDS Integers, Sequences, FiniteSets, Functions

CONSTANTS
  Account,        \* the addresses that call the token or hold it
  NoAccount,      \* address(0)
  Holder,         \* the account given the initial supply
  FirstMinter,    \* the minter set by the constructor
  InitialSupply,  \* 1 billion TRIBE in the code
  Max96,          \* type(uint96).max
  Amounts,        \* the amounts callers pass
  Allowances,     \* the amounts passed to approve and permit
  MaxBlock,       \* bound: the last block explored
  Signer,         \* bound: the owners who sign messages off-chain
  Nonces,         \* bound: the nonces they sign for
  MaxSigned       \* bound: how many messages they sign

ASSUME TribeAssumption ==
  /\ IsFiniteSet(Account)  \* an address has 20 bytes
  /\ NoAccount \notin Account
  /\ Holder \in Account
  /\ FirstMinter \in Account
  /\ Max96 \in Nat
  /\ InitialSupply \in 0 .. Max96
  /\ Amounts \subseteq Nat
  /\ Allowances \subseteq 0 .. Max96
  /\ MaxBlock \in Nat \ {0}
  /\ Signer \subseteq Account
  /\ Nonces \subseteq Nat
  /\ MaxSigned \in Nat

Address == Account \cup {NoAccount}

VARIABLES
  block,          \* block.number; the timestamp grows with it
  minter, totalSupply, balances, allowances,
  delegates,      \* whom each account delegates to, NoAccount at first
  checkpoints,    \* per delegate, the sequence of [fromBlock, votes]
  nonces,
  uses            \* history: each message signed so far |-> times accepted

tokenVars == <<minter, totalSupply, balances>>
sigVars == <<nonces, uses>>
vars == <<block, tokenVars, allowances, delegates, checkpoints, sigVars>>

(* What an owner can sign: a delegation, or a permit for a spender. *)
Message ==
  [kind : {"delegate"}, owner : Account, to : Address, amount : {0},
   nonce : Nat, deadline : Nat]
    \cup
  [kind : {"permit"}, owner : Account, to : Account, amount : Allowances,
   nonce : Nat, deadline : Nat]

----------------------------------------------------------------------------
(* Votes: checkpoints are written by _moveDelegates and read back by block. *)

GetCurrentVotes(cps) == IF cps = <<>> THEN 0 ELSE cps[Len(cps)].votes

(* Faulty: never merges, so a block gets two checkpoints. *)
WriteCheckpointAppends(cps, now, votes) ==
  Append(cps, [fromBlock |-> now, votes |-> votes])

(* Faulty: overwrites the last checkpoint of an earlier block too. *)
WriteCheckpointOverwrites(cps, now, votes) ==
  LET cp == [fromBlock |-> now, votes |-> votes]
  IN IF cps # <<>> THEN [cps EXCEPT ![Len(cps)] = cp] ELSE <<cp>>

(* Two checkpoints of one block are merged: the later overwrites. *)
WriteCheckpoint(cps, now, votes) ==
  LET cp == [fromBlock |-> now, votes |-> votes]
  IN IF cps # <<>> /\ cps[Len(cps)].fromBlock = now
     THEN [cps EXCEPT ![Len(cps)] = cp]
     ELSE Append(cps, cp)

(* Faulty: the addition wraps unnoticed. *)
Unchecked96(a, b) == a \in Nat /\ b \in Nat

(* add96: the sum of two uint96 must be one. *)
Fits96(a, b) == a + b <= Max96

(* The vote accounting of a move of `amount` votes reverts when it leaves *)
(* the range of uint96.                                                   *)
CanMoveDelegates(cps, src, dst, amount) ==
  src # dst /\ amount > 0 =>
    /\ src # NoAccount => amount <= GetCurrentVotes(cps[src])
    /\ dst # NoAccount => Fits96(GetCurrentVotes(cps[dst]), amount)

(* Faulty: the old delegate keeps the votes. *)
MoveDelegatesKeepsSource(cps, src, dst, amount) ==
  IF src = dst \/ amount = 0 THEN cps
  ELSE [a \in Account |->
          IF a = dst THEN WriteCheckpoint(cps[a], block,
                                          GetCurrentVotes(cps[a]) + amount)
          ELSE cps[a]]

MoveDelegates(cps, src, dst, amount) ==
  IF src = dst \/ amount = 0 THEN cps
  ELSE [a \in Account |->
          CASE a = src -> WriteCheckpoint(cps[a], block,
                                          GetCurrentVotes(cps[a]) - amount)
            [] a = dst -> WriteCheckpoint(cps[a], block,
                                          GetCurrentVotes(cps[a]) + amount)
            [] OTHER -> cps[a]]

(* The while loop of getPriorVotes, from the bounds <<lower, upper>>. *)
SearchVotes(cps, b) ==
  LET search[r \in (1 .. Len(cps)) \X (1 .. Len(cps))] ==
        LET lower == r[1]
            upper == r[2]
            center == upper - (upper - lower) \div 2
        IN CASE upper <= lower -> cps[lower].votes
             [] upper > lower /\ cps[center].fromBlock = b -> cps[center].votes
             [] upper > lower /\ cps[center].fromBlock < b ->
                  search[<<center, upper>>]
             [] OTHER -> search[<<lower, center - 1>>]
  IN search[<<1, Len(cps)>>]

(* Faulty: forgets that votes are zero before the first checkpoint. *)
GetPriorVotesNoZero(a, b) ==
  LET cps == checkpoints[a]
  IN CASE cps = <<>> -> 0
       [] cps # <<>> /\ cps[Len(cps)].fromBlock <= b -> cps[Len(cps)].votes
       [] OTHER -> SearchVotes(cps, b)

GetPriorVotes(a, b) ==
  LET cps == checkpoints[a]
  IN CASE cps = <<>> -> 0
       [] cps # <<>> /\ cps[Len(cps)].fromBlock <= b -> cps[Len(cps)].votes
       [] cps # <<>> /\ cps[1].fromBlock > b -> 0
       [] OTHER -> SearchVotes(cps, b)

----------------------------------------------------------------------------
Init ==
  /\ block = 1
  /\ minter = FirstMinter
  /\ totalSupply = InitialSupply
  /\ balances = [a \in Account |-> IF a = Holder THEN InitialSupply ELSE 0]
  /\ allowances = [a \in Account |-> [s \in Account |-> 0]]
  /\ delegates = [a \in Account |-> NoAccount]
  /\ checkpoints = [a \in Account |-> <<>>]
  /\ nonces = [a \in Account |-> 0]
  /\ uses = <<>>

(* The minter hands its right to another account. *)
SetMinter(caller, new) ==
  /\ caller = minter
  /\ minter' = new
  /\ UNCHANGED <<block, totalSupply, balances, allowances, delegates,
                 checkpoints, sigVars>>

(* Mint to an account; its delegate gets the votes. *)
Mint(caller, dst, amount) ==
  /\ caller = minter
  /\ dst # NoAccount
  /\ Fits96(totalSupply, amount)
  /\ Fits96(balances[dst], amount)
  /\ CanMoveDelegates(checkpoints, NoAccount, delegates[dst], amount)
  /\ totalSupply' = totalSupply + amount
  /\ balances' = [balances EXCEPT ![dst] = @ + amount]
  /\ checkpoints' = MoveDelegates(checkpoints, NoAccount, delegates[dst], amount)
  /\ UNCHANGED <<block, minter, allowances, delegates, sigVars>>

Approve(caller, spender, amount) ==
  /\ allowances' = [allowances EXCEPT ![caller][spender] = amount]
  /\ UNCHANGED <<block, tokenVars, delegates, checkpoints, sigVars>>

(* The body shared by transfer and transferFrom. *)
TransferTokens(src, dst, amount) ==
  /\ src # NoAccount
  /\ dst # NoAccount
  /\ amount <= balances[src]
  /\ LET debited == [balances EXCEPT ![src] = @ - amount]
     IN /\ Fits96(debited[dst], amount)
        /\ balances' = [debited EXCEPT ![dst] = @ + amount]
  /\ CanMoveDelegates(checkpoints, delegates[src], delegates[dst], amount)
  /\ checkpoints' = MoveDelegates(checkpoints, delegates[src], delegates[dst],
                                  amount)
  /\ UNCHANGED <<block, minter, totalSupply, delegates, sigVars>>

Transfer(caller, dst, amount) ==
  /\ TransferTokens(caller, dst, amount)
  /\ UNCHANGED allowances

(* An allowance of Max96 is infinite, and an owner needs none. *)
TransferFrom(spender, src, dst, amount) ==
  /\ src # NoAccount
  /\ IF spender # src /\ allowances[src][spender] # Max96
     THEN /\ amount <= allowances[src][spender]
          /\ allowances' = [allowances EXCEPT ![src][spender] = @ - amount]
     ELSE UNCHANGED allowances
  /\ TransferTokens(src, dst, amount)

(* The body shared by delegate and delegateBySig. *)
DelegateVotes(delegator, delegatee) ==
  /\ CanMoveDelegates(checkpoints, delegates[delegator], delegatee,
                      balances[delegator])
  /\ delegates' = [delegates EXCEPT ![delegator] = delegatee]
  /\ checkpoints' = MoveDelegates(checkpoints, delegates[delegator], delegatee,
                                  balances[delegator])
  /\ UNCHANGED <<block, tokenVars, allowances>>

Delegate(caller, delegatee) ==
  /\ DelegateVotes(caller, delegatee)
  /\ UNCHANGED sigVars

(* External: an owner signs a message, for any nonce and any deadline. *)
Sign(m) ==
  /\ Cardinality(DOMAIN uses) < MaxSigned
  /\ m \notin DOMAIN uses
  /\ uses' = [n \in DOMAIN uses \cup {m} |-> IF n = m THEN 0 ELSE uses[n]]
  /\ UNCHANGED <<block, tokenVars, allowances, delegates, checkpoints, nonces>>

(* Faulty: the nonce is checked but not consumed. *)
UseSignatureKeepsNonce(m) ==
  /\ m.nonce = nonces[m.owner]
  /\ block <= m.deadline
  /\ UNCHANGED nonces
  /\ uses' = [uses EXCEPT ![m] = @ + 1]

(* ecrecover returns the owner exactly for a message the owner signed, and  *)
(* every accepted message consumes the owner's nonce.                       *)
UseSignature(m) ==
  /\ m.nonce = nonces[m.owner]
  /\ block <= m.deadline
  /\ nonces' = [nonces EXCEPT ![m.owner] = @ + 1]
  /\ uses' = [uses EXCEPT ![m] = @ + 1]

DelegateBySig(m) ==
  /\ m.kind = "delegate"
  /\ UseSignature(m)
  /\ DelegateVotes(m.owner, m.to)

Permit(m) ==
  /\ m.kind = "permit"
  /\ UseSignature(m)
  /\ allowances' = [allowances EXCEPT ![m.owner][m.to] = m.amount]
  /\ UNCHANGED <<block, tokenVars, delegates, checkpoints>>

(* External: the chain moves on. *)
AdvanceBlock ==
  /\ block < MaxBlock
  /\ block' = block + 1
  /\ UNCHANGED <<tokenVars, allowances, delegates, checkpoints, sigVars>>

(* Bound: a message expires before the last block. *)
SignableMessage ==
  {m \in [kind : {"delegate", "permit"}, owner : Signer, to : Address,
          amount : Allowances \cup {0}, nonce : Nonces, deadline : {MaxBlock - 1}] :
     m \in Message}

Next ==
  \/ AdvanceBlock
  \/ \E caller \in Account :
       \/ \E a \in Account : SetMinter(caller, a)
       \/ \E dst \in Address, n \in Amounts : Mint(caller, dst, n)
       \/ \E s \in Account, n \in Allowances : Approve(caller, s, n)
       \/ \E dst \in Address, n \in Amounts : Transfer(caller, dst, n)
       \/ \E src, dst \in Address, n \in Amounts : TransferFrom(caller, src, dst, n)
       \/ \E d \in Address : Delegate(caller, d)
  \/ \E m \in SignableMessage : Sign(m)
  \/ \E m \in DOMAIN uses : DelegateBySig(m) \/ Permit(m)

Spec == Init /\ [][Next]_vars

----------------------------------------------------------------------------
Checkpoint == [fromBlock : Nat, votes : 0 .. Max96]

(* Every variable keeps the width the contract declares for it. *)
TypeOK ==
  /\ block \in Nat
  /\ minter \in Account
  /\ totalSupply \in 0 .. Max96
  /\ balances \in [Account -> 0 .. Max96]
  /\ allowances \in [Account -> [Account -> 0 .. Max96]]
  /\ delegates \in [Account -> Address]
  /\ checkpoints \in [Account -> Seq(Checkpoint)]
  /\ nonces \in [Account -> Nat]

(* The reference meaning of getPriorVotes: the votes of the last checkpoint *)
(* written in block b or earlier.                                           *)
VotesAt(cps, b) ==
  LET past == {i \in 1 .. Len(cps) : cps[i].fromBlock <= b}
  IN IF past = {} THEN 0
     ELSE cps[CHOOSE i \in past : \A j \in past : j <= i].votes

(* Tribe.sol:299-331.  The early exits and the binary search return the     *)
(* reference value for every finished block.                                *)
PriorVotesCorrect ==
  \A a \in Account, b \in 0 .. block - 1 :
    GetPriorVotes(a, b) = VotesAt(checkpoints[a], b)

(* Tribe.sol:380-396.  The checkpoints of a delegate are strictly ordered   *)
(* and none is in the future, which the search and the merging of           *)
(* checkpoints of one block rely on.                                        *)
CheckpointsOrdered ==
  \A a \in Account :
    LET cps == checkpoints[a]
    IN /\ \A i \in 1 .. Len(cps) : cps[i].fromBlock \in 1 .. block
       /\ \A i, j \in 1 .. Len(cps) : i < j => cps[i].fromBlock < cps[j].fromBlock

(* Tribe.sol:358-378.  A delegate's votes are exactly the balances delegated *)
(* to it, through every order of mints, transfers and (re)delegations.       *)
VotesAreDelegatedBalances ==
  \A d \in Account :
    GetCurrentVotes(checkpoints[d]) =
      SumFunctionOnSet(balances, {a \in Account : delegates[a] = d})

(* Tribe.sol:112-115, 351-352.  No token appears but by mint, and none is   *)
(* lost, a transfer to oneself included.                                    *)
SupplyIsConserved == SumFunction(balances) = totalSupply

(* Tribe.sol:299-331 as governors use it.  The votes all delegates had at   *)
(* one finished block never add up to more than the tokens that exist: no   *)
(* token votes twice on a proposal however it is moved about.               *)
NoTokenVotesTwice ==
  \A b \in 0 .. block - 1 :
    SumFunction([a \in Account |-> GetPriorVotes(a, b)]) <= totalSupply

(* Tribe.sol:184, 277.  A signed delegation or permit is accepted at most   *)
(* once, although both kinds draw on one nonce.                             *)
SignatureUsedOnce == \A m \in DOMAIN uses : uses[m] <= 1
=============================================================================
