----------------------------- MODULE TribeProofs -----------------------------
(***************************************************************************)
(* Proofs about the TRIBE token for any accounts, amounts and messages.    *)
(* Its widths, the order of its checkpoints, and that a signature counts   *)
(* once: the order is inductive with the clock, and a signature counts     *)
(* once because what was accepted has a nonce that its owner is past.      *)
(*                                                                         *)
(* Then votes: the binary search finds what was recorded (by induction on  *)
(* the interval searched), a move of votes leaves the record of finished   *)
(* blocks alone, and votes, balances and supply stay balanced (VotesInv).  *)
(* From these the token implements the VoteLedger.                         *)
(***************************************************************************)
EXTENDS MCTribeLedger, ArithmeticProofs, SequenceTheorems

(* What CheckpointsOrdered says of one delegate. *)
Ordered(cps, now) ==
  /\ \A i \in 1 .. Len(cps) : cps[i].fromBlock \in 1 .. now
  /\ \A i, j \in 1 .. Len(cps) : i < j => cps[i].fromBlock < cps[j].fromBlock

SignaturesSpent ==
  /\ DOMAIN uses \subseteq Message
  /\ \A m \in DOMAIN uses :
       uses[m] = 0 \/ (uses[m] = 1 /\ m.nonce < nonces[m.owner])

IInv ==
  /\ TypeOK
  /\ block >= 1
  /\ CheckpointsOrdered
  /\ SignaturesSpent

Votes == 0 .. Max96

----------------------------------------------------------------------------
(* Checkpoints. *)

(* Tribe.sol:384-396.  One delegate's checkpoints stay in order: a second    *)
(* write in a block replaces the first.                                      *)
LEMMA WriteCheckpointOrdered ==
  ASSUME NEW cps \in Seq(Checkpoint), NEW now \in Nat, now >= 1, NEW votes \in Votes,
         Ordered(cps, now)
  PROVE  /\ WriteCheckpoint(cps, now, votes) \in Seq(Checkpoint)
         /\ Ordered(WriteCheckpoint(cps, now, votes), now)
<1> DEFINE cp == [fromBlock |-> now, votes |-> votes]
<1>1. cp \in Checkpoint /\ cp.fromBlock = now
  BY DEF Checkpoint, Votes
<1>2. Len(cps) \in Nat /\ \A i \in 1 .. Len(cps) : cps[i] \in Checkpoint
  BY ElementOfSeq, LenProperties
<1> HIDE DEF cp
<1>3. CASE cps # <<>> /\ cps[Len(cps)].fromBlock = now
  <2> DEFINE new == [cps EXCEPT ![Len(cps)] = cp]
  <2>1. Len(cps) \in 1 .. Len(cps)
    BY <1>2, <1>3, EmptySeq
  <2>2. /\ new \in Seq(Checkpoint) /\ Len(new) = Len(cps)
        /\ \A j \in 1 .. Len(cps) : new[j] = IF j = Len(cps) THEN cp ELSE cps[j]
    BY <1>1, <2>1, ExceptSeq
  <2> HIDE DEF new
  <2>3. \A j \in 1 .. Len(cps) : new[j].fromBlock = cps[j].fromBlock
    BY <1>1, <1>3, <2>2
  <2>4. Ordered(new, now)
    BY <2>2, <2>3 DEF Ordered
  <2> QED
    BY <1>3, <2>2, <2>4 DEF WriteCheckpoint, new, cp
<1>4. CASE ~(cps # <<>> /\ cps[Len(cps)].fromBlock = now)
  <2> DEFINE new == Append(cps, cp)
  <2>1. /\ new \in Seq(Checkpoint) /\ Len(new) = Len(cps) + 1
        /\ \A i \in 1 .. Len(cps) : new[i] = cps[i]
        /\ new[Len(cps) + 1] = cp
    BY <1>1, AppendProperties
  <2> HIDE DEF new
  <2>2. \A i \in 1 .. Len(cps) : cps[i].fromBlock \in Nat /\ cps[i].fromBlock < now
    <3>1. SUFFICES ASSUME NEW i \in 1 .. Len(cps)
                   PROVE  cps[i].fromBlock \in Nat /\ cps[i].fromBlock < now
      OBVIOUS
    <3>2. cps # <<>> /\ Len(cps) \in 1 .. Len(cps)
      BY <1>2, <3>1, EmptySeq
    <3>3. cps[Len(cps)].fromBlock \in 1 .. now /\ cps[Len(cps)].fromBlock # now
      BY <1>4, <3>2 DEF Ordered
    <3>4. cps[i].fromBlock \in 1 .. now
      BY DEF Ordered
    <3>5. i < Len(cps) => cps[i].fromBlock < cps[Len(cps)].fromBlock
      BY <3>2 DEF Ordered
    <3> QED
      BY <1>2, <3>3, <3>4, <3>5
  <2>3. \A i \in 1 .. Len(new) : new[i].fromBlock \in 1 .. now
    BY <1>1, <1>2, <2>1 DEF Ordered
  <2>4. ASSUME NEW i \in 1 .. Len(new), NEW j \in 1 .. Len(new), i < j
        PROVE  new[i].fromBlock < new[j].fromBlock
    <3>1. i \in 1 .. Len(cps)
      BY <1>2, <2>1, <2>4
    <3>2. CASE j = Len(cps) + 1
      BY <1>1, <2>1, <2>2, <3>1, <3>2
    <3>3. CASE j \in 1 .. Len(cps)
      BY <2>1, <2>4, <3>1, <3>3 DEF Ordered
    <3> QED
      BY <1>2, <2>1, <3>2, <3>3
  <2>5. Ordered(new, now)
    BY <2>3, <2>4 DEF Ordered
  <2> QED
    BY <1>4, <2>1, <2>5 DEF WriteCheckpoint, new, cp
<1> QED
  BY <1>3, <1>4

(* Tribe.sol:341-343.  The votes of a delegate fit their width. *)
LEMMA CurrentVotesType ==
  ASSUME NEW cps \in Seq(Checkpoint), Max96 \in Nat
  PROVE  GetCurrentVotes(cps) \in Votes
<1>1. CASE cps = <<>>
  BY <1>1 DEF GetCurrentVotes, Votes
<1>2. CASE cps # <<>>
  <2>1. Len(cps) \in 1 .. Len(cps)
    BY <1>2, LenProperties, EmptySeq
  <2>2. cps[Len(cps)] \in Checkpoint
    BY <2>1, ElementOfSeq
  <2> QED
    BY <1>2, <2>2 DEF GetCurrentVotes, Votes, Checkpoint
<1> QED
  BY <1>1, <1>2

(* The checkpoints of all delegates, typed and in order at block `now`. *)
LedgerOK(cps, now) ==
  /\ cps \in [Account -> Seq(Checkpoint)]
  /\ \A a \in Account : Ordered(cps[a], now)

(* Tribe.sol:358-378.  Votes that may move, move within the width. *)
LEMMA MoveDelegatesOrdered ==
  ASSUME NEW cps, LedgerOK(cps, block), block \in Nat, block >= 1,
         NEW src \in Address, NEW dst \in Address, NEW amount \in Nat,
         CanMoveDelegates(cps, src, dst, amount)
  PROVE  LedgerOK(MoveDelegates(cps, src, dst, amount), block)
<1> USE TribeAssumption
<1>1. CASE src = dst \/ amount = 0
  BY <1>1 DEF MoveDelegates
<1>2. CASE src # dst /\ amount # 0
  <2> DEFINE new(a) ==
        CASE a = src -> WriteCheckpoint(cps[a], block, GetCurrentVotes(cps[a]) - amount)
          [] a = dst -> WriteCheckpoint(cps[a], block, GetCurrentVotes(cps[a]) + amount)
          [] OTHER -> cps[a]
  <2>1. MoveDelegates(cps, src, dst, amount) = [a \in Account |-> new(a)]
    BY <1>2 DEF MoveDelegates
  <2>2. ASSUME NEW a \in Account
        PROVE  new(a) \in Seq(Checkpoint) /\ Ordered(new(a), block)
    <3>1. /\ cps[a] \in Seq(Checkpoint) /\ Ordered(cps[a], block)
          /\ GetCurrentVotes(cps[a]) \in Votes /\ a # NoAccount
      BY CurrentVotesType DEF LedgerOK
    <3>2. CASE a = src
      <4>1. GetCurrentVotes(cps[a]) - amount \in Votes
        BY <1>2, <3>1, <3>2 DEF CanMoveDelegates, Votes
      <4>2. new(a) = WriteCheckpoint(cps[a], block, GetCurrentVotes(cps[a]) - amount)
        BY <1>2, <3>2
      <4> HIDE DEF new
      <4> QED
        BY <3>1, <4>1, <4>2, WriteCheckpointOrdered
    <3>3. CASE a # src /\ a = dst
      <4>1. GetCurrentVotes(cps[a]) + amount \in Votes
        BY <1>2, <3>1, <3>3 DEF CanMoveDelegates, Fits96, Votes
      <4>2. new(a) = WriteCheckpoint(cps[a], block, GetCurrentVotes(cps[a]) + amount)
        BY <3>3
      <4> HIDE DEF new
      <4> QED
        BY <3>1, <4>1, <4>2, WriteCheckpointOrdered
    <3>4. CASE a # src /\ a # dst
      BY <3>1, <3>4
    <3> QED
      BY <3>2, <3>3, <3>4
  <2> HIDE DEF new
  <2> QED
    BY <2>1, <2>2 DEF LedgerOK
<1> QED
  BY <1>1, <1>2

----------------------------------------------------------------------------
(* Votes read back. *)

(* What the search looks for between two checkpoints: the last one that was  *)
(* written by then, or the lower one.                                        *)
IsFound(cps, b, lower, upper, i) ==
  IF upper <= lower THEN i = lower
  ELSE /\ i \in lower .. upper
       /\ i = lower \/ cps[i].fromBlock <= b
       /\ \A j \in i + 1 .. upper : cps[j].fromBlock > b

Found(cps, b, lower, upper) ==
  CHOOSE i \in 1 .. Len(cps) : IsFound(cps, b, lower, upper, i)

Bounds(cps) == (1 .. Len(cps)) \X (1 .. Len(cps))

(* The recursion of the search. *)
IsSearch(search, cps, b) ==
  search = [r \in Bounds(cps) |->
    LET lower == r[1]
        upper == r[2]
        center == upper - (upper - lower) \div 2
    IN CASE upper <= lower -> cps[lower].votes
         [] upper > lower /\ cps[center].fromBlock = b -> cps[center].votes
         [] upper > lower /\ cps[center].fromBlock < b -> search[<<center, upper>>]
         [] OTHER -> search[<<lower, center - 1>>]]

LEMMA SearchUnfolds ==
  ASSUME NEW cps, NEW b
  PROVE  SearchVotes(cps, b) = (CHOOSE s : IsSearch(s, cps, b))[<<1, Len(cps)>>]
BY DEF SearchVotes, IsSearch, Bounds

(* The middle, rounded up. *)
LEMMA CenterBetween ==
  ASSUME NEW lower \in Nat, NEW upper \in Nat, lower < upper
  PROVE  upper - (upper - lower) \div 2 \in lower + 1 .. upper
<1> DEFINE n == upper - lower
<1>1. n \in Nat /\ n >= 1
  OBVIOUS
<1>2. n \div 2 \in Nat /\ (n \div 2) * 2 <= n
  BY <1>1, DivBounds
<1> QED
  BY <1>1, <1>2

LEMMA CheckpointFields ==
  ASSUME NEW cps \in Seq(Checkpoint), NEW i \in 1 .. Len(cps)
  PROVE  cps[i].fromBlock \in Nat /\ cps[i].votes \in Votes
<1>1. cps[i] \in Checkpoint
  BY ElementOfSeq
<1> QED
  BY <1>1 DEF Checkpoint, Votes

(* What is found between two bounds exists, and there is only one. *)
LEMMA FoundExists ==
  ASSUME NEW cps \in Seq(Checkpoint), NEW now \in Nat, Ordered(cps, now), NEW b \in Nat,
         NEW lower \in 1 .. Len(cps), NEW upper \in 1 .. Len(cps)
  PROVE  /\ Found(cps, b, lower, upper) \in 1 .. Len(cps)
         /\ IsFound(cps, b, lower, upper, Found(cps, b, lower, upper))
<1>1. \E i \in 1 .. Len(cps) : IsFound(cps, b, lower, upper, i)
  <2>1. CASE upper <= lower
    BY <2>1 DEF IsFound
  <2>2. CASE lower < upper
    <3> DEFINE early(i) == i = lower \/ cps[i].fromBlock <= b
               Late == {k \in Nat : \E i \in lower .. upper : k = upper - i /\ early(i)}
    <3>1. upper - lower \in Late
      <4>1. upper - lower \in Nat /\ lower \in lower .. upper /\ early(lower)
        BY <2>2
      <4> QED
        BY <4>1
    <3>2. PICK k \in Late : \A l \in Late : k <= l
      <4>1. Late \in SUBSET Nat /\ Late # {}
        BY <3>1
      <4> HIDE DEF Late
      <4> QED
        BY <4>1, LeastNatural
    <3>3. PICK i \in lower .. upper : k = upper - i /\ early(i)
      OBVIOUS
    <3>4. ASSUME NEW j \in i + 1 .. upper
          PROVE  cps[j].fromBlock > b
      <4>1. j \in 1 .. Len(cps) /\ j \in lower .. upper /\ upper - j \in Nat
        OBVIOUS
      <4>2. cps[j].fromBlock \in Nat
        BY <4>1, CheckpointFields
      <4>3. ~(k <= upper - j)
        BY <3>3, <4>1
      <4>4. ~early(j)
        BY <3>2, <4>1, <4>3
      <4> QED
        BY <4>2, <4>4
    <3> QED
      BY <3>3, <3>4, <2>2 DEF IsFound
  <2> QED
    BY <2>1, <2>2
<1> QED
  BY <1>1 DEF Found

LEMMA FoundIsUnique ==
  ASSUME NEW cps \in Seq(Checkpoint), NEW b \in Nat,
         NEW lower \in 1 .. Len(cps), NEW upper \in 1 .. Len(cps),
         NEW i \in 1 .. Len(cps), IsFound(cps, b, lower, upper, i),
         NEW j \in 1 .. Len(cps), IsFound(cps, b, lower, upper, j)
  PROVE  i = j
<1>1. \A k \in 1 .. Len(cps) : cps[k].fromBlock \in Nat
  BY CheckpointFields
<1>2. CASE upper <= lower
  BY <1>2 DEF IsFound
<1>3. CASE lower < upper
  <2>1. /\ i \in lower .. upper /\ j \in lower .. upper
        /\ i = lower \/ cps[i].fromBlock <= b
        /\ j = lower \/ cps[j].fromBlock <= b
        /\ \A k \in i + 1 .. upper : cps[k].fromBlock > b
        /\ \A k \in j + 1 .. upper : cps[k].fromBlock > b
    BY <1>3 DEF IsFound
  <2>2. ~(i < j)
    <3>1. SUFFICES ASSUME i < j PROVE FALSE
      OBVIOUS
    <3>2. j \in i + 1 .. upper /\ j # lower
      BY <2>1, <3>1
    <3> QED
      BY <1>1, <2>1, <3>2
  <2>3. ~(j < i)
    <3>1. SUFFICES ASSUME j < i PROVE FALSE
      OBVIOUS
    <3>2. i \in j + 1 .. upper /\ i # lower
      BY <2>1, <3>1
    <3> QED
      BY <1>1, <2>1, <3>2
  <2> QED
    BY <2>2, <2>3
<1> QED
  BY <1>2, <1>3

(* Where the search goes on, it looks for the same checkpoint. *)
LEMMA FoundSplits ==
  ASSUME NEW cps \in Seq(Checkpoint), NEW now \in Nat, Ordered(cps, now), NEW b \in Nat,
         NEW lower \in 1 .. Len(cps), NEW upper \in 1 .. Len(cps), lower < upper,
         NEW center \in lower + 1 .. upper
  PROVE  /\ cps[center].fromBlock = b => Found(cps, b, lower, upper) = center
         /\ cps[center].fromBlock < b =>
              Found(cps, b, lower, upper) = Found(cps, b, center, upper)
         /\ cps[center].fromBlock > b =>
              Found(cps, b, lower, upper) = Found(cps, b, lower, center - 1)
<1> DEFINE found == Found(cps, b, lower, upper)
           above == Found(cps, b, center, upper)
           below == Found(cps, b, lower, center - 1)
<1>1. /\ center \in 1 .. Len(cps) /\ center - 1 \in 1 .. Len(cps)
      /\ \A k \in 1 .. Len(cps) : cps[k].fromBlock \in Nat
      /\ \A k, l \in 1 .. Len(cps) : k < l => cps[k].fromBlock < cps[l].fromBlock
  BY CheckpointFields DEF Ordered
<1>2. /\ found \in 1 .. Len(cps) /\ IsFound(cps, b, lower, upper, found)
      /\ above \in 1 .. Len(cps) /\ IsFound(cps, b, center, upper, above)
      /\ below \in 1 .. Len(cps) /\ IsFound(cps, b, lower, center - 1, below)
  BY <1>1, FoundExists
<1> HIDE DEF found, above, below
<1>3. ASSUME cps[center].fromBlock = b PROVE found = center
  <2>1. \A k \in center + 1 .. upper : cps[k].fromBlock > b
    <3>1. SUFFICES ASSUME NEW k \in center + 1 .. upper PROVE cps[k].fromBlock > b
      OBVIOUS
    <3>2. k \in 1 .. Len(cps) /\ center < k
      OBVIOUS
    <3>3. cps[center].fromBlock < cps[k].fromBlock
      BY <1>1, <3>2
    <3> QED
      BY <1>1, <1>3, <3>2, <3>3
  <2>2. IsFound(cps, b, lower, upper, center)
    BY <1>1, <1>3, <2>1 DEF IsFound
  <2> QED
    BY <1>1, <1>2, <2>2, FoundIsUnique
<1>4. ASSUME cps[center].fromBlock < b PROVE found = above
  <2>1. IsFound(cps, b, lower, upper, above)
    <3>1. CASE upper <= center
      <4>1. above = center /\ center = upper
        BY <1>2, <3>1 DEF IsFound
      <4>2. \A k \in above + 1 .. upper : FALSE
        BY <4>1
      <4> QED
        BY <1>1, <1>4, <4>1, <4>2 DEF IsFound
    <3>2. CASE center < upper
      <4>1. /\ above \in center .. upper
            /\ above = center \/ cps[above].fromBlock <= b
            /\ \A k \in above + 1 .. upper : cps[k].fromBlock > b
        BY <1>2, <3>2 DEF IsFound
      <4>2. above \in lower .. upper /\ cps[above].fromBlock <= b
        BY <1>1, <1>4, <4>1
      <4> QED
        BY <4>1, <4>2 DEF IsFound
    <3> QED
      BY <3>1, <3>2
  <2> QED
    BY <1>2, <2>1, FoundIsUnique
<1>5. ASSUME cps[center].fromBlock > b PROVE found = below
  <2>1. \A k \in center .. upper : cps[k].fromBlock > b
    <3>1. SUFFICES ASSUME NEW k \in center .. upper PROVE cps[k].fromBlock > b
      OBVIOUS
    <3>2. k \in 1 .. Len(cps) /\ (k = center \/ center < k)
      OBVIOUS
    <3>3. k = center \/ cps[center].fromBlock < cps[k].fromBlock
      BY <1>1, <3>2
    <3> QED
      BY <1>1, <1>5, <3>2, <3>3
  <2>2. IsFound(cps, b, lower, upper, below)
    <3>1. CASE center - 1 <= lower
      <4>1. below = lower /\ center = lower + 1
        BY <1>2, <3>1 DEF IsFound
      <4> QED
        BY <2>1, <4>1 DEF IsFound
    <3>2. CASE lower < center - 1
      <4>1. /\ below \in lower .. center - 1
            /\ below = lower \/ cps[below].fromBlock <= b
            /\ \A k \in below + 1 .. center - 1 : cps[k].fromBlock > b
        BY <1>2, <3>2 DEF IsFound
      <4>2. \A k \in below + 1 .. upper : k \in below + 1 .. center - 1 \/ k \in center .. upper
        BY <4>1
      <4> QED
        BY <2>1, <4>1, <4>2 DEF IsFound
    <3> QED
      BY <3>1, <3>2
  <2> QED
    BY <1>2, <2>2, FoundIsUnique
<1> QED
  BY <1>3, <1>4, <1>5 DEF found, above, below

(* The search is well defined: what it looks for solves its recursion. *)
LEMMA SearchExists ==
  ASSUME NEW cps \in Seq(Checkpoint), NEW now \in Nat, Ordered(cps, now), NEW b \in Nat
  PROVE  \E s : IsSearch(s, cps, b)
<1> DEFINE s == [r \in Bounds(cps) |-> cps[Found(cps, b, r[1], r[2])].votes]
<1>1. ASSUME NEW r \in Bounds(cps)
      PROVE  s[r] = LET lower == r[1]
                        upper == r[2]
                        center == upper - (upper - lower) \div 2
                    IN CASE upper <= lower -> cps[lower].votes
                         [] upper > lower /\ cps[center].fromBlock = b -> cps[center].votes
                         [] upper > lower /\ cps[center].fromBlock < b -> s[<<center, upper>>]
                         [] OTHER -> s[<<lower, center - 1>>]
  <2> DEFINE lower == r[1]
             upper == r[2]
             center == upper - (upper - lower) \div 2
  <2>1. lower \in 1 .. Len(cps) /\ upper \in 1 .. Len(cps)
    BY DEF Bounds
  <2>2. s[r] = cps[Found(cps, b, lower, upper)].votes
    OBVIOUS
  <2>3. CASE upper <= lower
    <3>1. IsFound(cps, b, lower, upper, Found(cps, b, lower, upper))
      BY <2>1, FoundExists
    <3>2. Found(cps, b, lower, upper) = lower
      BY <2>3, <3>1 DEF IsFound
    <3>3. ~(upper > lower) /\ s[r] = cps[lower].votes
      BY <2>1, <2>2, <2>3, <3>2
    <3> HIDE DEF s, lower, upper, center
    <3>4. s[r] = CASE upper <= lower -> cps[lower].votes
                   [] upper > lower /\ cps[center].fromBlock = b -> cps[center].votes
                   [] upper > lower /\ cps[center].fromBlock < b -> s[<<center, upper>>]
                   [] OTHER -> s[<<lower, center - 1>>]
      BY <2>3, <3>3
    <3> QED
      BY <3>4 DEF lower, upper, center
  <2>4. CASE lower < upper
    <3>1. center \in lower + 1 .. upper
      BY <2>1, <2>4, CenterBetween
    <3>2. center \in 1 .. Len(cps) /\ center - 1 \in 1 .. Len(cps) /\ ~(upper <= lower) /\ upper > lower
      <4> HIDE DEF s, lower, upper, center
      <4>1. Len(cps) \in Nat
        BY LenProperties
      <4>2. center \in 1 .. Len(cps) /\ center - 1 \in 1 .. Len(cps)
        BY <2>1, <3>1, <4>1
      <4>3. ~(upper <= lower) /\ upper > lower
        BY <2>1, <2>4, <4>1
      <4> QED
        BY <4>2, <4>3
    <3>3. cps[center].fromBlock \in Nat
      BY <3>2, CheckpointFields
    <3>4. /\ s[<<center, upper>>] = cps[Found(cps, b, center, upper)].votes
          /\ s[<<lower, center - 1>>] = cps[Found(cps, b, lower, center - 1)].votes
      BY <2>1, <3>2 DEF Bounds
    <3>5. /\ cps[center].fromBlock = b => Found(cps, b, lower, upper) = center
          /\ cps[center].fromBlock < b =>
               Found(cps, b, lower, upper) = Found(cps, b, center, upper)
          /\ cps[center].fromBlock > b =>
               Found(cps, b, lower, upper) = Found(cps, b, lower, center - 1)
      <4> HIDE DEF s, lower, upper, center
      <4> QED
        BY <2>1, <2>4, <3>1, FoundSplits
    <3> HIDE DEF s, lower, upper, center, Found
    <3>6. s[r] = CASE upper <= lower -> cps[lower].votes
                   [] upper > lower /\ cps[center].fromBlock = b -> cps[center].votes
                   [] upper > lower /\ cps[center].fromBlock < b -> s[<<center, upper>>]
                   [] OTHER -> s[<<lower, center - 1>>]
      <4>1. CASE cps[center].fromBlock = b
        <5>1. s[r] = cps[center].votes
          BY <2>2, <3>5, <4>1
        <5> QED
          BY <3>2, <4>1, <5>1
      <4>2. CASE cps[center].fromBlock < b
        <5>1. s[r] = s[<<center, upper>>] /\ cps[center].fromBlock # b
          BY <2>2, <3>3, <3>4, <3>5, <4>2
        <5> QED
          BY <3>2, <4>2, <5>1
      <4>3. CASE cps[center].fromBlock > b
        <5>1. /\ s[r] = s[<<lower, center - 1>>]
              /\ cps[center].fromBlock # b /\ ~(cps[center].fromBlock < b)
          BY <2>2, <3>3, <3>4, <3>5, <4>3
        <5> QED
          BY <3>2, <4>3, <5>1
      <4> QED
        BY <3>3, <4>1, <4>2, <4>3
    <3> QED
      BY <3>6 DEF lower, upper, center
  <2> QED
    BY <2>1, <2>3, <2>4
<1> HIDE DEF s
<1>2. s = [r \in Bounds(cps) |-> s[r]]
  BY DEF s
<1>3. IsSearch(s, cps, b)
  BY <1>1, <1>2 DEF IsSearch
<1> QED
  BY <1>3

(* However the search halves the bounds, it ends where it should. *)
LEMMA SearchFinds ==
  ASSUME NEW cps \in Seq(Checkpoint), NEW now \in Nat, Ordered(cps, now), NEW b \in Nat,
         NEW s, IsSearch(s, cps, b),
         NEW lower \in 1 .. Len(cps), NEW upper \in 1 .. Len(cps)
  PROVE  s[<<lower, upper>>] = cps[Found(cps, b, lower, upper)].votes
<1> DEFINE width(l, u) == IF u <= l THEN 0 ELSE u - l
           wrong(l, u) == s[<<l, u>>] # cps[Found(cps, b, l, u)].votes
           Wrong == {k \in Nat : \E l, u \in 1 .. Len(cps) : wrong(l, u) /\ k = width(l, u)}
<1>1. SUFFICES ASSUME Wrong # {} PROVE FALSE
  <2>1. SUFFICES ASSUME wrong(lower, upper) PROVE Wrong # {}
    OBVIOUS
  <2>2. width(lower, upper) \in Nat
    OBVIOUS
  <2> HIDE DEF width, wrong
  <2>3. width(lower, upper) \in Wrong
    BY <2>1, <2>2
  <2> QED
    BY <2>3
<1>2. PICK k \in Wrong : \A n \in Wrong : k <= n
  <2>1. Wrong \subseteq Nat
    OBVIOUS
  <2> HIDE DEF Wrong
  <2> QED
    BY <1>1, <2>1, LeastNatural
<1>3. PICK l \in 1 .. Len(cps), u \in 1 .. Len(cps) : wrong(l, u) /\ k = width(l, u)
  OBVIOUS
<1>4. ASSUME NEW m \in 1 .. Len(cps), NEW n \in 1 .. Len(cps), width(m, n) < width(l, u)
      PROVE  ~wrong(m, n)
  <2>1. width(m, n) \in Nat /\ width(l, u) \in Nat
    OBVIOUS
  <2>2. ~(width(l, u) <= width(m, n))
    BY <1>4, <2>1
  <2> HIDE DEF width, wrong
  <2>3. width(m, n) \notin Wrong
    BY <1>2, <1>3, <2>2
  <2> QED
    BY <2>1, <2>3
<1> DEFINE center == u - (u - l) \div 2
<1>5. s[<<l, u>>] = CASE u <= l -> cps[l].votes
                      [] u > l /\ cps[center].fromBlock = b -> cps[center].votes
                      [] u > l /\ cps[center].fromBlock < b -> s[<<center, u>>]
                      [] OTHER -> s[<<l, center - 1>>]
  <2> DEFINE Body(r) == LET low == r[1]
                            high == r[2]
                            middle == high - (high - low) \div 2
                        IN CASE high <= low -> cps[low].votes
                             [] high > low /\ cps[middle].fromBlock = b -> cps[middle].votes
                             [] high > low /\ cps[middle].fromBlock < b -> s[<<middle, high>>]
                             [] OTHER -> s[<<low, middle - 1>>]
  <2>1. s = [r \in Bounds(cps) |-> Body(r)]
    BY DEF IsSearch
  <2>2. <<l, u>> \in Bounds(cps)
    BY DEF Bounds
  <2>3. s[<<l, u>>] = Body(<<l, u>>)
    <3> HIDE DEF Body
    <3> QED
      BY <2>1, <2>2
  <2> QED
    BY <2>3
<1>6. CASE u <= l
  <2>1. IsFound(cps, b, l, u, Found(cps, b, l, u))
    BY FoundExists
  <2>2. Found(cps, b, l, u) = l
    BY <1>6, <2>1 DEF IsFound
  <2>3. ~(u > l)
    BY <1>6
  <2> HIDE DEF center
  <2>4. s[<<l, u>>] = cps[l].votes
    BY <1>5, <1>6, <2>3
  <2> QED
    BY <1>3, <2>2, <2>4
<1>7. CASE l < u
  <2>1. center \in l + 1 .. u
    BY <1>7, CenterBetween
  <2>2. /\ center \in 1 .. Len(cps) /\ center - 1 \in 1 .. Len(cps) /\ ~(u <= l) /\ u > l
        /\ width(center, u) < width(l, u) /\ width(l, center - 1) < width(l, u)
    <3> HIDE DEF center
    <3> QED
      BY <1>7, <2>1
  <2>3. cps[center].fromBlock \in Nat
    BY <2>2, CheckpointFields
  <2>4. ~wrong(center, u) /\ ~wrong(l, center - 1)
    <3> HIDE DEF center, wrong, width
    <3> QED
      BY <1>4, <2>2
  <2> HIDE DEF center, Wrong
  <2>5. /\ cps[center].fromBlock = b => Found(cps, b, l, u) = center
        /\ cps[center].fromBlock < b => Found(cps, b, l, u) = Found(cps, b, center, u)
        /\ cps[center].fromBlock > b => Found(cps, b, l, u) = Found(cps, b, l, center - 1)
    BY <1>7, <2>1, FoundSplits
  <2>6. CASE cps[center].fromBlock = b
    BY <1>3, <1>5, <2>2, <2>5, <2>6
  <2>7. CASE cps[center].fromBlock < b
    BY <1>3, <1>5, <2>2, <2>3, <2>4, <2>5, <2>7
  <2>8. CASE cps[center].fromBlock > b
    BY <1>3, <1>5, <2>2, <2>3, <2>4, <2>5, <2>8
  <2> QED
    BY <2>3, <2>6, <2>7, <2>8
<1> QED
  BY <1>6, <1>7

(* Tribe.sol:299-331.  The early exits and the search give what was recorded. *)
LEMMA PriorVotesAreRecorded ==
  ASSUME NEW a \in Account, checkpoints[a] \in Seq(Checkpoint), NEW now \in Nat,
         Ordered(checkpoints[a], now), NEW b \in Nat
  PROVE  GetPriorVotes(a, b) = VotesAt(checkpoints[a], b)
<1> DEFINE cps == checkpoints[a]
           past == {i \in 1 .. Len(cps) : cps[i].fromBlock <= b}
           n == Len(cps)
<1>1. /\ cps \in Seq(Checkpoint) /\ Ordered(cps, now)
      /\ n \in Nat /\ (cps # <<>> => n \in 1 .. n /\ 1 \in 1 .. n)
  BY LenProperties, EmptySeq
<1>2. /\ \A k \in 1 .. n : cps[k].fromBlock \in Nat
      /\ \A k, l \in 1 .. n : k < l => cps[k].fromBlock < cps[l].fromBlock
  BY <1>1, CheckpointFields DEF Ordered
<1>3. ASSUME NEW i \in past, \A j \in past : j <= i
      PROVE  VotesAt(cps, b) = cps[i].votes
  <2>1. \A k \in past : (\A j \in past : j <= k) => k = i
    BY <1>3
  <2>2. (CHOOSE k \in past : \A j \in past : j <= k) = i
    BY <1>3, <2>1
  <2> QED
    BY <2>2 DEF VotesAt
<1>4. CASE cps = <<>>
  <2>1. past = {}
    BY <1>1, <1>4, EmptySeq
  <2>2. VotesAt(cps, b) = 0
    BY <2>1 DEF VotesAt
  <2>3. GetPriorVotes(a, b) = 0
    BY <1>4 DEF GetPriorVotes
  <2> QED
    BY <2>2, <2>3
<1>5. CASE cps # <<>> /\ cps[n].fromBlock <= b
  <2>1. n \in past /\ \A j \in past : j <= n
    BY <1>1, <1>5
  <2>2. VotesAt(cps, b) = cps[n].votes
    BY <1>3, <2>1
  <2>3. ~(cps[1].fromBlock > b)
    <3> HIDE DEF cps, n
    <3>1. 1 \in 1 .. n /\ n \in 1 .. n /\ (n = 1 \/ 1 < n)
      BY <1>1, <1>5
    <3>2. n = 1 \/ cps[1].fromBlock < cps[n].fromBlock
      BY <1>2, <3>1
    <3>3. cps[1].fromBlock \in Nat /\ cps[n].fromBlock \in Nat
      BY <1>2, <3>1
    <3> QED
      BY <1>5, <3>2, <3>3
  <2> QED
    BY <1>5, <2>2, <2>3 DEF GetPriorVotes
<1>6. CASE cps # <<>> /\ ~(cps[n].fromBlock <= b) /\ cps[1].fromBlock > b
  <2>1. ASSUME NEW i \in 1 .. n PROVE ~(cps[i].fromBlock <= b)
    <3>1. i = 1 \/ cps[1].fromBlock < cps[i].fromBlock
      BY <1>1, <1>2, <1>6
    <3> QED
      BY <1>1, <1>2, <1>6, <3>1
  <2>2. past = {}
    BY <2>1
  <2> QED
    BY <1>6, <2>2 DEF GetPriorVotes, VotesAt
<1>7. CASE cps # <<>> /\ ~(cps[n].fromBlock <= b) /\ ~(cps[1].fromBlock > b)
  <2> DEFINE i == Found(cps, b, 1, n)
  <2>1. i \in 1 .. n /\ IsFound(cps, b, 1, n, i)
    BY <1>1, <1>7, FoundExists
  <2>2. GetPriorVotes(a, b) = cps[i].votes
    <3>1. \E s : IsSearch(s, cps, b)
      BY <1>1, SearchExists
    <3> DEFINE search == CHOOSE s : IsSearch(s, cps, b)
    <3>2. IsSearch(search, cps, b)
      BY <3>1
    <3>3. SearchVotes(cps, b) = search[<<1, n>>]
      BY SearchUnfolds
    <3>4. search[<<1, n>>] = cps[i].votes
      <4> HIDE DEF search
      <4> QED
        BY <1>1, <1>7, <3>2, SearchFinds
    <3> QED
      BY <1>7, <3>3, <3>4 DEF GetPriorVotes
  <2> HIDE DEF i
  <2>3. n # 1
    BY <1>2, <1>1, <1>7
  <2>4. /\ i = 1 \/ cps[i].fromBlock <= b
        /\ \A j \in i + 1 .. n : cps[j].fromBlock > b
    BY <1>1, <2>1, <2>3 DEF IsFound
  <2>5. cps[1].fromBlock <= b
    BY <1>1, <1>2, <1>7
  <2>6. i \in past
    BY <2>1, <2>4, <2>5
  <2>7. \A j \in past : j <= i
    <3>1. SUFFICES ASSUME NEW j \in past, j > i PROVE FALSE
      BY <2>1
    <3>2. j \in i + 1 .. n /\ cps[j].fromBlock <= b /\ cps[j].fromBlock \in Nat
      BY <1>2, <2>1, <3>1
    <3> QED
      BY <2>4, <3>2
  <2> QED
    BY <1>3, <2>2, <2>6, <2>7
<1> QED
  BY <1>4, <1>5, <1>6, <1>7

----------------------------------------------------------------------------
(* Votes written. *)

(* The last of the checkpoints written by a block is what counts for it. *)
LEMMA RecordedVotes ==
  ASSUME NEW cps, NEW b,
         NEW i \in 1 .. Len(cps), cps[i].fromBlock <= b,
         Len(cps) \in Nat,
         \A j \in 1 .. Len(cps) : cps[j].fromBlock <= b => j <= i
  PROVE  VotesAt(cps, b) = cps[i].votes
<1> DEFINE past == {j \in 1 .. Len(cps) : cps[j].fromBlock <= b}
<1>1. i \in past /\ \A j \in past : j <= i
  OBVIOUS
<1>2. \A k \in past : (\A j \in past : j <= k) => k = i
  BY <1>1
<1>3. (CHOOSE k \in past : \A j \in past : j <= k) = i
  BY <1>1, <1>2
<1> QED
  BY <1>1, <1>3 DEF VotesAt

LEMMA NothingRecorded ==
  ASSUME NEW cps, NEW b, \A j \in 1 .. Len(cps) : ~(cps[j].fromBlock <= b)
  PROVE  VotesAt(cps, b) = 0
<1>1. {j \in 1 .. Len(cps) : cps[j].fromBlock <= b} = {}
  OBVIOUS
<1> QED
  BY <1>1 DEF VotesAt

(* By now, all checkpoints have been written. *)
LEMMA CurrentIsRecorded ==
  ASSUME NEW cps \in Seq(Checkpoint), NEW now \in Nat, Ordered(cps, now)
  PROVE  VotesAt(cps, now) = GetCurrentVotes(cps)
<1>1. CASE cps = <<>>
  <2>1. \A j \in 1 .. Len(cps) : FALSE
    BY <1>1
  <2>2. VotesAt(cps, now) = 0
    BY <2>1, NothingRecorded
  <2> QED
    BY <1>1, <2>2 DEF GetCurrentVotes
<1>2. CASE cps # <<>>
  <2>1. Len(cps) \in Nat /\ Len(cps) \in 1 .. Len(cps)
    BY <1>2, LenProperties, EmptySeq
  <2>2. cps[Len(cps)].fromBlock <= now
    BY <2>1 DEF Ordered
  <2>3. VotesAt(cps, now) = cps[Len(cps)].votes
    BY <2>1, <2>2, RecordedVotes
  <2> QED
    BY <1>2, <2>3 DEF GetCurrentVotes
<1> QED
  BY <1>1, <1>2

(* What a write leaves: the checkpoints of earlier blocks, and one of now. *)
LEMMA WriteCheckpointKeeps ==
  ASSUME NEW cps \in Seq(Checkpoint), NEW now \in Nat, now >= 1, NEW votes \in Votes
  PROVE  LET new == WriteCheckpoint(cps, now, votes)
         IN /\ GetCurrentVotes(new) = votes
            /\ Len(new) \in Nat /\ Len(cps) \in Nat
            /\ \A j \in 1 .. Len(cps) : cps[j].fromBlock # now => j \in 1 .. Len(new) /\ new[j] = cps[j]
            /\ \A j \in 1 .. Len(new) :
                 new[j].fromBlock # now => j \in 1 .. Len(cps) /\ new[j] = cps[j]
<1> DEFINE cp == [fromBlock |-> now, votes |-> votes]
           new == WriteCheckpoint(cps, now, votes)
<1>1. cp \in Checkpoint /\ cp.fromBlock = now /\ cp.votes = votes
  BY DEF Checkpoint, Votes
<1>2. Len(cps) \in Nat
  BY LenProperties
<1>3. CASE cps # <<>> /\ cps[Len(cps)].fromBlock = now
  <2>1. new = [cps EXCEPT ![Len(cps)] = cp]
    BY <1>3 DEF WriteCheckpoint
  <2>2. Len(cps) \in 1 .. Len(cps)
    BY <1>2, <1>3, EmptySeq
  <2> HIDE DEF cp
  <2>3. /\ new \in Seq(Checkpoint) /\ Len(new) = Len(cps)
        /\ \A j \in 1 .. Len(cps) : new[j] = IF j = Len(cps) THEN cp ELSE cps[j]
    BY <1>1, <2>1, <2>2, ExceptSeq
  <2> HIDE DEF new
  <2>4. new # <<>> /\ new[Len(new)] = cp
    BY <1>3, <2>2, <2>3, EmptySeq
  <2>5. GetCurrentVotes(new) = votes
    BY <1>1, <2>4 DEF GetCurrentVotes
  <2>6. \A j \in 1 .. Len(cps) : cps[j].fromBlock # now => new[j] = cps[j]
    BY <1>3, <2>3
  <2>7. \A j \in 1 .. Len(new) : new[j].fromBlock # now => new[j] = cps[j]
    BY <1>1, <2>3
  <2>8. /\ Len(new) \in Nat
        /\ \A j \in 1 .. Len(cps) : cps[j].fromBlock # now => j \in 1 .. Len(new) /\ new[j] = cps[j]
        /\ \A j \in 1 .. Len(new) : new[j].fromBlock # now => j \in 1 .. Len(cps) /\ new[j] = cps[j]
    BY <1>2, <2>3, <2>6, <2>7
  <2> QED
    BY <1>2, <2>5, <2>8 DEF new
<1>4. CASE ~(cps # <<>> /\ cps[Len(cps)].fromBlock = now)
  <2>1. new = Append(cps, cp)
    BY <1>4 DEF WriteCheckpoint
  <2> HIDE DEF cp
  <2>2. /\ new \in Seq(Checkpoint) /\ Len(new) = Len(cps) + 1
        /\ \A i \in 1 .. Len(cps) : new[i] = cps[i]
        /\ new[Len(cps) + 1] = cp
    BY <1>1, <2>1, AppendProperties
  <2> HIDE DEF new
  <2>3. new # <<>> /\ new[Len(new)] = cp
    BY <1>2, <2>2, EmptySeq
  <2>4. GetCurrentVotes(new) = votes
    BY <1>1, <2>3 DEF GetCurrentVotes
  <2>5. \A j \in 1 .. Len(cps) : j \in 1 .. Len(new) /\ new[j] = cps[j]
    BY <1>2, <2>2
  <2>6. \A j \in 1 .. Len(new) : new[j].fromBlock # now => j \in 1 .. Len(cps) /\ new[j] = cps[j]
    <3>1. SUFFICES ASSUME NEW j \in 1 .. Len(new), new[j].fromBlock # now
                   PROVE  j \in 1 .. Len(cps) /\ new[j] = cps[j]
      OBVIOUS
    <3>2. j # Len(cps) + 1
      BY <1>1, <2>2, <3>1
    <3>3. j \in 1 .. Len(cps)
      BY <1>2, <2>2, <3>2
    <3> QED
      BY <2>2, <3>3
  <2>7. Len(new) \in Nat
    BY <1>2, <2>2
  <2> QED
    BY <1>2, <2>4, <2>5, <2>6, <2>7 DEF new
<1> QED
  BY <1>3, <1>4

(* Tribe.sol:380-396.  A write changes nothing of what an earlier block had. *)
LEMMA WriteKeepsPast ==
  ASSUME NEW cps \in Seq(Checkpoint), NEW now \in Nat, now >= 1, NEW votes \in Votes,
         Ordered(cps, now), NEW b \in Nat, b < now
  PROVE  VotesAt(WriteCheckpoint(cps, now, votes), b) = VotesAt(cps, b)
<1> DEFINE new == WriteCheckpoint(cps, now, votes)
           past == {j \in 1 .. Len(cps) : cps[j].fromBlock <= b}
<1>1. new \in Seq(Checkpoint) /\ Ordered(new, now)
  BY WriteCheckpointOrdered
<1>2. /\ Len(new) \in Nat /\ Len(cps) \in Nat
      /\ \A j \in 1 .. Len(cps) : cps[j].fromBlock # now => j \in 1 .. Len(new) /\ new[j] = cps[j]
      /\ \A j \in 1 .. Len(new) : new[j].fromBlock # now => j \in 1 .. Len(cps) /\ new[j] = cps[j]
  BY WriteCheckpointKeeps
<1> HIDE DEF new
<1>3. /\ \A j \in 1 .. Len(cps) : cps[j].fromBlock <= b => j \in 1 .. Len(new) /\ new[j] = cps[j]
      /\ \A j \in 1 .. Len(new) : new[j].fromBlock <= b => j \in 1 .. Len(cps) /\ new[j] = cps[j]
  <2>1. ASSUME NEW f \in Nat, f <= b PROVE f # now
    BY <2>1
  <2>2. /\ \A j \in 1 .. Len(cps) : cps[j].fromBlock \in Nat
        /\ \A j \in 1 .. Len(new) : new[j].fromBlock \in Nat
    BY <1>1, CheckpointFields
  <2> QED
    BY <1>2, <2>1, <2>2
<1>4. CASE past = {}
  <2>1. /\ \A j \in 1 .. Len(cps) : ~(cps[j].fromBlock <= b)
        /\ \A j \in 1 .. Len(new) : ~(new[j].fromBlock <= b)
    BY <1>3, <1>4
  <2>2. VotesAt(new, b) = 0 /\ VotesAt(cps, b) = 0
    BY <2>1, NothingRecorded
  <2> QED
    BY <2>2 DEF new
<1>5. CASE past # {}
  <2>1. PICK i \in past : \A j \in past : j <= i
    BY <1>2, <1>5, LastExists
  <2>2. VotesAt(cps, b) = cps[i].votes
    BY <1>2, <2>1, RecordedVotes
  <2>3. /\ i \in 1 .. Len(new) /\ new[i] = cps[i] /\ new[i].fromBlock <= b
        /\ \A j \in 1 .. Len(new) : new[j].fromBlock <= b => j <= i
    BY <1>3, <2>1
  <2>4. VotesAt(new, b) = new[i].votes
    BY <1>2, <2>3, RecordedVotes
  <2> QED
    BY <2>2, <2>3, <2>4 DEF new
<1> QED
  BY <1>4, <1>5

(* What a delegate gains in a move. *)
Gain(a, src, dst, amount) ==
  (IF a = dst THEN amount ELSE 0) - (IF a = src THEN amount ELSE 0)

(* Tribe.sol:358-378.  A move takes the votes from one and gives them to the *)
(* other, and leaves the past alone.                                         *)
LEMMA MoveDelegatesMoves ==
  ASSUME NEW cps, LedgerOK(cps, block), block \in Nat, block >= 1,
         NEW src \in Address, NEW dst \in Address, NEW amount \in Nat,
         CanMoveDelegates(cps, src, dst, amount), NEW a \in Account
  PROVE  LET new == MoveDelegates(cps, src, dst, amount)
         IN /\ GetCurrentVotes(new[a]) = GetCurrentVotes(cps[a]) + Gain(a, src, dst, amount)
            /\ \A b \in 0 .. block - 1 : VotesAt(new[a], b) = VotesAt(cps[a], b)
<1> USE TribeAssumption
<1> DEFINE current == GetCurrentVotes(cps[a])
           new == MoveDelegates(cps, src, dst, amount)
<1>1. /\ cps[a] \in Seq(Checkpoint) /\ Ordered(cps[a], block)
      /\ current \in Votes /\ current \in Int /\ a # NoAccount
  BY CurrentVotesType DEF LedgerOK, Votes
<1>2. ASSUME new[a] = cps[a], Gain(a, src, dst, amount) = 0
      PROVE  /\ GetCurrentVotes(new[a]) = current + Gain(a, src, dst, amount)
             /\ \A b \in 0 .. block - 1 : VotesAt(new[a], b) = VotesAt(cps[a], b)
  BY <1>1, <1>2
<1>3. ASSUME NEW votes \in Votes, new[a] = WriteCheckpoint(cps[a], block, votes),
             votes = current + Gain(a, src, dst, amount)
      PROVE  /\ GetCurrentVotes(new[a]) = current + Gain(a, src, dst, amount)
             /\ \A b \in 0 .. block - 1 : VotesAt(new[a], b) = VotesAt(cps[a], b)
  <2>1. GetCurrentVotes(WriteCheckpoint(cps[a], block, votes)) = votes
    BY <1>1, WriteCheckpointKeeps
  <2>2. ASSUME NEW b \in 0 .. block - 1
        PROVE  VotesAt(WriteCheckpoint(cps[a], block, votes), b) = VotesAt(cps[a], b)
    BY <1>1, WriteKeepsPast
  <2> QED
    BY <1>3, <2>1, <2>2
<1>4. CASE src = dst \/ amount = 0
  <2>1. new[a] = cps[a]
    BY <1>4 DEF MoveDelegates
  <2>2. Gain(a, src, dst, amount) = 0
    BY <1>4 DEF Gain
  <2> QED
    BY <1>2, <2>1, <2>2
<1>5. CASE src # dst /\ amount # 0
  <2>1. new[a] = CASE a = src -> WriteCheckpoint(cps[a], block, current - amount)
                   [] a = dst -> WriteCheckpoint(cps[a], block, current + amount)
                   [] OTHER -> cps[a]
    BY <1>5 DEF MoveDelegates
  <2> HIDE DEF new, current
  <2>2. CASE a = src
    <3>1. current - amount \in Votes
      BY <1>1, <1>5, <2>2 DEF CanMoveDelegates, Votes, current
    <3>2. Gain(a, src, dst, amount) = -amount
      BY <1>5, <2>2 DEF Gain
    <3>3. new[a] = WriteCheckpoint(cps[a], block, current - amount)
      BY <1>5, <2>1, <2>2
    <3>4. current - amount = current + Gain(a, src, dst, amount)
      BY <1>1, <3>2
    <3> QED
      BY <1>3, <3>1, <3>3, <3>4 DEF new, current
  <2>3. CASE a # src /\ a = dst
    <3>1. current + amount \in Votes
      BY <1>1, <1>5, <2>3 DEF CanMoveDelegates, Fits96, Votes, current
    <3>2. Gain(a, src, dst, amount) = amount
      BY <2>3 DEF Gain
    <3>3. new[a] = WriteCheckpoint(cps[a], block, current + amount)
      BY <2>1, <2>3
    <3>4. current + amount = current + Gain(a, src, dst, amount)
      BY <3>2
    <3> QED
      BY <1>3, <3>1, <3>3, <3>4 DEF new, current
  <2>4. CASE a # src /\ a # dst
    <3>1. new[a] = cps[a] /\ Gain(a, src, dst, amount) = 0
      BY <2>1, <2>4 DEF Gain
    <3> QED
      BY <1>2, <3>1 DEF new, current
  <2> QED
    BY <2>2, <2>3, <2>4
<1> QED
  BY <1>4, <1>5

----------------------------------------------------------------------------
(* The invariant. *)

LEMMA LedgerFromInvariant ==
  ASSUME IInv
  PROVE  LedgerOK(checkpoints, block) /\ block \in Nat /\ block >= 1
BY DEF IInv, TypeOK, CheckpointsOrdered, LedgerOK, Ordered

LEMMA LedgerGivesOrder ==
  ASSUME LedgerOK(checkpoints, block)
  PROVE  CheckpointsOrdered
BY DEF CheckpointsOrdered, LedgerOK, Ordered

LEMMA InitInvariant == Init => IInv
<1> SUFFICES ASSUME Init PROVE IInv
  OBVIOUS
<1> USE TribeAssumption
<1>1. TypeOK
  <2>1. [a \in Account |-> IF a = Holder THEN InitialSupply ELSE 0] \in [Account -> 0 .. Max96]
    OBVIOUS
  <2>2. [a \in Account |-> [s \in Account |-> 0]] \in [Account -> [Account -> 0 .. Max96]]
    OBVIOUS
  <2>3. <<>> \in Seq(Checkpoint)
    OBVIOUS
  <2> QED
    BY <2>1, <2>2, <2>3 DEF Init, TypeOK, Address
<1>2. CheckpointsOrdered
  BY DEF Init, CheckpointsOrdered
<1>3. SignaturesSpent
  BY DEF Init, SignaturesSpent
<1> QED
  BY <1>1, <1>2, <1>3 DEF Init, IInv

(* Steps that leave votes and signatures alone. *)
LEMMA SettingsInvariant ==
  ASSUME IInv, NEW caller \in Account,
         \/ \E a \in Account : SetMinter(caller, a)
         \/ \E s \in Account, n \in Allowances : Approve(caller, s, n)
  PROVE  IInv'
<1> USE TribeAssumption
<1>1. TypeOK'
  <2>1. ASSUME NEW a \in Account, SetMinter(caller, a) PROVE TypeOK'
    BY <2>1 DEF IInv, TypeOK, SetMinter, sigVars
  <2>2. ASSUME NEW s \in Account, NEW n \in Allowances, Approve(caller, s, n) PROVE TypeOK'
    <3>1. allowances' \in [Account -> [Account -> 0 .. Max96]]
      BY <2>2 DEF IInv, TypeOK, Approve
    <3> QED
      BY <2>2, <3>1 DEF IInv, TypeOK, Approve, tokenVars, sigVars
  <2> QED
    BY <2>1, <2>2
<1>2. UNCHANGED <<block, checkpoints, nonces, uses>>
  BY DEF SetMinter, Approve, tokenVars, sigVars
<1> QED
  BY <1>1, <1>2 DEF IInv, CheckpointsOrdered, SignaturesSpent

(* Tribe.sol:121-141. *)
LEMMA MintInvariant ==
  ASSUME IInv, NEW caller \in Account, NEW dst \in Address, NEW n \in Amounts,
         Mint(caller, dst, n)
  PROVE  IInv'
<1> USE TribeAssumption
<1>1. /\ n \in Nat /\ dst \in Account /\ delegates[dst] \in Address
      /\ NoAccount \in Address
  BY DEF Mint, IInv, TypeOK, Address
<1>2. /\ checkpoints' = MoveDelegates(checkpoints, NoAccount, delegates[dst], n)
      /\ CanMoveDelegates(checkpoints, NoAccount, delegates[dst], n)
      /\ UNCHANGED <<block, minter, allowances, delegates, nonces, uses>>
      /\ totalSupply' = totalSupply + n /\ totalSupply + n <= Max96
      /\ balances' = [balances EXCEPT ![dst] = @ + n] /\ balances[dst] + n <= Max96
  BY DEF Mint, sigVars, Fits96
<1>3. LedgerOK(checkpoints', block')
  BY <1>1, <1>2, LedgerFromInvariant, MoveDelegatesOrdered
<1>4. CheckpointsOrdered' /\ checkpoints' \in [Account -> Seq(Checkpoint)]
  BY <1>3 DEF CheckpointsOrdered, LedgerOK, Ordered
<1>5. totalSupply' \in 0 .. Max96 /\ balances' \in [Account -> 0 .. Max96]
  <2>1. totalSupply \in 0 .. Max96 /\ balances \in [Account -> 0 .. Max96]
    BY DEF IInv, TypeOK
  <2>2. totalSupply + n \in 0 .. Max96 /\ balances[dst] + n \in 0 .. Max96
    BY <1>1, <1>2, <2>1
  <2> QED
    BY <1>1, <1>2, <2>1, <2>2
<1>6. TypeOK'
  BY <1>2, <1>4, <1>5 DEF IInv, TypeOK
<1> QED
  BY <1>2, <1>4, <1>6 DEF IInv, SignaturesSpent

(* Tribe.sol:344-356. *)
LEMMA TransferTokensKeeps ==
  ASSUME IInv, NEW src \in Address, NEW dst \in Address, NEW n \in Amounts,
         TransferTokens(src, dst, n)
  PROVE  /\ CheckpointsOrdered' /\ checkpoints' \in [Account -> Seq(Checkpoint)]
         /\ balances' \in [Account -> 0 .. Max96]
         /\ UNCHANGED <<block, minter, totalSupply, delegates, nonces, uses>>
<1> USE TribeAssumption
<1> DEFINE debited == [balances EXCEPT ![src] = @ - n]
<1>1. /\ n \in Nat /\ src \in Account /\ dst \in Account
      /\ delegates[src] \in Address /\ delegates[dst] \in Address
  BY DEF TransferTokens, IInv, TypeOK, Address
<1>2. /\ checkpoints' = MoveDelegates(checkpoints, delegates[src], delegates[dst], n)
      /\ CanMoveDelegates(checkpoints, delegates[src], delegates[dst], n)
      /\ UNCHANGED <<block, minter, totalSupply, delegates, nonces, uses>>
      /\ n <= balances[src] /\ debited[dst] + n <= Max96
      /\ balances' = [debited EXCEPT ![dst] = @ + n]
  BY DEF TransferTokens, sigVars, Fits96
<1>3. LedgerOK(checkpoints', block')
  BY <1>1, <1>2, LedgerFromInvariant, MoveDelegatesOrdered
<1>4. CheckpointsOrdered' /\ checkpoints' \in [Account -> Seq(Checkpoint)]
  BY <1>3 DEF CheckpointsOrdered, LedgerOK, Ordered
<1>5. debited \in [Account -> 0 .. Max96]
  <2>1. balances \in [Account -> 0 .. Max96]
    BY DEF IInv, TypeOK
  <2>2. balances[src] - n \in 0 .. Max96
    BY <1>1, <1>2, <2>1
  <2> QED
    BY <1>1, <2>1, <2>2
<1> HIDE DEF debited
<1>6. balances' \in [Account -> 0 .. Max96]
  <2>1. debited[dst] + n \in 0 .. Max96
    BY <1>1, <1>2, <1>5
  <2> QED
    BY <1>1, <1>2, <1>5, <2>1
<1> QED
  BY <1>2, <1>4, <1>6

LEMMA TransferInvariant ==
  ASSUME IInv, NEW caller \in Account, NEW dst \in Address, NEW n \in Amounts,
         Transfer(caller, dst, n)
  PROVE  IInv'
<1>1. /\ CheckpointsOrdered' /\ checkpoints' \in [Account -> Seq(Checkpoint)]
      /\ balances' \in [Account -> 0 .. Max96]
      /\ UNCHANGED <<block, minter, totalSupply, delegates, nonces, uses>>
  BY TransferTokensKeeps DEF Transfer, Address
<1>2. allowances' = allowances
  BY DEF Transfer
<1>3. TypeOK'
  BY <1>1, <1>2 DEF IInv, TypeOK
<1> QED
  BY <1>1, <1>3 DEF IInv, SignaturesSpent

(* Tribe.sol:242-262.  A finite allowance falls by what is spent. *)
LEMMA TransferFromInvariant ==
  ASSUME IInv, NEW spender \in Account, NEW src \in Address, NEW dst \in Address,
         NEW n \in Amounts, TransferFrom(spender, src, dst, n)
  PROVE  IInv'
<1> USE TribeAssumption
<1>1. /\ CheckpointsOrdered' /\ checkpoints' \in [Account -> Seq(Checkpoint)]
      /\ balances' \in [Account -> 0 .. Max96]
      /\ UNCHANGED <<block, minter, totalSupply, delegates, nonces, uses>>
  BY TransferTokensKeeps DEF TransferFrom
<1>2. src \in Account /\ n \in Nat
  BY DEF TransferFrom, Address
<1>3. allowances' \in [Account -> [Account -> 0 .. Max96]]
  <2>1. CASE spender # src /\ allowances[src][spender] # Max96
    <3>1. /\ n <= allowances[src][spender]
          /\ allowances' = [allowances EXCEPT ![src][spender] = @ - n]
      BY <2>1 DEF TransferFrom
    <3>2. allowances \in [Account -> [Account -> 0 .. Max96]]
      BY DEF IInv, TypeOK
    <3>3. allowances[src] \in [Account -> 0 .. Max96]
      BY <1>2, <3>2
    <3>4. allowances[src][spender] - n \in 0 .. Max96
      BY <1>2, <3>1, <3>3
    <3>5. [allowances[src] EXCEPT ![spender] = @ - n] \in [Account -> 0 .. Max96]
      BY <3>3, <3>4
    <3> QED
      BY <1>2, <3>1, <3>2, <3>5
  <2>2. CASE ~(spender # src /\ allowances[src][spender] # Max96)
    BY <2>2 DEF TransferFrom, IInv, TypeOK
  <2> QED
    BY <2>1, <2>2
<1>4. TypeOK'
  BY <1>1, <1>3 DEF IInv, TypeOK
<1> QED
  BY <1>1, <1>4 DEF IInv, SignaturesSpent

(* Tribe.sol:333-342. *)
LEMMA DelegateVotesKeeps ==
  ASSUME IInv, NEW delegator \in Account, NEW delegatee \in Address,
         DelegateVotes(delegator, delegatee)
  PROVE  /\ CheckpointsOrdered' /\ checkpoints' \in [Account -> Seq(Checkpoint)]
         /\ delegates' \in [Account -> Address]
         /\ UNCHANGED <<block, minter, totalSupply, balances, allowances>>
<1> USE TribeAssumption
<1>1. /\ delegates[delegator] \in Address /\ balances[delegator] \in Nat
      /\ delegates \in [Account -> Address]
  BY DEF IInv, TypeOK
<1>2. /\ CanMoveDelegates(checkpoints, delegates[delegator], delegatee, balances[delegator])
      /\ checkpoints' = MoveDelegates(checkpoints, delegates[delegator], delegatee,
                                      balances[delegator])
      /\ delegates' = [delegates EXCEPT ![delegator] = delegatee]
      /\ UNCHANGED <<block, minter, totalSupply, balances, allowances>>
  BY DEF DelegateVotes, tokenVars
<1>3. LedgerOK(checkpoints', block')
  BY <1>1, <1>2, LedgerFromInvariant, MoveDelegatesOrdered
<1>4. CheckpointsOrdered' /\ checkpoints' \in [Account -> Seq(Checkpoint)]
  BY <1>3 DEF CheckpointsOrdered, LedgerOK, Ordered
<1> QED
  BY <1>1, <1>2, <1>4

LEMMA DelegateInvariant ==
  ASSUME IInv, NEW caller \in Account, NEW d \in Address, Delegate(caller, d)
  PROVE  IInv'
<1>1. /\ CheckpointsOrdered' /\ checkpoints' \in [Account -> Seq(Checkpoint)]
      /\ delegates' \in [Account -> Address]
      /\ UNCHANGED <<block, minter, totalSupply, balances, allowances>>
  BY DelegateVotesKeeps DEF Delegate
<1>2. UNCHANGED <<nonces, uses>>
  BY DEF Delegate, sigVars
<1>3. TypeOK'
  BY <1>1, <1>2 DEF IInv, TypeOK
<1> QED
  BY <1>1, <1>2, <1>3 DEF IInv, SignaturesSpent

LEMMA MessageType ==
  ASSUME NEW m \in Message
  PROVE  /\ m.owner \in Account /\ m.to \in Address /\ m.nonce \in Nat
         /\ m.kind = "permit" => m.to \in Account /\ m.amount \in Allowances
BY DEF Message, Address

(* Tribe.sol:184, 277.  The nonce of an accepted message is spent, and so it *)
(* is for every other message with the same nonce.                           *)
LEMMA UseSignatureSpends ==
  ASSUME IInv, NEW m \in DOMAIN uses, UseSignature(m)
  PROVE  SignaturesSpent' /\ nonces' \in [Account -> Nat]
<1>1. m \in Message /\ m.owner \in Account /\ m.nonce \in Nat
  BY MessageType DEF IInv, SignaturesSpent
<1>2. nonces \in [Account -> Nat]
  BY DEF IInv, TypeOK
<1>3. /\ m.nonce = nonces[m.owner]
      /\ nonces' = [nonces EXCEPT ![m.owner] = @ + 1]
      /\ uses' = [uses EXCEPT ![m] = @ + 1]
  BY DEF UseSignature
<1>4. uses[m] = 0
  BY <1>1, <1>2, <1>3 DEF IInv, SignaturesSpent
<1>5. DOMAIN uses' = DOMAIN uses /\ nonces' \in [Account -> Nat]
  BY <1>1, <1>2, <1>3
<1>6. ASSUME NEW o \in DOMAIN uses
      PROVE  uses'[o] = 0 \/ (uses'[o] = 1 /\ o.nonce < nonces'[o.owner])
  <2>1. o \in Message /\ o.owner \in Account /\ o.nonce \in Nat
    BY MessageType DEF IInv, SignaturesSpent
  <2>2. nonces[o.owner] \in Nat /\ nonces'[o.owner] \in Nat
        /\ nonces[o.owner] <= nonces'[o.owner]
    BY <1>1, <1>2, <1>3, <2>1
  <2>3. CASE o = m
    <3>1. uses'[o] = 1
      BY <1>3, <1>4, <2>3
    <3>2. nonces'[o.owner] = m.nonce + 1
      BY <1>1, <1>2, <1>3, <2>3
    <3> QED
      BY <1>1, <2>3, <3>1, <3>2
  <2>4. CASE o # m
    <3>1. uses'[o] = uses[o]
      BY <1>3, <2>4
    <3>2. uses[o] = 0 \/ (uses[o] = 1 /\ o.nonce < nonces[o.owner])
      BY DEF IInv, SignaturesSpent
    <3> QED
      BY <2>1, <2>2, <3>1, <3>2
  <2> QED
    BY <2>3, <2>4
<1> QED
  BY <1>5, <1>6 DEF IInv, SignaturesSpent

LEMMA DelegateBySigInvariant ==
  ASSUME IInv, NEW m \in DOMAIN uses, DelegateBySig(m)
  PROVE  IInv'
<1>1. m.owner \in Account /\ m.to \in Address
  BY MessageType DEF IInv, SignaturesSpent
<1>2. SignaturesSpent' /\ nonces' \in [Account -> Nat]
  BY UseSignatureSpends DEF DelegateBySig
<1>3. /\ CheckpointsOrdered' /\ checkpoints' \in [Account -> Seq(Checkpoint)]
      /\ delegates' \in [Account -> Address]
      /\ UNCHANGED <<block, minter, totalSupply, balances, allowances>>
  BY <1>1, DelegateVotesKeeps DEF DelegateBySig
<1>4. TypeOK'
  BY <1>2, <1>3 DEF IInv, TypeOK
<1> QED
  BY <1>2, <1>3, <1>4 DEF IInv

LEMMA PermitInvariant ==
  ASSUME IInv, NEW m \in DOMAIN uses, Permit(m)
  PROVE  IInv'
<1> USE TribeAssumption
<1>1. m.owner \in Account /\ m.to \in Account /\ m.amount \in 0 .. Max96
  BY MessageType DEF IInv, SignaturesSpent, Permit
<1>2. SignaturesSpent' /\ nonces' \in [Account -> Nat]
  BY UseSignatureSpends DEF Permit
<1>3. allowances' \in [Account -> [Account -> 0 .. Max96]]
  BY <1>1 DEF Permit, IInv, TypeOK
<1>4. UNCHANGED <<block, minter, totalSupply, balances, delegates, checkpoints>>
  BY DEF Permit, tokenVars
<1>5. TypeOK'
  BY <1>2, <1>3, <1>4 DEF IInv, TypeOK
<1> QED
  BY <1>2, <1>4, <1>5 DEF IInv, CheckpointsOrdered

(* A new message has not been used. *)
LEMMA SignInvariant ==
  ASSUME IInv, NEW m \in SignableMessage, Sign(m)
  PROVE  IInv'
<1>1. UNCHANGED <<block, minter, totalSupply, balances, allowances, delegates,
                  checkpoints, nonces>>
  BY DEF Sign, tokenVars
<1>2. /\ m \in Message /\ m \notin DOMAIN uses
      /\ uses' = [n \in DOMAIN uses \cup {m} |-> IF n = m THEN 0 ELSE uses[n]]
  BY DEF Sign, SignableMessage
<1>3. SignaturesSpent'
  BY <1>1, <1>2 DEF IInv, SignaturesSpent
<1>4. TypeOK'
  BY <1>1 DEF IInv, TypeOK
<1> QED
  BY <1>1, <1>3, <1>4 DEF IInv, CheckpointsOrdered

(* The past stays in order when the clock moves on. *)
LEMMA AdvanceBlockInvariant ==
  ASSUME IInv, AdvanceBlock
  PROVE  IInv'
<1>1. /\ block' = block + 1 /\ block \in Nat /\ block >= 1
      /\ UNCHANGED <<minter, totalSupply, balances, allowances, delegates, checkpoints,
                     nonces, uses>>
  BY DEF AdvanceBlock, tokenVars, sigVars, IInv, TypeOK
<1>2. CheckpointsOrdered'
  BY <1>1 DEF IInv, CheckpointsOrdered
<1>3. TypeOK'
  BY <1>1 DEF IInv, TypeOK
<1> QED
  BY <1>1, <1>2, <1>3 DEF IInv, SignaturesSpent

LEMMA NextInvariant == IInv /\ [Next]_vars => IInv'
<1> SUFFICES ASSUME IInv, [Next]_vars PROVE IInv'
  OBVIOUS
<1>1. CASE AdvanceBlock
  BY <1>1, AdvanceBlockInvariant
<1>2. ASSUME NEW caller \in Account,
             \/ \E a \in Account : SetMinter(caller, a)
             \/ \E s \in Account, n \in Allowances : Approve(caller, s, n)
      PROVE  IInv'
  BY <1>2, SettingsInvariant
<1>3. ASSUME NEW caller \in Account, NEW dst \in Address, NEW n \in Amounts,
             Mint(caller, dst, n) \/ Transfer(caller, dst, n)
      PROVE  IInv'
  BY <1>3, MintInvariant, TransferInvariant
<1>4. ASSUME NEW caller \in Account, NEW src \in Address, NEW dst \in Address,
             NEW n \in Amounts, TransferFrom(caller, src, dst, n)
      PROVE  IInv'
  BY <1>4, TransferFromInvariant
<1>5. ASSUME NEW caller \in Account, NEW d \in Address, Delegate(caller, d)
      PROVE  IInv'
  BY <1>5, DelegateInvariant
<1>6. ASSUME NEW m \in SignableMessage, Sign(m) PROVE IInv'
  BY <1>6, SignInvariant
<1>7. ASSUME NEW m \in DOMAIN uses, DelegateBySig(m) \/ Permit(m) PROVE IInv'
  BY <1>7, DelegateBySigInvariant, PermitInvariant
<1>8. CASE UNCHANGED vars
  BY <1>8 DEF vars, tokenVars, sigVars, IInv, TypeOK, CheckpointsOrdered, SignaturesSpent
<1> QED
  BY <1>1, <1>2, <1>3, <1>4, <1>5, <1>6, <1>7, <1>8 DEF Next

----------------------------------------------------------------------------
(* Votes, balances and the supply. *)

(* The votes recorded for a finished block are covered by the supply. *)
PastIsBacked ==
  \A b \in 0 .. block - 1 :
    SumFunctionOnSet([a \in Account |-> VotesAt(checkpoints[a], b)], Account) <= totalSupply

VotesInv ==
  /\ IInv
  /\ SumFunctionOnSet(balances, Account) = totalSupply
  /\ VotesAreDelegatedBalances
  /\ PastIsBacked

(* Votes of the current block and balances that a move leaves together. *)
Backed(v, bals, dels) ==
  \A d \in Account :
    v[d] = SumFunctionOnSet(bals, {a \in Account : dels[a] = d})

(* A mint or a transfer: the balance of y changes by k, and the votes of its  *)
(* delegate too.                                                             *)
LEMMA BackedBalance ==
  ASSUME NEW v, NEW f, NEW dels, Backed(v, f, dels),
         NEW y \in Account, NEW k \in Int, NEW g,
         \A x \in Account : f[x] \in Int /\ g[x] \in Int /\ (x # y => g[x] = f[x]),
         g[y] = f[y] + k, NEW w,
         \A d \in Account : w[d]
           = v[d] + (IF d = dels[y] THEN k ELSE 0)
  PROVE  Backed(w, g, dels)
<1>1. SUFFICES ASSUME NEW d \in Account
               PROVE  w[d]
                        = SumFunctionOnSet(g, {a \in Account : dels[a] = d})
  BY DEF Backed
<1> DEFINE S == {a \in Account : dels[a] = d}
<1>2. S \in SUBSET Account /\ (y \in S <=> d = dels[y])
  OBVIOUS
<1>3. v[d] = SumFunctionOnSet(f, S)
  BY DEF Backed
<1> HIDE DEF S
<1>4. /\ IsFiniteSet(S)
      /\ \A x \in S : f[x] \in Int /\ g[x] \in Int /\ (x # y => g[x] = f[x])
  BY <1>2, TribeAssumption, FS_Subset
<1>5. SumFunctionOnSet(f, S) \in Int
  BY <1>4, SumIsInt
<1>6. CASE y \in S
  <2>1. SumFunctionOnSet(g, S) = SumFunctionOnSet(f, S) - f[y] + g[y]
    BY <1>4, <1>6, SumChanges
  <2>2. w[d] = SumFunctionOnSet(f, S) + k
    BY <1>2, <1>3, <1>6
  <2>3. f[y] \in Int
    OBVIOUS
  <2> QED
    BY <1>5, <2>1, <2>2, <2>3 DEF S
<1>7. CASE y \notin S
  <2>1. \A x \in S : f[x] = g[x]
    BY <1>4, <1>7
  <2>2. SumFunctionOnSet(f, S) = SumFunctionOnSet(g, S)
    BY <1>4, <2>1, SumAgrees
  <2>3. w[d] = SumFunctionOnSet(f, S) + 0
    BY <1>2, <1>3, <1>7
  <2> QED
    BY <1>5, <2>2, <2>3 DEF S
<1> QED
  BY <1>6, <1>7

(* A delegation: the balance of y backs another delegate. *)
LEMMA BackedDelegate ==
  ASSUME NEW v, NEW f \in [Account -> Int], NEW dels \in [Account -> Address],
         Backed(v, f, dels), NEW y \in Account, NEW e \in Address,
         NEW w,
         \A d \in Account : w[d]
           = v[d] + Gain(d, dels[y], e, f[y])
  PROVE  Backed(w, f, [dels EXCEPT ![y] = e])
<1> DEFINE dels2 == [dels EXCEPT ![y] = e]
<1>1. SUFFICES ASSUME NEW d \in Account
               PROVE  w[d]
                        = SumFunctionOnSet(f, {a \in Account : dels2[a] = d})
  BY DEF Backed
<1> DEFINE S == {a \in Account : dels[a] = d}
           T == {a \in Account : dels2[a] = d}
<1>2. /\ S \in SUBSET Account /\ T \in SUBSET Account
      /\ y \in S <=> dels[y] = d
      /\ y \in T <=> e = d
      /\ S \ {y} = T \ {y}
  OBVIOUS
<1>3. v[d] = SumFunctionOnSet(f, S)
  BY DEF Backed
<1> HIDE DEF S, T
<1>4. /\ IsFiniteSet(S) /\ IsFiniteSet(T) /\ IsFiniteSet(S \ {y})
      /\ \A x \in Account : f[x] \in Int
  BY <1>2, TribeAssumption, FS_Subset
<1> DEFINE rest == SumFunctionOnSet(f, S \ {y})
<1>5. rest \in Int /\ f[y] \in Int
  BY <1>2, <1>4, SumIsInt
<1>6. SumFunctionOnSet(f, S) = IF dels[y] = d THEN f[y] + rest ELSE rest
  <2>1. CASE y \in S
    BY <1>2, <1>4, <2>1, SumTakes
  <2>2. CASE y \notin S
    <3>1. S \ {y} = S
      BY <2>2
    <3> QED
      BY <1>2, <2>2, <3>1
  <2> QED
    BY <2>1, <2>2
<1>7. SumFunctionOnSet(f, T) = IF e = d THEN f[y] + rest ELSE rest
  <2>1. CASE y \in T
    <3>1. SumFunctionOnSet(f, T) = f[y] + SumFunctionOnSet(f, T \ {y})
      BY <1>2, <1>4, <2>1, SumTakes
    <3> QED
      BY <1>2, <2>1, <3>1
  <2>2. CASE y \notin T
    <3>1. T \ {y} = T
      BY <2>2
    <3> QED
      BY <1>2, <2>2, <3>1
  <2> QED
    BY <2>1, <2>2
<1> HIDE DEF rest
<1>8. w[d] = SumFunctionOnSet(f, S) + Gain(d, dels[y], e, f[y])
  BY <1>3
<1>9. SumFunctionOnSet(f, S) + Gain(d, dels[y], e, f[y]) = SumFunctionOnSet(f, T)
  <2>1. CASE dels[y] = d /\ e = d
    BY <1>5, <1>6, <1>7, <2>1 DEF Gain
  <2>2. CASE dels[y] = d /\ e # d
    BY <1>5, <1>6, <1>7, <2>2 DEF Gain
  <2>3. CASE dels[y] # d /\ e = d
    BY <1>5, <1>6, <1>7, <2>3 DEF Gain
  <2>4. CASE dels[y] # d /\ e # d
    BY <1>5, <1>6, <1>7, <2>4 DEF Gain
  <2> QED
    BY <2>1, <2>2, <2>3, <2>4
<1> QED
  BY <1>8, <1>9 DEF T

(* What a delegate has is part of all balances, for all delegates together. *)
LEMMA VotesWithinSupply ==
  ASSUME TypeOK, SumFunctionOnSet(balances, Account) = totalSupply,
         VotesAreDelegatedBalances
  PROVE  SumFunctionOnSet([a \in Account |-> GetCurrentVotes(checkpoints[a])], Account)
           <= totalSupply
<1> DEFINE current == [a \in Account |-> GetCurrentVotes(checkpoints[a])]
           delegated == {x \in Account : delegates[x] \in Account}
<1>1. /\ \A d \in Account :
           current[d] = SumFunctionOnSet(balances, {x \in Account : delegates[x] = d})
      /\ IsFiniteSet(Account) /\ delegated \in SUBSET Account
      /\ \A x \in Account : balances[x] \in Nat /\ balances[x] \in Int
  <2>1. \A d \in Account :
          current[d] = SumFunctionOnSet(balances, {x \in Account : delegates[x] = d})
    BY DEF VotesAreDelegatedBalances
  <2>2. IsFiniteSet(Account) /\ delegated \in SUBSET Account
    BY TribeAssumption
  <2>3. \A x \in Account : balances[x] \in Nat /\ balances[x] \in Int
    BY DEF TypeOK
  <2> QED
    BY <2>1, <2>2, <2>3
<1> HIDE DEF current
<1>2. SumFunctionOnSet(current, Account) = SumFunctionOnSet(balances, delegated)
  BY <1>1, SumOfShares
<1> HIDE DEF delegated
<1>3. SumFunctionOnSet(balances, delegated) <= SumFunctionOnSet(balances, Account)
  BY <1>1, SumOfPart
<1> QED
  BY <1>2, <1>3 DEF current

Current == [a \in Account |-> GetCurrentVotes(checkpoints[a])]

LEMMA BackedMeans ==
  VotesAreDelegatedBalances <=> Backed(Current, balances, delegates)
BY DEF VotesAreDelegatedBalances, Backed, Current

(* The finished blocks stay covered while their record does not change. *)
LEMMA PastKept ==
  ASSUME PastIsBacked, block' = block, totalSupply \in Int, totalSupply' \in Int,
         totalSupply <= totalSupply', block \in Nat,
         \A a \in Account : \A b \in 0 .. block - 1 :
           VotesAt(checkpoints'[a], b) = VotesAt(checkpoints[a], b),
         \A a \in Account : \A b \in 0 .. block - 1 : VotesAt(checkpoints[a], b) \in Int
  PROVE  PastIsBacked'
<1> SUFFICES ASSUME NEW b \in 0 .. block - 1
             PROVE  SumFunctionOnSet([a \in Account |-> VotesAt(checkpoints'[a], b)], Account)
                      <= totalSupply'
  BY DEF PastIsBacked
<1> DEFINE f == [a \in Account |-> VotesAt(checkpoints[a], b)]
           g == [a \in Account |-> VotesAt(checkpoints'[a], b)]
<1>1. /\ \A a \in Account : f[a] = g[a] /\ f[a] \in Int
      /\ SumFunctionOnSet(f, Account) <= totalSupply
      /\ IsFiniteSet(Account)
  BY TribeAssumption DEF PastIsBacked
<1> HIDE DEF f, g
<1>2. SumFunctionOnSet(f, Account) = SumFunctionOnSet(g, Account)
  BY <1>1, SumAgrees
<1>3. SumFunctionOnSet(f, Account) \in Int
  BY <1>1, SumIsInt
<1> QED
  BY <1>1, <1>2, <1>3 DEF g

(* The votes recorded for any block are a number of votes. *)
LEMMA RecordedType ==
  ASSUME NEW cps \in Seq(Checkpoint), NEW b
  PROVE  VotesAt(cps, b) \in Votes
<1> USE TribeAssumption
<1> DEFINE past == {j \in 1 .. Len(cps) : cps[j].fromBlock <= b}
<1>1. CASE past = {}
  BY <1>1 DEF VotesAt, Votes
<1>2. CASE past # {}
  <2>1. PICK i \in past : \A j \in past : j <= i
    BY <1>2, LastExists, LenProperties
  <2>2. VotesAt(cps, b) = cps[i].votes
    BY <2>1, RecordedVotes, LenProperties
  <2> QED
    BY <2>2, CheckpointFields
<1> QED
  BY <1>1, <1>2

(* Moving votes among delegates leaves the record of finished blocks. *)
LEMMA MoveKeepsPast ==
  ASSUME IInv, PastIsBacked, NEW src \in Address, NEW dst \in Address, NEW amount \in Nat,
         CanMoveDelegates(checkpoints, src, dst, amount),
         checkpoints' = MoveDelegates(checkpoints, src, dst, amount),
         block' = block, totalSupply' \in Int, totalSupply <= totalSupply'
  PROVE  /\ PastIsBacked'
         /\ \A d \in Account : /\ Current[d] \in Int
                               /\ Current'[d] = Current[d] + Gain(d, src, dst, amount)
<1>1. LedgerOK(checkpoints, block) /\ block \in Nat /\ block >= 1
  BY LedgerFromInvariant
<1>2. \A a \in Account : checkpoints[a] \in Seq(Checkpoint)
  BY <1>1 DEF LedgerOK
<1>3. totalSupply \in Int
  BY TribeAssumption DEF IInv, TypeOK
<1>4. ASSUME NEW a \in Account
      PROVE  /\ GetCurrentVotes(checkpoints'[a])
                  = GetCurrentVotes(checkpoints[a]) + Gain(a, src, dst, amount)
             /\ GetCurrentVotes(checkpoints[a]) \in Votes
             /\ \A b \in 0 .. block - 1 : VotesAt(checkpoints'[a], b) = VotesAt(checkpoints[a], b)
             /\ \A b \in 0 .. block - 1 : VotesAt(checkpoints[a], b) \in Votes
  BY <1>1, <1>2, TribeAssumption, MoveDelegatesMoves, CurrentVotesType, RecordedType
<1>5. Votes \subseteq Int
  BY DEF Votes
<1>6. PastIsBacked'
  BY <1>1, <1>3, <1>4, <1>5, PastKept
<1>7. \A d \in Account : /\ Current[d] \in Int
                         /\ Current'[d] = Current[d] + Gain(d, src, dst, amount)
  BY <1>4, <1>5 DEF Current
<1> QED
  BY <1>6, <1>7

LEMMA BalancesAreInts ==
  ASSUME IInv
  PROVE  balances \in [Account -> Int]
<1>1. balances \in [Account -> 0 .. Max96]
  BY DEF IInv, TypeOK
<1> QED
  BY <1>1, TribeAssumption

LEMMA InitVotes == Init => VotesInv
<1> SUFFICES ASSUME Init PROVE VotesInv
  OBVIOUS
<1> USE TribeAssumption
<1>1. IInv
  BY InitInvariant
<1> DEFINE none == [a \in Account |-> 0]
<1>2. /\ \A a \in Account : balances[a] \in Int /\ none[a] \in Int
                            /\ (a # Holder => balances[a] = none[a])
      /\ balances[Holder] = InitialSupply /\ none[Holder] = 0
  BY DEF Init
<1>3. \A a \in Account : none[a] \in Nat /\ none[a] <= balances[a]
  BY DEF Init
<1> HIDE DEF none
<1>4. ASSUME NEW S \in SUBSET Account PROVE SumFunctionOnSet(none, S) = 0
  <2>1. IsFiniteSet(S) /\ \A x \in S : none[x] \in Int /\ none[x] = none[x] + none[x]
    BY <1>2, FS_Subset DEF none
  <2>2. SumFunctionOnSet(none, S) = SumFunctionOnSet(none, S) + SumFunctionOnSet(none, S)
    BY <2>1, SumOfPairs
  <2>3. SumFunctionOnSet(none, S) \in Int
    BY <2>1, SumIsInt
  <2> QED
    BY <2>2, <2>3, TwiceItself
<1>5. SumFunctionOnSet(balances, Account) = totalSupply
  <2>1. SumFunctionOnSet(balances, Account)
          = SumFunctionOnSet(none, Account) - none[Holder] + balances[Holder]
    BY <1>2, SumChanges
  <2> QED
    BY <1>2, <1>4, <2>1 DEF Init
<1>6. VotesAreDelegatedBalances
  <2>1. ASSUME NEW d \in Account
        PROVE  GetCurrentVotes(checkpoints[d])
                 = SumFunctionOnSet(balances, {a \in Account : delegates[a] = d})
    <3>1. {a \in Account : delegates[a] = d} = {}
      BY DEF Init
    <3>2. SumFunctionOnSet(balances, {a \in Account : delegates[a] = d}) = 0
      BY <3>1, SumOfNone
    <3> QED
      BY <3>2 DEF Init, GetCurrentVotes
  <2> QED
    BY <2>1 DEF VotesAreDelegatedBalances
<1>7. PastIsBacked
  <2>1. ASSUME NEW b \in 0 .. block - 1
        PROVE  SumFunctionOnSet([a \in Account |-> VotesAt(checkpoints[a], b)], Account)
                 <= totalSupply
    <3>1. \A a \in Account : VotesAt(checkpoints[a], b) = 0
      BY NothingRecorded DEF Init
    <3>2. [a \in Account |-> VotesAt(checkpoints[a], b)] = none
      BY <3>1 DEF none
    <3> QED
      BY <1>4, <3>2 DEF Init
  <2> QED
    BY <2>1 DEF PastIsBacked
<1> QED
  BY <1>1, <1>5, <1>6, <1>7 DEF VotesInv

(* Tribe.sol:121-141. *)
LEMMA MintVotes ==
  ASSUME VotesInv, NEW caller \in Account, NEW dst \in Address, NEW n \in Amounts,
         Mint(caller, dst, n)
  PROVE  VotesInv'
<1> USE TribeAssumption
<1>1. IInv /\ IInv'
  BY MintInvariant DEF VotesInv
<1>2. /\ n \in Nat /\ dst \in Account /\ delegates[dst] \in Address
      /\ NoAccount \in Address /\ totalSupply \in Int /\ totalSupply' \in Int
  BY <1>1 DEF Mint, IInv, TypeOK, Address
<1>3. /\ CanMoveDelegates(checkpoints, NoAccount, delegates[dst], n)
      /\ checkpoints' = MoveDelegates(checkpoints, NoAccount, delegates[dst], n)
      /\ totalSupply' = totalSupply + n
      /\ balances' = [balances EXCEPT ![dst] = @ + n]
      /\ UNCHANGED <<block, delegates>>
  BY DEF Mint
<1>4. /\ \A x \in Account : /\ balances[x] \in Int /\ balances'[x] \in Int
                             /\ (x # dst => balances'[x] = balances[x])
      /\ balances'[dst] = balances[dst] + n
  BY <1>1, <1>2, <1>3 DEF IInv, TypeOK
<1>5. /\ PastIsBacked'
      /\ \A d \in Account : /\ Current[d] \in Int
                            /\ Current'[d] = Current[d] + Gain(d, NoAccount, delegates[dst], n)
  <2>1. totalSupply <= totalSupply' /\ PastIsBacked
    BY <1>2, <1>3 DEF VotesInv
  <2> QED
    BY <1>1, <1>2, <1>3, <2>1, MoveKeepsPast
<1>6. Backed(Current', balances', delegates)
  <2>1. Backed(Current, balances, delegates)
    BY BackedMeans DEF VotesInv
  <2>2. \A d \in Account :
          Current'[d] = Current[d] + (IF d = delegates[dst] THEN n ELSE 0)
    BY <1>2, <1>5 DEF Gain
  <2>3. n \in Int
    BY <1>2
  <2> HIDE DEF Current
  <2> QED
    BY <1>2, <1>4, <2>1, <2>2, <2>3, BackedBalance
<1>7. VotesAreDelegatedBalances'
  BY <1>3, <1>6 DEF VotesAreDelegatedBalances, Backed, Current
<1>8. SumFunctionOnSet(balances', Account) = totalSupply'
  <2>1. SumFunctionOnSet(balances', Account)
          = SumFunctionOnSet(balances, Account) - balances[dst] + balances'[dst]
    BY <1>2, <1>4, SumChanges
  <2>2. SumFunctionOnSet(balances, Account) = totalSupply /\ balances[dst] \in Int
    BY <1>2, <1>4 DEF VotesInv
  <2> QED
    BY <1>2, <1>3, <1>4, <2>1, <2>2
<1> QED
  BY <1>1, <1>5, <1>7, <1>8 DEF VotesInv

(* Tribe.sol:344-356.  First the source gives, then the destination gets:    *)
(* they may be the same account, or have the same delegate.                  *)
LEMMA TransferTokensVotes ==
  ASSUME VotesInv, IInv', NEW src \in Address, NEW dst \in Address, NEW n \in Amounts,
         TransferTokens(src, dst, n)
  PROVE  VotesInv'
<1> USE TribeAssumption
<1> DEFINE debited == [balances EXCEPT ![src] = @ - n]
           less == [d \in Account |-> Current[d] - (IF d = delegates[src] THEN n ELSE 0)]
<1>1. /\ IInv /\ n \in Nat /\ n \in Int /\ -n \in Int /\ src \in Account /\ dst \in Account
      /\ delegates[src] \in Address /\ delegates[dst] \in Address
      /\ totalSupply \in Int
      /\ balances \in [Account -> Int] /\ \A x \in Account : balances'[x] \in Int
  <2>1. /\ IInv /\ n \in Nat /\ src \in Account /\ dst \in Account
        /\ delegates[src] \in Address /\ delegates[dst] \in Address
    BY DEF TransferTokens, VotesInv, IInv, TypeOK, Address
  <2>2. totalSupply \in 0 .. Max96 /\ balances' \in [Account -> 0 .. Max96]
    BY <2>1 DEF IInv, TypeOK
  <2> QED
    BY <2>1, <2>2, BalancesAreInts
<1>2. /\ CanMoveDelegates(checkpoints, delegates[src], delegates[dst], n)
      /\ checkpoints' = MoveDelegates(checkpoints, delegates[src], delegates[dst], n)
      /\ balances' = [debited EXCEPT ![dst] = @ + n]
      /\ UNCHANGED <<block, totalSupply, delegates>>
  BY DEF TransferTokens
<1>3. /\ \A x \in Account : /\ balances[x] \in Int /\ debited[x] \in Int
                             /\ (x # src => debited[x] = balances[x])
      /\ debited[src] = balances[src] + (-n)
  BY <1>1
<1>4. /\ \A x \in Account : /\ debited[x] \in Int /\ balances'[x] \in Int
                             /\ (x # dst => balances'[x] = debited[x])
      /\ balances'[dst] = debited[dst] + n
  BY <1>1, <1>2
<1> HIDE DEF debited
<1>5. /\ PastIsBacked'
      /\ \A d \in Account : /\ Current[d] \in Int
                            /\ Current'[d] = Current[d] + Gain(d, delegates[src], delegates[dst], n)
  <2>1. totalSupply' \in Int /\ totalSupply <= totalSupply' /\ PastIsBacked
    BY <1>1, <1>2 DEF VotesInv
  <2> QED
    BY <1>1, <1>2, <2>1, MoveKeepsPast
<1>6. Backed(Current', balances', delegates)
  <2>1. Backed(Current, balances, delegates)
    BY BackedMeans DEF VotesInv
  <2> HIDE DEF Current
  <2>2. /\ \A d \in Account : less[d] = Current[d] + (IF d = delegates[src] THEN -n ELSE 0)
        /\ \A d \in Account : Current'[d] = less[d] + (IF d = delegates[dst] THEN n ELSE 0)
    <3>1. ASSUME NEW d \in Account
          PROVE  less[d] = Current[d] + (IF d = delegates[src] THEN -n ELSE 0)
      <4>1. Current[d] \in Int
        BY <1>5
      <4> QED
        BY <1>1, <4>1
    <3>2. ASSUME NEW d \in Account
          PROVE  Current'[d] = less[d] + (IF d = delegates[dst] THEN n ELSE 0)
      <4>1. /\ Current[d] \in Int
            /\ Current'[d] = Current[d] + Gain(d, delegates[src], delegates[dst], n)
        BY <1>5
      <4>2. less[d] = Current[d] - (IF d = delegates[src] THEN n ELSE 0)
        OBVIOUS
      <4> HIDE DEF less
      <4> QED
        BY <1>1, <4>1, <4>2 DEF Gain
    <3> QED
      BY <3>1, <3>2
  <2> HIDE DEF less
  <2>3. Backed(less, debited, delegates)
    BY <1>1, <1>3, <2>1, <2>2, BackedBalance
  <2> QED
    BY <1>1, <1>4, <2>2, <2>3, BackedBalance
<1>7. VotesAreDelegatedBalances'
  BY <1>2, <1>6 DEF VotesAreDelegatedBalances, Backed, Current
<1>8. SumFunctionOnSet(balances', Account) = totalSupply'
  <2>1. SumFunctionOnSet(debited, Account)
          = SumFunctionOnSet(balances, Account) - balances[src] + debited[src]
    BY <1>1, <1>3, SumChanges
  <2>2. SumFunctionOnSet(balances', Account)
          = SumFunctionOnSet(debited, Account) - debited[dst] + balances'[dst]
    BY <1>1, <1>4, SumChanges
  <2>3. SumFunctionOnSet(balances, Account) = totalSupply
    BY DEF VotesInv
  <2>4. balances[src] \in Int /\ debited[dst] \in Int /\ debited[src] \in Int
    BY <1>1, <1>3
  <2> QED
    BY <1>1, <1>2, <1>3, <1>4, <2>1, <2>2, <2>3, <2>4
<1> QED
  BY <1>5, <1>7, <1>8 DEF VotesInv

(* Tribe.sol:333-342. *)
LEMMA DelegateVotesVotes ==
  ASSUME VotesInv, IInv', NEW delegator \in Account, NEW delegatee \in Address,
         DelegateVotes(delegator, delegatee)
  PROVE  VotesInv'
<1> USE TribeAssumption
<1>1. /\ IInv /\ delegates[delegator] \in Address /\ balances[delegator] \in Nat
      /\ delegates \in [Account -> Address] /\ balances \in [Account -> Int]
      /\ totalSupply \in Int
  <2>1. IInv
    BY DEF VotesInv
  <2>2. balances \in [Account -> Int]
    BY <2>1, BalancesAreInts
  <2>3. /\ delegates \in [Account -> Address] /\ totalSupply \in 0 .. Max96
        /\ balances \in [Account -> 0 .. Max96]
    BY <2>1 DEF IInv, TypeOK
  <2>4. totalSupply \in Int
    BY <2>3
  <2>5. balances[delegator] \in Nat
    BY <2>3
  <2>6. delegates[delegator] \in Address
    BY <2>3
  <2> QED
    BY <2>1, <2>2, <2>3, <2>4, <2>5, <2>6
<1>2. /\ CanMoveDelegates(checkpoints, delegates[delegator], delegatee, balances[delegator])
      /\ checkpoints' = MoveDelegates(checkpoints, delegates[delegator], delegatee,
                                      balances[delegator])
      /\ delegates' = [delegates EXCEPT ![delegator] = delegatee]
      /\ UNCHANGED <<block, totalSupply, balances>>
  BY DEF DelegateVotes, tokenVars
<1>3. /\ PastIsBacked'
      /\ \A d \in Account :
           Current'[d] = Current[d] + Gain(d, delegates[delegator], delegatee, balances[delegator])
  <2>1. totalSupply' \in Int /\ totalSupply <= totalSupply' /\ PastIsBacked
    BY <1>1, <1>2 DEF VotesInv
  <2> QED
    BY <1>1, <1>2, <2>1, MoveKeepsPast
<1>4. Backed(Current', balances, delegates')
  <2>1. Backed(Current, balances, delegates)
    BY BackedMeans DEF VotesInv
  <2> HIDE DEF Current
  <2> QED
    BY <1>1, <1>2, <1>3, <2>1, BackedDelegate
<1>5. VotesAreDelegatedBalances'
  BY <1>2, <1>4 DEF VotesAreDelegatedBalances, Backed, Current
<1>6. SumFunctionOnSet(balances', Account) = totalSupply'
  BY <1>2 DEF VotesInv
<1> QED
  BY <1>3, <1>5, <1>6 DEF VotesInv

(* The votes of a block that ends become a record of it. *)
LEMMA AdvanceBlockVotes ==
  ASSUME VotesInv, AdvanceBlock
  PROVE  VotesInv'
<1>1. IInv /\ IInv'
  BY AdvanceBlockInvariant DEF VotesInv
<1>2. /\ block' = block + 1 /\ block \in Nat
      /\ UNCHANGED <<totalSupply, balances, delegates, checkpoints>>
  BY <1>1 DEF AdvanceBlock, tokenVars, sigVars, IInv, TypeOK
<1>3. ASSUME NEW b \in 0 .. block
      PROVE  SumFunctionOnSet([a \in Account |-> VotesAt(checkpoints[a], b)], Account)
               <= totalSupply
  <2>1. CASE b \in 0 .. block - 1
    BY <2>1 DEF VotesInv, PastIsBacked
  <2>2. CASE b = block
    <3>1. \A a \in Account : VotesAt(checkpoints[a], block) = GetCurrentVotes(checkpoints[a])
      BY <1>1, <1>2, LedgerFromInvariant, CurrentIsRecorded DEF LedgerOK
    <3>2. [a \in Account |-> VotesAt(checkpoints[a], b)]
            = [a \in Account |-> GetCurrentVotes(checkpoints[a])]
      BY <2>2, <3>1
    <3>3. SumFunctionOnSet([a \in Account |-> GetCurrentVotes(checkpoints[a])], Account)
            <= totalSupply
      BY <1>1, VotesWithinSupply DEF VotesInv, IInv
    <3> QED
      BY <3>2, <3>3
  <2> QED
    BY <1>2, <2>1, <2>2
<1>4. PastIsBacked'
  <2>1. 0 .. block' - 1 = 0 .. block
    BY <1>2
  <2> QED
    BY <1>2, <1>3, <2>1 DEF PastIsBacked
<1> QED
  BY <1>1, <1>2, <1>4 DEF VotesInv, VotesAreDelegatedBalances

LEMMA NextVotes == VotesInv /\ [Next]_vars => VotesInv'
<1> SUFFICES ASSUME VotesInv, [Next]_vars PROVE VotesInv'
  OBVIOUS
<1>1. IInv'
  BY NextInvariant DEF VotesInv
<1>2. CASE AdvanceBlock
  BY <1>2, AdvanceBlockVotes
<1>3. ASSUME UNCHANGED <<block, totalSupply, balances, delegates, checkpoints>>
      PROVE  VotesInv'
  BY <1>1, <1>3 DEF VotesInv, VotesAreDelegatedBalances, PastIsBacked
<1>4. ASSUME NEW caller \in Account,
             \/ \E a \in Account : SetMinter(caller, a)
             \/ \E s \in Account, n \in Allowances : Approve(caller, s, n)
      PROVE  VotesInv'
  BY <1>3, <1>4 DEF SetMinter, Approve, tokenVars
<1>5. ASSUME NEW caller \in Account, NEW dst \in Address, NEW n \in Amounts,
             Mint(caller, dst, n)
      PROVE  VotesInv'
  BY <1>5, MintVotes
<1>6. ASSUME NEW caller \in Account, NEW dst \in Address, NEW n \in Amounts,
             Transfer(caller, dst, n)
      PROVE  VotesInv'
  BY <1>1, <1>6, TransferTokensVotes DEF Transfer, Address
<1>7. ASSUME NEW spender \in Account, NEW src \in Address, NEW dst \in Address,
             NEW n \in Amounts, TransferFrom(spender, src, dst, n)
      PROVE  VotesInv'
  BY <1>1, <1>7, TransferTokensVotes DEF TransferFrom
<1>8. ASSUME NEW caller \in Account, NEW d \in Address, Delegate(caller, d)
      PROVE  VotesInv'
  BY <1>1, <1>8, DelegateVotesVotes DEF Delegate
<1>9. ASSUME NEW m \in SignableMessage, Sign(m) PROVE VotesInv'
  BY <1>3, <1>9 DEF Sign, tokenVars
<1>10. ASSUME NEW m \in DOMAIN uses, DelegateBySig(m) PROVE VotesInv'
  <2>1. m.owner \in Account /\ m.to \in Address
    BY MessageType DEF VotesInv, IInv, SignaturesSpent
  <2> QED
    BY <1>1, <1>10, <2>1, DelegateVotesVotes DEF DelegateBySig
<1>11. ASSUME NEW m \in DOMAIN uses, Permit(m) PROVE VotesInv'
  BY <1>3, <1>11 DEF Permit, tokenVars
<1>12. CASE UNCHANGED vars
  BY <1>3, <1>12 DEF vars, tokenVars
<1> QED
  BY <1>2, <1>4, <1>5, <1>6, <1>7, <1>8, <1>9, <1>10, <1>11, <1>12 DEF Next

----------------------------------------------------------------------------
(* The ledger of votes. *)

(* What any call leaves of the checkpoints: all, or all but a move of votes. *)
LEMMA StepsMoveVotes ==
  ASSUME IInv, [Next]_vars, ~AdvanceBlock
  PROVE  /\ block' = block
         /\ \/ checkpoints' = checkpoints
            \/ \E src \in Address, dst \in Address, n \in Nat :
                 /\ CanMoveDelegates(checkpoints, src, dst, n)
                 /\ checkpoints' = MoveDelegates(checkpoints, src, dst, n)
<1> USE TribeAssumption
<1>1. /\ delegates \in [Account -> Address] /\ balances \in [Account -> 0 .. Max96]
      /\ NoAccount \in Address /\ \A n \in Amounts : n \in Nat
  BY DEF IInv, TypeOK, Address
<1> DEFINE Moves == \E src \in Address, dst \in Address, n \in Nat :
                      /\ CanMoveDelegates(checkpoints, src, dst, n)
                      /\ checkpoints' = MoveDelegates(checkpoints, src, dst, n)
<1>2. ASSUME NEW delegator \in Account, NEW delegatee \in Address,
             DelegateVotes(delegator, delegatee)
      PROVE  block' = block /\ Moves
  <2>1. delegates[delegator] \in Address /\ balances[delegator] \in Nat
    BY <1>1
  <2> QED
    BY <1>2, <2>1 DEF DelegateVotes
<1>3. ASSUME NEW src \in Address, NEW dst \in Address, NEW n \in Amounts,
             TransferTokens(src, dst, n)
      PROVE  block' = block /\ Moves
  <2>1. src \in Account /\ dst \in Account
    BY <1>3 DEF TransferTokens, Address
  <2>2. delegates[src] \in Address /\ delegates[dst] \in Address /\ n \in Nat
    BY <1>1, <2>1
  <2> QED
    BY <1>3, <2>2 DEF TransferTokens
<1>4. ASSUME NEW caller \in Account, NEW dst \in Address, NEW n \in Amounts,
             Mint(caller, dst, n)
      PROVE  block' = block /\ Moves
  <2>1. dst \in Account
    BY <1>4 DEF Mint, Address
  <2>2. delegates[dst] \in Address /\ n \in Nat
    BY <1>1, <2>1
  <2> QED
    BY <1>1, <1>4, <2>2 DEF Mint
<1>5. ASSUME NEW m \in DOMAIN uses, DelegateBySig(m)
      PROVE  block' = block /\ Moves
  <2>1. m.owner \in Account /\ m.to \in Address
    BY MessageType DEF IInv, SignaturesSpent
  <2> QED
    BY <1>2, <1>5, <2>1 DEF DelegateBySig
<1>6. ASSUME UNCHANGED vars
      PROVE  block' = block /\ checkpoints' = checkpoints
  BY <1>6 DEF vars
<1>7. ASSUME NEW caller \in Account,
             \/ \E a \in Account : SetMinter(caller, a)
             \/ \E s \in Account, n \in Allowances : Approve(caller, s, n)
      PROVE  block' = block /\ checkpoints' = checkpoints
  BY <1>7 DEF SetMinter, Approve
<1>8. ASSUME NEW caller \in Account, NEW dst \in Address, NEW n \in Amounts,
             Transfer(caller, dst, n)
      PROVE  block' = block /\ Moves
  BY <1>3, <1>8 DEF Transfer, Address
<1>9. ASSUME NEW spender \in Account, NEW src \in Address, NEW dst \in Address,
             NEW n \in Amounts, TransferFrom(spender, src, dst, n)
      PROVE  block' = block /\ Moves
  BY <1>3, <1>9 DEF TransferFrom
<1>10. ASSUME NEW caller \in Account, NEW d \in Address, Delegate(caller, d)
       PROVE  block' = block /\ Moves
  BY <1>2, <1>10 DEF Delegate
<1>11. ASSUME NEW m, Sign(m) \/ Permit(m)
       PROVE  block' = block /\ checkpoints' = checkpoints
  BY <1>11 DEF Sign, Permit
<1> HIDE DEF Moves
<1>12. block' = block /\ (checkpoints' = checkpoints \/ Moves)
  BY <1>4, <1>5, <1>6, <1>7, <1>8, <1>9, <1>10, <1>11 DEF Next
<1> QED
  BY <1>12 DEF Moves

(* What is read back is what was recorded, for as long as a block is over. *)
LEMMA ReadsAreRecorded ==
  IInv => \A a \in Account : \A b \in Nat :
            /\ GetPriorVotes(a, b) = VotesAt(checkpoints[a], b)
            /\ GetPriorVotes(a, b) \in Votes
<1> SUFFICES ASSUME IInv, NEW a \in Account, NEW b \in Nat
             PROVE  /\ GetPriorVotes(a, b) = VotesAt(checkpoints[a], b)
                    /\ GetPriorVotes(a, b) \in Votes
  OBVIOUS
<1>1. checkpoints[a] \in Seq(Checkpoint) /\ Ordered(checkpoints[a], block) /\ block \in Nat
  BY LedgerFromInvariant DEF LedgerOK
<1> QED
  BY <1>1, PriorVotesAreRecorded, RecordedType

LEMMA ReadsStayRecorded ==
  IInv' => (\A a \in Account : \A b \in Nat :
              /\ GetPriorVotes(a, b) = VotesAt(checkpoints[a], b)
              /\ GetPriorVotes(a, b) \in Votes)'
BY ReadsAreRecorded, PTL

LEMMA RecordIsKept ==
  ASSUME IInv, IInv', [Next]_vars
  PROVE  \A a \in Account : \A b \in 1 .. block - 1 :
           GetPriorVotes(a, b)' = GetPriorVotes(a, b)
<1>1. ASSUME NEW a \in Account, NEW b \in 1 .. block - 1
      PROVE  GetPriorVotes(a, b)' = GetPriorVotes(a, b)
  <2>1. b \in Nat /\ b \in 0 .. block - 1
    BY DEF IInv, TypeOK
  <2>2. VotesAt(checkpoints'[a], b) = VotesAt(checkpoints[a], b)
    <3>1. CASE AdvanceBlock
      BY <3>1 DEF AdvanceBlock
    <3>2. CASE ~AdvanceBlock
      BY <2>1, <3>2, StepsMoveVotes, MoveDelegatesMoves, LedgerFromInvariant
    <3> QED
      BY <3>1, <3>2
  <2>3. /\ GetPriorVotes(a, b) = VotesAt(checkpoints[a], b)
        /\ GetPriorVotes(a, b)' = VotesAt(checkpoints'[a], b)
    <3>1. \A x \in Account : \A n \in Nat : GetPriorVotes(x, n)' = VotesAt(checkpoints[x], n)'
      BY ReadsStayRecorded
    <3> QED
      BY <2>1, <3>1, ReadsAreRecorded
  <2> QED
    BY <2>2, <2>3
<1> QED
  BY <1>1

(* The sum of the ledger is the sum over all accounts. *)
LEMMA LedgerSums ==
  ASSUME NEW f, DOMAIN f = Account
  PROVE  Ledger!SumFunction(f) = SumFunctionOnSet(f, Account)
BY DEF Ledger!SumFunction, Ledger!SumFunctionOnSet, Ledger!FoldFunctionOnSet,
       Ledger!MapThenFoldSet, SumFunctionOnSet, FoldFunctionOnSet, MapThenFoldSet

Past == [b \in 1 .. block - 1 |-> [a \in Account |-> GetPriorVotes(a, b)]]

(* The votes of the moment are votes that the ledger allows. *)
LEMMA VotesAreLegal ==
  VotesInv => /\ Current \in [Account -> 0 .. Max96]
              /\ Ledger!SumFunction(Current) <= Max96
<1> SUFFICES ASSUME VotesInv
             PROVE  /\ Current \in [Account -> 0 .. Max96]
                    /\ Ledger!SumFunction(Current) <= Max96
  OBVIOUS
<1>1. IInv /\ TypeOK
  BY DEF VotesInv, IInv
<1>2. \A a \in Account : GetCurrentVotes(checkpoints[a]) \in 0 .. Max96
  BY <1>1, CurrentVotesType, TribeAssumption DEF TypeOK, Votes
<1>3. SumFunctionOnSet(Current, Account) <= totalSupply
  BY <1>1, VotesWithinSupply DEF VotesInv, Current
<1>4. Ledger!SumFunction(Current) = SumFunctionOnSet(Current, Account)
  BY LedgerSums DEF Current
<1>5. SumFunctionOnSet(Current, Account) \in Int
  BY <1>2, TribeAssumption, SumIsInt DEF Current
<1>6. totalSupply \in Int /\ totalSupply <= Max96 /\ Max96 \in Int
  BY <1>1, TribeAssumption DEF TypeOK
<1> QED
  BY <1>2, <1>3, <1>4, <1>5, <1>6 DEF Current

LEMMA LedgerInit == Init => Ledger!Init
<1> SUFFICES ASSUME Init PROVE Ledger!Init
  OBVIOUS
<1>1. Current \in [Account -> 0 .. Max96] /\ Ledger!SumFunction(Current) <= Max96
  BY InitVotes, VotesAreLegal
<1>2. block = 1
  BY DEF Init
<1>3. Past = <<>>
  <2>1. 1 .. block - 1 = {}
    BY <1>2
  <2>2. Past = [b \in {} |-> [a \in Account |-> GetPriorVotes(a, b)]]
    BY <2>1 DEF Past
  <2> QED
    BY <2>2
<1> QED
  BY <1>1, <1>2, <1>3 DEF Ledger!Init, Current, Past

(* A block that ends is recorded with the votes of that moment. *)
LEMMA BlocksAreRecorded ==
  ASSUME VotesInv, VotesInv', AdvanceBlock
  PROVE  Ledger!FinishBlock
<1> DEFINE S == [Account -> Votes]
<1>1. /\ block \in Nat /\ block >= 1 /\ block' = block + 1 /\ checkpoints' = checkpoints
      /\ IInv /\ IInv' /\ [Next]_vars
  BY LedgerFromInvariant DEF VotesInv, AdvanceBlock, Next
<1>2. Current' = Current /\ Current \in S
  BY <1>1, VotesAreLegal DEF Current, Votes
<1>3. \A b \in 1 .. block - 1 : Past'[b] = Past[b]
  BY <1>1, RecordIsKept DEF Past
<1>4. ASSUME NEW b \in Nat, b = block
      PROVE  Past'[b] = Current
  <2>1. ASSUME NEW a \in Account
        PROVE  GetPriorVotes(a, b)' = GetCurrentVotes(checkpoints[a])
    <3>1. checkpoints[a] \in Seq(Checkpoint) /\ Ordered(checkpoints[a], b)
      BY <1>1, <1>4, LedgerFromInvariant DEF LedgerOK
    <3>2. VotesAt(checkpoints[a], b) = GetCurrentVotes(checkpoints[a])
      BY <1>4, <3>1, CurrentIsRecorded
    <3>3. GetPriorVotes(a, b)' = VotesAt(checkpoints'[a], b)
      BY <1>1, ReadsStayRecorded
    <3> QED
      BY <1>1, <3>2, <3>3
  <2>2. Past'[b] = [a \in Account |-> GetPriorVotes(a, b)']
    BY <1>1, <1>4 DEF Past
  <2> QED
    BY <2>1, <2>2 DEF Current
<1>5. /\ Past \in Seq(S) /\ Len(Past) = block - 1
      /\ Past' \in Seq(S) /\ Len(Past') = block
  <2>1. \A b \in 1 .. block - 1 : Past[b] \in S
    BY <1>1, ReadsAreRecorded DEF Past
  <2>2. \A b \in 1 .. block : Past'[b] \in S
    BY <1>1, <1>2, <1>3, <1>4, <2>1
  <2>3. Past \in [1 .. block - 1 -> S] /\ block - 1 \in Nat
    BY <1>1, <2>1 DEF Past
  <2>4. Past' \in [1 .. block -> S]
    <3>1. DOMAIN Past' = 1 .. block /\ Past' = [b \in DOMAIN Past' |-> Past'[b]]
      BY <1>1 DEF Past
    <3> QED
      BY <2>2, <3>1
  <2> HIDE DEF S
  <2>5. ASSUME NEW n \in Nat, NEW f \in [1 .. n -> S]
        PROVE  f \in Seq(S) /\ Len(f) = n
    <3>1. f \in Seq(S)
      BY SeqDef
    <3>2. Len(f) \in Nat /\ 1 .. Len(f) = 1 .. n
      BY <3>1, LenProperties
    <3> QED
      BY <3>1, <3>2
  <2> QED
    BY <1>1, <2>3, <2>4, <2>5
<1>6. Past' = Append(Past, Current)
  <2>1. /\ Append(Past, Current) \in Seq(S)
        /\ Len(Append(Past, Current)) = block
        /\ \A b \in 1 .. block - 1 : Append(Past, Current)[b] = Past[b]
        /\ Append(Past, Current)[block] = Current
    BY <1>1, <1>2, <1>5, AppendProperties
  <2>2. \A b \in 1 .. block : Past'[b] = Append(Past, Current)[b]
    <3>1. ASSUME NEW b \in 1 .. block PROVE Past'[b] = Append(Past, Current)[b]
      <4>1. CASE b \in 1 .. block - 1
        BY <1>3, <2>1, <4>1
      <4>2. CASE b = block
        BY <1>1, <1>4, <2>1, <4>2
      <4>3. block \in Nat
        BY <1>1
      <4>4. b \in 1 .. block - 1 \/ b = block
        BY <4>3
      <4> QED
        BY <4>1, <4>2, <4>4
    <3> QED
      BY <3>1
  <2> QED
    BY <1>5, <2>1, <2>2, SeqEqual
<1> QED
  BY <1>1, <1>2, <1>6 DEF Ledger!FinishBlock, Past, Current

LEMMA VotesStayLegal ==
  VotesInv' => (Current \in [Account -> 0 .. Max96] /\ Ledger!SumFunction(Current) <= Max96)'
BY VotesAreLegal, PTL

(* Every other call moves votes, or none. *)
LEMMA CallsMoveVotes ==
  ASSUME VotesInv, VotesInv', [Next]_vars, ~AdvanceBlock
  PROVE  Ledger!MoveVotes
<1>1. IInv /\ IInv' /\ block \in Nat
  BY DEF VotesInv, IInv, TypeOK
<1>2. block' = block
  BY <1>1, StepsMoveVotes
<1>3. Past' = Past
  BY <1>1, <1>2, RecordIsKept DEF Past
<1>4. Current' \in [Account -> 0 .. Max96] /\ Ledger!SumFunction(Current') <= Max96
  BY VotesStayLegal
<1> QED
  BY <1>2, <1>3, <1>4 DEF Ledger!MoveVotes, Current, Past

LEMMA LedgerNext == VotesInv /\ VotesInv' /\ [Next]_vars => [Ledger!Next]_(Ledger!vars)
BY BlocksAreRecorded, CallsMoveVotes DEF Ledger!Next

----------------------------------------------------------------------------
(* The theorems. *)

(* Every balance, allowance, vote and nonce keeps its width. *)
THEOREM TribeTypeCorrect == Spec => []TypeOK
<1>1. IInv => TypeOK
  BY DEF IInv
<1> QED
  BY <1>1, InitInvariant, NextInvariant, PTL DEF Spec

(* Tribe.sol:380-396.  The checkpoints of every delegate are in order, one   *)
(* for a block, and none is in the future: what the binary search needs.     *)
THEOREM CheckpointsStayOrdered == Spec => []CheckpointsOrdered
<1>1. IInv => CheckpointsOrdered
  BY DEF IInv
<1> QED
  BY <1>1, InitInvariant, NextInvariant, PTL DEF Spec

(* Tribe.sol:184, 277.  However many messages are signed, submitted late,    *)
(* twice or by strangers, each is accepted at most once.                     *)
THEOREM SignaturesCountOnce == Spec => []SignatureUsedOnce
<1>1. IInv => SignatureUsedOnce
  BY DEF IInv, SignaturesSpent, SignatureUsedOnce
<1> QED
  BY <1>1, InitInvariant, NextInvariant, PTL DEF Spec

(* Tribe.sol:299-331.  The early exits and the binary search of              *)
(* getPriorVotes find, for every history of a delegate and every finished    *)
(* block, the votes of the last checkpoint up to it.                         *)
THEOREM SearchIsCorrect == Spec => []PriorVotesCorrect
<1>1. IInv => PriorVotesCorrect
  <2>1. ASSUME IInv, NEW a \in Account, NEW b \in 0 .. block - 1
        PROVE  GetPriorVotes(a, b) = VotesAt(checkpoints[a], b)
    <3>1. b \in Nat
      BY <2>1 DEF IInv, TypeOK
    <3> QED
      BY <2>1, <3>1, ReadsAreRecorded
  <2> QED
    BY <2>1 DEF PriorVotesCorrect
<1> QED
  BY <1>1, InitInvariant, NextInvariant, PTL DEF Spec

(* Tribe.sol:358-378.  Through all mints, transfers and delegations, the     *)
(* votes of a delegate are the sum of the balances delegated to it.          *)
THEOREM VotesAreBalances == Spec => []VotesAreDelegatedBalances
<1>1. VotesInv => VotesAreDelegatedBalances
  BY DEF VotesInv
<1> QED
  BY <1>1, InitVotes, NextVotes, PTL DEF Spec

(* Tribe.sol:112-115, 351-352.  The balances always add up to the supply.    *)
THEOREM SupplyIsKept == Spec => []SupplyIsConserved
<1>1. VotesInv => SupplyIsConserved
  <2>1. VotesInv => DOMAIN balances = Account
    BY DEF VotesInv, IInv, TypeOK
  <2> QED
    BY <2>1 DEF VotesInv, SupplyIsConserved, SumFunction
<1> QED
  BY <1>1, InitVotes, NextVotes, PTL DEF Spec

(* Tribe.sol:299-331.  For every finished block, the votes that a governor   *)
(* reads for it add up to no more than the tokens that exist.                *)
THEOREM NoDoubleVotes == Spec => []NoTokenVotesTwice
<1>1. VotesInv => NoTokenVotesTwice
  <2>1. ASSUME VotesInv, NEW b \in 0 .. block - 1
        PROVE  SumFunction([a \in Account |-> GetPriorVotes(a, b)]) <= totalSupply
    <3>1. IInv /\ b \in Nat
      BY <2>1 DEF VotesInv, IInv, TypeOK
    <3>2. [a \in Account |-> GetPriorVotes(a, b)]
            = [a \in Account |-> VotesAt(checkpoints[a], b)]
      BY <3>1, ReadsAreRecorded
    <3>3. SumFunctionOnSet([a \in Account |-> VotesAt(checkpoints[a], b)], Account)
            <= totalSupply
      BY <2>1 DEF VotesInv, PastIsBacked
    <3>4. DOMAIN [a \in Account |-> VotesAt(checkpoints[a], b)] = Account
      OBVIOUS
    <3> QED
      BY <3>2, <3>3, <3>4 DEF SumFunction
  <2> QED
    BY <2>1 DEF NoTokenVotesTwice
<1> QED
  BY <1>1, InitVotes, NextVotes, PTL DEF Spec

(* Tribe.sol:249-396.  The token implements the ledger that a governor       *)
(* relies on: votes move in the current block only and within the supply,    *)
(* and what is read for a finished block never changes.                      *)
THEOREM LedgerIsKept == Spec => KeepsLedger
<1>1. Init => Ledger!Init
  BY LedgerInit
<1>2. VotesInv /\ VotesInv' /\ [Next]_vars => [Ledger!Next]_(Ledger!vars)
  BY LedgerNext
<1> QED
  BY <1>1, <1>2, InitVotes, NextVotes, PTL DEF Spec, KeepsLedger, Ledger!Spec
=============================================================================
