----------------------------- MODULE MinterProofs -----------------------------
(***************************************************************************)
(* The rate limits of GlobalRateLimitedMinter hold for every set of        *)
(* minters, every limit and every period.  Neither limit is inductive: it  *)
(* says nothing of what the buffers hold.  The invariant below adds that   *)
(* no buffer holds more than what is still due in the observed period.     *)
(***************************************************************************)
EXTENDS GlobalRateLimitedMinter, ArithmeticProofs

Used(b) == b.last <= now

BufferIsDue(p) ==
  IF Observed THEN Buffer(LimitOf(p), now) <= due[p] ELSE due[p] = 0

IInv ==
  /\ TypeOK
  /\ \A p \in Party : Used(LimitOf(p)) /\ BufferIsDue(p)

(* Every limit, the common one or that of an address, has its type. *)
LEMMA LimitType ==
  ASSUME TypeOK, NEW p \in Party
  PROVE  LimitOf(p) \in Limit /\ due[p] \in Int /\ now \in Nat
BY MinterAssumption DEF TypeOK, Party, LimitOf

(* The due amounts are never negative, in the period or before it. *)
LEMMA DueIsNatural ==
  ASSUME IInv, NEW p \in Party
  PROVE  due[p] >= 0
<1>1. LimitOf(p) \in Limit /\ due[p] \in Int /\ now \in Nat
  BY LimitType DEF IInv
<1>2. now >= LimitOf(p).last
  BY <1>1 DEF IInv, Used, Limit
<1>3. Buffer(LimitOf(p), now) \in Nat
  BY <1>1, <1>2, BufferType
<1> QED
  BY <1>1, <1>3 DEF IInv, BufferIsDue

LEMMA InitInvariant == Init => IInv
<1> SUFFICES ASSUME Init PROVE IInv
  OBVIOUS
<1> USE MinterAssumption
<1>1. Unregistered \in Limit /\ global \in Limit
  BY DEF Init, Unregistered, Limit
<1>2. TypeOK
  <2>1. \A a \in Minter : individual[a].cap < Modulus112 /\ individual[a].rate <= MaxRate
    <3>1. Unregistered.cap < Modulus112 /\ Unregistered.rate <= MaxRate
      BY DEF Unregistered
    <3>2. \A a \in Minter : individual[a] = Unregistered
      BY DEF Init
    <3> QED
      BY <3>1, <3>2
  <2>2. individual \in [Minter -> Limit]
    BY <1>1 DEF Init
  <2>3. due \in [Party -> Int] /\ start \in Nat /\ now \in Nat \ {0}
    BY DEF Init
  <2>4. global.rate <= MaxRate /\ paused \in BOOLEAN
    <3>1. global.rate = FirstRate /\ FirstRate <= MaxRate
      BY DEF Init
    <3> QED
      BY <3>1 DEF Init
  <2>5. individualMaxRateLimitPerSecond \in Nat /\ individualMaxBufferCap \in Nat
    BY DEF Init
  <2> QED
    BY <1>1, <2>1, <2>2, <2>3, <2>4, <2>5 DEF TypeOK
<1>3. ASSUME NEW p \in Party
      PROVE  Used(LimitOf(p)) /\ BufferIsDue(p)
  <2>1. CASE p = "all"
    <3>1. LimitOf(p) = global /\ global.last = 1 /\ global.cap = FirstCap /\ now = 1
      BY <2>1 DEF LimitOf, Init
    <3>2. Buffer(global, 1) <= FirstCap
      BY <1>1, <3>1, BufferType
    <3> QED
      BY <2>1, <3>1, <3>2 DEF Used, BufferIsDue, Observed, Init, Party
  <2>2. CASE p # "all"
    <3>1. LimitOf(p) = Unregistered /\ now = 1
      BY <2>2 DEF LimitOf, Init, Party
    <3>2. Buffer(Unregistered, 1) = 0
      <4>1. Unregistered.stored = 0 /\ Unregistered.rate = 0 /\ Unregistered.cap = 0
              /\ Unregistered.last = 0
        BY DEF Unregistered
      <4> QED
        BY <4>1 DEF Buffer, Lesser
    <3> QED
      BY <2>2, <3>1, <3>2 DEF Used, BufferIsDue, Observed, Init, Unregistered
  <2> QED
    BY <2>1, <2>2
<1> QED
  BY <1>2, <1>3 DEF IInv

(* A step that moves neither the clock nor what is due, and raises no buffer. *)
LEMMA BuffersKept ==
  ASSUME IInv, TypeOK', UNCHANGED <<now, observed>>,
         \A p \in Party : /\ Used(LimitOf(p))'
                          /\ Buffer(LimitOf(p), now)' <= Buffer(LimitOf(p), now)
  PROVE  IInv'
<1> SUFFICES ASSUME NEW p \in Party PROVE BufferIsDue(p)'
  BY DEF IInv
<1>1. due'[p] = due[p] /\ start' = start /\ now' = now
  BY DEF observed
<1>2. LimitOf(p) \in Limit /\ due[p] \in Int /\ now \in Nat /\ now >= LimitOf(p).last
  BY LimitType DEF IInv, Used, Limit
<1>3. LimitOf(p)' \in Limit /\ now' >= LimitOf(p).last'
  BY <1>1, LimitType, <1>2 DEF TypeOK, LimitOf, Party, Used, Limit
<1>4. Buffer(LimitOf(p), now) \in Nat /\ Buffer(LimitOf(p), now)' \in Nat
  BY <1>1, <1>2, <1>3, BufferType
<1> QED
  BY <1>1, <1>2, <1>4 DEF IInv, BufferIsDue, Observed

(* Neither the limits nor the clock change. *)
LEMMA SettingsInvariant ==
  ASSUME IInv, TypeOK', UNCHANGED <<now, global, individual, observed>>
  PROVE  IInv'
<1>1. ASSUME NEW p \in Party
      PROVE  Used(LimitOf(p))' /\ Buffer(LimitOf(p), now)' <= Buffer(LimitOf(p), now)
  <2>1. LimitOf(p)' = LimitOf(p) /\ now' = now
    BY DEF LimitOf
  <2>2. LimitOf(p) \in Limit /\ now \in Nat /\ now >= LimitOf(p).last /\ Used(LimitOf(p))
    BY LimitType DEF IInv, Used, Limit
  <2>3. Buffer(LimitOf(p), now) \in Nat
    BY <2>2, BufferType
  <2> QED
    BY <2>1, <2>2, <2>3 DEF Used
<1> QED
  BY <1>1, BuffersKept

(* The common limit is replaced by one that holds no more. *)
LEMMA GlobalInvariant ==
  ASSUME IInv, NEW new \in Limit, new.last = now, new.rate <= MaxRate,
         Buffer(new, now) <= Buffer(global, now),
         global' = new,
         UNCHANGED <<now, individual, roleMaxima, paused, observed>>
  PROVE  IInv'
<1>1. TypeOK'
  BY DEF IInv, TypeOK, roleMaxima, observed
<1>2. ASSUME NEW p \in Party
      PROVE  Used(LimitOf(p))' /\ Buffer(LimitOf(p), now)' <= Buffer(LimitOf(p), now)
  <2>1. LimitOf(p) \in Limit /\ now \in Nat /\ now >= LimitOf(p).last /\ Used(LimitOf(p))
    BY LimitType DEF IInv, Used, Limit
  <2>2. Buffer(LimitOf(p), now) \in Nat
    BY <2>1, BufferType
  <2>3. CASE p = "all"
    <3>1. LimitOf(p) = global /\ LimitOf(p)' = new /\ now' = now
      BY <2>3 DEF LimitOf
    <3> QED
      BY <2>1, <3>1 DEF Used
  <2>4. CASE p # "all"
    <3>1. LimitOf(p)' = LimitOf(p) /\ now' = now
      BY <2>4 DEF LimitOf
    <3> QED
      BY <2>1, <2>2, <3>1 DEF Used
  <2> QED
    BY <2>3, <2>4
<1> QED
  BY <1>1, <1>2, BuffersKept

(* The limit of one address is replaced by one that holds no more. *)
LEMMA IndividualInvariant ==
  ASSUME IInv, NEW a \in Minter, NEW new \in Limit, new.last <= now,
         new.rate <= MaxRate, new.cap < Modulus112,
         Buffer(new, now) <= IndividualBuffer(a),
         individual' = [individual EXCEPT ![a] = new],
         UNCHANGED <<now, global, roleMaxima, paused, observed>>
  PROVE  IInv'
<1>1. TypeOK'
  BY DEF IInv, TypeOK, roleMaxima, observed
<1>2. ASSUME NEW p \in Party
      PROVE  Used(LimitOf(p))' /\ Buffer(LimitOf(p), now)' <= Buffer(LimitOf(p), now)
  <2>1. LimitOf(p) \in Limit /\ now \in Nat /\ now >= LimitOf(p).last /\ Used(LimitOf(p))
    BY LimitType DEF IInv, Used, Limit
  <2>2. Buffer(LimitOf(p), now) \in Nat
    BY <2>1, BufferType
  <2>3. CASE p = a
    <3>1. LimitOf(p) = individual[a] /\ LimitOf(p)' = new /\ now' = now
      BY <2>3, MinterAssumption DEF LimitOf, IInv, TypeOK
    <3> QED
      BY <2>1, <3>1 DEF Used, IndividualBuffer
  <2>4. CASE p # a
    <3>1. LimitOf(p)' = LimitOf(p) /\ now' = now
      BY <2>4 DEF LimitOf, Party, IInv, TypeOK
    <3> QED
      BY <2>1, <2>2, <3>1 DEF Used
  <2> QED
    BY <2>3, <2>4
<1> QED
  BY <1>1, <1>2, BuffersKept

(* MultiRateLimited.sol:229-251.  A full buffer, and as much is due. *)
LEMMA RegisterInvariant ==
  ASSUME IInv, NEW a \in Minter, NEW rate \in Nat, NEW cap \in Nat,
         cap < Modulus112, Register(a, rate, cap)
  PROVE  IInv'
<1> DEFINE new == [stored |-> cap, cap |-> cap, rate |-> rate, last |-> now]
<1>1. new \in Limit /\ now \in Nat \ {0} /\ rate <= MaxRate
  BY DEF Limit, IInv, TypeOK, Register
<1>2. a # "all" /\ a \in Party
  BY MinterAssumption DEF Party
<1>3. /\ individual' = [individual EXCEPT ![a] = new]
      /\ due' = IF Observed THEN [due EXCEPT ![a] = cap] ELSE due
      /\ UNCHANGED <<now, global, roleMaxima, paused, start>>
  BY DEF Register
<1>4. due' \in [Party -> Int] /\ individual' \in [Minter -> Limit]
  <2>1. individual \in [Minter -> Limit] /\ due \in [Party -> Int] /\ cap \in Int
    BY DEF IInv, TypeOK
  <2>2. individual' \in [Minter -> Limit]
    BY <1>1, <1>3, <2>1
  <2>3. [due EXCEPT ![a] = cap] \in [Party -> Int]
    BY <2>1
  <2> QED
    BY <1>3, <2>1, <2>2, <2>3
<1>5. TypeOK'
  BY <1>1, <1>3, <1>4 DEF IInv, TypeOK, roleMaxima
<1>6. ASSUME NEW p \in Party
      PROVE  Used(LimitOf(p))' /\ BufferIsDue(p)'
  <2>1. CASE p = a
    <3>1. LimitOf(p)' = new /\ now' = now /\ start' = start
      BY <1>2, <1>3, <2>1 DEF LimitOf, IInv, TypeOK
    <3>2. Buffer(new, now) <= cap /\ new.last = now
      BY <1>1, BufferType
    <3>3. due'[p] = IF Observed THEN cap ELSE due[p]
      BY <1>2, <1>3, <2>1 DEF IInv, TypeOK
    <3>4. Buffer(new, now) \in Nat
      BY <1>1, BufferType
    <3> QED
      BY <1>1, <3>1, <3>2, <3>3, <3>4 DEF Used, BufferIsDue, Observed, IInv
  <2>2. CASE p # a
    <3>1. LimitOf(p)' = LimitOf(p) /\ due'[p] = due[p] /\ now' = now /\ start' = start
      BY <1>3, <2>2 DEF LimitOf, Party, IInv, TypeOK
    <3> QED
      BY <3>1 DEF Used, BufferIsDue, Observed, IInv
  <2> QED
    BY <2>1, <2>2
<1> QED
  BY <1>5, <1>6 DEF IInv

(* GlobalRateLimitedMinter.sol:41-55.  A mint comes out of both buffers. *)
LEMMA MintInvariant ==
  ASSUME IInv, NEW a \in Minter, NEW amount \in Nat, Mint(a, amount)
  PROVE  IInv'
<1> DEFINE common == Deplete(global, now, amount)
           own == Deplete(individual[a], now, amount)
<1>1. /\ global' = common
      /\ individual' = [individual EXCEPT ![a] = own]
      /\ due' = Spent({"all", a}, amount)
      /\ UNCHANGED <<now, roleMaxima, paused, start>>
  BY DEF Mint, DepleteIndividualBuffer
<1>2. a # "all" /\ a \in Party /\ "all" \in Party
  BY MinterAssumption DEF Party
<1>3. /\ global \in Limit /\ individual[a] \in Limit /\ now \in Nat
      /\ now >= global.last /\ now >= individual[a].last
  BY <1>2 DEF IInv, TypeOK, Used, LimitOf, Limit
<1>4. CanDeplete(global, now, amount) /\ CanDeplete(individual[a], now, amount)
  BY DEF Mint, DepleteIndividualBuffer
<1>5. /\ common \in Limit /\ common.last = now /\ common.rate = global.rate
      /\ Buffer(common, now) = Buffer(global, now) - amount
  BY <1>3, <1>4, DepleteType
<1>6. /\ own \in Limit /\ own.last = now
      /\ own.rate = individual[a].rate /\ own.cap = individual[a].cap
      /\ Buffer(own, now) = Buffer(individual[a], now) - amount
  BY <1>3, <1>4, DepleteType
<1> HIDE DEF common, own
<1>7. \A p \in Party : due'[p] = IF Observed /\ p \in {"all", a} THEN due[p] - amount ELSE due[p]
  BY <1>1 DEF Spent
<1>8. TypeOK'
  <2>1. due \in [Party -> Int] /\ amount \in Int
    BY DEF IInv, TypeOK
  <2>2. due' \in [Party -> Int]
    <3>1. [p \in Party |-> IF p \in {"all", a} THEN due[p] - amount ELSE due[p]]
            \in [Party -> Int]
      BY <2>1
    <3> QED
      BY <1>1, <2>1, <3>1 DEF Spent
  <2>3. individual' \in [Minter -> Limit]
    BY <1>1, <1>6 DEF IInv, TypeOK
  <2>4. \A m \in Minter : individual'[m].cap < Modulus112 /\ individual'[m].rate <= MaxRate
    <3>1. \A m \in Minter : /\ individual'[m].cap = individual[m].cap
                            /\ individual'[m].rate = individual[m].rate
      BY <1>1, <1>6 DEF IInv, TypeOK
    <3> QED
      BY <3>1 DEF IInv, TypeOK
  <2>5. global' \in Limit /\ global'.rate <= MaxRate
    BY <1>1, <1>5 DEF IInv, TypeOK
  <2>6. /\ UNCHANGED <<now, individualMaxRateLimitPerSecond, individualMaxBufferCap,
                       paused, start>>
    BY <1>1 DEF roleMaxima
  <2> QED
    BY <2>2, <2>3, <2>4, <2>5, <2>6 DEF IInv, TypeOK
<1>9. ASSUME NEW p \in Party
      PROVE  Used(LimitOf(p))' /\ BufferIsDue(p)'
  <2>1. /\ now' = now /\ start' = start /\ due[p] \in Int /\ now \in Nat
        /\ Used(LimitOf(p)) /\ BufferIsDue(p) /\ LimitOf(p) \in Limit
    BY <1>1, LimitType DEF IInv
  <2>2. now >= LimitOf(p).last
    BY <2>1 DEF Used, Limit
  <2>3. Buffer(LimitOf(p), now) \in Nat /\ Buffer(LimitOf(p), now) <= LimitOf(p).cap
    BY <2>1, <2>2, BufferType
  <2>4. CASE p = "all"
    <3>1. LimitOf(p) = global /\ LimitOf(p)' = common
      BY <1>1, <2>4 DEF LimitOf
    <3>2. Buffer(common, now) = Buffer(LimitOf(p), now) - amount
      BY <1>5, <3>1
    <3>3. Used(LimitOf(p))'
      BY <1>5, <2>1, <3>1 DEF Used
    <3>4. BufferIsDue(p)'
      <4>1. CASE Observed
        BY <1>2, <1>7, <2>1, <2>3, <2>4, <3>1, <3>2, <4>1 DEF BufferIsDue, Observed
      <4>2. CASE ~Observed
        BY <1>7, <2>1, <3>1, <4>2 DEF BufferIsDue, Observed
      <4> QED
        BY <4>1, <4>2
    <3> QED
      BY <3>3, <3>4
  <2>5. CASE p = a
    <3>1. LimitOf(p) = individual[a] /\ LimitOf(p)' = own
      BY <1>1, <1>2, <2>5 DEF LimitOf, IInv, TypeOK
    <3>2. Buffer(own, now) = Buffer(LimitOf(p), now) - amount
      BY <1>6, <3>1
    <3>3. Used(LimitOf(p))'
      BY <1>6, <2>1, <3>1 DEF Used
    <3>4. BufferIsDue(p)'
      <4>1. CASE Observed
        BY <1>2, <1>7, <2>1, <2>3, <2>5, <3>1, <3>2, <4>1 DEF BufferIsDue, Observed
      <4>2. CASE ~Observed
        BY <1>7, <2>1, <3>1, <4>2 DEF BufferIsDue, Observed
      <4> QED
        BY <4>1, <4>2
    <3> QED
      BY <3>3, <3>4
  <2>6. CASE p \notin {"all", a}
    <3>1. LimitOf(p)' = LimitOf(p) /\ due'[p] = due[p]
      BY <1>1, <1>7, <2>6 DEF LimitOf, Party, IInv, TypeOK
    <3> QED
      BY <2>1, <3>1 DEF Used, BufferIsDue, Observed
  <2> QED
    BY <2>4, <2>5, <2>6
<1> QED
  BY <1>8, <1>9 DEF IInv

(* A second refills each buffer by its rate at most, and as much becomes due. *)
LEMMA AdvanceTimeInvariant ==
  ASSUME IInv, AdvanceTime
  PROVE  IInv'
<1>1. /\ now' = now + 1
      /\ due' = [p \in Party |-> CASE Observed -> due[p] + LimitOf(p).rate
                                   [] now' = start -> LimitOf(p).cap
                                   [] OTHER -> due[p]]
      /\ UNCHANGED <<global, individual, roleMaxima, paused, start>>
  BY DEF AdvanceTime
<1>2. now \in Nat /\ start \in Nat
  BY DEF IInv, TypeOK
<1>3. ASSUME NEW p \in Party
      PROVE  due'[p] \in Int /\ Used(LimitOf(p))' /\ BufferIsDue(p)'
  <2>1. LimitOf(p) \in Limit /\ due[p] \in Int /\ Used(LimitOf(p)) /\ BufferIsDue(p)
    BY LimitType DEF IInv
  <2>2. /\ now >= LimitOf(p).last /\ now + 1 >= LimitOf(p).last /\ now + 1 \in Nat
        /\ LimitOf(p).rate \in Nat /\ LimitOf(p).cap \in Nat
    BY <1>2, <2>1 DEF Used, Limit
  <2>3. LimitOf(p)' = LimitOf(p)
    BY <1>1 DEF LimitOf
  <2>4. Buffer(LimitOf(p), now + 1) <= Buffer(LimitOf(p), now) + LimitOf(p).rate
    BY <1>2, <2>1, <2>2, BufferTick
  <2>5. /\ Buffer(LimitOf(p), now + 1) \in Nat
        /\ Buffer(LimitOf(p), now + 1) <= LimitOf(p).cap
    BY <2>1, <2>2, BufferType
  <2>6. Buffer(LimitOf(p), now) \in Nat
    BY <1>2, <2>1, <2>2, BufferType
  <2>7. Used(LimitOf(p))'
    BY <1>1, <1>2, <2>1, <2>2, <2>3 DEF Used
  <2>8. CASE Observed
    <3>1. now' # start
      BY <1>1, <1>2, <2>8 DEF Observed
    <3>2. due'[p] = due[p] + LimitOf(p).rate
      BY <1>1, <2>8, <3>1
    <3> QED
      BY <1>1, <1>2, <2>1, <2>2, <2>3, <2>4, <2>5, <2>6, <2>7, <2>8, <3>2
      DEF BufferIsDue, Observed
  <2>9. CASE ~Observed /\ now + 1 = start
    <3>1. due'[p] = LimitOf(p).cap
      BY <1>1, <2>9
    <3> QED
      BY <1>1, <1>2, <2>2, <2>3, <2>5, <2>7, <2>9, <3>1 DEF BufferIsDue, Observed
  <2>10. CASE ~Observed /\ now + 1 # start
    <3>1. due'[p] = due[p]
      BY <1>1, <2>10
    <3> QED
      BY <1>1, <1>2, <2>1, <2>3, <2>7, <2>10, <3>1 DEF BufferIsDue, Observed
  <2> QED
    BY <2>8, <2>9, <2>10
<1>4. due' \in [Party -> Int]
  BY <1>1, <1>3
<1>5. TypeOK'
  BY <1>1, <1>2, <1>4 DEF IInv, TypeOK, roleMaxima
<1> QED
  BY <1>3, <1>5 DEF IInv

(* Each transaction keeps the invariant. *)
LEMMA NextInvariant ==
  ASSUME IInv, [Next]_vars
  PROVE  IInv'
<1> USE MinterAssumption
<1>1. /\ global \in Limit /\ now \in Nat /\ now >= global.last
      /\ global.rate \in Nat /\ global.rate <= MaxRate
  BY DEF IInv, TypeOK, Used, LimitOf, Party, Limit
<1>2. ASSUME NEW a \in Minter
      PROVE  /\ individual[a] \in Limit /\ now >= individual[a].last
             /\ individual[a].last <= now
             /\ IndividualBuffer(a) \in Nat
  <2>1. individual[a] \in Limit /\ individual[a].last <= now
    BY DEF IInv, TypeOK, Used, LimitOf, Party
  <2>2. now >= individual[a].last
    BY <1>1, <2>1 DEF Limit
  <2> QED
    BY <1>1, <2>1, <2>2, BufferType DEF IndividualBuffer
<1>3. Buffer(global, now) \in Nat
  BY <1>1, BufferType
<1>4. CASE AdvanceTime
  BY <1>4, AdvanceTimeInvariant
<1>5. ASSUME NEW caller \in Account, NEW r \in Rates, SetRateLimitPerSecond(caller, r)
      PROVE  IInv'
  <2>1. /\ SetRate(global, now, r) \in Limit
        /\ SetRate(global, now, r).last = now /\ SetRate(global, now, r).rate = r
        /\ Buffer(SetRate(global, now, r), now) = Buffer(global, now)
    BY <1>1, SetRateType
  <2>2. Buffer(SetRate(global, now, r), now) <= Buffer(global, now)
    BY <1>3, <2>1
  <2> QED
    BY <1>5, <2>1, <2>2, GlobalInvariant DEF SetRateLimitPerSecond
<1>6. ASSUME NEW caller \in Account, NEW c \in Caps, SetBufferCap(caller, c)
      PROVE  IInv'
  <2>1. /\ SetCap(global, now, c) \in Limit
        /\ SetCap(global, now, c).last = now /\ SetCap(global, now, c).rate = global.rate
        /\ Buffer(SetCap(global, now, c), now) <= Buffer(global, now)
    BY <1>1, SetCapType
  <2> QED
    BY <1>1, <1>6, <2>1, GlobalInvariant DEF SetBufferCap
<1>7. ASSUME NEW caller \in Account, NEW n \in Rates \cup Caps,
             \/ UpdateMaxRateLimitPerSecond(caller, n)
             \/ UpdateMaxBufferCap(caller, n)
      PROVE  IInv'
  <2>1. UNCHANGED <<now, global, individual, observed>>
    BY <1>7 DEF UpdateMaxRateLimitPerSecond, UpdateMaxBufferCap
  <2>2. /\ individualMaxRateLimitPerSecond' \in Nat
        /\ individualMaxBufferCap' \in Nat /\ paused' \in BOOLEAN
    BY <1>7 DEF UpdateMaxRateLimitPerSecond, UpdateMaxBufferCap, IInv, TypeOK
  <2>3. TypeOK'
    BY <2>1, <2>2 DEF IInv, TypeOK, observed
  <2> QED
    BY <2>1, <2>3, SettingsInvariant
<1>8. ASSUME NEW caller \in Account, NEW a \in Minter,
             NEW r \in Rates \cap uint112, NEW c \in Caps \cap uint112,
             \/ AddAddress(caller, a, r, c)
             \/ AddAddressAsMinterWithin(caller, a, r, c)
      PROVE  IInv'
  <2>1. Register(a, r, c) /\ c \in Nat /\ r \in Nat /\ c < Modulus112
    BY <1>8 DEF AddAddress, AddAddressAsMinterWithin, uint112
  <2> QED
    BY <2>1, RegisterInvariant
<1>9. ASSUME NEW caller \in Account, NEW a \in Minter, AddAddressAsMinter(caller, a)
      PROVE  IInv'
  <2>1. \A n \in Nat : As112(n) \in Nat /\ As112(n) < Modulus112
    BY DEF As112
  <2>2. individualMaxRateLimitPerSecond \in Nat /\ individualMaxBufferCap \in Nat
    BY DEF IInv, TypeOK
  <2> QED
    BY <1>9, <2>1, <2>2, RegisterInvariant DEF AddAddressAsMinter
<1>10. ASSUME NEW caller \in Account, NEW a \in Minter,
              NEW r \in Rates \cap uint112, NEW c \in Caps \cap uint112,
              UpdateAddress(caller, a, r, c)
       PROVE  IInv'
  <2> DEFINE new == [stored |-> IndividualBuffer(a), cap |-> c, rate |-> r, last |-> now]
  <2>1. c \in Nat /\ r \in Nat /\ c < Modulus112 /\ r <= MaxRate
    BY <1>10 DEF UpdateAddress, uint112
  <2>2. new \in Limit /\ new.last = now /\ new.stored = IndividualBuffer(a) /\ new.cap = c
    BY <1>1, <1>2, <2>1 DEF Limit
  <2>3. Buffer(new, now) = Lesser(IndividualBuffer(a), c)
    BY <1>1, <2>2, BufferNow
  <2>4. Buffer(new, now) <= IndividualBuffer(a)
    BY <1>2, <2>1, <2>3 DEF Lesser
  <2>5. new.last <= now /\ new.rate <= MaxRate /\ new.cap < Modulus112
    BY <1>1, <2>1
  <2>6. /\ individual' = [individual EXCEPT ![a] = new]
        /\ UNCHANGED <<now, global, roleMaxima, paused, observed>>
    BY <1>10 DEF UpdateAddress
  <2> HIDE DEF new
  <2> QED
    BY <2>2, <2>4, <2>5, <2>6, IndividualInvariant
<1>11. ASSUME NEW caller \in Account, NEW a \in Minter, RemoveAddress(caller, a)
       PROVE  IInv'
  <2>1. /\ Unregistered \in Limit /\ Unregistered.last = 0 /\ Unregistered.stored = 0
        /\ Unregistered.rate = 0 /\ Unregistered.cap = 0
    BY DEF Unregistered, Limit
  <2>2. Buffer(Unregistered, now) = 0
    BY <1>1, <2>1 DEF Buffer, Lesser
  <2>3. /\ Unregistered.last <= now /\ Unregistered.rate <= MaxRate
        /\ Unregistered.cap < Modulus112 /\ Buffer(Unregistered, now) <= IndividualBuffer(a)
    BY <1>1, <1>2, <2>1, <2>2
  <2> QED
    BY <1>11, <2>1, <2>3, IndividualInvariant DEF RemoveAddress
<1>12. ASSUME NEW caller \in Account, NEW n \in Amounts, Mint(caller, n)
       PROVE  IInv'
  <2>1. caller \in Minter /\ n \in Nat
    BY <1>12 DEF Mint
  <2> QED
    BY <1>12, <2>1, MintInvariant
<1>13. ASSUME NEW caller \in Minter, MintMaxAllowableFei(caller)
       PROVE  IInv'
  <2>1. Lesser(IndividualBuffer(caller), Buffer(global, now)) \in Nat
    BY <1>2, <1>3 DEF Lesser
  <2> QED
    BY <1>13, <2>1, MintInvariant DEF MintMaxAllowableFei
<1>14. ASSUME NEW caller \in Account, Pause(caller) \/ Unpause(caller)
       PROVE  IInv'
  <2>1. UNCHANGED <<now, global, individual, observed, roleMaxima>> /\ paused' \in BOOLEAN
    BY <1>14 DEF Pause, Unpause
  <2>2. TypeOK'
    BY <2>1 DEF IInv, TypeOK, observed, roleMaxima
  <2> QED
    BY <2>1, <2>2, SettingsInvariant
<1>15. CASE UNCHANGED vars
  <2>1. UNCHANGED <<now, global, individual, observed, roleMaxima, paused>>
    BY <1>15 DEF vars
  <2>2. TypeOK'
    BY <2>1 DEF IInv, TypeOK, observed, roleMaxima
  <2> QED
    BY <2>1, <2>2, SettingsInvariant
<1> QED
  BY <1>4, <1>5, <1>6, <1>7, <1>8, <1>9, <1>10, <1>11, <1>12, <1>13, <1>14, <1>15
  DEF Next

THEOREM Invariance == Spec => []IInv
<1>1. Init => IInv
  BY InitInvariant
<1>2. IInv /\ [Next]_vars => IInv'
  BY NextInvariant
<1> QED
  BY <1>1, <1>2, PTL DEF Spec

(* The limits, the maxima and the clock keep their types. *)
THEOREM MinterTypeCorrect == Spec => []TypeOK
<1>1. IInv => TypeOK
  BY DEF IInv
<1> QED
  BY <1>1, Invariance, PTL

(* RateLimited.sol:63-95.  In every period, all minters together mint no more   *)
(* than the common cap and rate allow, whoever changes the limits meanwhile.     *)
THEOREM GlobalLimitSafe == Spec => []GlobalLimitHolds
<1>1. IInv => GlobalLimitHolds
  BY DueIsNatural DEF GlobalLimitHolds, Party
<1> QED
  BY <1>1, Invariance, PTL

(* MultiRateLimited.sol:256-274.  The same for each address and its own limit. *)
THEOREM IndividualLimitSafe == Spec => []IndividualLimitHolds
<1>1. IInv => IndividualLimitHolds
  BY DueIsNatural DEF IndividualLimitHolds, Party
<1> QED
  BY <1>1, Invariance, PTL

----------------------------------------------------------------------------
(* GlobalRateLimitedMinter implements TokenBucket, once for the common     *)
(* limit and once for each address.  An address's bucket also needs that a *)
(* limit which is not registered holds nothing, or a registration would    *)
(* fill a bucket in use.                                                   *)

UnregisteredIsEmpty == \A a \in Minter : ~Registered(a) => individual[a].cap = 0

(* The limits have their types and were used by now. *)
LEMMA Limits ==
  ASSUME IInv
  PROVE  /\ now \in Nat \ {0}
         /\ global \in Limit /\ now >= global.last
         /\ Buffer(global, now) \in Nat /\ Buffer(global, now) <= global.cap
         /\ \A a \in Minter :
              /\ individual[a] \in Limit /\ now >= individual[a].last
              /\ IndividualBuffer(a) \in Nat /\ IndividualBuffer(a) <= individual[a].cap
<1>1. now \in Nat \ {0} /\ global \in Limit /\ individual \in [Minter -> Limit]
  BY DEF IInv, TypeOK
<1>2. /\ global.last <= now /\ global.last \in Nat
      /\ \A a \in Minter : individual[a].last <= now /\ individual[a].last \in Nat
  <2>1. LimitOf("all") = global /\ \A a \in Minter : LimitOf(a) = individual[a]
    BY MinterAssumption DEF LimitOf
  <2>2. \A p \in Party : LimitOf(p).last <= now
    BY DEF IInv, Used
  <2> QED
    BY <1>1, <2>1, <2>2 DEF Party, Limit
<1>3. now >= global.last /\ \A a \in Minter : now >= individual[a].last
  BY <1>1, <1>2
<1> QED
  BY <1>1, <1>3, BufferType DEF IndividualBuffer

----------------------------------------------------------------------------
(* The common limit. *)

(* Every step of the minter is one of the bucket, or leaves it alone. *)
LEMMA GlobalStep ==
  ASSUME IInv, [Next]_vars
  PROVE  [Global!Limit]_(Global!vars)
<1> USE MinterAssumption
<1>1. /\ now \in Nat \ {0} /\ global \in Limit /\ now >= global.last
      /\ Buffer(global, now) \in Nat /\ Buffer(global, now) <= global.cap
      /\ global.cap \in Nat /\ global.rate \in Nat
  BY Limits DEF Limit
<1>2. ASSUME UNCHANGED <<now, global>>
      PROVE  UNCHANGED Global!vars
  BY <1>2 DEF Global!vars, Buffer
<1>3. CASE AdvanceTime
  <2>1. now' = now + 1 /\ global' = global
    BY <1>3 DEF AdvanceTime
  <2>2. Buffer(global, now)' = Lesser(Buffer(global, now) + global.rate, global.cap)
    BY <1>1, <2>1, BufferRefill
  <2>3. Global!Refill
    BY <2>1, <2>2 DEF Global!Refill, Global!Lesser, Lesser
  <2> QED
    BY <2>3 DEF Global!Limit
<1>4. ASSUME NEW caller \in Account, NEW r \in Rates, SetRateLimitPerSecond(caller, r)
      PROVE  Global!Limit
  <2>1. r \in Nat /\ global' = SetRate(global, now, r) /\ now' = now
    BY <1>4 DEF SetRateLimitPerSecond
  <2>2. global'.rate = r /\ global'.cap = global.cap /\ Buffer(global, now)' = Buffer(global, now)
    BY <1>1, <2>1, SetRateType, SetRateCap
  <2>3. Global!Adjust
    BY <1>1, <2>1, <2>2 DEF Global!Adjust, Global!Lesser
  <2> QED
    BY <2>3 DEF Global!Limit
<1>5. ASSUME NEW caller \in Account, NEW c \in Caps, SetBufferCap(caller, c)
      PROVE  Global!Limit
  <2>1. c \in Nat /\ global' = SetCap(global, now, c) /\ now' = now
    BY <1>5 DEF SetBufferCap
  <2>2. /\ global'.rate = global.rate /\ global'.cap = c
        /\ Buffer(global, now)' = Lesser(Buffer(global, now), c)
    BY <1>1, <2>1, SetCapType, SetCapCuts
  <2>3. Global!Adjust
    BY <1>1, <2>1, <2>2 DEF Global!Adjust, Global!Lesser, Lesser
  <2> QED
    BY <2>3 DEF Global!Limit
<1>6. ASSUME NEW caller, NEW n \in Nat, Mint(caller, n)
      PROVE  Global!Limit
  <2>1. global' = Deplete(global, now, n) /\ CanDeplete(global, now, n) /\ now' = now
    BY <1>6 DEF Mint, DepleteIndividualBuffer
  <2>2. /\ global'.rate = global.rate /\ global'.cap = global.cap
        /\ Buffer(global, now)' = Buffer(global, now) - n
    BY <1>1, <2>1, DepleteType
  <2>3. n <= Buffer(global, now)
    BY <2>1 DEF CanDeplete
  <2>4. Buffer(global, now) - n \in 0 .. Buffer(global, now)
    BY <1>1, <2>3
  <2>5. Global!Spend
    BY <2>2, <2>4 DEF Global!Spend
  <2> QED
    BY <2>5 DEF Global!Limit
<1>7. ASSUME NEW caller \in Account, NEW n \in Amounts, Mint(caller, n)
      PROVE  Global!Limit
  BY <1>6, <1>7
<1>8. ASSUME NEW caller \in Minter, MintMaxAllowableFei(caller)
      PROVE  Global!Limit
  <2>1. Lesser(IndividualBuffer(caller), Buffer(global, now)) \in Nat
    BY Limits DEF Lesser
  <2> QED
    BY <1>6, <1>8, <2>1 DEF MintMaxAllowableFei
<1>9. ASSUME NEW caller \in Account, NEW n, NEW a \in Minter, NEW r, NEW c,
             \/ UpdateMaxRateLimitPerSecond(caller, n) \/ UpdateMaxBufferCap(caller, n)
             \/ AddAddress(caller, a, r, c) \/ AddAddressAsMinterWithin(caller, a, r, c)
             \/ UpdateAddress(caller, a, r, c)
             \/ AddAddressAsMinter(caller, a) \/ RemoveAddress(caller, a)
      PROVE  UNCHANGED <<now, global>>
  BY <1>9 DEF UpdateMaxRateLimitPerSecond, UpdateMaxBufferCap, AddAddress, Register,
     AddAddressAsMinterWithin, UpdateAddress, AddAddressAsMinter, RemoveAddress
<1>10. ASSUME NEW caller \in Account,
              \/ \E r \in Rates : UpdateMaxRateLimitPerSecond(caller, r)
              \/ \E c \in Caps : UpdateMaxBufferCap(caller, c)
              \/ Pause(caller) \/ Unpause(caller)
       PROVE  UNCHANGED <<now, global>>
  BY <1>10 DEF UpdateMaxRateLimitPerSecond, UpdateMaxBufferCap, Pause, Unpause
<1>11. CASE UNCHANGED vars
  BY <1>2, <1>11 DEF vars
<1> QED
  BY <1>2, <1>3, <1>4, <1>5, <1>7, <1>8, <1>9, <1>10, <1>11 DEF Next

(* RateLimited.sol:63-138.  The common limit is a bucket that every second       *)
(* refills, for any limits and any order of calls.                              *)
THEOREM GlobalImplementsBucket == Spec => GlobalIsBucket
<1>1. Init => Global!Full
  <2> SUFFICES ASSUME Init PROVE Global!Full
    OBVIOUS
  <2>1. global = [stored |-> FirstCap, cap |-> FirstCap, rate |-> FirstRate, last |-> now]
          /\ now = 1
    BY DEF Init
  <2>2. FirstCap \in Nat /\ FirstRate \in Nat
    BY MinterAssumption
  <2>3. global \in Limit /\ global.last = now /\ now \in Nat
    BY <2>1, <2>2 DEF Limit
  <2>4. Buffer(global, now) = Lesser(FirstCap, FirstCap)
    BY <2>1, <2>3, BufferNow
  <2> QED
    BY <2>1, <2>2, <2>4 DEF Global!Full, Lesser
<1>2. IInv /\ [Next]_vars => [Global!Limit]_(Global!vars)
  BY GlobalStep
<1> QED
  BY <1>1, <1>2, Invariance, PTL DEF Spec, GlobalIsBucket, Global!Spec
----------------------------------------------------------------------------
(* The limit of each address. *)

(* What a step does to the limit of one address. *)
LEMMA IndividualStep ==
  ASSUME IInv, UnregisteredIsEmpty, [Next]_vars, NEW a \in Minter
  PROVE  /\ [Individual(a)!Leased]_(Individual(a)!vars)
         /\ individual'[a].last = 0 => individual'[a].cap = 0
<1> USE MinterAssumption
<1> DEFINE bucket == /\ [Individual(a)!Leased]_(Individual(a)!vars)
                     /\ individual'[a].last = 0 => individual'[a].cap = 0
<1>1. /\ now \in Nat \ {0} /\ individual[a] \in Limit /\ now >= individual[a].last
      /\ IndividualBuffer(a) \in Nat /\ IndividualBuffer(a) <= individual[a].cap
      /\ individual[a].cap \in Nat /\ individual[a].rate \in Nat
      /\ individual \in [Minter -> Limit]
      /\ individual[a].last = 0 => individual[a].cap = 0
  <2>1. individual[a].last = 0 => individual[a].cap = 0
    BY DEF UnregisteredIsEmpty, Registered
  <2>2. individual \in [Minter -> Limit]
    BY DEF IInv, TypeOK
  <2> QED
    BY <2>1, <2>2, Limits DEF Limit
<1>2. ASSUME now' = now, individual'[a] = individual[a]
      PROVE  bucket
  <2>1. IndividualBuffer(a)' = IndividualBuffer(a)
    BY <1>2 DEF IndividualBuffer, Buffer
  <2>2. UNCHANGED Individual(a)!vars
    BY <1>2, <2>1 DEF Individual!vars
  <2> QED
    BY <1>1, <1>2, <2>2
<1>3. ASSUME AdvanceTime
      PROVE  bucket
  <2>1. now' = now + 1 /\ individual' = individual
    BY <1>3 DEF AdvanceTime
  <2>2. IndividualBuffer(a)' = Lesser(IndividualBuffer(a) + individual[a].rate, individual[a].cap)
    BY <1>1, <2>1, BufferRefill DEF IndividualBuffer
  <2>3. Individual(a)!Refill
    BY <2>1, <2>2 DEF Individual!Refill, Individual!Lesser, Lesser
  <2> QED
    BY <1>1, <2>1, <2>3 DEF Individual!Limit, Individual!Leased
<1>4. ASSUME NEW m \in Minter, NEW r \in Nat, NEW c \in Nat, Register(m, r, c)
      PROVE  bucket
  <2> DEFINE new == [stored |-> c, cap |-> c, rate |-> r, last |-> now]
  <2>1. individual' = [individual EXCEPT ![m] = new] /\ now' = now
    BY <1>4 DEF Register
  <2>2. new \in Limit /\ new.last = now /\ new.cap = c /\ new.rate = r /\ new.stored = c
    BY <1>1 DEF Limit
  <2>3. Buffer(new, now) = c
    BY <1>1, <2>2, BufferNow DEF Lesser
  <2> HIDE DEF new
  <2>4. CASE m = a
    <3>1. individual'[a] = new
      BY <1>1, <2>1, <2>4
    <3>2. individual[a].cap = 0
      BY <1>1, <1>4, <2>4 DEF Register, Registered
    <3>3. IndividualBuffer(a) = 0
      BY <1>1, <3>2
    <3>4. IndividualBuffer(a)' = c
      BY <2>1, <2>3, <3>1 DEF IndividualBuffer
    <3>5. Individual(a)!Open
      BY <2>2, <3>1, <3>2, <3>3, <3>4 DEF Individual!Open, Individual!Full
    <3> QED
      BY <1>1, <2>2, <3>1, <3>5 DEF Individual!Leased
  <2>5. CASE m # a
    BY <1>1, <1>2, <2>1, <2>5
  <2> QED
    BY <2>4, <2>5
<1>5. ASSUME NEW caller, NEW m \in Minter, NEW r \in Nat, NEW c \in Nat,
             UpdateAddress(caller, m, r, c)
      PROVE  bucket
  <2> DEFINE new == [stored |-> IndividualBuffer(m), cap |-> c, rate |-> r, last |-> now]
  <2>1. individual' = [individual EXCEPT ![m] = new] /\ now' = now
    BY <1>5 DEF UpdateAddress
  <2>2. CASE m = a
    <3>1. individual'[a] = new
      BY <1>1, <2>1, <2>2
    <3>2. /\ new \in Limit /\ new.last = now /\ new.cap = c /\ new.rate = r
          /\ new.stored = IndividualBuffer(a)
      BY <1>1, <2>2 DEF Limit
    <3> HIDE DEF new
    <3>3. Buffer(new, now) = Lesser(IndividualBuffer(a), c)
      BY <1>1, <3>2, BufferNow
    <3>4. IndividualBuffer(a)' = Lesser(IndividualBuffer(a), c)
      BY <2>1, <3>1, <3>3 DEF IndividualBuffer
    <3>5. Individual(a)!Adjust
      BY <3>1, <3>2, <3>4 DEF Individual!Adjust, Individual!Lesser, Lesser
    <3> QED
      BY <1>1, <3>1, <3>2, <3>5 DEF Individual!Limit, Individual!Leased
  <2>3. CASE m # a
    BY <1>1, <1>2, <2>1, <2>3
  <2> QED
    BY <2>2, <2>3
<1>6. ASSUME NEW caller, NEW m \in Minter, RemoveAddress(caller, m)
      PROVE  bucket
  <2>1. individual' = [individual EXCEPT ![m] = Unregistered] /\ now' = now
    BY <1>6 DEF RemoveAddress
  <2>2. CASE m = a
    <3>1. individual'[a] = Unregistered
      BY <1>1, <2>1, <2>2
    <3>2. /\ Unregistered.cap = 0 /\ Unregistered.rate = 0 /\ Unregistered.stored = 0
          /\ Unregistered.last = 0
      BY DEF Unregistered
    <3>3. Buffer(Unregistered, now) = 0
      BY <1>1, <3>2 DEF Buffer, Lesser
    <3>4. IndividualBuffer(a)' = 0
      BY <2>1, <3>1, <3>3 DEF IndividualBuffer
    <3>5. Individual(a)!Close
      BY <3>1, <3>2, <3>4 DEF Individual!Close
    <3> QED
      BY <3>1, <3>2, <3>5 DEF Individual!Leased
  <2>3. CASE m # a
    BY <1>1, <1>2, <2>1, <2>3
  <2> QED
    BY <2>2, <2>3
<1>7. ASSUME NEW m \in Minter, NEW n \in Nat, Mint(m, n)
      PROVE  bucket
  <2>1. /\ individual' = [individual EXCEPT ![m] = Deplete(@, now, n)] /\ now' = now
        /\ CanDeplete(individual[m], now, n)
    BY <1>7 DEF Mint, DepleteIndividualBuffer
  <2>2. CASE m = a
    <3>1. individual'[a] = Deplete(individual[a], now, n)
      BY <1>1, <2>1, <2>2
    <3>2. /\ individual'[a].rate = individual[a].rate /\ individual'[a].cap = individual[a].cap
          /\ individual'[a].last = now
          /\ Buffer(individual'[a], now) = Buffer(individual[a], now) - n
      BY <1>1, <2>1, <2>2, <3>1, DepleteType
    <3>3. n <= IndividualBuffer(a)
      BY <2>1, <2>2 DEF CanDeplete, IndividualBuffer
    <3>4. IndividualBuffer(a)' = IndividualBuffer(a) - n
      BY <2>1, <3>2 DEF IndividualBuffer
    <3>5. IndividualBuffer(a) - n \in 0 .. IndividualBuffer(a)
      BY <1>1, <3>3
    <3>6. Individual(a)!Spend
      BY <3>2, <3>4, <3>5 DEF Individual!Spend
    <3> QED
      BY <1>1, <3>2, <3>6 DEF Individual!Limit, Individual!Leased
  <2>3. CASE m # a
    BY <1>1, <1>2, <2>1, <2>3
  <2> QED
    BY <2>2, <2>3
<1> HIDE DEF bucket
<1>8. ASSUME NEW caller \in Account, NEW m \in Minter,
             NEW r \in Rates \cap uint112, NEW c \in Caps \cap uint112,
             \/ AddAddress(caller, m, r, c) \/ AddAddressAsMinterWithin(caller, m, r, c)
             \/ UpdateAddress(caller, m, r, c)
      PROVE  bucket
  BY <1>4, <1>5, <1>8 DEF AddAddress, AddAddressAsMinterWithin
<1>9. ASSUME NEW caller \in Account, NEW m \in Minter,
             AddAddressAsMinter(caller, m) \/ RemoveAddress(caller, m)
      PROVE  bucket
  <2>1. \A n \in Nat : As112(n) \in Nat
    BY DEF As112
  <2>2. individualMaxRateLimitPerSecond \in Nat /\ individualMaxBufferCap \in Nat
    BY DEF IInv, TypeOK
  <2> QED
    BY <1>4, <1>6, <1>9, <2>1, <2>2 DEF AddAddressAsMinter
<1>10. ASSUME NEW caller \in Account, NEW n \in Amounts, Mint(caller, n)
       PROVE  bucket
  BY <1>7, <1>10 DEF Mint
<1>11. ASSUME NEW caller \in Minter, MintMaxAllowableFei(caller)
       PROVE  bucket
  <2>1. Lesser(IndividualBuffer(caller), Buffer(global, now)) \in Nat
    BY Limits DEF Lesser
  <2> QED
    BY <1>7, <1>11, <2>1 DEF MintMaxAllowableFei
<1>12. ASSUME NEW caller \in Account,
              \/ \E r \in Rates : \/ SetRateLimitPerSecond(caller, r)
                                   \/ UpdateMaxRateLimitPerSecond(caller, r)
              \/ \E c \in Caps : SetBufferCap(caller, c) \/ UpdateMaxBufferCap(caller, c)
              \/ Pause(caller) \/ Unpause(caller)
       PROVE  bucket
  <2>1. now' = now /\ individual' = individual
    BY <1>12 DEF SetRateLimitPerSecond, SetBufferCap, UpdateMaxRateLimitPerSecond,
       UpdateMaxBufferCap, Pause, Unpause
  <2> QED
    BY <1>2, <2>1
<1>13. ASSUME UNCHANGED vars
       PROVE  bucket
  BY <1>2, <1>13 DEF vars
<1>14. bucket
  BY <1>3, <1>8, <1>9, <1>10, <1>11, <1>12, <1>13 DEF Next
<1> QED
  BY <1>14 DEF bucket

(* MultiRateLimited.sol:256-288.  The limit of each address is a bucket, which  *)
(* only a removal takes away and only a registration hands out, full.           *)
THEOREM IndividualsImplementBuckets == Spec => IndividualsAreBuckets
<1>1. Init => UnregisteredIsEmpty /\ \A a \in Minter : Individual(a)!Full
  <2> SUFFICES ASSUME Init, NEW a \in Minter
               PROVE  individual[a].cap = 0 /\ Individual(a)!Full
    BY DEF UnregisteredIsEmpty
  <2>1. individual[a] = Unregistered /\ now = 1
    BY DEF Init
  <2>2. /\ Unregistered.cap = 0 /\ Unregistered.rate = 0 /\ Unregistered.stored = 0
        /\ Unregistered.last = 0
    BY DEF Unregistered
  <2>3. IndividualBuffer(a) = 0
    BY <2>1, <2>2 DEF IndividualBuffer, Buffer, Lesser
  <2> QED
    BY <2>1, <2>2, <2>3 DEF Individual!Full
<1>2. IInv /\ UnregisteredIsEmpty /\ [Next]_vars => UnregisteredIsEmpty'
  BY IndividualStep DEF UnregisteredIsEmpty, Registered
<1>3. IInv /\ UnregisteredIsEmpty /\ [Next]_vars
        => [\A a \in Minter : [Individual(a)!Leased]_(Individual(a)!vars)]_vars
  BY IndividualStep
<1> QED
  BY <1>1, <1>2, <1>3, Invariance, PTL DEF Spec, IndividualsAreBuckets
=============================================================================
