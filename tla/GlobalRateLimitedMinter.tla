----------------------- MODULE GlobalRateLimitedMinter -----------------------
(***************************************************************************)
(* The minter of FEI that meters other contracts                           *)
(* (contracts/utils/GlobalRateLimitedMinter.sol with MultiRateLimited.sol  *)
(* and RateLimited.sol): a call that mints must fit the caller's own limit *)
(* and a limit common to all.  Governors, the ADD_MINTER_ROLE, admins and  *)
(* guardians change the limits while they are in use.                      *)
(*                                                                         *)
(* FEI may refuse a mint (paused, or the role revoked): then the call      *)
(* reverts, which is the same as its not being made.                       *)
(***************************************************************************)
EXTENDS RateLimits

CONSTANTS
  Account,          \* the callers
  Governor, Admin,  \* governors of Core, admins of this contract
  Guardian,
  RoleAdmin,        \* holders of ADD_MINTER_ROLE
  Minter,           \* the addresses that may be given a limit
  MaxRate,          \* MAX_RATE_LIMIT_PER_SECOND
  FirstRate, FirstCap, FirstMaxRate, FirstMaxCap,
  Modulus112,       \* 2^112
  Caps, Rates,      \* the limits that are asked for
  Amounts,
  MaxTime           \* bound: the last second explored

ASSUME MinterAssumption ==
  /\ "all" \notin Minter
  /\ Governor \cup Admin \cup Guardian \cup RoleAdmin \cup Minter \subseteq Account
  /\ MaxRate \in Nat /\ FirstRate \in 0 .. MaxRate
  /\ FirstCap \in Nat /\ FirstMaxCap \in Nat /\ FirstMaxCap < FirstCap
  /\ FirstMaxRate \in Nat
  /\ Modulus112 \in Nat \ {0}
  /\ Caps \subseteq Nat /\ Rates \subseteq Nat /\ Amounts \subseteq Nat
  /\ MaxTime \in Nat \ {0}

VARIABLES
  now,              \* block.timestamp
  global,           \* the limit of the contract
  individual,       \* rateLimitPerAddress
  individualMaxRateLimitPerSecond, individualMaxBufferCap,
  paused,
  start,            \* history: the first second of an observed period
  due               \* history: what may still be minted in it

roleMaxima == <<individualMaxRateLimitPerSecond, individualMaxBufferCap>>
observed == <<start, due>>
vars == <<now, global, individual, roleMaxima, paused, observed>>

uint112 == {n \in Caps \cup Rates : n < Modulus112}

(* Faulty: takes the number as it is. *)
AsWide(n) == n

(* uint112(n), which drops the high bits *)
As112(n) == n % Modulus112

Unregistered == [stored |-> 0, cap |-> 0, rate |-> 0, last |-> 0]
Registered(a) == individual[a].last # 0
IndividualBuffer(a) == Buffer(individual[a], now)

----------------------------------------------------------------------------
(* The observed period begins at any second `start` and lasts ever after.    *)
(* `due` is what a bucket would still have to give in it: the cap at the      *)
(* start and the rate for every second, less what was minted; the period of   *)
(* an address that is added begins again, with a full bucket.                 *)
Party == {"all"} \cup Minter
Observed == now >= start
Spent(minters, amount) ==
  IF ~Observed THEN due
  ELSE [p \in Party |-> IF p \in minters THEN due[p] - amount ELSE due[p]]
LimitOf(p) == IF p = "all" THEN global ELSE individual[p]

Init ==
  /\ now = 1
  /\ global = [stored |-> FirstCap, cap |-> FirstCap, rate |-> FirstRate, last |-> 1]
  /\ individual = [a \in Minter |-> Unregistered]
  /\ individualMaxRateLimitPerSecond = FirstMaxRate
  /\ individualMaxBufferCap = FirstMaxCap
  /\ paused = FALSE
  /\ start \in 1 .. MaxTime
  /\ due = [p \in Party |-> IF start = 1 /\ p = "all" THEN FirstCap ELSE 0]

SetRateLimitPerSecond(caller, rate) ==
  /\ caller \in Governor \cup Admin
  /\ rate <= MaxRate
  /\ global' = SetRate(global, now, rate)
  /\ UNCHANGED <<now, individual, roleMaxima, paused, observed>>

SetBufferCap(caller, cap) ==
  /\ caller \in Governor \cup Admin
  /\ global' = SetCap(global, now, cap)
  /\ UNCHANGED <<now, individual, roleMaxima, paused, observed>>

UpdateMaxRateLimitPerSecond(caller, rate) ==
  /\ caller \in Governor
  /\ rate <= MaxRate
  /\ individualMaxRateLimitPerSecond' = rate
  /\ UNCHANGED <<now, global, individual, individualMaxBufferCap, paused, observed>>

UpdateMaxBufferCap(caller, cap) ==
  /\ caller \in Governor
  /\ cap <= global.cap
  /\ individualMaxBufferCap' = cap
  /\ UNCHANGED <<now, global, individual, individualMaxRateLimitPerSecond, paused,
                 observed>>

(* The body shared by addAddress and both forms of addAddressAsMinter. *)
Register(a, rate, cap) ==
  /\ cap <= global.cap
  /\ ~Registered(a)
  /\ rate <= MaxRate
  /\ individual' = [individual EXCEPT
       ![a] = [stored |-> cap, cap |-> cap, rate |-> rate, last |-> now]]
  /\ due' = IF Observed THEN [due EXCEPT ![a] = cap] ELSE due
  /\ UNCHANGED <<now, global, roleMaxima, paused, start>>

AddAddress(caller, a, rate, cap) ==
  /\ caller \in Governor
  /\ Register(a, rate, cap)

AddAddressAsMinter(caller, a) ==
  /\ caller \in RoleAdmin
  /\ Register(a, As112(individualMaxRateLimitPerSecond), As112(individualMaxBufferCap))

AddAddressAsMinterWithin(caller, a, rate, cap) ==
  /\ caller \in RoleAdmin
  /\ rate <= individualMaxRateLimitPerSecond
  /\ cap <= individualMaxBufferCap
  /\ Register(a, rate, cap)

(* Faulty: new limits come with a full buffer. *)
UpdateAddressRefills(caller, a, rate, cap) ==
  /\ Registered(a)
  /\ caller \in RoleAdmin \cup Governor
  /\ cap <= global.cap
  /\ rate <= MaxRate
  /\ individual' = [individual EXCEPT
       ![a] = [stored |-> cap, cap |-> cap, rate |-> rate, last |-> now]]
  /\ UNCHANGED <<now, global, roleMaxima, paused, observed>>

UpdateAddress(caller, a, rate, cap) ==
  /\ Registered(a)
  /\ caller \in RoleAdmin \cup Governor
  /\ caller \in RoleAdmin =>
       /\ rate <= individualMaxRateLimitPerSecond
       /\ cap <= individualMaxBufferCap
  /\ cap <= global.cap
  /\ rate <= MaxRate
  /\ individual' = [individual EXCEPT
       ![a] = [stored |-> IndividualBuffer(a), cap |-> cap, rate |-> rate, last |-> now]]
  /\ UNCHANGED <<now, global, roleMaxima, paused, observed>>

RemoveAddress(caller, a) ==
  /\ Registered(a)
  /\ caller \in Guardian \cup Governor
  /\ individual' = [individual EXCEPT ![a] = Unregistered]
  /\ UNCHANGED <<now, global, roleMaxima, paused, observed>>

(* Faulty: an address with a limit of its own is not held to the common one. *)
DepleteIndividualOnly(a, amount) ==
  /\ CanDeplete(individual[a], now, amount)
  /\ individual' = [individual EXCEPT ![a] = Deplete(@, now, amount)]
  /\ UNCHANGED global

DepleteIndividualBuffer(a, amount) ==
  /\ CanDeplete(global, now, amount)
  /\ CanDeplete(individual[a], now, amount)
  /\ global' = Deplete(global, now, amount)
  /\ individual' = [individual EXCEPT ![a] = Deplete(@, now, amount)]

Mint(caller, amount) ==
  /\ ~paused
  /\ caller \in Minter      \* any other caller has an empty buffer
  /\ DepleteIndividualBuffer(caller, amount)
  /\ due' = Spent({"all", caller}, amount)
  /\ UNCHANGED <<now, roleMaxima, paused, start>>

MintMaxAllowableFei(caller) ==
  Mint(caller, Lesser(IndividualBuffer(caller), Buffer(global, now)))

Pause(caller) ==
  /\ caller \in Guardian \cup Governor
  /\ ~paused
  /\ paused' = TRUE
  /\ UNCHANGED <<now, global, individual, roleMaxima, observed>>

Unpause(caller) ==
  /\ caller \in Guardian \cup Governor
  /\ paused
  /\ paused' = FALSE
  /\ UNCHANGED <<now, global, individual, roleMaxima, observed>>

(* External: a second goes by. *)
AdvanceTime ==
  /\ now < MaxTime
  /\ now' = now + 1
  /\ due' = [p \in Party |->
       CASE Observed -> due[p] + LimitOf(p).rate
         [] now' = start -> LimitOf(p).cap
         [] OTHER -> due[p]]
  /\ UNCHANGED <<global, individual, roleMaxima, paused, start>>

Next ==
  \/ AdvanceTime
  \/ \E caller \in Account :
       \/ \E r \in Rates : \/ SetRateLimitPerSecond(caller, r)
                           \/ UpdateMaxRateLimitPerSecond(caller, r)
       \/ \E c \in Caps : \/ SetBufferCap(caller, c)
                          \/ UpdateMaxBufferCap(caller, c)
       \/ \E a \in Minter :
            \/ \E r \in Rates \cap uint112, c \in Caps \cap uint112 :
                 \/ AddAddress(caller, a, r, c)
                 \/ AddAddressAsMinterWithin(caller, a, r, c)
                 \/ UpdateAddress(caller, a, r, c)
            \/ AddAddressAsMinter(caller, a)
            \/ RemoveAddress(caller, a)
       \/ \E n \in Amounts : Mint(caller, n)
       \/ caller \in Minter /\ MintMaxAllowableFei(caller)
       \/ Pause(caller)
       \/ Unpause(caller)

Spec == Init /\ [][Next]_vars

----------------------------------------------------------------------------
TypeOK ==
  /\ now \in Nat \ {0}
  /\ global \in Limit
  /\ individual \in [Minter -> Limit]
  /\ \A a \in Minter : individual[a].cap < Modulus112 /\ individual[a].rate <= MaxRate
  /\ global.rate <= MaxRate
  /\ individualMaxRateLimitPerSecond \in Nat
  /\ individualMaxBufferCap \in Nat
  /\ paused \in BOOLEAN
  /\ start \in Nat
  /\ due \in [Party -> Int]

(* RateLimited.sol:63-95.  From any second on, all addresses together mint no *)
(* more than the cap of that second and the rate of each second since, in      *)
(* whatever order limits are changed and addresses added and removed.          *)
GlobalLimitHolds == due["all"] >= 0

(* MultiRateLimited.sol:256-274.  The same for each address and its own limit. *)
(* Only being added anew, after a removal, gives an address a full buffer.     *)
IndividualLimitHolds == \A a \in Minter : due[a] >= 0

(* RateLimited.sol:65-138.  The limits, computed when they are used, behave as *)
(* buckets that are refilled every second.                                     *)
Global == INSTANCE TokenBucket WITH
  level <- Buffer(global, now), cap <- global.cap, rate <- global.rate
GlobalIsBucket == Global!Spec

Individual(a) == INSTANCE TokenBucket WITH
  level <- IndividualBuffer(a), cap <- individual[a].cap, rate <- individual[a].rate
IndividualsAreBuckets ==
  /\ \A a \in Minter : Individual(a)!Full
  /\ [][\A a \in Minter : [Individual(a)!Leased]_(Individual(a)!vars)]_vars
=============================================================================
