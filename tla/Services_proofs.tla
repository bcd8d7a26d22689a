---------------------------- MODULE Services_proofs ----------------------------
(***************************************************************************)
(* Theorems about the services of MCServices.                              *)
(*                                                                         *)
(* For any clients, any limits and any length of time, each bound that a   *)
(* guard of exchanges/resilience.py or exchanges/safety.py is there for    *)
(* holds in every behaviour of the guard's own specification.  For every   *)
(* input of integers, what the functions of OrderSizing accept is within   *)
(* its bounds.  An instruction of CopyTrading is submitted at most once.   *)
(* The last part is about the services together: the specification of      *)
(* MCServices implements that of each of them, and inherits its theorem.   *)
(***************************************************************************)
EXTENDS MCServices, FiniteSetTheorems, NaturalsInduction, WellFoundedInduction, TLAPS

-----------------------------------------------------------------------------
(* The rate limiter.                                                       *)

LimiterType ==
  /\ now \in Nat /\ mark \in Nat /\ mark <= now
  /\ granted \in Nat
  /\ bucket \in [last : Nat, tokens : 0..Full]
  /\ bucket.last <= now

\* What was granted and what can still be granted at once come from one full bucket and
\* what was refilled since the count began.
LimiterInv ==
  /\ LimiterType
  /\ Period * granted + Tokens <= Full + Requests * (now - mark)

LEMMA FullNat == Full \in Nat
BY RateLimitAssumption DEF Full

\* The tokens at hand are never negative and never more than a full bucket.
LEMMA TokensRange ==
  LimiterType => Tokens \in 0..Full
<1> SUFFICES ASSUME LimiterType
             PROVE  Tokens \in 0..Full
  OBVIOUS
<1> DEFINE refill == (now - bucket.last) * Requests
<1>1. now - bucket.last \in Nat /\ Requests \in Nat
  BY RateLimitAssumption DEF LimiterType
<1>2. refill \in Nat
  BY <1>1
<1>3. Tokens = IF bucket.tokens + refill < Full THEN bucket.tokens + refill ELSE Full
  BY DEF Tokens
<1> HIDE DEF refill
<1> QED
  BY <1>2, <1>3, FullNat DEF LimiterType

LEMMA FullSame == Full' = Full
BY DEF Full

LEMMA TokensRangeNext == (LimiterType => Tokens \in 0..Full)'
BY TokensRange, PTL

LEMMA TokensAre ==
  Tokens = IF bucket.tokens + (now - bucket.last) * Requests < Full
           THEN bucket.tokens + (now - bucket.last) * Requests ELSE Full
BY DEF Tokens

LEMMA TokensAreNext ==
  (Tokens = IF bucket.tokens + (now - bucket.last) * Requests < Full
            THEN bucket.tokens + (now - bucket.last) * Requests ELSE Full)'
BY TokensAre, PTL

\* A tick brings at most Requests parts of a token.
LEMMA TokensTick ==
  ASSUME LimiterType, now' = now + 1, bucket' = bucket
  PROVE  Tokens' <= Tokens + Requests
<1> DEFINE refill == (now - bucket.last) * Requests
           refillNext == (now' - bucket'.last) * Requests
<1>1. now - bucket.last \in Nat /\ bucket.tokens \in Nat /\ Requests \in Nat /\ bucket.last \in Nat /\ now \in Nat
  BY RateLimitAssumption DEF LimiterType
<1>2. refill \in Nat
  BY <1>1
<1>3. refillNext = refill + Requests
  <2>1. now' - bucket'.last = (now - bucket.last) + 1
    BY <1>1
  <2>2. \A d, r \in Nat : (d + 1) * r = d * r + r
    OBVIOUS
  <2> QED
    BY <1>1, <2>1, <2>2
<1>4. Tokens = IF bucket.tokens + refill < Full THEN bucket.tokens + refill ELSE Full
  BY TokensAre
<1>5. Tokens' = IF bucket'.tokens + refillNext < Full THEN bucket'.tokens + refillNext ELSE Full
  BY TokensAreNext, FullSame
<1> HIDE DEF refill, refillNext
<1> QED
  BY <1>1, <1>2, <1>3, <1>4, <1>5, FullNat

LEMMA LimiterInitInv == ClockInit /\ LimiterInit => LimiterInv
<1> SUFFICES ASSUME ClockInit, LimiterInit
             PROVE  LimiterInv
  OBVIOUS
<1>1. LimiterType
  BY FullNat DEF ClockInit, LimiterInit, LimiterType
<1>2. Period * granted = 0 /\ Requests * (now - mark) = 0
  BY RateLimitAssumption DEF ClockInit, LimiterInit
<1> QED
  BY <1>1, <1>2, TokensRange, FullNat DEF LimiterInv

LEMMA LimiterStepInv == LimiterInv /\ [LimiterNext]_<<now, limiterVars>> => LimiterInv'
<1> SUFFICES ASSUME LimiterInv, [LimiterNext]_<<now, limiterVars>>
             PROVE  LimiterInv'
  OBVIOUS
<1> USE FullNat, RateLimitAssumption, MaxTimeAssumption DEF LimiterInv
<1>0. Tokens \in 0..Full
  BY TokensRange
<1>1. CASE Tick /\ UNCHANGED limiterVars
  <2>1. now' = now + 1 /\ bucket' = bucket /\ mark' = mark /\ granted' = granted
    BY <1>1 DEF Tick, limiterVars
  <2>2. LimiterType'
    BY <2>1 DEF LimiterType
  <2>3. Tokens' <= Tokens + Requests
    BY <2>1, TokensTick
  <2>4. Requests * (now' - mark') = Requests * (now - mark) + Requests
    BY <2>1 DEF LimiterType
  <2>5. Requests * (now - mark) \in Int /\ Period * granted \in Int /\ Tokens' \in Int
    BY <2>2, TokensRangeNext DEF LimiterType, Full
  <2> QED
    BY <1>0, <2>1, <2>2, <2>3, <2>4, <2>5 DEF Full
<1>2. CASE \E c \in Clients : Try(c)
  <2> PICK c \in Clients : Try(c)
    BY <1>2
  <2>1. now' = now /\ mark' = mark
    BY DEF Try
  <2>2. Period * granted \in Nat /\ Requests * (now - mark) \in Nat
    BY DEF LimiterType
  <2>3. CASE Tokens >= Period
    <3>1. bucket' = [last |-> now, tokens |-> Tokens - Period] /\ granted' = granted + 1
      BY <2>3 DEF Try
    <3>2. LimiterType'
      BY <1>0, <2>1, <2>3, <3>1 DEF LimiterType, Full
    <3>3. Tokens' <= Tokens - Period
      <4>1. (now' - bucket'.last) * Requests = 0
        BY <2>1, <3>1 DEF LimiterType
      <4> QED
        BY <1>0, <2>3, <3>1, <4>1 DEF Tokens, Full
    <3>4. Period * granted' = Period * granted + Period
      BY <3>1 DEF LimiterType
    <3>5. Tokens' \in Int
      BY <3>2, TokensRangeNext DEF Full
    <3> QED
      BY <1>0, <2>1, <2>2, <3>2, <3>3, <3>4, <3>5 DEF Full
  <2>4. CASE ~(Tokens >= Period)
    <3>1. bucket' = [last |-> now, tokens |-> Tokens] /\ granted' = granted
      BY <2>4 DEF Try
    <3>2. LimiterType'
      BY <1>0, <2>1, <3>1 DEF LimiterType, Full
    <3>3. Tokens' <= Tokens
      <4>1. (now' - bucket'.last) * Requests = 0
        BY <2>1, <3>1 DEF LimiterType
      <4> QED
        BY <1>0, <3>1, <4>1 DEF Tokens, Full
    <3>4. Tokens' \in Int
      BY <3>2, TokensRangeNext DEF Full
    <3> QED
      BY <1>0, <2>1, <2>2, <3>1, <3>2, <3>3, <3>4 DEF Full
  <2> QED
    BY <2>3, <2>4
<1>3. CASE StartCounting
  <2>1. now' = now /\ bucket' = bucket /\ mark' = now /\ granted' = 0
    BY <1>3 DEF StartCounting
  <2>2. LimiterType'
    BY <2>1 DEF LimiterType
  <2>3. Period * granted' = 0 /\ Requests * (now' - mark') = 0
    BY <2>1 DEF LimiterType
  <2>4. Tokens' \in 0..Full
    BY <2>2, TokensRangeNext DEF Full
  <2> QED
    BY <2>2, <2>3, <2>4 DEF Full
<1>4. CASE UNCHANGED <<now, bucket, mark, granted>>
  BY <1>4 DEF LimiterType, Tokens, Full
<1> QED
  BY <1>1, <1>2, <1>3, <1>4 DEF LimiterNext, LimiterStep, Acquire, Throttled, limiterVars

\* GrantsBounded holds for any number of clients, any limit and any timeouts: the limiter
\* never grants more than its rate over any stretch of time (EndpointRateLimiter.acquire).
THEOREM GrantsAreBounded == LimiterSpec => []GrantsBounded
<1>1. LimiterInv => GrantsBounded
  <2> SUFFICES ASSUME LimiterInv
               PROVE  GrantsBounded
    OBVIOUS
  <2>1. Tokens \in 0..Full
    BY TokensRange DEF LimiterInv
  <2>2. Period * granted \in Int /\ Requests * (now - mark) \in Int
    BY RateLimitAssumption DEF LimiterInv, LimiterType
  <2> QED
    BY <2>1, <2>2, FullNat DEF LimiterInv, GrantsBounded
<1> QED
  BY <1>1, LimiterInitInv, LimiterStepInv, PTL DEF LimiterSpec

-----------------------------------------------------------------------------
(* The circuit breaker.                                                    *)

BreakerType ==
  /\ now \in Nat /\ since \in Nat /\ since <= now
  /\ failures \in Nat /\ admitted \in Nat
  /\ openedAt \in Nat \cup {NotOpen} /\ openedAt <= now
  /\ calling \subseteq Clients

\* While the window that is counted is shorter than the recovery time: each call let
\* through by a closed breaker is under way or has failed; a breaker that opened earlier
\* has let none through; one that opened within the window lets no more through.
BreakerInv ==
  /\ BreakerType
  /\ openedAt = NotOpen => failures < FailureThreshold
  /\ openedAt # NotOpen => failures >= FailureThreshold
  /\ now - since < RecoverySeconds =>
       /\ openedAt = NotOpen => admitted <= failures + Cardinality(calling)
       /\ openedAt # NotOpen /\ openedAt < since => admitted = 0
       /\ admitted <= FailureThreshold + Cardinality(Clients) - 1

\* The clients whose call is under way are at most all of them, and one more or one less
\* when one begins or ends.
LEMMA CallingCount ==
  ASSUME NEW S \in SUBSET Clients
  PROVE  /\ Cardinality(S) \in Nat /\ Cardinality(Clients) \in Nat \ {0}
         /\ Cardinality(S) <= Cardinality(Clients)
         /\ \A c \in Clients \ S : Cardinality(S \cup {c}) = Cardinality(S) + 1
         /\ \A c \in S : Cardinality(S \ {c}) = Cardinality(S) - 1
<1>1. IsFiniteSet(S) /\ Cardinality(S) <= Cardinality(Clients)
  BY ClientsAssumption, FS_Subset
<1>2. Cardinality(S) \in Nat /\ Cardinality(Clients) \in Nat
  BY <1>1, ClientsAssumption, FS_CardinalityType
<1>3. Cardinality(Clients) # 0
  BY ClientsAssumption, FS_EmptySet
<1>4. \A c \in Clients \ S : Cardinality(S \cup {c}) = Cardinality(S) + 1
  BY <1>1, FS_AddElement
<1>5. \A c \in S : Cardinality(S \ {c}) = Cardinality(S) - 1
  BY <1>1, FS_RemoveElement
<1> QED
  BY <1>1, <1>2, <1>3, <1>4, <1>5

LEMMA BreakerInitInv == ClockInit /\ BreakerInit => BreakerInv
<1> SUFFICES ASSUME ClockInit, BreakerInit
             PROVE  BreakerInv
  OBVIOUS
<1>1. Cardinality(calling) \in Nat /\ Cardinality(Clients) \in Nat \ {0}
  BY CallingCount DEF BreakerInit
<1> QED
  BY <1>1, BreakerAssumption DEF ClockInit, BreakerInit, BreakerInv, BreakerType, NotOpen

LEMMA BreakerStepInv == BreakerInv /\ [BreakerNext]_<<now, breakerVars>> => BreakerInv'
<1> SUFFICES ASSUME BreakerInv, [BreakerNext]_<<now, breakerVars>>
             PROVE  BreakerInv'
  OBVIOUS
<1> USE BreakerAssumption DEF BreakerInv, BreakerType, NotOpen
<1>0. /\ Cardinality(calling) \in Nat /\ Cardinality(Clients) \in Nat \ {0}
      /\ Cardinality(calling) <= Cardinality(Clients)
      /\ \A c \in Clients \ calling : Cardinality(calling \cup {c}) = Cardinality(calling) + 1
      /\ \A c \in calling : Cardinality(calling \ {c}) = Cardinality(calling) - 1
  BY CallingCount
<1>1. CASE Tick /\ UNCHANGED breakerVars
  BY <1>0, <1>1, MaxTimeAssumption DEF Tick, breakerVars
<1>2. ASSUME NEW c \in Clients, RequireAvailable(c)
      PROVE  BreakerInv'
  <2>1. /\ now' = now /\ since' = since /\ admitted' = admitted + 1
        /\ calling' = calling \cup {c} /\ Cardinality(calling') = Cardinality(calling) + 1
        /\ calling' \subseteq Clients
    BY <1>0, <1>2 DEF RequireAvailable
  <2>2. Cardinality(calling') <= Cardinality(Clients)
    BY <2>1, CallingCount
  <2>3. CASE openedAt = NotOpen /\ UNCHANGED <<failures, openedAt>>
    BY <1>0, <2>1, <2>2, <2>3
  <2>4. CASE openedAt # NotOpen /\ now - openedAt >= RecoverySeconds /\ Recover
    BY <1>0, <2>1, <2>2, <2>4 DEF Recover
  <2> QED
    BY <1>2, <2>3, <2>4 DEF RequireAvailable
<1>3. ASSUME NEW c \in Clients, RequireRiskReducing(c)
      PROVE  BreakerInv'
  <2>1. /\ calling' = calling \cup {c} /\ calling' \subseteq Clients
        /\ UNCHANGED <<now, failures, openedAt, since, admitted>>
        /\ Cardinality(calling') = Cardinality(calling) + 1
    BY <1>0, <1>3 DEF RequireRiskReducing
  <2> QED
    BY <1>0, <2>1
<1>4. ASSUME NEW c \in Clients, RecordSuccess(c)
      PROVE  BreakerInv'
  <2>1. /\ calling' \subseteq Clients /\ Cardinality(calling') \in Nat
        /\ failures' = 0 /\ openedAt' = NotOpen /\ since' = now /\ admitted' = 0 /\ now' = now
    <3>1. calling' \in SUBSET Clients
      BY <1>4 DEF RecordSuccess
    <3>2. Cardinality(calling') \in Nat
      BY <3>1, CallingCount
    <3> QED
      BY <1>4, <3>1, <3>2 DEF RecordSuccess, Recover
  <2> QED
    BY <1>0, <2>1
<1>5. ASSUME NEW c \in Clients, RecordFailure(c)
      PROVE  BreakerInv'
  <2>1. /\ c \in calling /\ calling' = calling \ {c} /\ UNCHANGED <<now, since, admitted>>
        /\ failures' = failures + 1
        /\ openedAt' = IF failures' >= FailureThreshold THEN now ELSE openedAt
    BY <1>5 DEF RecordFailure
  <2>2. Cardinality(calling') = Cardinality(calling) - 1 /\ calling' \subseteq Clients
    BY <1>0, <2>1
  <2>3. CASE failures' >= FailureThreshold
    BY <1>0, <2>1, <2>2, <2>3
  <2>4. CASE ~(failures' >= FailureThreshold)
    BY <1>0, <2>1, <2>2, <2>4
  <2> QED
    BY <2>3, <2>4
<1>6. CASE StartWatching
  BY <1>0, <1>6 DEF StartWatching
<1>7. CASE UNCHANGED <<now, breakerVars>>
  BY <1>7 DEF breakerVars
<1> QED
  BY <1>1, <1>2, <1>3, <1>4, <1>5, <1>6, <1>7 DEF BreakerNext

\* OutageCallsBounded holds for any number of clients, any threshold and any recovery
\* time: an exchange that answers nothing is called a bounded number of times
\* (CircuitBreaker.require_available, record_failure).
THEOREM OutageIsBounded == BreakerSpec => []OutageCallsBounded
<1>1. BreakerInv => OutageCallsBounded
  BY DEF BreakerInv, OutageCallsBounded
<1> QED
  BY <1>1, BreakerInitInv, BreakerStepInv, PTL DEF BreakerSpec

-----------------------------------------------------------------------------
(* The cache of trading rules.                                             *)

GetCalls == [pc : {"idle", "waiting", "loading"}, force : BOOLEAN, load : Nat]

RulesType ==
  /\ now \in Nat /\ from \in Nat /\ from <= now
  /\ loads \in Nat /\ counted \in Nat /\ required \in Nat
  /\ cached \in [at : Nat, load : Nat] /\ cached.at <= now
  /\ getting \in [Clients -> GetCalls]

\* An entry, or a load that will become one, was begun late enough.
ReloadInv ==
  /\ required <= loads + 1
  /\ cached # NotCached => cached.load >= required
  /\ \A c \in Loading : getting[c].load >= required /\ getting[c].load > 0

\* Between two loads the last one that was counted has left its entry behind.
SpacedInv ==
  /\ TtlSeconds * (counted - 1) <= now - from
  /\ Loading = {} /\ counted > 0 =>
       cached # NotCached /\ TtlSeconds * (counted - 1) <= cached.at - from

RulesInv == RulesType /\ ReloadInv /\ SpacedInv

LEMMA LoadingCall ==
  ASSUME NEW call \in GetCalls, NEW n \in Nat
  PROVE  [call EXCEPT !.pc = "loading", !.load = n] \in GetCalls
BY DEF GetCalls

LEMMA RulesInitInv == ClockInit /\ RulesInit => RulesInv
<1> SUFFICES ASSUME ClockInit, RulesInit
             PROVE  RulesInv
  OBVIOUS
<1>1. TtlSeconds * (counted - 1) = -TtlSeconds
  BY RulesAssumption DEF RulesInit
<1> QED
  BY <1>1, RulesAssumption
  DEF ClockInit, RulesInit, RulesInv, RulesType, GetCalls, ReloadInv, SpacedInv, NotCached, NotGetting, Loading

LEMMA RulesStepInv == RulesInv /\ [RulesNext]_<<now, rulesVars>> => RulesInv'
<1> SUFFICES ASSUME RulesInv, [RulesNext]_<<now, rulesVars>>
             PROVE  RulesInv'
  OBVIOUS
<1> USE RulesAssumption DEF RulesInv
<1>0. TtlSeconds * (counted - 1) \in Int /\ TtlSeconds * (0 - 1) = -TtlSeconds
  BY DEF RulesType, GetCalls
<1>1. CASE Tick /\ UNCHANGED rulesVars
  <2>1. RulesType' /\ ReloadInv'
    BY <1>1, MaxTimeAssumption DEF Tick, rulesVars, RulesType, GetCalls, ReloadInv, NotCached, Loading
  <2>2. SpacedInv'
    BY <1>0, <1>1, MaxTimeAssumption DEF Tick, rulesVars, RulesType, GetCalls, SpacedInv, NotCached, Loading
  <2> QED
    BY <2>1, <2>2
<1>2. ASSUME NEW c \in Clients, NEW force \in BOOLEAN, Get(c, force)
      PROVE  RulesInv'
  <2>1. Loading' = Loading /\ \A d \in Loading : getting'[d] = getting[d]
    BY <1>2 DEF Get, Loading, RulesType, GetCalls
  <2>2. RulesType'
    BY <1>2 DEF Get, RulesType, GetCalls
  <2> QED
    BY <1>2, <2>1, <2>2 DEF Get, ReloadInv, SpacedInv, NotCached
<1>3. ASSUME NEW c \in Clients, CacheHit(c)
      PROVE  RulesInv'
  <2>1. Loading' = {} /\ Loading = {}
    BY <1>3 DEF CacheHit, Loading, RulesType, GetCalls, NotGetting
  <2>2. RulesType'
    BY <1>3 DEF CacheHit, RulesType, GetCalls, NotGetting
  <2> QED
    BY <1>3, <2>1, <2>2 DEF CacheHit, ReloadInv, SpacedInv, NotCached
<1>4. ASSUME NEW c \in Clients, Load(c)
      PROVE  RulesInv'
  <2>1. /\ Loading = {} /\ loads' = loads + 1 /\ UNCHANGED <<now, cached, required>>
        /\ getting' = [getting EXCEPT ![c] = [@ EXCEPT !.pc = "loading", !.load = loads + 1]]
    BY <1>4 DEF Load, BeginLoad
  <2>2. Loading' = {c} /\ getting'[c].load = loads + 1
    BY <2>1 DEF Loading, RulesType, GetCalls
  <2>9. getting' \in [Clients -> GetCalls]
    <3> DEFINE call == [getting[c] EXCEPT !.pc = "loading", !.load = loads + 1]
    <3>1. call \in GetCalls
      <4>1. getting[c] \in GetCalls /\ loads + 1 \in Nat
        BY DEF RulesType
      <4> QED
        BY <4>1, LoadingCall
    <3>2. getting' = [getting EXCEPT ![c] = call]
      BY <2>1
    <3> HIDE DEF call
    <3> QED
      BY <3>1, <3>2 DEF RulesType
  <2>3. ReloadInv'
    BY <2>1, <2>2 DEF ReloadInv, RulesType, GetCalls, NotCached
  <2>4. CASE getting[c].force
    <3>1. from' = now /\ counted' = 0
      BY <1>4, <2>4 DEF Load, BeginLoad
    <3>2. RulesType'
      BY <2>1, <2>9, <3>1 DEF RulesType, GetCalls
    <3> QED
      BY <1>0, <2>1, <2>2, <2>3, <3>1, <3>2 DEF SpacedInv, RulesType, GetCalls
  <2>5. CASE ~getting[c].force
    <3>1. from' = from /\ counted' = counted + 1 /\ ~FreshEntry
      BY <1>4, <2>5 DEF Load, BeginLoad
    <3>2. RulesType'
      BY <2>1, <2>9, <3>1 DEF RulesType, GetCalls
    <3>3. TtlSeconds * (counted' - 1) <= now - from
      <4>1. CASE counted = 0
        <5>1. TtlSeconds * (counted' - 1) = 0
          BY <3>1, <4>1
        <5> QED
          BY <5>1 DEF RulesType, GetCalls
      <4>2. CASE counted > 0
        <5>1. cached # NotCached /\ TtlSeconds * (counted - 1) <= cached.at - from
          BY <2>1, <4>2 DEF SpacedInv
        <5>2. now - cached.at >= TtlSeconds
          BY <3>1, <5>1 DEF FreshEntry, RulesType, GetCalls
        <5>3. TtlSeconds * (counted' - 1) = TtlSeconds * (counted - 1) + TtlSeconds
          BY <3>1 DEF RulesType, GetCalls
        <5> QED
          BY <1>0, <5>1, <5>2, <5>3 DEF RulesType, GetCalls
      <4> QED
        BY <4>1, <4>2 DEF RulesType, GetCalls
    <3> QED
      BY <2>1, <2>2, <2>3, <3>1, <3>2, <3>3 DEF SpacedInv
  <2> QED
    BY <2>4, <2>5
<1>5. ASSUME NEW c \in Clients, LoadEnds(c)
      PROVE  RulesInv'
  <2>1. /\ c \in Loading /\ cached' = [at |-> now, load |-> getting[c].load]
        /\ getting' = [getting EXCEPT ![c] = NotGetting]
        /\ UNCHANGED <<now, loads, required, from, counted>>
    BY <1>5 DEF LoadEnds, Loading
  <2>2. Loading' = Loading \ {c} /\ \A d \in Loading' : getting'[d] = getting[d]
    BY <2>1 DEF Loading, NotGetting, RulesType, GetCalls
  <2>3. getting[c].load >= required /\ getting[c].load > 0 /\ getting[c].load \in Nat
    BY <2>1 DEF ReloadInv, RulesType, GetCalls, Loading
  <2>4. RulesType'
    BY <2>1, <2>3 DEF RulesType, GetCalls, NotGetting
  <2>5. ReloadInv'
    BY <2>1, <2>2, <2>3 DEF ReloadInv
  <2>6. SpacedInv'
    BY <2>1, <2>3 DEF SpacedInv, NotCached
  <2> QED
    BY <2>4, <2>5, <2>6
<1>6. ASSUME NEW c \in Clients, LoadFails(c)
      PROVE  RulesInv'
  <2>1. /\ getting' = [getting EXCEPT ![c] = NotGetting] /\ from' = now /\ counted' = 0
        /\ UNCHANGED <<now, cached, loads, required>>
    BY <1>6 DEF LoadFails
  <2>2. Loading' \subseteq Loading /\ \A d \in Loading' : getting'[d] = getting[d]
    BY <2>1 DEF Loading, NotGetting, RulesType, GetCalls
  <2>3. RulesType'
    BY <2>1 DEF RulesType, GetCalls, NotGetting
  <2>4. ReloadInv'
    BY <2>1, <2>2 DEF ReloadInv, NotCached
  <2>5. SpacedInv'
    BY <1>0, <2>1, <2>3 DEF SpacedInv, RulesType, GetCalls
  <2> QED
    BY <2>3, <2>4, <2>5
<1>7. CASE Invalidate
  <2>1. /\ cached' = NotCached /\ from' = now /\ counted' = 0 /\ UNCHANGED <<now, getting, loads>>
        /\ required' = IF Loading = {} THEN loads + 1 ELSE required
    BY <1>7 DEF Invalidate
  <2>2. Loading' = Loading /\ NotCached' = NotCached
    BY <2>1 DEF Loading, NotCached
  <2>3. RulesType'
    BY <2>1 DEF RulesType, GetCalls, NotCached
  <2>4. ReloadInv'
    BY <2>1, <2>2 DEF ReloadInv, RulesType, GetCalls
  <2>5. SpacedInv'
    BY <1>0, <2>1, <2>3 DEF SpacedInv, RulesType, GetCalls
  <2> QED
    BY <2>3, <2>4, <2>5
<1>8. CASE UNCHANGED <<now, rulesVars>>
  BY <1>8 DEF rulesVars, RulesType, GetCalls, ReloadInv, SpacedInv, NotCached, Loading
<1> QED
  BY <1>1, <1>2, <1>3, <1>4, <1>5, <1>6, <1>7, <1>8 DEF RulesNext

\* InvalidateForcesReload holds for any number of clients: what the cache answers after an
\* invalidate was loaded later, unless a load was under way (TradingRulesCache.invalidate).
THEOREM InvalidateReloads == RulesSpec => []InvalidateForcesReload
<1>1. RulesInv => InvalidateForcesReload
  BY DEF RulesInv, ReloadInv, InvalidateForcesReload
<1> QED
  BY <1>1, RulesInitInv, RulesStepInv, PTL DEF RulesSpec

\* LoadsSpaced holds for any number of clients and any time to live: clients that find the
\* entry expired together load it once (TradingRulesCache.get).
THEOREM LoadsAreSpaced == RulesSpec => []LoadsSpaced
<1>1. RulesInv => LoadsSpaced
  BY DEF RulesInv, SpacedInv, LoadsSpaced
<1> QED
  BY <1>1, RulesInitInv, RulesStepInv, PTL DEF RulesSpec

-----------------------------------------------------------------------------
(* The cache of market data.                                               *)

MarketInv ==
  /\ now \in Nat /\ toldAt \in Nat
  /\ told \in [Fields -> Values]
  /\ snapshot.values = told
  /\ snapshot # NoSnapshot => snapshot.at = toldAt
  /\ FreshAnswersAreCurrent

LEMMA MarketInitInv == ClockInit /\ MarketInit => MarketInv
BY StaleAfterAssumption
DEF ClockInit, MarketInit, MarketInv, FreshAnswersAreCurrent, NoSnapshot, NothingGiven, Values

LEMMA MarketStepInv == MarketInv /\ [MarketNext]_<<now, marketVars>> => MarketInv'
<1> SUFFICES ASSUME MarketInv, [MarketNext]_<<now, marketVars>>
             PROVE  MarketInv'
  OBVIOUS
<1>1. CASE Tick /\ UNCHANGED marketVars
  BY <1>1, MaxTimeAssumption DEF Tick, marketVars, MarketInv, FreshAnswersAreCurrent, NoSnapshot, NothingGiven
<1>2. ASSUME NEW given \in [Fields -> Values], Update(given)
      PROVE  MarketInv'
  <2>1. told' = [f \in Fields |-> IF given[f] = NotGiven THEN told[f] ELSE given[f]]
    BY <1>2 DEF Update
  <2>2. told' \in [Fields -> Values]
    BY <2>1 DEF MarketInv
  <2>3. snapshot' = [at |-> now, values |-> [f \in Fields |-> Merged(given[f], told[f])]]
    BY <1>2 DEF Update, MarketInv
  <2>4. snapshot'.values = told'
    BY <2>1, <2>3 DEF Merged
  <2> QED
    BY <1>2, <2>2, <2>3, <2>4 DEF Update, MarketInv, FreshAnswersAreCurrent
<1>3. CASE RequireFresh
  BY <1>3, StaleAfterAssumption
  DEF RequireFresh, MarketInv, FreshAnswersAreCurrent, NoSnapshot, NothingGiven
<1>4. CASE UNCHANGED <<now, marketVars>>
  BY <1>4 DEF marketVars, MarketInv, FreshAnswersAreCurrent, NoSnapshot, NothingGiven
<1> QED
  BY <1>1, <1>2, <1>3, <1>4 DEF MarketNext

\* FreshAnswersAreCurrent holds for any limit of age: no series of partial updates makes the
\* cache forget, mix up or outlive what it was told (MarketDataCache.update, require_fresh).
THEOREM AnswersAreCurrent == MarketSpec => []FreshAnswersAreCurrent
<1>1. MarketInv => FreshAnswersAreCurrent
  BY DEF MarketInv
<1> QED
  BY <1>1, MarketInitInv, MarketStepInv, PTL DEF MarketSpec

-----------------------------------------------------------------------------
(* The synchronizer.                                                       *)

SyncCalls ==
  [pc : {"idle", "waiting", "asking", "answering"}, force : BOOLEAN, started : Nat, server : Int]

SyncType ==
  /\ now \in Nat /\ skew \in Int /\ offset \in Int /\ roundTrip \in Nat
  /\ syncing \in [Clients -> SyncCalls]

\* The server read its clock between the request and now.
ReadInTime ==
  \A c \in Clients :
    /\ syncing[c].started <= now
    /\ syncing[c].pc = "answering" => syncing[c].server - skew \in syncing[c].started..now

SyncInv == SyncType /\ ReadInTime /\ OffsetWithinHalfRoundTrip

\* A reading in the middle of a stretch is at most half of it, rounded up, from any other.
LEMMA MidpointIsNear ==
  ASSUME NEW started \in Nat, NEW completed \in Nat, NEW read \in started..completed
  PROVE  /\ Midpoint(started, completed) \in Int
         /\ 2 * (read - Midpoint(started, completed))
              \in -(completed - started)..(completed - started + 1)
<1> DEFINE half == (completed - started) \div 2
<1>1. half \in Int /\ completed - started - 1 <= 2 * half /\ 2 * half <= completed - started
  OBVIOUS
<1>2. Midpoint(started, completed) = started + half
  BY DEF Midpoint
<1> HIDE DEF half
<1> QED
  BY <1>1, <1>2

LEMMA AskingCall ==
  ASSUME NEW call \in SyncCalls, NEW n \in Nat
  PROVE  LET asking == [call EXCEPT !.pc = "asking", !.started = n]
         IN  asking \in SyncCalls /\ asking.started = n /\ asking.pc = "asking"
BY DEF SyncCalls

LEMMA AnsweringCall ==
  ASSUME NEW call \in SyncCalls, NEW i \in Int
  PROVE  [call EXCEPT !.pc = "answering", !.server = i] \in SyncCalls
BY DEF SyncCalls

LEMMA SyncInitInv == ClockInit /\ SyncInit => SyncInv
BY SynchronizerAssumption
DEF ClockInit, SyncInit, SyncInv, SyncType, SyncCalls, ReadInTime, OffsetWithinHalfRoundTrip, NotSyncing, Never

LEMMA SyncStepInv == SyncInv /\ [SyncNext]_<<now, syncVars>> => SyncInv'
<1> SUFFICES ASSUME SyncInv, [SyncNext]_<<now, syncVars>>
             PROVE  SyncInv'
  OBVIOUS
<1> USE DEF SyncInv
<1>1. CASE Tick /\ UNCHANGED syncVars
  BY <1>1, MaxTimeAssumption DEF Tick, syncVars, SyncType, SyncCalls, ReadInTime, OffsetWithinHalfRoundTrip
<1>2. ASSUME NEW c \in Clients, NEW force \in BOOLEAN, Synchronize(c, force)
      PROVE  SyncInv'
  BY <1>2 DEF Synchronize, SyncType, SyncCalls, ReadInTime, OffsetWithinHalfRoundTrip
<1>3. ASSUME NEW c \in Clients, BeginSync(c)
      PROVE  SyncInv'
  <2>1. UNCHANGED <<now, skew, offset, lastSync, roundTrip>>
    BY <1>3 DEF BeginSync
  <2>2. CASE syncing' = [syncing EXCEPT ![c] = NotSyncing]
    BY <2>1, <2>2 DEF NotSyncing, SyncType, SyncCalls, ReadInTime, OffsetWithinHalfRoundTrip
  <2>3. CASE syncing' = [syncing EXCEPT ![c] = [@ EXCEPT !.pc = "asking", !.started = now]]
    <3> DEFINE call == [syncing[c] EXCEPT !.pc = "asking", !.started = now]
    <3>1. call \in SyncCalls /\ call.started = now /\ call.pc = "asking"
      BY AskingCall DEF SyncType
    <3>2. syncing' = [syncing EXCEPT ![c] = call]
      BY <2>3
    <3> HIDE DEF call
    <3> QED
      BY <2>1, <3>1, <3>2 DEF SyncType, ReadInTime, OffsetWithinHalfRoundTrip
  <2> QED
    BY <1>3, <2>2, <2>3 DEF BeginSync
<1>4. ASSUME NEW c \in Clients, ServerReads(c)
      PROVE  SyncInv'
  <2>1. UNCHANGED <<now, skew, offset, lastSync, roundTrip>>
    BY <1>4 DEF ServerReads
  <2> DEFINE call == [syncing[c] EXCEPT !.pc = "answering", !.server = now + skew]
  <2>2. /\ call \in SyncCalls /\ call.started = syncing[c].started /\ call.server = now + skew
        /\ syncing[c].started \in Nat
    <3>1. syncing[c] \in SyncCalls /\ now + skew \in Int
      BY DEF SyncType
    <3> QED
      BY <3>1, AnsweringCall DEF SyncCalls
  <2>3. syncing' = [syncing EXCEPT ![c] = call]
    BY <1>4 DEF ServerReads
  <2> HIDE DEF call
  <2>4. call.started <= now /\ call.server - skew \in call.started..now
    BY <2>2 DEF SyncType, ReadInTime
  <2> QED
    BY <2>1, <2>2, <2>3, <2>4 DEF SyncType, ReadInTime, OffsetWithinHalfRoundTrip
<1>5. ASSUME NEW c \in Clients, EndSync(c)
      PROVE  SyncInv'
  <2>1. /\ syncing[c].started \in Nat /\ syncing[c].started <= now
        /\ syncing[c].server - skew \in syncing[c].started..now /\ syncing[c].server \in Int
    BY <1>5 DEF EndSync, SyncType, SyncCalls, ReadInTime
  <2> DEFINE started == syncing[c].started
             middle == Midpoint(started, now)
  <2>2. middle \in Int /\ 2 * (syncing[c].server - skew - middle) \in -(now - started)..(now - started + 1)
    BY <2>1, MidpointIsNear DEF SyncType, SyncCalls
  <2>3. offset' = syncing[c].server - middle /\ roundTrip' = now - started /\ UNCHANGED <<now, skew>>
    BY <1>5 DEF EndSync
  <2> HIDE DEF middle
  <2>4. OffsetWithinHalfRoundTrip'
    BY <2>1, <2>2, <2>3 DEF SyncType, SyncCalls, OffsetWithinHalfRoundTrip
  <2>5. syncing' = [syncing EXCEPT ![c] = NotSyncing]
    BY <1>5 DEF EndSync
  <2> QED
    BY <2>1, <2>2, <2>3, <2>4, <2>5 DEF NotSyncing, SyncType, SyncCalls, ReadInTime
<1>6. ASSUME NEW c \in Clients, SyncFails(c)
      PROVE  SyncInv'
  BY <1>6 DEF SyncFails, NotSyncing, SyncType, SyncCalls, ReadInTime, OffsetWithinHalfRoundTrip
<1>7. CASE UNCHANGED <<now, syncVars>>
  BY <1>7 DEF syncVars, SyncType, SyncCalls, ReadInTime, OffsetWithinHalfRoundTrip
<1> QED
  BY <1>1, <1>2, <1>3, <1>4, <1>5, <1>6, <1>7 DEF SyncNext

\* OffsetWithinHalfRoundTrip holds for any skew, any duration of a request and any number of
\* clients (BingXTimeSynchronizer.synchronize).
THEOREM OffsetIsNear == SyncSpec => []OffsetWithinHalfRoundTrip
<1>1. SyncInv => OffsetWithinHalfRoundTrip
  BY DEF SyncInv
<1> QED
  BY <1>1, SyncInitInv, SyncStepInv, PTL DEF SyncSpec

-----------------------------------------------------------------------------
(* The checks of a function, in their order.                               *)

LEMMA LeastElement ==
  ASSUME NEW U, U \subseteq Nat, U # {}
  PROVE  \E u \in U : \A v \in U : u <= v
<1> DEFINE R == OpToRel(<, Nat)
<1>1. IsWellFoundedOn(R, Nat)
  BY NatLessThanWellFounded
<1>2. \A x, y \in Nat : x < y => <<x, y>> \in R
  BY DEF OpToRel
<1> HIDE DEF R
<1>3. PICK x \in U : \A y \in U : ~ (<<y, x>> \in R)
  BY <1>1, WFMin
<1>4. \A y \in U : ~ (y < x)
  BY <1>2, <1>3
<1>5. \A y \in U : x <= y
  BY <1>4
<1> QED
  BY <1>5

\* Where the answer is "ACCEPTED", no check fails.
LEMMA AcceptedFailsNone ==
  ASSUME NEW checks, DOMAIN checks \subseteq Nat,
         \A i \in DOMAIN checks : checks[i][2] # "ACCEPTED",
         FirstFailing(checks) = "ACCEPTED",
         NEW i \in DOMAIN checks
  PROVE  ~checks[i][1]
<1> DEFINE failing == {j \in DOMAIN checks : checks[j][1]}
<1>1. ASSUME failing # {}
      PROVE  FALSE
  <2>1. \E j \in failing : \A k \in failing : j <= k
    BY <1>1, LeastElement
  <2>2. (CHOOSE j \in failing : \A k \in failing : j <= k) \in failing
    BY <2>1
  <2>3. FirstFailing(checks) = checks[CHOOSE j \in failing : \A k \in failing : j <= k][2]
    BY <1>1, Zenon DEF FirstFailing
  <2> HIDE DEF failing
  <2> QED
    BY <2>2, <2>3 DEF failing
<1> QED
  BY <1>1

LEMMA NoneFailsAccepted ==
  ASSUME NEW checks, \A i \in DOMAIN checks : ~checks[i][1]
  PROVE  FirstFailing(checks) = "ACCEPTED"
BY DEF FirstFailing


\* The two directions for the lists of checks that the functions have.
LEMMA ThreeChecks ==
  ASSUME NEW f1 \in BOOLEAN, NEW f2 \in BOOLEAN, NEW f3 \in BOOLEAN, NEW r1, NEW r2, NEW r3,
         "ACCEPTED" \notin {r1, r2, r3}
  PROVE  FirstFailing(<< <<f1, r1>>, <<f2, r2>>, <<f3, r3>> >>) = "ACCEPTED" <=> ~f1 /\ ~f2 /\ ~f3
<1> DEFINE checks == << <<f1, r1>>, <<f2, r2>>, <<f3, r3>> >>
<1>1. /\ DOMAIN checks = 1..3
      /\ checks[1] = <<f1, r1>> /\ checks[2] = <<f2, r2>> /\ checks[3] = <<f3, r3>>
  OBVIOUS
<1> HIDE DEF checks
<1>2. \A i \in DOMAIN checks : i = 1 \/ i = 2 \/ i = 3
  BY <1>1
<1>3. \A i \in DOMAIN checks : checks[i][2] # "ACCEPTED"
  BY <1>1, <1>2
<1>4. ASSUME FirstFailing(checks) = "ACCEPTED"
      PROVE  ~f1 /\ ~f2 /\ ~f3
  <2>1. \A i \in DOMAIN checks : ~checks[i][1]
    BY <1>1, <1>3, <1>4, AcceptedFailsNone
  <2> QED
    BY <1>1, <2>1
<1>5. ASSUME ~f1, ~f2, ~f3
      PROVE  FirstFailing(checks) = "ACCEPTED"
  <2>1. \A i \in DOMAIN checks : ~checks[i][1]
    BY <1>1, <1>2, <1>5
  <2> QED
    BY <2>1, NoneFailsAccepted
<1> QED
  BY <1>4, <1>5 DEF checks

LEMMA SixChecks ==
  ASSUME NEW checks, DOMAIN checks = 1..6,
         \A i \in 1..6 : checks[i][1] \in BOOLEAN /\ checks[i][2] # "ACCEPTED"
  PROVE  FirstFailing(checks) = "ACCEPTED"
           <=> /\ ~checks[1][1] /\ ~checks[2][1] /\ ~checks[3][1]
               /\ ~checks[4][1] /\ ~checks[5][1] /\ ~checks[6][1]
<1>1. \A i \in DOMAIN checks : i = 1 \/ i = 2 \/ i = 3 \/ i = 4 \/ i = 5 \/ i = 6
  OBVIOUS
<1>2. ASSUME FirstFailing(checks) = "ACCEPTED", NEW i \in 1..6
      PROVE  ~checks[i][1]
  BY <1>2, AcceptedFailsNone
<1>3. ASSUME ~checks[1][1], ~checks[2][1], ~checks[3][1], ~checks[4][1], ~checks[5][1], ~checks[6][1]
      PROVE  FirstFailing(checks) = "ACCEPTED"
  <2>1. \A i \in DOMAIN checks : ~checks[i][1]
    BY <1>1, <1>3
  <2> QED
    BY <2>1, NoneFailsAccepted
<1> QED
  BY <1>2, <1>3

LEMMA PreflightIs ==
  ASSUME NEW request \in OrderRequests, NEW rules \in SymbolRules
  PROVE  Preflight(request, rules) = "ACCEPTED"
           <=> rules.active = TRUE /\ request.quantity > 0 /\ rules.step > 0 /\ rules.tick > 0
<1> DEFINE f1 == ~rules.active
           f2 == request.quantity <= 0
           f3 == rules.step <= 0 \/ rules.tick <= 0
<1>1. f1 \in BOOLEAN /\ f2 \in BOOLEAN /\ f3 \in BOOLEAN
  OBVIOUS
<1>2. Preflight(request, rules) =
        FirstFailing(<< <<f1, "SYMBOL_NOT_TRADABLE">>, <<f2, "INVALID_QUANTITY">>, <<f3, "INVALID_TRADING_RULES">> >>)
  BY DEF Preflight
<1> HIDE DEF f1, f2, f3
<1>3. Preflight(request, rules) = "ACCEPTED" <=> ~f1 /\ ~f2 /\ ~f3
  BY <1>1, <1>2, ThreeChecks
<1>4. f1 <=> ~(rules.active = TRUE)
  BY DEF f1, SymbolRules
<1>5. (f2 <=> ~(request.quantity > 0)) /\ (f3 <=> ~(rules.step > 0 /\ rules.tick > 0))
  BY DEF f2, f3, OrderRequests, SymbolRules
<1> QED
  BY <1>3, <1>4, <1>5

-----------------------------------------------------------------------------
(* Arithmetic.                                                             *)

LEMMA Quotient ==
  ASSUME NEW n \in Nat, NEW k \in Nat \ {0}
  PROVE  n \div k \in Nat /\ k * (n \div k) <= n /\ n < k * (n \div k) + k
OBVIOUS

LEMMA Cancel ==
  ASSUME NEW a \in Int, NEW b \in Int, NEW k \in Nat \ {0}
  PROVE  (k * a <= k * b => a <= b) /\ (k * a < k * b => a < b)
OBVIOUS

\* The parts of n: each of the d parts is a multiple of the step, all together are no more
\* than n, and with a step more for each part they would be more.
LEMMA QuantizeBounds ==
  ASSUME NEW n \in Nat, NEW d \in Nat \ {0}, NEW step \in Nat \ {0}
  PROVE  \E k \in Nat : /\ QuantizeDown(n, d, step) = k * step
                        /\ d * (k * step) <= n
                        /\ n < d * (k * step) + d * step
<1> DEFINE k == n \div (d * step)
<1>1. d * step \in Nat \ {0}
  OBVIOUS
<1>2. k \in Nat /\ (d * step) * k <= n /\ n < (d * step) * k + (d * step)
  BY <1>1, Quotient
<1>3. QuantizeDown(n, d, step) = k * step
  BY DEF QuantizeDown
<1> HIDE DEF k
<1>4. (d * step) * k = d * (k * step)
  BY <1>2
<1> QED
  BY <1>2, <1>3, <1>4

\* A multiple of the step stays as it is.
LEMMA QuantizeMultiple ==
  ASSUME NEW k \in Nat, NEW step \in Nat \ {0}, NEW more \in 0..(step - 1)
  PROVE  QuantizeDown(k * step + more, 1, step) = k * step
<1> DEFINE n == k * step + more
           q == n \div step
<1>1. n \in Nat
  OBVIOUS
<1>2. q \in Nat /\ step * q <= n /\ n < step * q + step
  BY <1>1, Quotient
<1>3. QuantizeDown(n, 1, step) = q * step
  BY <1>1 DEF QuantizeDown
<1> HIDE DEF q
<1>4. step * q < step * (k + 1) /\ step * k < step * (q + 1)
  <2>1. step * (k + 1) = k * step + step /\ step * (q + 1) = step * q + step /\ step * k = k * step
    BY <1>2
  <2>2. k * step \in Nat /\ step * q \in Nat
    BY <1>2
  <2> HIDE DEF n
  <2> QED
    BY <1>2, <2>1, <2>2 DEF n
<1>5. q < k + 1 /\ k < q + 1
  BY <1>2, <1>4, Cancel
<1>6. q = k
  BY <1>2, <1>5
<1> QED
  BY <1>3, <1>6

LEMMA MultipleOf ==
  ASSUME NEW k \in Nat, NEW step \in Nat \ {0}
  PROVE  Multiple(k * step, step)
BY DEF Multiple

\* The largest multiple of the step that is no more than n; taken again, it is the same.
LEMMA QuantizeWhole ==
  ASSUME NEW n \in Nat, NEW step \in Nat \ {0}
  PROVE  LET q == QuantizeDown(n, 1, step)
         IN  /\ q \in Nat /\ q <= n /\ n < q + step
             /\ Multiple(q, step)
             /\ QuantizeDown(q, 1, step) = q
<1>1. PICK k \in Nat : /\ QuantizeDown(n, 1, step) = k * step
                      /\ 1 * (k * step) <= n
                      /\ n < 1 * (k * step) + 1 * step
  <2>1. 1 \in Nat \ {0}
    OBVIOUS
  <2> QED
    BY <2>1, QuantizeBounds, Zenon
<1>2. k * step \in Nat
  OBVIOUS
<1>3. QuantizeDown(k * step, 1, step) = k * step
  <2>1. 0 \in 0..(step - 1)
    OBVIOUS
  <2>2. QuantizeDown(k * step + 0, 1, step) = k * step
    BY <2>1, QuantizeMultiple, Zenon
  <2> QED
    BY <1>2, <2>2
<1> QED
  BY <1>1, <1>2, <1>3, MultipleOf

\* A price moves down for a BUY and up for a SELL; moved again, it stays.
LEMMA QuantizedToZero ==
  ASSUME NEW n \in Nat, NEW step \in Nat \ {0}
  PROVE  QuantizeDown(n, 1, step) = 0 <=> n < step
<1>1. PICK k \in Nat : /\ QuantizeDown(n, 1, step) = k * step
                      /\ 1 * (k * step) <= n /\ n < 1 * (k * step) + 1 * step
  <2>1. 1 \in Nat \ {0}
    OBVIOUS
  <2> QED
    BY <2>1, QuantizeBounds, Zenon
<1>2. CASE k = 0
  BY <1>1, <1>2
<1>3. CASE k # 0
  <2>1. PICK j \in Nat : k = j + 1
    BY <1>3
  <2>2. k * step = j * step + step /\ j * step \in Nat
    BY <2>1
  <2> QED
    BY <1>1, <2>2
<1> QED
  BY <1>2, <1>3

LEMMA PriceMoves ==
  ASSUME NEW value \in Nat \ {0}, NEW tick \in Nat \ {0}, NEW side \in {"BUY", "SELL"}
  PROVE  LET p == PriceRiskSafe(value, tick, side)
         IN  /\ p \in Nat
             /\ IF side = "BUY" THEN p <= value ELSE p >= value
             /\ p = 0 <=> side = "BUY" /\ value < tick
             /\ PriceRiskSafe(p, tick, side) = p
<1>1. CASE side = "BUY"
  BY <1>1, QuantizeWhole, QuantizedToZero DEF PriceRiskSafe
<1>2. CASE side = "SELL"
  <2>1. value + tick - 1 \in Nat
    OBVIOUS
  <2>2. PICK k \in Nat : /\ QuantizeDown(value + tick - 1, 1, tick) = k * tick
                        /\ 1 * (k * tick) <= value + tick - 1
                        /\ value + tick - 1 < 1 * (k * tick) + 1 * tick
    <3>1. 1 \in Nat \ {0}
      OBVIOUS
    <3> QED
      BY <2>1, <3>1, QuantizeBounds, Zenon
  <2>3. k * tick \in Nat
    OBVIOUS
  <2>4. value <= k * tick
    BY <2>2, <2>3
  <2>5. QuantizeDown(k * tick + (tick - 1), 1, tick) = k * tick
    <3>1. tick - 1 \in 0..(tick - 1)
      OBVIOUS
    <3> QED
      BY <3>1, QuantizeMultiple, Zenon
  <2>6. PriceRiskSafe(value, tick, side) = k * tick
    BY <1>2, <2>2 DEF PriceRiskSafe
  <2>7. k * tick + (tick - 1) = k * tick + tick - 1
    BY <2>3
  <2>8. PriceRiskSafe(k * tick, tick, side) = k * tick
    BY <1>2, <2>5, <2>7 DEF PriceRiskSafe
  <2> QED
    BY <1>2, <2>3, <2>4, <2>6, <2>8
<1> QED
  BY <1>1, <1>2

-----------------------------------------------------------------------------
(* Plans.                                                                  *)

LEMMA TwapAccepted ==
  ASSUME NEW plan \in TwapPlans, NEW step \in Int
  PROVE  TwapVerdict(plan, step) = "ACCEPTED" <=> plan.objective /\ ~(plan.slices <= 0) /\ ~(step <= 0)
<1> DEFINE f1 == ~plan.objective
           f2 == plan.slices <= 0
           f3 == step <= 0
<1>1. f1 \in BOOLEAN /\ f2 \in BOOLEAN /\ f3 \in BOOLEAN
  OBVIOUS
<1>2. TwapVerdict(plan, step) = FirstFailing(<< <<f1, "OBJECTIVE">>, <<f2, "SLICES">>, <<f3, "STEP">> >>)
  BY DEF TwapVerdict
<1>3. plan.objective \in BOOLEAN
  BY DEF TwapPlans
<1> HIDE DEF f1, f2, f3
<1>4. TwapVerdict(plan, step) = "ACCEPTED" <=> ~f1 /\ ~f2 /\ ~f3
  BY <1>1, <1>2, ThreeChecks
<1> QED
  BY <1>3, <1>4 DEF f1, f2, f3

\* Whatever the plan and the step: the slices of a plan that build_slices accepts are
\* within its bounds (build_slices, quantize_down).
THEOREM TwapPlansAreBounded ==
  \A plan \in TwapPlans, step \in Int :
    TwapVerdict(plan, step) = "ACCEPTED" => SlicesWithinBounds(plan, step)
<1> SUFFICES ASSUME NEW plan \in TwapPlans, NEW step \in Int, TwapVerdict(plan, step) = "ACCEPTED"
             PROVE  SlicesWithinBounds(plan, step)
  OBVIOUS
<1>1. /\ plan.slices \in Nat \ {0} /\ step \in Nat \ {0}
      /\ plan.total \in Int /\ plan.min_slice \in Nat /\ plan.max_slice \in Nat
  <2>1. plan.slices \in Int
    BY DEF TwapPlans
  <2> QED
    BY <2>1, TwapAccepted DEF TwapPlans
<1> DEFINE wanted == Greatest(plan.total, plan.min_slice * plan.slices)
           all    == Least(wanted, plan.max_slice * plan.slices)
<1>2. plan.min_slice * plan.slices \in Nat /\ plan.max_slice * plan.slices \in Nat
  BY <1>1
<1>3. /\ wanted \in Nat /\ plan.total <= wanted
      /\ wanted = plan.total \/ wanted = plan.min_slice * plan.slices
  BY <1>1, <1>2 DEF Greatest
<1>4. /\ all \in Nat /\ all <= wanted /\ all <= plan.max_slice * plan.slices
      /\ all = wanted \/ all = plan.max_slice * plan.slices
  BY <1>2, <1>3 DEF Least
<1>5. TwapSlice(plan, step) = QuantizeDown(all, plan.slices, step)
  BY DEF TwapSlice
<1> HIDE DEF wanted, all
<1>6. PICK k \in Nat : /\ TwapSlice(plan, step) = k * step
                      /\ plan.slices * (k * step) <= all
                      /\ all < plan.slices * (k * step) + plan.slices * step
  BY <1>1, <1>4, <1>5, QuantizeBounds
<1>7. PICK slice \in Nat : slice = k * step
  BY <1>1
<1>8. /\ TwapSlice(plan, step) = slice
      /\ plan.slices * slice <= all /\ all < plan.slices * slice + plan.slices * step
  BY <1>6, <1>7
<1>9. /\ plan.max_slice * plan.slices = plan.slices * plan.max_slice
      /\ plan.min_slice * plan.slices = plan.slices * plan.min_slice
      /\ plan.slices * slice + plan.slices * step = plan.slices * (slice + step)
      /\ plan.slices * slice \in Nat /\ plan.slices * step \in Nat
  BY <1>1
<1>10. slice <= plan.max_slice
  <2>1. plan.slices * slice <= plan.slices * plan.max_slice
    BY <1>2, <1>4, <1>8, <1>9
  <2> QED
    BY <1>1, <2>1, Cancel
<1>11. plan.slices * slice <= plan.total \/ slice <= plan.min_slice
  <2>1. CASE wanted = plan.total
    BY <1>1, <1>3, <1>4, <1>8, <1>9, <2>1
  <2>2. CASE wanted = plan.min_slice * plan.slices
    <3>1. plan.slices * slice <= plan.slices * plan.min_slice
      BY <1>2, <1>4, <1>8, <1>9, <2>2
    <3> QED
      BY <1>1, <3>1, Cancel
  <2> QED
    BY <1>3, <2>1, <2>2
<1>12. plan.total < plan.slices * slice + plan.slices * step \/ plan.max_slice < slice + step
  <2>1. CASE all = wanted
    BY <1>1, <1>3, <1>4, <1>8, <1>9, <2>1
  <2>2. CASE all = plan.max_slice * plan.slices
    <3>1. plan.slices * plan.max_slice < plan.slices * (slice + step)
      BY <1>8, <1>9, <2>2
    <3> QED
      BY <1>1, <3>1, Cancel
  <2> QED
    BY <1>4, <2>1, <2>2
<1> QED
  BY <1>8, <1>10, <1>11, <1>12 DEF SlicesWithinBounds

LEMMA VolumeAccepted ==
  ASSUME NEW plan \in VolumePlans, NEW step \in Int, VolumeVerdict(plan, step) = "ACCEPTED"
  PROVE  ~(plan.slices <= 0) /\ ~(plan.target <= 0) /\ ~(plan.volume <= 0) /\ ~(plan.rate <= 0) /\ ~(step <= 0)
<1> DEFINE f1 == ~plan.objective
           f2 == plan.slices <= 0
           f3 == plan.target <= 0
           f4 == plan.volume <= 0
           f5 == plan.rate <= 0 \/ plan.rate > 20
           f6 == step <= 0
<1>1. /\ f1 \in BOOLEAN /\ f2 \in BOOLEAN /\ f3 \in BOOLEAN
      /\ f4 \in BOOLEAN /\ f5 \in BOOLEAN /\ f6 \in BOOLEAN
  OBVIOUS
<1> DEFINE checks == << <<f1, "OBJECTIVE">>, <<f2, "SLICES">>, <<f3, "TARGET">>, <<f4, "VOLUME">>,
                        <<f5, "PARTICIPATION">>, <<f6, "STEP">> >>
<1>2. FirstFailing(checks) = "ACCEPTED"
  BY DEF VolumeVerdict
<1> HIDE DEF f1, f2, f3, f4, f5, f6
<1>3. /\ DOMAIN checks = 1..6
      /\ checks[1] = <<f1, "OBJECTIVE">> /\ checks[2] = <<f2, "SLICES">> /\ checks[3] = <<f3, "TARGET">>
      /\ checks[4] = <<f4, "VOLUME">> /\ checks[5] = <<f5, "PARTICIPATION">> /\ checks[6] = <<f6, "STEP">>
  OBVIOUS
<1> HIDE DEF checks
<1>4. \A i \in 1..6 : checks[i][1] \in BOOLEAN /\ checks[i][2] # "ACCEPTED"
  <2>1. \A i \in 1..6 : i = 1 \/ i = 2 \/ i = 3 \/ i = 4 \/ i = 5 \/ i = 6
    OBVIOUS
  <2> QED
    BY <1>1, <1>3, <2>1
<1>5. ~f2 /\ ~f3 /\ ~f4 /\ ~f5 /\ ~f6
  BY <1>2, <1>3, <1>4, SixChecks
<1> QED
  BY <1>5 DEF f2, f3, f4, f5, f6

\* Whatever the plan and the step: the child orders of a plan that build_child_orders
\* accepts are within its bounds (build_child_orders, _validate, quantize_down).
THEOREM VolumePlansAreBounded ==
  \A plan \in VolumePlans, step \in Int :
    VolumeVerdict(plan, step) = "ACCEPTED" => ChildrenWithinBounds(plan, step)
<1> SUFFICES ASSUME NEW plan \in VolumePlans, NEW step \in Int, VolumeVerdict(plan, step) = "ACCEPTED"
             PROVE  ChildrenWithinBounds(plan, step)
  OBVIOUS
<1>1. /\ plan.slices \in Nat \ {0} /\ step \in Nat \ {0} /\ plan.target \in Nat \ {0}
      /\ plan.volume \in Nat \ {0} /\ plan.rate \in Nat \ {0}
      /\ plan.min_child \in Int /\ plan.max_child \in Nat \cup {Absent}
  <2>1. plan.slices \in Int /\ plan.target \in Int /\ plan.volume \in Int /\ plan.rate \in Int
    BY DEF VolumePlans
  <2> QED
    BY <2>1, VolumeAccepted DEF VolumePlans
<1> DEFINE parts  == 100 * plan.slices
           capped == Least(100 * plan.target, Participation(plan))
           within == IF plan.max_child = Absent THEN capped ELSE Least(capped, plan.max_child * parts)
           all    == Greatest(within, plan.min_child * parts)
<1>2. parts \in Nat \ {0} /\ 100 * plan.target \in Nat /\ Participation(plan) \in Nat
  BY <1>1 DEF Participation
<1>3. capped \in Nat /\ capped <= 100 * plan.target /\ capped <= Participation(plan)
  BY <1>2 DEF Least
<1>4. plan.max_child # Absent => plan.max_child \in Nat /\ plan.max_child * parts \in Nat
  BY <1>1, <1>2
<1>5. /\ within \in Nat /\ within <= capped
      /\ plan.max_child # Absent => within <= plan.max_child * parts
  <2> HIDE DEF capped, parts
  <2> QED
    BY <1>3, <1>4 DEF Least
<1>6. plan.min_child * parts \in Int
  BY <1>1, <1>2
<1>7. all \in Nat /\ (all = within \/ (all = plan.min_child * parts /\ within <= plan.min_child * parts))
  <2> HIDE DEF within, parts
  <2> QED
    BY <1>5, <1>6 DEF Greatest
<1>8. VolumeChild(plan, step) = QuantizeDown(all, parts, step)
  BY DEF VolumeChild
<1> HIDE DEF parts, capped, within, all
<1>9. PICK k \in Nat : VolumeChild(plan, step) = k * step /\ parts * (k * step) <= all
  BY <1>1, <1>2, <1>7, <1>8, QuantizeBounds
<1>10. PICK child \in Nat : child = k * step
  BY <1>1
<1>11. VolumeChild(plan, step) = child /\ parts * child <= all
  BY <1>9, <1>10
<1>12. /\ parts * child = 100 * (plan.slices * child) /\ plan.slices * child \in Nat
       /\ plan.min_child * parts = parts * plan.min_child
  BY <1>1, <1>2 DEF parts
<1>13. CASE all = within
  <2>1. plan.slices * child <= plan.target /\ 100 * (plan.slices * child) <= Participation(plan)
    BY <1>1, <1>2, <1>3, <1>5, <1>11, <1>12, <1>13
  <2>2. ASSUME plan.max_child # Absent
        PROVE  child <= Greatest(plan.max_child, plan.min_child)
    <3>1. plan.max_child \in Nat /\ within <= plan.max_child * parts
      BY <1>4, <1>5, <2>2
    <3>2. plan.max_child * parts = parts * plan.max_child /\ parts * plan.max_child \in Nat
      BY <1>2, <3>1
    <3>3. parts * child <= parts * plan.max_child
      BY <1>5, <1>11, <1>12, <1>13, <3>1, <3>2
    <3>4. child <= plan.max_child
      BY <1>2, <3>1, <3>3, Cancel
    <3> QED
      BY <1>1, <3>1, <3>4 DEF Greatest
  <2> QED
    BY <1>11, <2>1, <2>2 DEF ChildrenWithinBounds
<1>14. CASE all = plan.min_child * parts
  <2>1. parts * child <= parts * plan.min_child
    BY <1>11, <1>12, <1>14
  <2>2. child <= plan.min_child
    BY <1>1, <1>2, <2>1, Cancel
  <2>3. plan.max_child # Absent => child <= Greatest(plan.max_child, plan.min_child)
    BY <1>1, <2>2 DEF Greatest
  <2> QED
    BY <1>11, <2>2, <2>3 DEF ChildrenWithinBounds
<1> QED
  BY <1>7, <1>13, <1>14

-----------------------------------------------------------------------------
(* Orders.                                                                 *)

LEMMA ValidateIs ==
  ASSUME NEW request \in OrderRequests, NEW rules \in SymbolRules, NEW reference \in Int,
         Preflight(request, rules) = "ACCEPTED"
  PROVE  LET order     == Normalized(request, rules)
             valuation == IF order.price = Absent THEN reference ELSE order.price
         IN  Validate(request, rules, reference) = "ACCEPTED" <=>
               /\ ~(order.quantity < rules.min_quantity)
               /\ ~(rules.max_quantity # Absent /\ order.quantity > rules.max_quantity)
               /\ ~(request.price # Absent /\ (request.price <= 0 \/ order.price <= 0))
               /\ ~(request.trigger # Absent /\ request.trigger <= 0)
               /\ ~(rules.min_notional > 0 /\ valuation = Absent)
               /\ ~(valuation # Absent /\ order.quantity * valuation < rules.min_notional)
<1> DEFINE order     == Normalized(request, rules)
           valuation == IF order.price = Absent THEN reference ELSE order.price
           f1 == order.quantity < rules.min_quantity
           f2 == rules.max_quantity # Absent /\ order.quantity > rules.max_quantity
           f3 == request.price # Absent /\ (request.price <= 0 \/ order.price <= 0)
           f4 == request.trigger # Absent /\ request.trigger <= 0
           f5 == rules.min_notional > 0 /\ valuation = Absent
           f6 == valuation # Absent /\ order.quantity * valuation < rules.min_notional
<1>1. /\ f1 \in BOOLEAN /\ f2 \in BOOLEAN /\ f3 \in BOOLEAN
      /\ f4 \in BOOLEAN /\ f5 \in BOOLEAN /\ f6 \in BOOLEAN
  OBVIOUS
<1> DEFINE checks == << <<f1, "MIN_QUANTITY">>, <<f2, "MAX_QUANTITY">>, <<f3, "INVALID_PRICE">>,
                        <<f4, "INVALID_TRIGGER_PRICE">>, <<f5, "REFERENCE_PRICE_REQUIRED">>,
                        <<f6, "MIN_NOTIONAL">> >>
<1>2. Validate(request, rules, reference) = FirstFailing(checks)
  BY Zenon DEF Validate
<1> HIDE DEF f1, f2, f3, f4, f5, f6
<1>3. /\ DOMAIN checks = 1..6
      /\ checks[1] = <<f1, "MIN_QUANTITY">> /\ checks[2] = <<f2, "MAX_QUANTITY">>
      /\ checks[3] = <<f3, "INVALID_PRICE">> /\ checks[4] = <<f4, "INVALID_TRIGGER_PRICE">>
      /\ checks[5] = <<f5, "REFERENCE_PRICE_REQUIRED">> /\ checks[6] = <<f6, "MIN_NOTIONAL">>
  OBVIOUS
<1> HIDE DEF checks
<1>4. \A i \in 1..6 : checks[i][1] \in BOOLEAN /\ checks[i][2] # "ACCEPTED"
  <2>1. \A i \in 1..6 : i = 1 \/ i = 2 \/ i = 3 \/ i = 4 \/ i = 5 \/ i = 6
    OBVIOUS
  <2> QED
    BY <1>1, <1>3, <2>1
<1>5. FirstFailing(checks) = "ACCEPTED" <=> ~f1 /\ ~f2 /\ ~f3 /\ ~f4 /\ ~f5 /\ ~f6
  BY <1>3, <1>4, SixChecks
<1> QED
  BY <1>2, <1>5, Zenon DEF f1, f2, f3, f4, f5, f6

\* What normalization makes of each field.
LEMMA NormalizedFields ==
  ASSUME NEW request \in OrderRequests, NEW rules
  PROVE  LET order == Normalized(request, rules)
         IN  /\ order.quantity = QuantizeDown(request.quantity, 1, rules.step)
             /\ order.price = NormalPrice(request.price, rules, request.side)
             /\ order.trigger = NormalPrice(request.trigger, rules, request.side)
             /\ order.side = request.side
BY DEF Normalized, OrderRequests

LEMMA NormalizedType ==
  ASSUME NEW request \in OrderRequests, NEW rules,
         QuantizeDown(request.quantity, 1, rules.step) \in Int,
         NormalPrice(request.price, rules, request.side) \in Int,
         NormalPrice(request.trigger, rules, request.side) \in Int
  PROVE  Normalized(request, rules) \in OrderRequests
BY DEF Normalized, OrderRequests

LEMMA NormalizedSame ==
  ASSUME NEW request \in OrderRequests, NEW rules,
         QuantizeDown(request.quantity, 1, rules.step) = request.quantity,
         NormalPrice(request.price, rules, request.side) = request.price,
         NormalPrice(request.trigger, rules, request.side) = request.trigger
  PROVE  Normalized(request, rules) = request
BY DEF Normalized, OrderRequests

\* A price that is none or positive is normalized to none or to a natural number, at no
\* worse a price, and to zero only if a BUY's is below a tick; normalized again, it stays.
LEMMA NormalPriceMoves ==
  ASSUME NEW price \in Int, price = Absent \/ price > 0, NEW rules, rules.tick \in Nat \ {0},
         NEW side \in {"BUY", "SELL"}
  PROVE  LET p == NormalPrice(price, rules, side)
         IN  /\ p = Absent <=> price = Absent
             /\ p # Absent => p \in Nat /\ (IF side = "BUY" THEN p <= price ELSE p >= price)
             /\ p = 0 <=> side = "BUY" /\ price \in 1..(rules.tick - 1)
             /\ NormalPrice(p, rules, side) = p
<1>1. CASE price = Absent
  BY <1>1 DEF NormalPrice, Absent
<1>2. CASE price # Absent /\ price \in Nat \ {0}
  <2> DEFINE p == PriceRiskSafe(price, rules.tick, side)
  <2>1. NormalPrice(price, rules, side) = p
    BY <1>2 DEF NormalPrice
  <2>2. /\ p \in Nat /\ (IF side = "BUY" THEN p <= price ELSE p >= price)
        /\ p = 0 <=> side = "BUY" /\ price < rules.tick
        /\ PriceRiskSafe(p, rules.tick, side) = p
    BY <1>2, PriceMoves
  <2> HIDE DEF p
  <2>3. p # Absent
    BY <2>2 DEF Absent
  <2>4. NormalPrice(p, rules, side) = p
    BY <2>2, <2>3 DEF NormalPrice
  <2> QED
    BY <1>2, <2>1, <2>2, <2>3, <2>4
<1> QED
  BY <1>1, <1>2

\* Whatever the order, the rules and the reference price: an order that
\* validate_and_normalize accepts is safe (validate_and_normalize, _price_risk_safe).
THEOREM AcceptedOrdersAreSafe ==
  \A asked \in OrderRequests, rules \in SymbolRules, reference \in Int :
    Validate(asked, rules, reference) = "ACCEPTED" => SafeOrder(asked, rules, reference)
<1> SUFFICES ASSUME NEW asked \in OrderRequests, NEW rules \in SymbolRules, NEW reference \in Int,
                    Validate(asked, rules, reference) = "ACCEPTED"
             PROVE  SafeOrder(asked, rules, reference)
  OBVIOUS
<1>1. /\ asked.quantity \in Int /\ asked.price \in Int /\ asked.trigger \in Int
      /\ asked.side \in {"BUY", "SELL"} /\ rules.active \in BOOLEAN /\ rules.step \in Int
      /\ rules.tick \in Int /\ rules.min_quantity \in Int /\ rules.max_quantity \in Int
      /\ rules.min_notional \in Int
  BY DEF OrderRequests, SymbolRules
<1>2. Preflight(asked, rules) = "ACCEPTED"
  BY DEF Validate
<1>3. /\ rules.active = TRUE /\ asked.quantity \in Nat \ {0}
      /\ rules.step \in Nat \ {0} /\ rules.tick \in Nat \ {0}
  <2>1. rules.active = TRUE /\ asked.quantity > 0 /\ rules.step > 0 /\ rules.tick > 0
    BY <1>2, PreflightIs, Zenon
  <2> QED
    BY <1>1, <2>1
<1> DEFINE order == Normalized(asked, rules)
           valuation == IF order.price = Absent THEN reference ELSE order.price
<1>4. /\ ~(order.quantity < rules.min_quantity)
      /\ ~(rules.max_quantity # Absent /\ order.quantity > rules.max_quantity)
      /\ ~(asked.price # Absent /\ (asked.price <= 0 \/ order.price <= 0))
      /\ ~(asked.trigger # Absent /\ asked.trigger <= 0)
      /\ ~(rules.min_notional > 0 /\ valuation = Absent)
      /\ ~(valuation # Absent /\ order.quantity * valuation < rules.min_notional)
  BY <1>2, ValidateIs, Zenon
<1>5. /\ order.quantity = QuantizeDown(asked.quantity, 1, rules.step)
      /\ order.price = NormalPrice(asked.price, rules, asked.side)
      /\ order.trigger = NormalPrice(asked.trigger, rules, asked.side)
      /\ order.side = asked.side
  BY NormalizedFields
<1> HIDE DEF order
<1>6. /\ order.quantity \in Nat /\ order.quantity <= asked.quantity
      /\ asked.quantity < order.quantity + rules.step /\ Multiple(order.quantity, rules.step)
      /\ QuantizeDown(order.quantity, 1, rules.step) = order.quantity
  BY <1>3, <1>5, QuantizeWhole
<1>7. /\ asked.price = Absent \/ asked.price > 0
      /\ asked.trigger = Absent \/ asked.trigger > 0
  BY <1>1, <1>4
<1>8. /\ order.price = Absent <=> asked.price = Absent
      /\ order.price # Absent =>
           /\ order.price \in Nat
           /\ IF asked.side = "BUY" THEN order.price <= asked.price ELSE order.price >= asked.price
      /\ NormalPrice(order.price, rules, asked.side) = order.price
  BY <1>1, <1>3, <1>5, <1>7, NormalPriceMoves
<1>9. /\ order.trigger # Absent =>
           /\ order.trigger \in Nat
           /\ IF asked.side = "BUY" THEN order.trigger <= asked.trigger
                                   ELSE order.trigger >= asked.trigger
      /\ order.trigger = 0 <=> asked.side = "BUY" /\ asked.trigger \in 1..(rules.tick - 1)
      /\ NormalPrice(order.trigger, rules, asked.side) = order.trigger
  BY <1>1, <1>3, <1>5, <1>7, NormalPriceMoves
<1>10. order.price # Absent => order.price \in Nat \ {0}
  BY <1>4, <1>8
<1>11. order.price # Absent =>
         IF order.side = "BUY" THEN order.price \in 1..asked.price ELSE order.price >= asked.price
  BY <1>1, <1>5, <1>8, <1>10
<1>12. order.price # Absent => order.quantity * order.price >= rules.min_notional
  <2> SUFFICES ASSUME order.price # Absent
               PROVE  order.quantity * order.price >= rules.min_notional
    OBVIOUS
  <2>1. ~(order.quantity * order.price < rules.min_notional)
    BY <1>4
  <2>2. order.quantity * order.price \in Int
    BY <1>6, <1>10
  <2> QED
    BY <1>1, <2>1, <2>2
<1>13. rules.max_quantity = Absent \/ order.quantity <= rules.max_quantity
  BY <1>1, <1>4, <1>6
<1>14. order.trigger # Absent =>
         IF order.side = "BUY" THEN order.trigger \in 0..asked.trigger
                               ELSE order.trigger >= asked.trigger
  BY <1>1, <1>5, <1>9
<1>15. order.trigger = 0 <=> order.side = "BUY" /\ asked.trigger \in 1..(rules.tick - 1)
  BY <1>5, <1>9
<1>16. order.quantity = 0 <=> asked.quantity < rules.step
  BY <1>3, <1>5, QuantizedToZero
<1>17. order \in OrderRequests
  <2>1. order.price \in Int /\ order.trigger \in Int
    BY <1>8, <1>9 DEF Absent
  <2> QED
    BY <1>5, <1>6, <2>1, NormalizedType DEF order
<1>18. Normalized(order, rules) = order
  BY <1>5, <1>6, <1>8, <1>9, <1>17, NormalizedSame
<1>19. ASSUME order.quantity # 0, order.trigger # 0
       PROVE  Validate(order, rules, reference) = "ACCEPTED"
  <2>1. Preflight(order, rules) = "ACCEPTED"
    <3>1. rules.active = TRUE /\ order.quantity > 0 /\ rules.step > 0 /\ rules.tick > 0
      BY <1>1, <1>3, <1>6, <1>19
    <3> QED
      BY <1>17, <3>1, PreflightIs, Zenon
  <2>2. ~(order.trigger # Absent /\ order.trigger <= 0)
    BY <1>9, <1>19
  <2>3. ~(order.price # Absent /\ (order.price <= 0 \/ order.price <= 0))
    BY <1>10
  <2>4. /\ ~(order.quantity < rules.min_quantity)
        /\ ~(rules.max_quantity # Absent /\ order.quantity > rules.max_quantity)
        /\ ~(rules.min_notional > 0 /\ valuation = Absent)
        /\ ~(valuation # Absent /\ order.quantity * valuation < rules.min_notional)
    BY <1>4
  <2> QED
    BY <1>17, <1>18, <2>1, <2>2, <2>3, <2>4, ValidateIs, Zenon
<1>20. ASSUME Validate(order, rules, reference) = "ACCEPTED"
       PROVE  order.quantity # 0 /\ order.trigger # 0
  <2>1. Preflight(order, rules) = "ACCEPTED"
    BY <1>20 DEF Validate
  <2>2. order.quantity > 0
    BY <1>17, <2>1, PreflightIs, Zenon
  <2>3. ~(order.trigger # Absent /\ order.trigger <= 0)
    BY <1>17, <1>20, <2>1, ValidateIs, Zenon
  <2>4. order.trigger # 0
    BY <2>3 DEF Absent
  <2> QED
    BY <1>6, <2>2, <2>4
<1>21. Validate(order, rules, reference) = "ACCEPTED" <=> order.quantity # 0 /\ order.trigger # 0
  BY <1>19, <1>20
<1> QED
  BY <1>6, <1>11, <1>12, <1>13, <1>14, <1>15, <1>16, <1>18, <1>21 DEF SafeOrder, order

-----------------------------------------------------------------------------
(* Copy instructions.                                                      *)

LEMMA EvaluateAccepted ==
  ASSUME NEW order, NEW profile, Evaluate(order, profile) = "ACCEPTED"
  PROVE  /\ ~profile.org_kill_switch /\ ~profile.account_kill_switch
         /\ ~(order.price * order.quantity > profile.max_order_value)
<1> DEFINE f1 == profile.org_kill_switch
           f2 == profile.account_kill_switch
           f3 == order.symbol \in profile.blocked \/ order.symbol \notin profile.allowed
           f4 == order.equity < profile.min_equity
           f5 == order.leverage > profile.max_leverage
           f6 == order.price * order.quantity > profile.max_order_value
<1> DEFINE checks == << <<f1, "ORG_KILL_SWITCH">>, <<f2, "ACCOUNT_KILL_SWITCH">>,
                        <<f3, "SYMBOL_NOT_ALLOWED">>, <<f4, "MIN_EQUITY">>, <<f5, "LEVERAGE_LIMIT">>,
                        <<f6, "ORDER_VALUE_LIMIT">> >>
<1>1. FirstFailing(checks) = "ACCEPTED"
  BY DEF Evaluate
<1> HIDE DEF f1, f2, f3, f4, f5, f6
<1>2. /\ DOMAIN checks = 1..6
      /\ checks[1] = <<f1, "ORG_KILL_SWITCH">> /\ checks[2] = <<f2, "ACCOUNT_KILL_SWITCH">>
      /\ checks[3] = <<f3, "SYMBOL_NOT_ALLOWED">> /\ checks[4] = <<f4, "MIN_EQUITY">>
      /\ checks[5] = <<f5, "LEVERAGE_LIMIT">> /\ checks[6] = <<f6, "ORDER_VALUE_LIMIT">>
  OBVIOUS
<1> HIDE DEF checks
<1>3. \A i \in DOMAIN checks : checks[i][2] # "ACCEPTED"
  <2>1. \A i \in 1..6 : i = 1 \/ i = 2 \/ i = 3 \/ i = 4 \/ i = 5 \/ i = 6
    OBVIOUS
  <2> QED
    BY <1>2, <2>1
<1>4. ~checks[1][1] /\ ~checks[2][1] /\ ~checks[6][1]
  BY <1>1, <1>2, <1>3, AcceptedFailsNone
<1>5. ~f1 /\ ~f2 /\ ~f6
  BY <1>2, <1>4
<1> QED
  BY <1>5 DEF f1, f2, f6

\* What an instruction may be worth once it was validated.
WithinProfile ==
  LET profile == Profiles[instruction.profile]
  IN  /\ instruction.profile \in DOMAIN Profiles
      /\ ~profile.org_kill_switch /\ ~profile.account_kill_switch
      /\ instruction.quantity * instruction.price <= profile.max_order_value

\* An instruction was not submitted before SUBMITTING, and one that was checked and not
\* rejected is within its profile.
CopyInv ==
  \/ instruction = NoInstruction /\ submissions = 0
  \/ /\ instruction # NoInstruction
     /\ instruction \in Instructions
     /\ submissions \in {0, 1}
     /\ instruction.state \in {"RECEIVED", "VALIDATING", "READY", "RISK_REJECTED"} => submissions = 0
     /\ instruction.profile # 0 /\ instruction.state # "RISK_REJECTED" => WithinProfile

LEMMA CopyInitInv == CopyInit => CopyInv
BY DEF CopyInit, CopyInv

LEMMA CopyStepInv == CopyInv /\ [CopyNext]_copyVars => CopyInv'
<1> SUFFICES ASSUME CopyInv, [CopyNext]_copyVars
             PROVE  CopyInv'
  OBVIOUS
<1>1. ASSUME NEW master \in MasterQuantities, NEW multiplier \in Multipliers,
             CreateInstruction(master, multiplier)
      PROVE  CopyInv'
  <2> DEFINE quantity == QuantizeDown(master * multiplier, 1, Step)
  <2>1. quantity \in Int
    <3>1. master * multiplier \in Int /\ Step \in Nat \ {0}
      BY <1>1, SizesAssumption DEF CreateInstruction
    <3>2. \A n \in Int : n \div (1 * Step) \in Int
      BY <3>1
    <3> HIDE DEF quantity
    <3>3. \A n \in Int : QuantizeDown(n, 1, Step) \in Int
      BY <3>1, <3>2 DEF QuantizeDown
    <3> QED
      BY <3>1, <3>3 DEF quantity
  <2>2. instruction' = [state |-> "RECEIVED", quantity |-> quantity, price |-> 0, profile |-> 0]
    BY <1>1 DEF CreateInstruction
  <2> HIDE DEF quantity
  <2>3. instruction' \in Instructions
    BY <2>1, <2>2 DEF Instructions, CopyStates
  <2>4. submissions' = 0
    BY <1>1 DEF CreateInstruction, CopyInv
  <2> QED
    BY <2>2, <2>3, <2>4, NoInstructionAssumption DEF CopyInv
<1>2. ASSUME NEW price \in Prices, NEW p \in DOMAIN Profiles, ValidateInstruction(price, p)
      PROVE  CopyInv'
  <2> DEFINE order == [symbol |-> "BTC", quantity |-> instruction.quantity, price |-> price,
                       leverage |-> 1, equity |-> 1]
             outcome == IF Evaluate(order, Profiles[p]) = "ACCEPTED" THEN "READY" ELSE "RISK_REJECTED"
  <2>1. /\ instruction # NoInstruction /\ "VALIDATING" \in Allowed(instruction.state)
        /\ instruction' = [instruction EXCEPT !.state = outcome, !.price = price, !.profile = p]
        /\ submissions' = submissions
    BY <1>2 DEF ValidateInstruction
  <2>2. instruction.state = "RECEIVED" /\ instruction \in Instructions /\ submissions = 0
    <3>1. instruction \in Instructions
      BY <2>1 DEF CopyInv
    <3>2. instruction.state = "RECEIVED"
      BY <2>1, <3>1 DEF Allowed, Instructions, CopyStates
    <3> QED
      BY <2>1, <3>1, <3>2 DEF CopyInv
  <2>3. price \in Int /\ Profiles[p].max_order_value \in Int
    BY SizesAssumption, ProfilesAssumption
  <2>4. /\ instruction'.quantity = instruction.quantity /\ instruction'.price = price
        /\ instruction'.profile = p /\ instruction'.state = outcome
    BY <2>1, <2>2 DEF Instructions
  <2>5. outcome \in {"READY", "RISK_REJECTED"}
    OBVIOUS
  <2>6. ASSUME outcome = "READY"
        PROVE  WithinProfile'
    <3>1. Evaluate(order, Profiles[p]) = "ACCEPTED"
      BY <2>6
    <3>2. /\ ~Profiles[p].org_kill_switch /\ ~Profiles[p].account_kill_switch
          /\ ~(price * instruction.quantity > Profiles[p].max_order_value)
      BY <3>1, EvaluateAccepted
    <3>3. instruction.quantity \in Int
      BY <2>2 DEF Instructions
    <3> QED
      BY <2>3, <2>4, <3>2, <3>3 DEF WithinProfile
  <2> HIDE DEF outcome
  <2>7. instruction' \in Instructions
    BY <2>1, <2>2, <2>3, <2>5 DEF Instructions, CopyStates
  <2> QED
    BY <2>1, <2>2, <2>4, <2>5, <2>6, <2>7, NoInstructionAssumption DEF CopyInv
<1>3. ASSUME NEW state \in CopyStates, Transition(state)
      PROVE  CopyInv'
  <2>1. /\ instruction # NoInstruction /\ state \in Allowed(instruction.state)
        /\ instruction' = [instruction EXCEPT !.state = state]
        /\ submissions' = IF state = "SUBMITTING" THEN submissions + 1 ELSE submissions
    BY <1>3 DEF Transition
  <2>2. instruction \in Instructions /\ submissions \in {0, 1}
    BY <2>1 DEF CopyInv
  <2>3. /\ instruction.state # "RISK_REJECTED" /\ state # "RECEIVED"
        /\ state = "SUBMITTING" => instruction.state = "READY"
        /\ state = "VALIDATING" => instruction.state = "RECEIVED"
        /\ state \in {"READY", "RISK_REJECTED"} => instruction.state = "VALIDATING"
    BY <2>1, <2>2 DEF Allowed, Instructions, CopyStates
  <2>4. instruction.profile # 0 => WithinProfile
    BY <2>1, <2>3 DEF CopyInv
  <2>5. /\ instruction'.quantity = instruction.quantity /\ instruction'.price = instruction.price
        /\ instruction'.profile = instruction.profile /\ instruction'.state = state
        /\ instruction' \in Instructions
    BY <2>1, <2>2 DEF Instructions
  <2>6. instruction'.profile # 0 => WithinProfile'
    BY <2>4, <2>5 DEF WithinProfile
  <2>7. /\ submissions' \in {0, 1}
        /\ state \in {"VALIDATING", "READY", "RISK_REJECTED"} => submissions' = 0
    BY <2>1, <2>2, <2>3 DEF CopyInv
  <2> QED
    BY <2>3, <2>5, <2>6, <2>7, NoInstructionAssumption DEF CopyInv
<1>4. CASE UNCHANGED copyVars
  BY <1>4 DEF copyVars, CopyInv, WithinProfile
<1> QED
  BY <1>1, <1>2, <1>3, <1>4 DEF CopyNext

LEMMA CopyInvFinal == CopyInv => VerdictsAreFinal
<1> SUFFICES ASSUME CopyInv
             PROVE  VerdictsAreFinal
  OBVIOUS
<1>1. submissions \in {0, 1}
  BY DEF CopyInv
<1>2. instruction.state = "RISK_REJECTED" => submissions = 0
  BY DEF CopyInv
<1>3. submissions = 1 /\ instruction.profile # 0 => WithinProfile
  BY <1>2 DEF CopyInv
<1> QED
  BY <1>1, <1>2, <1>3 DEF WithinProfile, VerdictsAreFinal

\* Whatever transitions its holders try, in whatever order and beside validate, an instruction
\* is submitted at most once, and one that was checked only if it passed, within its profile
\* (CopyStateMachine.transition, validate, evaluate).
THEOREM CopyVerdictsAreFinal == CopySpec => []VerdictsAreFinal
BY CopyInitInv, CopyStepInv, CopyInvFinal, PTL DEF CopySpec

-----------------------------------------------------------------------------
(* The services together.                                                  *)

\* Whatever a guard does, it leaves the clock alone or lets it tick.
LEMMA LimiterClock == LimiterNext => Tick \/ now' = now
BY DEF LimiterNext, Acquire, LimiterStep, Try, Throttled, StartCounting

LEMMA BreakerClock == BreakerNext => Tick \/ now' = now
BY DEF BreakerNext, RequireAvailable, RequireRiskReducing, RecordSuccess, RecordFailure, StartWatching

LEMMA RulesClock == RulesNext => Tick \/ now' = now
BY DEF RulesNext, Get, CacheHit, Load, BeginLoad, LoadEnds, LoadFails, Invalidate

LEMMA MarketClock == MarketNext => Tick \/ now' = now
BY DEF MarketNext, Update, RequireFresh

LEMMA SyncClock == SyncNext => Tick \/ now' = now
BY DEF SyncNext, Synchronize, BeginSync, ServerReads, EndSync, SyncFails

\* A step of the services is a step of the one in use, a tick for each of the others, and
\* nothing to the instruction but a step of its own.
LEMMA ServicesStep ==
  ASSUME [Next]_vars
  PROVE  /\ [LimiterNext]_<<now, limiterVars>>
         /\ [BreakerNext]_<<now, breakerVars>>
         /\ [RulesNext]_<<now, rulesVars>>
         /\ [MarketNext]_<<now, marketVars>>
         /\ [SyncNext]_<<now, syncVars>>
         /\ [CopyNext]_copyVars
<1>1. CASE UNCHANGED guardVars
  BY <1>1 DEF guardVars
<1>2. CASE focus = "limiter" /\ LimiterNext /\ UNCHANGED <<breakerVars, rulesVars, marketVars, syncVars, copyVars>>
  BY <1>2, LimiterClock DEF BreakerNext, RulesNext, MarketNext, SyncNext
<1>3. CASE focus = "breaker" /\ BreakerNext /\ UNCHANGED <<limiterVars, rulesVars, marketVars, syncVars, copyVars>>
  BY <1>3, BreakerClock DEF LimiterNext, RulesNext, MarketNext, SyncNext
<1>4. CASE focus = "rules" /\ RulesNext /\ UNCHANGED <<limiterVars, breakerVars, marketVars, syncVars, copyVars>>
  BY <1>4, RulesClock DEF LimiterNext, BreakerNext, MarketNext, SyncNext
<1>5. CASE focus = "market" /\ MarketNext /\ UNCHANGED <<limiterVars, breakerVars, rulesVars, syncVars, copyVars>>
  BY <1>5, MarketClock DEF LimiterNext, BreakerNext, RulesNext, SyncNext
<1>6. CASE focus = "clock" /\ SyncNext /\ UNCHANGED <<limiterVars, breakerVars, rulesVars, marketVars, copyVars>>
  BY <1>6, SyncClock DEF LimiterNext, BreakerNext, RulesNext, MarketNext
<1>7. CASE focus = "copy" /\ CopyNext /\ UNCHANGED <<now, limiterVars, breakerVars, rulesVars, marketVars, syncVars>>
  BY <1>7
<1>8. CASE UNCHANGED vars
  BY <1>8 DEF vars, guardVars
<1> QED
  BY <1>1, <1>2, <1>3, <1>4, <1>5, <1>6, <1>7, <1>8 DEF Next, Calculate, Use

\* Each service behaves among the others as it does alone (the services of
\* exchanges/resilience.py, exchanges/safety.py and services/copy.py).
THEOREM ServicesAsSpecified ==
  Spec => LimiterSpec /\ BreakerSpec /\ RulesSpec /\ MarketSpec /\ SyncSpec /\ CopySpec
<1>1. Init => ClockInit /\ LimiterInit /\ BreakerInit /\ RulesInit /\ MarketInit /\ SyncInit /\ CopyInit
  BY DEF Init
<1>2. [Next]_vars => /\ [LimiterNext]_<<now, limiterVars>>
                     /\ [BreakerNext]_<<now, breakerVars>>
                     /\ [RulesNext]_<<now, rulesVars>>
                     /\ [MarketNext]_<<now, marketVars>>
                     /\ [SyncNext]_<<now, syncVars>>
                     /\ [CopyNext]_copyVars
  BY ServicesStep
<1> QED
  BY <1>1, <1>2, PTL DEF Spec, LimiterSpec, BreakerSpec, RulesSpec, MarketSpec, SyncSpec, CopySpec

\* The invariants of the services hold where they are together (acquire; require_available
\* and record_failure; get and invalidate; update and require_fresh; synchronize; validate
\* and transition).
THEOREM ServicesKeepTheirBounds ==
  Spec => [](/\ GrantsBounded /\ OutageCallsBounded
             /\ InvalidateForcesReload /\ LoadsSpaced
             /\ FreshAnswersAreCurrent /\ OffsetWithinHalfRoundTrip
             /\ VerdictsAreFinal)
BY ServicesAsSpecified, GrantsAreBounded, OutageIsBounded, InvalidateReloads, LoadsAreSpaced,
   AnswersAreCurrent, OffsetIsNear, CopyVerdictsAreFinal, PTL

\* The function in use answers one of the inputs, once.
AnswerInv ==
  /\ focus = "order" =>
       input \in OrderInputs /\ verdict \in {"none", Validate(input.order, input.rules, input.reference)}
  /\ focus = "twap" => input \in TwapInputs /\ verdict \in {"none", TwapVerdict(input.plan, input.step)}
  /\ focus = "volume" =>
       input \in VolumeInputs /\ verdict \in {"none", VolumeVerdict(input.plan, input.step)}

LEMMA AnswerInitInv == Init => AnswerInv
BY DEF Init, Choose, Guards, AnswerInv

LEMMA AnswerStepInv == AnswerInv /\ [Next]_vars => AnswerInv'
<1> SUFFICES ASSUME AnswerInv, [Next]_vars
             PROVE  AnswerInv'
  OBVIOUS
<1>1. CASE UNCHANGED <<focus, input, verdict>>
  BY <1>1 DEF AnswerInv
<1>2. CASE Calculate /\ UNCHANGED <<focus, input>>
  BY <1>2, Zenon DEF Calculate, Answer, AnswerInv
<1> QED
  BY <1>1, <1>2 DEF Next, Use, vars

LEMMA AnswerInvBounded == AnswerInv => SizesWithinBounds
<1> SUFFICES ASSUME AnswerInv
             PROVE  SizesWithinBounds
  OBVIOUS
<1>1. ASSUME focus = "order", verdict = "ACCEPTED"
      PROVE  SafeOrder(input.order, input.rules, input.reference)
  <2>1. input.order \in OrderRequests /\ input.rules \in SymbolRules /\ input.reference \in Int
    BY <1>1, InputsAssumption DEF AnswerInv
  <2> QED
    BY <1>1, <2>1, AcceptedOrdersAreSafe DEF AnswerInv
<1>2. ASSUME focus = "twap", verdict = "ACCEPTED"
      PROVE  SlicesWithinBounds(input.plan, input.step)
  <2>1. input.plan \in TwapPlans /\ input.step \in Int
    BY <1>2, InputsAssumption DEF AnswerInv
  <2> QED
    BY <1>2, <2>1, TwapPlansAreBounded DEF AnswerInv
<1>3. ASSUME focus = "volume", verdict = "ACCEPTED"
      PROVE  ChildrenWithinBounds(input.plan, input.step)
  <2>1. input.plan \in VolumePlans /\ input.step \in Int
    BY <1>3, InputsAssumption DEF AnswerInv
  <2> QED
    BY <1>3, <2>1, VolumePlansAreBounded DEF AnswerInv
<1> QED
  BY <1>1, <1>2, <1>3 DEF SizesWithinBounds, NormalizationSafe, PlansWithinBounds

\* For any inputs of integers, an order or a plan that is accepted stays within its bounds
\* (validate_and_normalize, build_slices, build_child_orders).
THEOREM SizesAreBounded == Spec => []SizesWithinBounds
BY AnswerInitInv, AnswerStepInv, AnswerInvBounded, PTL DEF Spec

================================================================================
