---------------------------- MODULE AuditProofs ----------------------------
(***************************************************************************)
(* What the gauges show, for any number of Secrets, any clock, any limits  *)
(* and any lifetime of certificates.                                       *)
(*                                                                         *)
(* AInv says what stands in each series at every moment: what the running  *)
(* audit found, if it has been set since, and else what the one before it  *)
(* did.  A scrape reads one or the other of each.  A sum of series is a    *)
(* sum of numbers of Secrets, which is at least the number of them all,    *)
(* and just that when no Secret is in two.                                 *)
(***************************************************************************)
EXTENDS Audit, LoopFacts

-----------------------------------------------------------------------------
(* The series.                                                             *)

LEMMA OrderIs ==
    /\ Len(Order) = 19 /\ DOMAIN Order = 1..19
    /\ Order = [n \in 1..19 |-> Order[n]]
    /\ \A i \in 1..9 : Order[i] = <<"active", Buckets[i]>> /\ Order[i + 9] = <<"demoted", Buckets[i]>>
    /\ Order[19] = Unrouted
<1>1. Len(Buckets) = 9
  BY DEF Buckets
<1>2. Order = [n \in 1..19 |->
                  IF n > 18 THEN Unrouted
                  ELSE <<States[1 + ((n - 1) \div 9)], Buckets[1 + ((n - 1) % 9)]>>]
  BY <1>1 DEF Order
<1>3. Len(Order) = 19 /\ DOMAIN Order = 1..19 /\ Order = [n \in 1..19 |-> Order[n]]
  BY <1>2
<1>4. Order[19] = Unrouted
  BY <1>2
<1>5. States[1] = "active" /\ States[2] = "demoted"
  BY DEF States
<1>6. ASSUME NEW i \in 1..9
      PROVE  Order[i] = <<"active", Buckets[i]>> /\ Order[i + 9] = <<"demoted", Buckets[i]>>
  <2>1. i \in 1..19 /\ ~(i > 18) /\ (i - 1) \div 9 = 0 /\ (i - 1) % 9 = i - 1 /\ 1 + (i - 1) = i
    OBVIOUS
  <2>2. Order[i] = <<States[1 + 0], Buckets[i]>>
    BY <1>2, <2>1
  <2>3. PICK m \in 1..19 : m = i + 9
    OBVIOUS
  <2>4. ~(m > 18) /\ (m - 1) \div 9 = 1 /\ (m - 1) % 9 = i - 1
    BY <2>3
  <2>5. Order[m] = <<States[1 + 1], Buckets[i]>>
    BY <1>2, <2>1, <2>4
  <2> QED BY <1>5, <2>2, <2>3, <2>5
<1> QED BY <1>3, <1>4, <1>6

(* No two alike, and these are all.                                         *)
LEMMA OrderCovers ==
    /\ Series = {Order[n] : n \in 1..19}
    /\ \A n, m \in 1..19 : Order[n] = Order[m] => n = m
    /\ \A i \in 1..9 : Order[i] # Unrouted /\ Order[i + 9] # Unrouted
<1>1. Series = {Order[n] : n \in 1..19}
  BY OrderIs DEF Series
<1>2. \A i, j \in 1..9 : Buckets[i] = Buckets[j] => i = j
  BY DEF Buckets
<1>3. \A n \in 1..19 : n \in 1..9 \/ n = 19 \/ \E i \in 1..9 : n = i + 9
  <2>1. ASSUME NEW n \in 1..19, n \notin 1..9, n # 19
        PROVE  \E i \in 1..9 : n = i + 9
    <3>1. n - 9 \in 1..9 /\ n = (n - 9) + 9
      BY <2>1
    <3> QED BY <3>1
  <2> QED BY <2>1
<1>4. \A i \in 1..9 : Order[i] # Unrouted /\ Order[i + 9] # Unrouted
  <2>1. \A x : <<"active", x>> # Unrouted /\ <<"demoted", x>> # Unrouted
    BY DEF Unrouted
  <2>2. ASSUME NEW i \in 1..9
        PROVE  Order[i] # Unrouted /\ Order[i + 9] # Unrouted
    <3>1. Order[i] = <<"active", Buckets[i]>> /\ Order[i + 9] = <<"demoted", Buckets[i]>>
      BY OrderIs
    <3> QED BY <2>1, <3>1
  <2> QED BY <2>2
<1>5. ASSUME NEW i \in 1..9, NEW j \in 1..9
      PROVE  /\ Order[i] = Order[j] => i = j
             /\ Order[i + 9] = Order[j + 9] => i = j
             /\ Order[i] # Order[j + 9]
  BY <1>2, OrderIs
<1>6. ASSUME NEW n \in 1..19, NEW m \in 1..19, Order[n] = Order[m]
      PROVE  n = m
  BY <1>3, <1>4, <1>5, <1>6, OrderIs
<1> QED BY <1>1, <1>4, <1>6

-----------------------------------------------------------------------------
(* The invariant.                                                          *)

AuditShape == [secrets : [Secrets -> Secret \cup {NoSecret}], time : Nat]

(* The series already set show what this audit found, the others what the   *)
(* one before it did.                                                       *)
Shown ==
    \A n \in 1..19 :
        gauge[Order[n]] = Cardinality(InSeries(IF at = 0 \/ n < at THEN list ELSE before, Order[n]))

(* At the last list they all showed what the audit before had found.        *)
Stood == \A n \in 1..19 : stood[Order[n]] = Cardinality(InSeries(before, Order[n]))

AInv ==
    /\ secrets \in [Secrets -> Secret \cup {NoSecret}]
    /\ now \in 0..MaxTime
    /\ gauge \in [Series -> 0..Cardinality(Secrets)]
    /\ stood \in [Series -> 0..Cardinality(Secrets)]
    /\ list \in AuditShape /\ before \in AuditShape
    /\ before.time <= list.time /\ list.time <= now
    /\ at \in 0..19
    /\ \E k \in Kinds : configs = k.configs /\ changes \in 0..k.changes
    /\ Shown
    /\ Stood

LEMMA Counted ==
    ASSUME NEW audit, NEW series
    PROVE  /\ InSeries(audit, series) \subseteq Listed(audit) /\ Listed(audit) \subseteq Secrets
           /\ IsFiniteSet(InSeries(audit, series)) /\ IsFiniteSet(Listed(audit))
           /\ Cardinality(InSeries(audit, series)) \in 0..Cardinality(Secrets)
<1>1. InSeries(audit, series) \subseteq Listed(audit) /\ Listed(audit) \subseteq Secrets
  BY DEF InSeries, Listed
<1>2. IsFiniteSet(InSeries(audit, series)) /\ IsFiniteSet(Listed(audit))
  BY <1>1, SecretsAssumption, FS_Subset
<1>3. /\ Cardinality(InSeries(audit, series)) <= Cardinality(Secrets)
      /\ Cardinality(InSeries(audit, series)) \in Nat /\ Cardinality(Secrets) \in Nat
  BY <1>1, <1>2, SecretsAssumption, FS_Subset, FS_CardinalityType
<1> QED BY <1>1, <1>2, <1>3

LEMMA NothingListed ==
    /\ NoAudit \in AuditShape /\ NoAudit.time = 0 /\ Listed(NoAudit) = {}
    /\ \A series : Cardinality(InSeries(NoAudit, series)) = 0
<1>1. NoAudit \in AuditShape /\ NoAudit.time = 0 /\ Listed(NoAudit) = {}
  BY DEF NoAudit, AuditShape, Listed, NoSecret
<1>2. ASSUME NEW series
      PROVE  Cardinality(InSeries(NoAudit, series)) = 0
  <2>1. InSeries(NoAudit, series) = {}
    BY <1>1, Counted
  <2> QED BY <2>1, FS_EmptySet
<1> QED BY <1>1, <1>2

LEMMA AuditInit == Init => AInv
<1> SUFFICES ASSUME Init PROVE AInv
  OBVIOUS
<1>1. secrets \in [Secrets -> Secret \cup {NoSecret}]
  <2>1. PICK end \in [Secrets -> {Lifetime, Lifetime - 1}] :
            secrets = [s \in Secrets |->
                  [there |-> TRUE, source |-> TRUE, demoted |-> FALSE,
                   config |-> [readable |-> TRUE, exec |-> FALSE, cert |-> "dated"],
                   notAfter |-> end[s]]]
    BY DEF Init
  <2>2. ASSUME NEW s \in Secrets
        PROVE  [there |-> TRUE, source |-> TRUE, demoted |-> FALSE,
                config |-> [readable |-> TRUE, exec |-> FALSE, cert |-> "dated"],
                notAfter |-> end[s]] \in Secret
    <3>1. end[s] \in 0..MaxTime + Lifetime
      BY TimesAssumption
    <3>2. PICK c \in Configs : c = [readable |-> TRUE, exec |-> FALSE, cert |-> "dated"]
      BY ConfigsAssumption
    <3> QED BY <3>1, <3>2 DEF Secret
  <2> QED BY <2>1, <2>2
<1>2. /\ gauge = [series \in Series |-> 0] /\ list = NoAudit /\ before = NoAudit /\ at = 0 /\ now = 0
      /\ stood = gauge
  BY DEF Init
<1>3. Shown /\ Stood
  <2>1. \A n \in 1..19 : Order[n] \in Series
    BY OrderCovers
  <2> QED BY <1>2, <2>1, NothingListed DEF Shown, Stood
<1>4. gauge \in [Series -> 0..Cardinality(Secrets)]
  <2>1. Cardinality(Secrets) \in Nat
    BY SecretsAssumption, FS_CardinalityType
  <2> QED BY <1>2, <2>1
<1>5. \E k \in Kinds : configs = k.configs /\ changes \in 0..k.changes
  <2>1. PICK k \in Kinds : configs = k.configs /\ changes = k.changes
    BY DEF Init
  <2>2. k.changes \in 0..k.changes
    BY ConfigsAssumption
  <2> QED BY <2>1, <2>2
<1>6. 0 \in 0..MaxTime /\ 0 \in 0..19 /\ 0 <= 0
  BY TimesAssumption
<1> QED BY <1>1, <1>2, <1>3, <1>4, <1>5, <1>6, NothingListed DEF AInv

(* What leaves the audits and the gauges alone keeps what they say.         *)
LEMMA Unmoved ==
    ASSUME Shown, Stood, gauge' = gauge, list' = list, before' = before, at' = at, stood' = stood
    PROVE  Shown' /\ Stood'
<1>1. Shown'
  BY DEF Shown, InSeries, Listed
<1>2. Stood'
  BY DEF Stood, InSeries, Listed
<1> QED BY <1>1, <1>2

(* What happens to the Secrets does not touch what is shown.                *)
LEMMA WriteStep ==
    ASSUME AInv, NEW s \in Secrets, NEW secret \in Secret \cup {NoSecret}, Write(s, secret)
    PROVE  AInv'
<1>1. /\ secrets' = [secrets EXCEPT ![s] = secret] /\ changes' = changes - 1 /\ changes > 0
      /\ now' = now /\ gauge' = gauge /\ list' = list /\ before' = before /\ at' = at
      /\ configs' = configs /\ stood' = stood
  BY DEF Write
<1>2. secrets' \in [Secrets -> Secret \cup {NoSecret}]
  BY <1>1 DEF AInv
<1>3. Shown' /\ Stood'
  BY <1>1, Unmoved DEF AInv
<1>4. \E k \in Kinds : configs' = k.configs /\ changes' \in 0..k.changes
  <2>1. PICK k \in Kinds : configs = k.configs /\ changes \in 0..k.changes
    BY DEF AInv
  <2>2. k.changes \in Nat
    BY ConfigsAssumption
  <2> QED BY <1>1, <2>1, <2>2
<1> QED BY <1>1, <1>2, <1>3, <1>4 DEF AInv

LEMMA EditStep ==
    ASSUME AInv, NEW s \in Secrets, Register(s) \/ Demote(s) \/ Remove(s) \/ HandEdit(s)
    PROVE  AInv'
<1>1. configs \subseteq Configs /\ now \in Nat /\ now + Lifetime \in 0..MaxTime + Lifetime
  BY ConfigsAssumption, TimesAssumption DEF AInv
<1>2. ASSUME secrets[s].there
      PROVE  secrets[s] \in Secret
  BY <1>2 DEF AInv, NoSecret
<1>3. CASE Register(s)
  <2>1. PICK config \in configs :
            Write(s, [there |-> TRUE, source |-> TRUE, demoted |-> FALSE,
                      config |-> config, notAfter |-> now + Lifetime])
    BY <1>3 DEF Register
  <2>2. [there |-> TRUE, source |-> TRUE, demoted |-> FALSE,
         config |-> config, notAfter |-> now + Lifetime] \in Secret
    BY <1>1 DEF Secret
  <2> QED BY <2>1, <2>2, WriteStep
<1>4. CASE Demote(s)
  <2>1. Write(s, [secrets[s] EXCEPT !.demoted = TRUE]) /\ secrets[s] \in Secret
    BY <1>2, <1>4 DEF Demote
  <2>2. [secrets[s] EXCEPT !.demoted = TRUE] \in Secret
    BY <2>1 DEF Secret
  <2> QED BY <2>1, <2>2, WriteStep
<1>5. CASE Remove(s)
  BY <1>5, WriteStep DEF Remove
<1>6. CASE HandEdit(s)
  <2>1. secrets[s] \in Secret
    BY <1>2, <1>6 DEF HandEdit
  <2>2. CASE Write(s, [secrets[s] EXCEPT !.source = FALSE])
    <3>1. [secrets[s] EXCEPT !.source = FALSE] \in Secret
      BY <2>1 DEF Secret
    <3> QED BY <2>2, <3>1, WriteStep
  <2>3. CASE \E config \in configs \cup {None} : Write(s, [secrets[s] EXCEPT !.config = config])
    <3>1. PICK config \in configs \cup {None} : Write(s, [secrets[s] EXCEPT !.config = config])
      BY <2>3
    <3>2. config \in Configs \cup {None}
      BY <1>1
    <3>3. [secrets[s] EXCEPT !.config = config] \in Secret
      BY <2>1, <3>2 DEF Secret
    <3> QED BY <3>1, <3>3, WriteStep
  <2> QED BY <1>6, <2>2, <2>3 DEF HandEdit
<1> QED BY <1>3, <1>4, <1>5, <1>6

LEMMA ListStep == ASSUME AInv, List PROVE AInv'
<1>1. /\ at = 0 /\ list' = [secrets |-> secrets, time |-> now] /\ before' = list /\ at' = 1
      /\ secrets' = secrets /\ now' = now /\ gauge' = gauge /\ configs' = configs /\ changes' = changes
      /\ stood' = gauge
  BY DEF List
<1>2. list' \in AuditShape /\ before' \in AuditShape /\ list'.time = now
  BY <1>1, TimesAssumption DEF AInv, AuditShape
<1>3. Shown'
  <2>1. ASSUME NEW n \in 1..19
        PROVE  gauge'[Order[n]] = Cardinality(InSeries(before', Order[n]))
    BY <1>1 DEF AInv, Shown
  <2>2. \A n \in 1..19 : ~(at' = 0 \/ n < at')
    BY <1>1
  <2>3. \A n \in 1..19 : gauge'[Order[n]] =
            Cardinality(InSeries(IF at' = 0 \/ n < at' THEN list' ELSE before', Order[n]))
    BY <2>1, <2>2
  <2> QED BY <2>3 DEF Shown, InSeries, Listed
<1>4. Stood'
  <2>1. \A n \in 1..19 : stood'[Order[n]] = Cardinality(InSeries(list, Order[n]))
    BY <1>1 DEF AInv, Shown
  <2> QED BY <1>1, <2>1 DEF Stood, InSeries, Listed
<1>5. before'.time <= list'.time /\ list'.time <= now'
  <2>1. list.time \in Nat /\ now \in Nat /\ list.time <= now
    BY TimesAssumption DEF AInv, AuditShape
  <2> QED BY <1>1, <1>2, <2>1
<1> QED BY <1>1, <1>2, <1>3, <1>4, <1>5 DEF AInv

LEMMA SetStep == ASSUME AInv, Set PROVE AInv'
<1>1. /\ at > 0 /\ gauge' = [gauge EXCEPT ![Order[at]] = Count(Order[at])]
      /\ at' = (at + 1) % 20
      /\ secrets' = secrets /\ now' = now /\ list' = list /\ before' = before
      /\ configs' = configs /\ changes' = changes /\ stood' = stood
  <2>1. Len(Order) + 1 = 20
    BY OrderIs
  <2> QED BY <2>1 DEF Set, ValueOf
<1>2. at \in 1..19 /\ gauge \in [Series -> 0..Cardinality(Secrets)]
  BY <1>1 DEF AInv
<1>3. Count(Order[at]) = Cardinality(InSeries(list, Order[at]))
  BY DEF Count
<1>4. gauge' \in [Series -> 0..Cardinality(Secrets)]
  <2>1. Count(Order[at]) \in 0..Cardinality(Secrets)
    BY <1>3, Counted
  <2> QED BY <1>1, <1>2, <2>1
<1>5. at' \in 0..19 /\ \A n \in 1..19 : (at' = 0 \/ n < at') <=> (n < at \/ n = at)
  <2>1. CASE at = 19
    <3>1. at' = 0
      BY <1>1, <2>1
    <3> QED BY <2>1, <3>1
  <2>2. CASE at \in 1..18
    <3>1. at' = at + 1
      BY <1>1, <2>2
    <3> QED BY <2>2, <3>1
  <2> QED BY <1>2, <2>1, <2>2
<1>6. Shown'
  <2>1. ASSUME NEW n \in 1..19
        PROVE  gauge'[Order[n]] =
                   Cardinality(InSeries(IF at' = 0 \/ n < at' THEN list ELSE before, Order[n]))
    <3>1. Order[n] \in Series /\ (n # at => Order[n] # Order[at])
      BY <1>2, OrderCovers
    <3>2. CASE n = at
      <4>1. gauge'[Order[n]] = Cardinality(InSeries(list, Order[n]))
        BY <1>1, <1>2, <1>3, <3>1, <3>2
      <4> QED BY <1>5, <3>2, <4>1
    <3>3. CASE n # at
      <4>1. gauge'[Order[n]] = gauge[Order[n]]
        BY <1>1, <1>2, <3>1, <3>3
      <4>2. (at' = 0 \/ n < at') <=> (at = 0 \/ n < at)
        BY <1>2, <1>5, <3>3
      <4> QED BY <4>1, <4>2 DEF AInv, Shown
    <3> QED BY <3>2, <3>3
  <2> QED BY <1>1, <2>1 DEF Shown, InSeries, Listed
<1>7. Stood'
  BY <1>1 DEF AInv, Stood, InSeries, Listed
<1> QED BY <1>1, <1>4, <1>5, <1>6, <1>7 DEF AInv

LEMMA RestartStep == ASSUME AInv, Restart PROVE AInv'
<1>1. /\ changes > 0 /\ changes' = changes - 1 /\ gauge' = [series \in Series |-> 0]
      /\ list' = NoAudit /\ before' = NoAudit /\ at' = 0 /\ stood' = gauge'
      /\ secrets' = secrets /\ now' = now /\ configs' = configs
  BY DEF Restart
<1>2. Shown' /\ Stood'
  <2>1. \A n \in 1..19 : gauge'[Order[n]] = 0
    BY <1>1, OrderCovers
  <2>2. \A n \in 1..19 : gauge'[Order[n]] =
            Cardinality(InSeries(IF at' = 0 \/ n < at' THEN list' ELSE before', Order[n]))
    BY <1>1, <2>1, NothingListed
  <2>3. \A n \in 1..19 : stood'[Order[n]] = Cardinality(InSeries(before', Order[n]))
    BY <1>1, <2>1, NothingListed
  <2> QED BY <2>2, <2>3 DEF Shown, Stood, InSeries, Listed
<1>3. \E k \in Kinds : configs' = k.configs /\ changes' \in 0..k.changes
  <2>1. PICK k \in Kinds : configs = k.configs /\ changes \in 0..k.changes
    BY DEF AInv
  <2>2. k.changes \in Nat
    BY ConfigsAssumption
  <2> QED BY <1>1, <2>1, <2>2
<1>4. gauge' \in [Series -> 0..Cardinality(Secrets)]
  <2>1. Cardinality(Secrets) \in Nat
    BY SecretsAssumption, FS_CardinalityType
  <2> QED BY <1>1, <2>1
<1>5. NoAudit.time <= NoAudit.time /\ NoAudit.time <= now
  BY NothingListed, TimesAssumption DEF AInv
<1> QED BY <1>1, <1>2, <1>3, <1>4, <1>5, NothingListed DEF AInv

LEMMA AuditInvariance == Spec => []AInv
<1>1. AInv /\ [Next]_vars => AInv'
  <2> SUFFICES ASSUME AInv, [Next]_vars PROVE AInv'
    OBVIOUS
  <2>1. CASE List BY <2>1, ListStep
  <2>2. CASE Set BY <2>2, SetStep
  <2>3. CASE Restart BY <2>3, RestartStep
  <2>4. CASE Tick
    <3>1. /\ now < MaxTime /\ now' = now + 1 /\ secrets' = secrets /\ gauge' = gauge /\ list' = list
          /\ before' = before /\ at' = at /\ configs' = configs /\ changes' = changes
          /\ stood' = stood
      BY <2>4 DEF Tick
    <3>2. Shown' /\ Stood'
      BY <3>1, Unmoved DEF AInv
    <3>3. now' \in 0..MaxTime /\ list.time <= now'
      <4>1. list.time \in Nat
        BY DEF AInv, AuditShape
      <4> QED BY <3>1, <4>1, TimesAssumption DEF AInv
    <3> QED BY <3>1, <3>2, <3>3 DEF AInv
  <2>5. CASE \E s \in Secrets : Register(s) \/ Demote(s) \/ Remove(s) \/ HandEdit(s)
    BY <2>5, EditStep
  <2>6. CASE UNCHANGED vars
    <3>1. /\ secrets' = secrets /\ now' = now /\ gauge' = gauge /\ list' = list /\ before' = before
          /\ at' = at /\ configs' = configs /\ changes' = changes /\ stood' = stood
      BY <2>6 DEF vars
    <3>2. Shown' /\ Stood'
      BY <3>1, Unmoved DEF AInv
    <3> QED BY <3>1, <3>2 DEF AInv
  <2> QED BY <2>1, <2>2, <2>3, <2>4, <2>5, <2>6 DEF Next
<1> QED BY <1>1, AuditInit, PTL DEF Spec

(* Every variable keeps its type, no gauge counts more Secrets than there   *)
(* are, and no audit looks at a clock ahead of the next one's.              *)
THEOREM AuditTyped == Spec => []TypeOK
<1>1. AInv => TypeOK
  BY OrderIs DEF AInv, TypeOK, AuditShape
<1> QED BY <1>1, AuditInvariance, PTL

-----------------------------------------------------------------------------
(* Buckets.                                                                *)

(* A certificate has less than the k-th limit left, or none.                *)
Close(notAfter, time, k) ==
    CASE k = 1 -> notAfter <= time
      [] k = 2 -> notAfter < time + Day
      [] k = 3 -> notAfter < time + Week
      [] k = 4 -> notAfter < time + Month

LEMMA Limits == 0 < Day /\ Day < Week /\ Week < Month /\ Day \in Nat /\ Week \in Nat /\ Month \in Nat
BY TimesAssumption

LEMMA CloseIs ==
    \A notAfter, time :
        /\ Close(notAfter, time, 1) <=> notAfter <= time
        /\ Close(notAfter, time, 2) <=> notAfter < time + Day
        /\ Close(notAfter, time, 3) <=> notAfter < time + Week
        /\ Close(notAfter, time, 4) <=> notAfter < time + Month
<1>1. 1 # 2 /\ 1 # 3 /\ 1 # 4 /\ 2 # 3 /\ 2 # 4 /\ 3 # 4
  OBVIOUS
<1> QED BY <1>1 DEF Close

LEMMA BucketIs ==
    ASSUME NEW notAfter \in Nat, NEW time \in Nat
    PROVE  /\ \A k \in 1..4 : Bucket(notAfter, time) \in AtMost(k) <=> Close(notAfter, time, k)
           /\ Bucket(notAfter, time) \in AtMost(4) \cup {"ok"}
<1>1. /\ Dated[1] = "expired" /\ Dated[2] = "lt_24h" /\ Dated[3] = "lt_7d" /\ Dated[4] = "lt_30d"
  BY DEF Dated
<1>2. /\ AtMost(1) = {"expired"} /\ AtMost(2) = {"expired", "lt_24h"}
      /\ AtMost(3) = {"expired", "lt_24h", "lt_7d"}
      /\ AtMost(4) = {"expired", "lt_24h", "lt_7d", "lt_30d"}
  <2>1. \A S : /\ {S[n] : n \in 1..1} = {S[1]} /\ {S[n] : n \in 1..2} = {S[1], S[2]}
               /\ {S[n] : n \in 1..3} = {S[1], S[2], S[3]}
               /\ {S[n] : n \in 1..4} = {S[1], S[2], S[3], S[4]}
    <3>1. 1..1 = {1} /\ 1..2 = {1, 2} /\ 1..3 = {1, 2, 3} /\ 1..4 = {1, 2, 3, 4}
      OBVIOUS
    <3> QED BY <3>1
  <2> QED BY <1>1, <2>1 DEF AtMost
<1>3. CASE notAfter <= time
  <2>1. Bucket(notAfter, time) = "expired"
    BY <1>3, Limits DEF Bucket
  <2>2. /\ Close(notAfter, time, 1) /\ Close(notAfter, time, 2)
        /\ Close(notAfter, time, 3) /\ Close(notAfter, time, 4)
    BY <1>3, Limits, CloseIs
  <2>3. \A k \in 1..4 : k = 1 \/ k = 2 \/ k = 3 \/ k = 4
    OBVIOUS
  <2> QED BY <1>2, <2>1, <2>2, <2>3
<1>4. CASE time < notAfter /\ notAfter < time + Day
  <2>1. Bucket(notAfter, time) = "lt_24h"
    BY <1>4, Limits DEF Bucket
  <2>2. /\ ~Close(notAfter, time, 1) /\ Close(notAfter, time, 2)
        /\ Close(notAfter, time, 3) /\ Close(notAfter, time, 4)
    BY <1>4, Limits, CloseIs
  <2>3. \A k \in 1..4 : k = 1 \/ k = 2 \/ k = 3 \/ k = 4
    OBVIOUS
  <2> QED BY <1>2, <2>1, <2>2, <2>3
<1>5. CASE time + Day <= notAfter /\ notAfter < time + Week
  <2>1. Bucket(notAfter, time) = "lt_7d"
    BY <1>5, Limits DEF Bucket
  <2>2. /\ ~Close(notAfter, time, 1) /\ ~Close(notAfter, time, 2)
        /\ Close(notAfter, time, 3) /\ Close(notAfter, time, 4)
    BY <1>5, Limits, CloseIs
  <2>3. \A k \in 1..4 : k = 1 \/ k = 2 \/ k = 3 \/ k = 4
    OBVIOUS
  <2> QED BY <1>2, <2>1, <2>2, <2>3
<1>6. CASE time + Week <= notAfter /\ notAfter < time + Month
  <2>1. Bucket(notAfter, time) = "lt_30d"
    BY <1>6, Limits DEF Bucket
  <2>2. /\ ~Close(notAfter, time, 1) /\ ~Close(notAfter, time, 2)
        /\ ~Close(notAfter, time, 3) /\ Close(notAfter, time, 4)
    BY <1>6, Limits, CloseIs
  <2>3. \A k \in 1..4 : k = 1 \/ k = 2 \/ k = 3 \/ k = 4
    OBVIOUS
  <2> QED BY <1>2, <2>1, <2>2, <2>3
<1>7. CASE time + Month <= notAfter
  <2>1. Bucket(notAfter, time) = "ok"
    BY <1>7, Limits DEF Bucket
  <2>2. /\ ~Close(notAfter, time, 1) /\ ~Close(notAfter, time, 2)
        /\ ~Close(notAfter, time, 3) /\ ~Close(notAfter, time, 4)
    BY <1>7, Limits, CloseIs
  <2>3. \A k \in 1..4 : k = 1 \/ k = 2 \/ k = 3 \/ k = 4
    OBVIOUS
  <2> QED BY <1>2, <2>1, <2>2, <2>3
<1>8. \/ notAfter <= time
      \/ time < notAfter /\ notAfter < time + Day
      \/ time + Day <= notAfter /\ notAfter < time + Week
      \/ time + Week <= notAfter /\ notAfter < time + Month
      \/ time + Month <= notAfter
  BY Limits
<1> QED BY <1>3, <1>4, <1>5, <1>6, <1>7, <1>8

(* What the buckets of credentialExpiry say of a Secret.                    *)
LEMMA ExpiryIs ==
    ASSUME NEW s \in Secret, NEW time \in Nat
    PROVE  /\ CredentialExpiry(s, time) \in AtMost(4) \cup Undated
           /\ \A k \in 1..4 : CredentialExpiry(s, time) \in AtMost(k) <=>
                  UsesCert(s) /\ s.config.cert = "dated" /\ Close(s.notAfter, time, k)
           /\ CredentialExpiry(s, time) = "exec" <=> Parses(s) /\ s.config.exec
           /\ CredentialExpiry(s, time) = "absent" <=> s.config = None
           /\ CredentialExpiry(s, time) = "unreadable" <=>
                  s.config # None /\ (Parses(s) => UsesCert(s) /\ s.config.cert = "corrupt")
<1>1. /\ s.notAfter \in Nat
      /\ s.config # None => /\ s.config.readable \in BOOLEAN /\ s.config.exec \in BOOLEAN
                            /\ s.config.cert \in {None, "dated", "corrupt"}
  <2>1. s.notAfter \in 0..MaxTime + Lifetime /\ s.config \in Configs \cup {None}
    BY DEF Secret
  <2>2. s.config # None => s.config \in Config
    BY <2>1, ConfigsAssumption
  <2> QED BY <2>1, <2>2, TimesAssumption DEF Config
<1>2. PICK b : b = Bucket(s.notAfter, time)
  OBVIOUS
<1>3. /\ b \in AtMost(4) \cup {"ok"}
      /\ \A k \in 1..4 : b \in AtMost(k) <=> Close(s.notAfter, time, k)
  BY <1>1, <1>2, BucketIs
<1>4. \A k \in 1..4 : \A x \in AtMost(k) : x \in {"expired", "lt_24h", "lt_7d", "lt_30d"}
  <2>1. \A n \in 1..4 : Dated[n] \in {"expired", "lt_24h", "lt_7d", "lt_30d"}
    BY DEF Dated
  <2> QED BY <2>1 DEF AtMost
<1>5. CASE s.config = None
  <2>1. CredentialExpiry(s, time) = "absent"
    BY <1>5 DEF CredentialExpiry
  <2> QED BY <1>4, <1>5, <2>1 DEF UsesCert, Parses, Undated
<1>6. CASE s.config # None /\ ~s.config.readable
  <2>1. CredentialExpiry(s, time) = "unreadable"
    BY <1>6 DEF CredentialExpiry
  <2> QED BY <1>4, <1>6, <2>1 DEF UsesCert, Parses, Undated
<1>7. CASE s.config # None /\ s.config.readable /\ s.config.exec
  <2>1. CredentialExpiry(s, time) = "exec"
    BY <1>7 DEF CredentialExpiry
  <2> QED BY <1>4, <1>7, <2>1 DEF UsesCert, Parses, Undated
<1>8. CASE s.config # None /\ s.config.readable /\ ~s.config.exec /\ s.config.cert = None
  <2>1. CredentialExpiry(s, time) = "token"
    BY <1>8 DEF CredentialExpiry
  <2> QED BY <1>4, <1>8, <2>1 DEF UsesCert, Parses, Undated
<1>9. CASE /\ s.config # None /\ s.config.readable /\ ~s.config.exec /\ s.config.cert # None
           /\ s.config.cert = "corrupt"
  <2>1. CredentialExpiry(s, time) = "unreadable"
    BY <1>9 DEF CredentialExpiry
  <2> QED BY <1>4, <1>9, <2>1 DEF UsesCert, Parses, Undated
<1>10. CASE /\ s.config # None /\ s.config.readable /\ ~s.config.exec /\ s.config.cert # None
            /\ s.config.cert # "corrupt"
  <2>1. CredentialExpiry(s, time) = b /\ s.config.cert = "dated"
    BY <1>1, <1>2, <1>10 DEF CredentialExpiry
  <2>2. b \notin {"exec", "absent", "unreadable"}
    BY <1>3, <1>4
  <2> QED BY <1>3, <1>10, <2>1, <2>2 DEF UsesCert, Parses, Undated
<1> QED BY <1>1, <1>5, <1>6, <1>7, <1>8, <1>9, <1>10

-----------------------------------------------------------------------------
(* Sums of series.                                                         *)

(* What the n-th series counts now.                                         *)
Held(n) == InSeries(IF at = 0 \/ n < at THEN list ELSE before, Order[n])

Offset(st) == IF st = "active" THEN 0 ELSE 9

LEMMA Places ==
    /\ \A st \in AllStates, i \in 1..9 :
           Offset(st) + i \in 1..19 /\ Order[Offset(st) + i] = <<st, Buckets[i]>>
    /\ \A i \in 1..4 : Dated[i] = Buckets[i]
    /\ AtMost(4) \cup Undated = {Buckets[i] : i \in 1..9}
<1>1. ASSUME NEW st \in AllStates, NEW i \in 1..9
      PROVE  Offset(st) + i \in 1..19 /\ Order[Offset(st) + i] = <<st, Buckets[i]>>
  <2>1. CASE st = "active"
    <3>1. Offset(st) + i = i
      BY <2>1 DEF Offset
    <3> QED BY <2>1, <3>1, OrderIs
  <2>2. CASE st = "demoted"
    <3>1. Offset(st) + i = i + 9
      BY <2>2 DEF Offset
    <3> QED BY <2>2, <3>1, OrderIs
  <2> QED BY <2>1, <2>2 DEF AllStates
<1>2. \A i \in 1..4 : Dated[i] = Buckets[i]
  BY DEF Dated, Buckets
<1>3. AtMost(4) \cup Undated = {Buckets[i] : i \in 1..9}
  <2>1. 1..9 = {1, 2, 3, 4, 5, 6, 7, 8, 9} /\ 1..4 = {1, 2, 3, 4}
    OBVIOUS
  <2>2. \A f : /\ {f[i] : i \in {1, 2, 3, 4}} = {f[1], f[2], f[3], f[4]}
               /\ {f[i] : i \in {1, 2, 3, 4, 5, 6, 7, 8, 9}} =
                      {f[1], f[2], f[3], f[4], f[5], f[6], f[7], f[8], f[9]}
    OBVIOUS
  <2>3. /\ Buckets[1] = "expired" /\ Buckets[2] = "lt_24h" /\ Buckets[3] = "lt_7d"
        /\ Buckets[4] = "lt_30d" /\ Buckets[5] = "ok" /\ Buckets[6] = "token"
        /\ Buckets[7] = "exec" /\ Buckets[8] = "unreadable" /\ Buckets[9] = "absent"
    BY DEF Buckets
  <2>4. AtMost(4) = {Buckets[1], Buckets[2], Buckets[3], Buckets[4]}
    BY <1>2, <2>1, <2>2 DEF AtMost
  <2>5. Undated = {Buckets[5], Buckets[6], Buckets[7], Buckets[8], Buckets[9]}
    BY <2>3 DEF Undated
  <2>6. {Buckets[i] : i \in 1..9} = {Buckets[1], Buckets[2], Buckets[3], Buckets[4], Buckets[5],
                                     Buckets[6], Buckets[7], Buckets[8], Buckets[9]}
    BY <2>1, <2>2
  <2> QED BY <2>4, <2>5, <2>6
<1> QED BY <1>1, <1>2, <1>3

(* F gives what each series counts: the sum over some is at least the number*)
(* of the Secrets in them, and that number when no Secret is in two.        *)
Counts(F) ==
    /\ \A n \in 1..19 : F[Order[n]] = Held(n)
    /\ \A S, B : S \X B \subseteq Series =>
           /\ Total(S, B) \in Nat
           /\ Cardinality(UNION {F[x] : x \in S \X B}) <= Total(S, B)
           /\ (\A x, y \in S \X B : x # y => F[x] \cap F[y] = {}) =>
                  Total(S, B) = Cardinality(UNION {F[x] : x \in S \X B})

LEMMA TotalIs == ASSUME AInv PROVE \E F : Counts(F)
<1> DEFINE Place(x) == CHOOSE n \in 1..19 : Order[n] = x
           G == [x \in Series |-> Held(Place(x))]
<1>1. \A n \in 1..19 : Order[n] \in Series /\ Place(Order[n]) = n
  BY OrderCovers
<1>2. \A n \in 1..19 : G[Order[n]] = Held(n)
  <2> HIDE DEF Place
  <2> QED BY <1>1
<1>3. \A x \in Series : \E n \in 1..19 : x = Order[n]
  BY OrderCovers
<1>4. \A n \in 1..19 : Held(n) \in SUBSET Secrets
  BY Counted DEF Held
<1> HIDE DEF G
<1>5. \A x \in Series : G[x] \in SUBSET Secrets /\ gauge[x] = Cardinality(G[x])
  BY <1>2, <1>3, <1>4 DEF AInv, Shown, Held
<1>6. IsFiniteSet(Series)
  <2>1. 1 \in Int /\ 19 \in Int
    OBVIOUS
  <2>2. IsFiniteSet(1..19)
    BY <2>1, FS_Interval, Zenon
  <2>3. Order \in Surjection(1..19, Series)
    BY OrderIs, OrderCovers DEF Surjection
  <2> QED BY <2>2, <2>3, FS_Surjection
<1>7. \A A \in SUBSET Series :
          /\ Cardinality(UNION {G[x] : x \in A}) <= SumOver(gauge, A)
          /\ (\A x, y \in A : x # y => G[x] \cap G[y] = {}) =>
                 SumOver(gauge, A) = Cardinality(UNION {G[x] : x \in A})
  BY <1>5, <1>6, SecretsAssumption, SumOfClasses
<1>8. \A S, B : Total(S, B) = SumOver(gauge, S \X B)
  BY DEF Total, SumOver
<1>9. \A A \in SUBSET Series : SumOver(gauge, A) \in Nat
  <2>1. \A x \in Series : gauge[x] \in Nat
    BY <1>5, SecretsAssumption, FS_Subset, FS_CardinalityType
  <2> QED BY <1>6, <2>1, SumOf DEF Additive
<1> QED BY <1>2, <1>7, <1>8, <1>9 DEF Counts

LEMMA ListedIs ==
    ASSUME AInv, NEW audit \in {list, before}, NEW s \in Listed(audit)
    PROVE  audit.secrets[s] \in Secret /\ audit.time \in Nat
BY DEF AInv, AuditShape, Listed, NoSecret

-----------------------------------------------------------------------------
(* While the series are set.                                               *)

(* No scrape misses what both audits found, or shows what neither did.      *)
LEMMA ReadingsBounded == AInv => ScrapeBounded
<1> SUFFICES ASSUME AInv, NEW series \in Series, NEW reading \in Readings(series)
             PROVE  /\ reading >= Cardinality(InSeries(before, series) \cap InSeries(list, series))
                    /\ reading <= Cardinality(InSeries(before, series) \cup InSeries(list, series))
  BY DEF ScrapeBounded
<1>1. PICK n \in 1..19 : series = Order[n]
  BY OrderCovers
<1>2. PICK B, L : B = InSeries(before, series) /\ L = InSeries(list, series)
  OBVIOUS
<1>3. reading = Cardinality(B) \/ reading = Cardinality(L)
  <2>1. stood[series] = Cardinality(B)
    BY <1>1, <1>2 DEF AInv, Stood
  <2>2. gauge[series] = Cardinality(B) \/ gauge[series] = Cardinality(L)
    BY <1>1, <1>2 DEF AInv, Shown
  <2> QED BY <2>1, <2>2 DEF Readings
<1>4. IsFiniteSet(B) /\ IsFiniteSet(L) /\ IsFiniteSet(B \cap L) /\ IsFiniteSet(B \cup L)
  <2>1. B \subseteq Secrets /\ L \subseteq Secrets
    BY <1>2, Counted
  <2>2. B \cap L \subseteq Secrets /\ B \cup L \subseteq Secrets
    BY <2>1
  <2> QED BY <2>1, <2>2, SecretsAssumption, FS_Subset
<1>5. /\ B \cap L \subseteq B /\ B \cap L \subseteq L
      /\ B \subseteq B \cup L /\ L \subseteq B \cup L
  OBVIOUS
<1>6. /\ Cardinality(B \cap L) <= Cardinality(B) /\ Cardinality(B \cap L) <= Cardinality(L)
      /\ Cardinality(B) <= Cardinality(B \cup L) /\ Cardinality(L) <= Cardinality(B \cup L)
  BY <1>4, <1>5, FS_Subset
<1>7. /\ Cardinality(B) \in Nat /\ Cardinality(L) \in Nat
      /\ Cardinality(B \cap L) \in Nat /\ Cardinality(B \cup L) \in Nat
  BY <1>4, FS_CardinalityType
<1> QED BY <1>2, <1>3, <1>6, <1>7

(* However the readings of a scrape fall between the steps of an audit, it  *)
(* shows of each series at least the Secrets that this audit and the one    *)
(* before it both put there, and at most those that either did              *)
(* (AuditUnrouted: no series is reset before it is set).                    *)
THEOREM Throughout == Spec => []ScrapeBounded
BY ReadingsBounded, AuditInvariance, PTL

-----------------------------------------------------------------------------
(* Between audits.                                                         *)

(* The sum over some states and buckets is the number of the Secrets in     *)
(* them.                                                                    *)
LEMMA SumIsNumber ==
    ASSUME AInv, at = 0, NEW S \in SUBSET AllStates, NEW B \in SUBSET (AtMost(4) \cup Undated)
    PROVE  Total(S, B) = Cardinality({s \in Listed(list) :
               /\ StateOf(list.secrets[s]) \in S
               /\ CredentialExpiry(list.secrets[s], list.time) \in B})
<1>1. PICK D : D = {s \in Listed(list) :
               /\ StateOf(list.secrets[s]) \in S
               /\ CredentialExpiry(list.secrets[s], list.time) \in B}
  OBVIOUS
<1>2. PICK F : Counts(F)
  BY TotalIs
<1>3. \A st \in S, b \in B : /\ <<st, b>> # Unrouted
                             /\ \E n \in 1..19 : <<st, b>> = Order[n]
  <2>1. ASSUME NEW st \in S, NEW b \in B
        PROVE  \E n \in 1..19 : <<st, b>> = Order[n]
    <3>1. PICK i \in 1..9 : b = Buckets[i]
      BY Places
    <3>2. Offset(st) + i \in 1..19 /\ Order[Offset(st) + i] = <<st, Buckets[i]>>
      BY Places
    <3> QED BY <3>1, <3>2
  <2>2. \A st \in S, b \in B : <<st, b>> # Unrouted
    BY DEF AllStates, Unrouted
  <2> QED BY <2>1, <2>2
<1>4. \A st \in S, b \in B : /\ <<st, b>> \in Series
                             /\ F[<<st, b>>] = {s \in Listed(list) :
                                    /\ StateOf(list.secrets[s]) = st
                                    /\ CredentialExpiry(list.secrets[s], list.time) = b}
  <2>1. ASSUME NEW st \in S, NEW b \in B
        PROVE  /\ <<st, b>> \in Series
               /\ F[<<st, b>>] = {s \in Listed(list) :
                                    /\ StateOf(list.secrets[s]) = st
                                    /\ CredentialExpiry(list.secrets[s], list.time) = b}
    <3>1. PICK n \in 1..19 : <<st, b>> = Order[n]
      BY <1>3
    <3>2. F[<<st, b>>] = InSeries(list, <<st, b>>)
      BY <1>2, <3>1 DEF Counts, Held
    <3>3. InSeries(list, <<st, b>>) = {s \in Listed(list) :
                                    /\ StateOf(list.secrets[s]) = st
                                    /\ CredentialExpiry(list.secrets[s], list.time) = b}
      BY <1>3 DEF InSeries
    <3> QED BY <3>1, <3>2, <3>3, OrderCovers
  <2> QED BY <2>1
<1>5. S \X B \subseteq Series
  BY <1>4
<1>6. \A x, y \in S \X B : x # y => F[x] \cap F[y] = {}
  <2>1. ASSUME NEW st \in S, NEW b \in B, NEW st2 \in S, NEW b2 \in B,
               NEW s \in F[<<st, b>>], s \in F[<<st2, b2>>]
        PROVE  <<st, b>> = <<st2, b2>>
    BY <1>4, <2>1
  <2> QED BY <2>1
<1>7. UNION {F[x] : x \in S \X B} = D
  <2>1. ASSUME NEW s \in D
        PROVE  \E x \in S \X B : s \in F[x]
    <3>1. s \in F[<<StateOf(list.secrets[s]), CredentialExpiry(list.secrets[s], list.time)>>]
      BY <1>1, <1>4
    <3> QED BY <1>1, <3>1
  <2>2. ASSUME NEW st \in S, NEW b \in B, NEW s \in F[<<st, b>>]
        PROVE  s \in D
    BY <1>1, <1>4
  <2> QED BY <2>1, <2>2
<1>8. Total(S, B) = Cardinality(UNION {F[x] : x \in S \X B})
  BY <1>2, <1>5, <1>6 DEF Counts
<1> QED BY <1>1, <1>7, <1>8

LEMMA BetweenAudits == AInv => Exact
<1> SUFFICES ASSUME AInv, at = 0 PROVE Exact
  BY DEF Exact
<1>1. \A s \in Listed(list) : list.secrets[s] \in Secret /\ list.time \in Nat
  BY ListedIs
<1>2. \A s \in Listed(list) :
          /\ StateOf(list.secrets[s]) \in AllStates
          /\ CredentialExpiry(list.secrets[s], list.time) \in AtMost(4) \cup Undated
  BY <1>1, ExpiryIs DEF StateOf, AllStates
<1>3. Total(AllStates, AtMost(4) \cup Undated) = Cardinality(Listed(list))
  <2>1. {s \in Listed(list) :
            /\ StateOf(list.secrets[s]) \in AllStates
            /\ CredentialExpiry(list.secrets[s], list.time) \in AtMost(4) \cup Undated} = Listed(list)
    BY <1>2
  <2>2. AllStates \in SUBSET AllStates
        /\ AtMost(4) \cup Undated \in SUBSET (AtMost(4) \cup Undated)
    OBVIOUS
  <2> QED BY <2>1, <2>2, SumIsNumber
<1>4. ASSUME NEW st \in AllStates, NEW k \in 1..4
      PROVE  Total({st}, AtMost(k)) =
                 Number(LAMBDA s : s.demoted = (st = "demoted") /\ RunsOut(s, k))
  <2>1. AtMost(k) \subseteq AtMost(4)
    BY DEF AtMost
  <2>2. Total({st}, AtMost(k)) = Cardinality({s \in Listed(list) :
               /\ StateOf(list.secrets[s]) \in {st}
               /\ CredentialExpiry(list.secrets[s], list.time) \in AtMost(k)})
    BY <2>1, SumIsNumber
  <2>3. ASSUME NEW s \in Listed(list)
        PROVE  (/\ StateOf(list.secrets[s]) \in {st}
                /\ CredentialExpiry(list.secrets[s], list.time) \in AtMost(k))
               <=> (/\ list.secrets[s].demoted = (st = "demoted")
                    /\ RunsOut(list.secrets[s], k))
    <3>1. list.secrets[s].demoted \in BOOLEAN
      BY <1>1 DEF Secret
    <3>2. StateOf(list.secrets[s]) \in {st} <=> list.secrets[s].demoted = (st = "demoted")
      BY <3>1 DEF StateOf, AllStates
    <3>3. CredentialExpiry(list.secrets[s], list.time) \in AtMost(k)
              <=> RunsOut(list.secrets[s], k)
      <4>1. CredentialExpiry(list.secrets[s], list.time) \in AtMost(k) <=>
                /\ UsesCert(list.secrets[s]) /\ list.secrets[s].config.cert = "dated"
                /\ Close(list.secrets[s].notAfter, list.time, k)
        BY <1>1, ExpiryIs
      <4>2. RunsOut(list.secrets[s], k) <=>
                /\ UsesCert(list.secrets[s]) /\ list.secrets[s].config.cert = "dated"
                /\ Close(list.secrets[s].notAfter, list.time, k)
        BY DEF RunsOut, Close
      <4> QED BY <4>1, <4>2
    <3> QED BY <3>2, <3>3
  <2>4. {s \in Listed(list) : /\ StateOf(list.secrets[s]) \in {st}
                              /\ CredentialExpiry(list.secrets[s], list.time) \in AtMost(k)} =
        {s \in Listed(list) : /\ list.secrets[s].demoted = (st = "demoted")
                              /\ RunsOut(list.secrets[s], k)}
    BY <2>3
  <2> QED BY <2>2, <2>4 DEF Number
<1>5. ASSUME NEW b \in {"exec", "absent", "unreadable"}
      PROVE  Total(AllStates, {b}) = Cardinality({s \in Listed(list) :
                 CredentialExpiry(list.secrets[s], list.time) = b})
  <2>1. {b} \in SUBSET (AtMost(4) \cup Undated)
    BY DEF Undated
  <2>2. Total(AllStates, {b}) = Cardinality({s \in Listed(list) :
               /\ StateOf(list.secrets[s]) \in AllStates
               /\ CredentialExpiry(list.secrets[s], list.time) \in {b}})
    BY <2>1, SumIsNumber
  <2>3. {s \in Listed(list) : /\ StateOf(list.secrets[s]) \in AllStates
                              /\ CredentialExpiry(list.secrets[s], list.time) \in {b}} =
        {s \in Listed(list) : CredentialExpiry(list.secrets[s], list.time) = b}
    BY <1>2
  <2> QED BY <2>2, <2>3
<1>6. Total(AllStates, {"exec"}) = Number(LAMBDA s : Parses(s) /\ s.config.exec)
  <2>1. {s \in Listed(list) : CredentialExpiry(list.secrets[s], list.time) = "exec"} =
        {s \in Listed(list) : Parses(list.secrets[s]) /\ list.secrets[s].config.exec}
    BY <1>1, ExpiryIs
  <2> QED BY <1>5, <2>1 DEF Number
<1>7. Total(AllStates, {"absent"}) = Number(LAMBDA s : s.config = None)
  <2>1. {s \in Listed(list) : CredentialExpiry(list.secrets[s], list.time) = "absent"} =
        {s \in Listed(list) : list.secrets[s].config = None}
    BY <1>1, ExpiryIs
  <2> QED BY <1>5, <2>1 DEF Number
<1>8. Total(AllStates, {"unreadable"}) =
          Number(LAMBDA s : s.config # None /\
                            (Parses(s) => UsesCert(s) /\ s.config.cert = "corrupt"))
  <2>1. {s \in Listed(list) : CredentialExpiry(list.secrets[s], list.time) = "unreadable"} =
        {s \in Listed(list) :
            list.secrets[s].config # None /\
            (Parses(list.secrets[s]) =>
                UsesCert(list.secrets[s]) /\ list.secrets[s].config.cert = "corrupt")}
    BY <1>1, ExpiryIs
  <2> QED BY <1>5, <2>1 DEF Number
<1>9. gauge[Unrouted] = Number(LAMBDA s : ~s.source)
  <2>1. gauge[Unrouted] = Cardinality(InSeries(list, Unrouted))
    BY OrderIs DEF AInv, Shown
  <2>2. InSeries(list, Unrouted) = {s \in Listed(list) : ~list.secrets[s].source}
    BY DEF InSeries
  <2> QED BY <2>1, <2>2 DEF Number
<1> QED BY <1>3, <1>4, <1>6, <1>7, <1>8, <1>9 DEF Exact

(* Between audits every Secret is in one series, each sum an alert adds up  *)
(* is the number of Secrets with so little left, or in so bad a state, and  *)
(* nothing of an earlier audit remains (AuditUnrouted, credentialExpiry).   *)
THEOREM ExactAudits == Spec => []Exact
BY BetweenAudits, AuditInvariance, PTL

=============================================================================
