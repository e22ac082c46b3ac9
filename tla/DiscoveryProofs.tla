---------------------------- MODULE DiscoveryProofs ----------------------------
(***************************************************************************)
(* What Discovery guarantees for any providers, any Secrets and any data   *)
(* in them: the loops of findKubeconfigCandidates and discoverOne arrive   *)
(* at what Preferred and Belongs say without them.                         *)
(*                                                                         *)
(* DInv is the invariant of those loops.  It says of every moment what has *)
(* been claimed, passed over and offered by then, and in which order.      *)
(***************************************************************************)
EXTENDS Discovery, LoopFacts

-----------------------------------------------------------------------------
(* The keys present.                                                       *)

LEMMA ProviderIs ==
    ASSUME NEW p \in DOMAIN Providers
    PROVE  Providers[p] \in Provider /\ Providers[p].keys \in Seq(Keys) /\ p \in Nat
<1>1. Providers \in Seq(Provider)
  BY ProvidersAssumption
<1>2. Providers[p] \in Provider /\ p \in Nat
  BY <1>1
<1>3. Providers[p].keys \in Seq(Keys)
  BY <1>2 DEF Provider
<1> QED BY <1>2, <1>3

(* KeysPresent: the keys the Secret has, all of them, as they are declared. *)
Has(s, keys) == {n \in 1..Len(keys) : data[s][keys[n]] # None}

LEMMA KeysPresentIs ==
    ASSUME NEW s, NEW p \in DOMAIN Providers
    PROVE  Filtered(KeysPresent(s, p), Providers[p].keys, Has(s, Providers[p].keys), Keys,
                    Len(Providers[p].keys))
<1> DEFINE keys == Providers[p].keys
           keep == Has(s, keys)
           Eq(f) == f = [n \in 0..Len(keys) |-> IF n = 0 THEN <<>>
                                                ELSE IF data[s][keys[n]] = None THEN f[n - 1]
                                                ELSE Append(f[n - 1], keys[n])]
           it == CHOOSE f : Eq(f)
<1>1. keys \in Seq(Keys) /\ Len(keys) \in Nat
  BY ProviderIs
<1>2. PICK f : Filters(f, keys, keep, Keys)
  BY <1>1, FilterExists
<1>3. \A n \in 1..Len(keys) : n \in keep <=> data[s][keys[n]] # None
  BY DEF Has
<1>4. \A n \in 0..Len(keys) : n # 0 => n \in 1..Len(keys)
  BY <1>1
<1> HIDE DEF keys, keep
<1>5. Eq(f)
  <2>1. \A n \in 0..Len(keys) : f[n] = IF n = 0 THEN <<>>
                                       ELSE IF data[s][keys[n]] = None THEN f[n - 1]
                                       ELSE Append(f[n - 1], keys[n])
    BY <1>2, <1>3, <1>4 DEF Filters
  <2> QED BY <1>2, <2>1 DEF Filters
<1>6. KeysPresent(s, p) = it[Len(keys)]
  BY DEF KeysPresent, keys
<1>7. Eq(it)
  <2> HIDE DEF Eq
  <2> QED BY <1>5
<1> HIDE DEF it
<1>8. /\ it = [n \in 0..Len(keys) |-> it[n]]
      /\ it[0] = <<>>
      /\ \A n \in 1..Len(keys) : it[n] = IF n \in keep THEN Append(it[n - 1], keys[n]) ELSE it[n - 1]
  <2>1. 0 \in 0..Len(keys) /\ \A n \in 1..Len(keys) : n \in 0..Len(keys) /\ n # 0
    BY <1>1
  <2> QED BY <1>3, <1>7, <2>1
<1> HIDE DEF Eq
<1>9. it = f
  BY <1>1, <1>2, <1>8, FilterDetermined
<1>10. Filtered(f[Len(keys)], keys, keep, Keys, Len(keys))
  BY <1>1, <1>2, FilterIs
<1> QED BY <1>6, <1>9, <1>10 DEF keys, keep

-----------------------------------------------------------------------------
(* The invariant.                                                          *)

(* Provider p has had its turn at Secret s.                                 *)
LookedAt(s, p) == s \in matches[p] /\ (p < at \/ (p = at /\ s \notin left))

(* c is a candidate by now, unless skipped.                                 *)
Found(c) ==
    /\ c \in Candidate
    /\ LookedAt(c.secret, c.provider)
    /\ Belongs(c.secret, c.provider)
    /\ \E i \in DOMAIN Providers[c.provider].keys : Providers[c.provider].keys[i] = c.key
    /\ data[c.secret][c.key] # None

Typed ==
    /\ matches \in [DOMAIN Providers -> SUBSET Secrets]
    /\ data \in [Secrets -> [Keys -> ContentKinds \cup {None}]]
    /\ at \in 1..(Len(Providers) + 1)
    /\ left \in SUBSET Secrets
    /\ IF Matching THEN left \subseteq matches[at] ELSE left = {}
    /\ candidates \in Seq(Candidate)

ClaimsRight ==
    claimed = {s \in Secrets : \E p \in DOMAIN Providers : LookedAt(s, p) /\ Knows(s, p)}

ShadowsRight ==
    shadowed = {s \in Secrets : \E p \in DOMAIN Providers :
                   LookedAt(s, p) /\ Providers[p].allowExec /\ CarriesExec(s, p) /\ ~Belongs(s, p)}

(* Those a provider has looked at come before those it has left.            *)
LooksInOrder == Matching => \A s \in matches[at] \ left, t \in left : Before(s, t, at)

OffersInOrder == \A i, j \in DOMAIN candidates : i < j => Preferred(candidates[i], candidates[j])

OffersFound == \A i \in DOMAIN candidates : Found(candidates[i])

FoundOffered ==
    \A c \in Candidate : Found(c) => \/ \E i \in DOMAIN candidates : candidates[i] = c
                                     \/ ~Matching /\ ~Parses(c)

ChosenHead ==
    chosen # None => /\ ~Matching
                     /\ candidates # <<>>
                     /\ chosen = candidates[1]
                     /\ Parses(chosen)

DInv ==
    /\ Typed /\ ClaimsRight /\ ShadowsRight /\ LooksInOrder
    /\ OffersInOrder /\ OffersFound /\ FoundOffered /\ ChosenHead

LEMMA Numbers ==
    /\ Len(Providers) \in Nat
    /\ DOMAIN Providers = 1..Len(Providers)
    /\ \A p \in DOMAIN Providers : p \in Nat /\ p >= 1
    /\ Secrets \subseteq Nat
<1>1. Providers \in Seq(Provider)
  BY ProvidersAssumption
<1>2. Len(Providers) \in Nat /\ DOMAIN Providers = 1..Len(Providers)
  BY <1>1
<1> QED BY <1>2, SecretsAssumption

(* What only the inputs decide.                                             *)
LEMMA InputsKept ==
    ASSUME UNCHANGED inputs
    PROVE  /\ \A s, p : /\ Knows(s, p)' <=> Knows(s, p)
                        /\ Belongs(s, p)' <=> Belongs(s, p)
                        /\ CarriesExec(s, p)' <=> CarriesExec(s, p)
                        /\ Provenance(s, p)' = Provenance(s, p)
           /\ \A s, t, p : Before(s, t, p)' <=> Before(s, t, p)
           /\ \A c : Parses(c)' <=> Parses(c)
           /\ \A c, d : Preferred(c, d)' <=> Preferred(c, d)
           /\ matches' = matches /\ data' = data
<1>1. matches' = matches /\ data' = data /\ type' = type /\ controlled' = controlled /\ execAllowed' = execAllowed
  BY DEF inputs
<1>2. \A s, p : Knows(s, p)' <=> Knows(s, p)
  BY <1>1 DEF Knows
<1>3. \A s, p : Belongs(s, p)' <=> Belongs(s, p)
  BY <1>2 DEF Belongs
<1>4. \A s, p : CarriesExec(s, p)' <=> CarriesExec(s, p)
  BY <1>1 DEF CarriesExec, HasExecBlock
<1>5. \A s, p : Provenance(s, p)' = Provenance(s, p)
  BY <1>1 DEF Provenance
<1>6. \A s, t, p : Before(s, t, p)' <=> Before(s, t, p)
  BY <1>5 DEF Before
<1>7. \A c : Parses(c)' <=> Parses(c)
  BY <1>1 DEF Parses
<1>8. \A c, d : Preferred(c, d)' <=> Preferred(c, d)
  BY <1>5 DEF Preferred, KeyBefore
<1> QED BY <1>1, <1>2, <1>3, <1>4, <1>5, <1>6, <1>7, <1>8

(* A plugin under one of its keys is a key the provider knows.              *)
LEMMA PluginKnown ==
    ASSUME NEW s, NEW p, s \in matches[p], CarriesExec(s, p)
    PROVE  Knows(s, p)
<1>1. None \notin {"both", "exec", "alien"}
  BY NoneAssumption DEF ContentKinds
<1> QED BY <1>1 DEF CarriesExec, HasExecBlock, Knows

LEMMA ProvenanceNat ==
    ASSUME NEW s, NEW p
    PROVE  Provenance(s, p) \in Nat
BY DEF Provenance

LEMMA DInit ==
    Init => DInv
<1> SUFFICES ASSUME Init PROVE DInv
  OBVIOUS
<1>1. Matching => matches[at] = left /\ 1 \in DOMAIN Providers
  BY DEF Init, Matching
<1>2. \A s, p : p \in DOMAIN Providers => ~LookedAt(s, p)
  BY Numbers DEF Init, LookedAt
<1>3. Typed
  <2>1. at \in 1..(Len(Providers) + 1)
    BY Numbers DEF Init
  <2>2. left \in SUBSET Secrets /\ IF Matching THEN left \subseteq matches[at] ELSE left = {}
    BY DEF Init, Matching
  <2>3. candidates \in Seq(Candidate)
    BY DEF Init
  <2>4. data \in [Secrets -> [Keys -> ContentKinds \cup {None}]]
    <3>1. PICK kinds \in Contents : data \in [Secrets -> [Keys -> kinds \cup {None}]]
      BY DEF Init
    <3>2. kinds \subseteq ContentKinds
      BY ContentsAssumption
    <3> QED BY <3>1, <3>2
  <2> QED BY <2>1, <2>2, <2>3, <2>4 DEF Init, Typed
<1>4. ClaimsRight /\ ShadowsRight
  BY <1>2 DEF Init, ClaimsRight, ShadowsRight
<1>5. LooksInOrder
  BY <1>1 DEF LooksInOrder
<1>6. OffersInOrder /\ OffersFound
  BY DEF Init, OffersInOrder, OffersFound
<1>7. FoundOffered
  BY <1>2 DEF FoundOffered, Found, Candidate
<1>8. ChosenHead
  BY DEF Init, ChosenHead
<1> QED BY <1>3, <1>4, <1>5, <1>6, <1>7, <1>8 DEF DInv

(* The step of a provider looking at one Secret.                            *)
LEMMA LookedAtOne ==
    ASSUME DInv, NEW s \in Secrets, Looks(s), left' = left \ {s}, UNCHANGED <<inputs, at>>
    PROVE  /\ \A t, p : p \in DOMAIN Providers => (LookedAt(t, p)' <=> LookedAt(t, p) \/ (t = s /\ p = at))
           /\ Typed' <=> (Typed /\ candidates' \in Seq(Candidate))
           /\ LooksInOrder'
           /\ Matching' /\ at \in DOMAIN Providers /\ s \in matches[at] /\ ~LookedAt(s, at)
           /\ \A p \in 1..(at - 1) : p \in DOMAIN Providers /\ (LookedAt(s, p) <=> s \in matches[p])
           /\ \A p \in DOMAIN Providers : LookedAt(s, p) => p \in 1..(at - 1)
<1>1. at \in DOMAIN Providers /\ s \in matches[at] /\ s \in left /\ left \subseteq matches[at]
  BY DEF DInv, Typed, Looks, Matching
<1>2. at \in Nat /\ DOMAIN Providers = 1..Len(Providers) /\ Len(Providers) \in Nat
  BY <1>1, Numbers
<1>3. Matching' /\ matches' = matches /\ data' = data
  BY <1>1, InputsKept DEF Matching
<1>4. \A t, p : p \in DOMAIN Providers => (LookedAt(t, p)' <=> LookedAt(t, p) \/ (t = s /\ p = at))
  <2>1. \A t : t \in left' <=> t \in left /\ t # s
    OBVIOUS
  <2>2. at' = at
    OBVIOUS
  <2>3. ~(at < at) /\ \A p \in DOMAIN Providers : p \in Nat
    BY <1>2
  <2> QED BY <1>1, <1>3, <2>1, <2>2, <2>3 DEF LookedAt
<1>5. Typed' <=> (Typed /\ candidates' \in Seq(Candidate))
  BY <1>1, <1>3 DEF Typed, DInv, Matching
<1>6. LooksInOrder'
  <2>1. SUFFICES ASSUME NEW t \in matches[at] \ (left \ {s}), NEW u \in left \ {s}
                 PROVE  Before(t, u, at)
    BY <1>3, InputsKept DEF LooksInOrder
  <2>2. CASE t = s
    BY <2>2 DEF Looks
  <2>3. CASE t # s
    BY <1>1, <2>3 DEF DInv, LooksInOrder, Matching
  <2> QED BY <2>2, <2>3
<1>7. ~LookedAt(s, at)
  BY <1>1, <1>2 DEF LookedAt
<1>8. ASSUME NEW p \in 1..(at - 1)
      PROVE  p \in DOMAIN Providers /\ (LookedAt(s, p) <=> s \in matches[p])
  <2>1. at \in 1..Len(Providers)
    BY <1>1, <1>2
  <2>2. p < at /\ p \in 1..Len(Providers)
    BY <1>2, <2>1
  <2> QED BY <1>2, <2>2 DEF LookedAt
<1>9. ASSUME NEW p \in DOMAIN Providers, LookedAt(s, p)
      PROVE  p \in 1..(at - 1)
  BY <1>1, <1>2, <1>9 DEF LookedAt
<1> QED BY <1>1, <1>3, <1>4, <1>5, <1>6, <1>7, <1>8, <1>9

(* Claimed is known to an earlier provider, at the moment one looks.        *)
LEMMA ClaimedWhenLooked ==
    ASSUME DInv, NEW s \in Secrets, Looks(s), left' = left \ {s}, UNCHANGED <<inputs, at>>
    PROVE  s \in claimed <=> \E q \in 1..(at - 1) : Knows(s, q)
BY LookedAtOne DEF DInv, ClaimsRight, Knows

LEMMA PassOverInv ==
    ASSUME DInv, NEW s \in Secrets, PassOver(s)
    PROVE  DInv'
<1>1. /\ Looks(s) /\ s \in claimed /\ left' = left \ {s}
      /\ UNCHANGED <<inputs, at>> /\ UNCHANGED <<claimed, candidates, chosen>>
  BY DEF PassOver
<1>2. PICK q \in 1..(at - 1) : Knows(s, q)
  BY <1>1, ClaimedWhenLooked
<1>3. ~Belongs(s, at)
  BY <1>2 DEF Belongs
<1>4. q \in DOMAIN Providers /\ LookedAt(s, q) /\ at \in DOMAIN Providers
  BY <1>1, <1>2, LookedAtOne DEF Knows
<1>5. \A t, p : p \in DOMAIN Providers => (LookedAt(t, p)' <=> LookedAt(t, p) \/ (t = s /\ p = at))
  BY <1>1, LookedAtOne
<1>6. Typed' /\ LooksInOrder' /\ Matching /\ Matching'
  BY <1>1, LookedAtOne DEF DInv, Typed, Looks
<1>7. ClaimsRight'
  <2>1. \A t \in Secrets : (\E p \in DOMAIN Providers : LookedAt(t, p)' /\ Knows(t, p))
                              <=> \E p \in DOMAIN Providers : LookedAt(t, p) /\ Knows(t, p)
    BY <1>2, <1>4, <1>5
  <2> QED BY <1>1, <2>1, InputsKept DEF DInv, ClaimsRight
<1>8. ShadowsRight'
  <2> DEFINE Lost(t, p) == Providers[p].allowExec /\ CarriesExec(t, p) /\ ~Belongs(t, p)
  <2>1. shadowed' = IF Lost(s, at) THEN shadowed \cup {s} ELSE shadowed
    BY <1>3 DEF PassOver
  <2>2. shadowed = {t \in Secrets : \E p \in DOMAIN Providers : LookedAt(t, p) /\ Lost(t, p)}
    BY DEF DInv, ShadowsRight
  <2>3. ShadowsRight' <=>
          shadowed' = {t \in Secrets : \E p \in DOMAIN Providers : LookedAt(t, p)' /\ Lost(t, p)}
    BY <1>1, InputsKept DEF ShadowsRight
  <2> HIDE DEF Lost
  <2> QED BY <1>4, <1>5, <2>1, <2>2, <2>3
<1>9. \A c : Found(c)' <=> Found(c)
  <2>1. ASSUME NEW c \in Candidate
        PROVE  Found(c)' <=> Found(c)
    <3>1. c.provider \in DOMAIN Providers
      BY DEF Candidate
    <3> QED BY <1>1, <1>3, <1>5, <3>1, InputsKept DEF Found
  <2> QED BY <2>1 DEF Found
<1>10. OffersInOrder'
  BY <1>1, InputsKept DEF DInv, OffersInOrder
<1>11. OffersFound' /\ FoundOffered'
  BY <1>1, <1>6, <1>9 DEF DInv, OffersFound, FoundOffered
<1>12. ChosenHead'
  BY <1>1, <1>6 DEF DInv, ChosenHead
<1> QED BY <1>6, <1>7, <1>8, <1>10, <1>11, <1>12 DEF DInv

(* What a Secret is offered as: the keys its provider knows, in order.      *)
LEMMA OfferedIs ==
    ASSUME NEW s \in Secrets, NEW p \in DOMAIN Providers
    PROVE  /\ Offered(s, p) \in Seq(Candidate)
           /\ \A i \in DOMAIN Offered(s, p) :
                  LET c == Offered(s, p)[i]
                  IN  /\ c.secret = s /\ c.provider = p
                      /\ \E m \in DOMAIN Providers[p].keys : Providers[p].keys[m] = c.key
                      /\ data[s][c.key] # None
           /\ \A m \in DOMAIN Providers[p].keys :
                  data[s][Providers[p].keys[m]] # None =>
                      \E i \in DOMAIN Offered(s, p) :
                          Offered(s, p)[i] = [secret |-> s, provider |-> p, key |-> Providers[p].keys[m]]
           /\ \A i, j \in DOMAIN Offered(s, p) :
                  i < j => Preferred(Offered(s, p)[i], Offered(s, p)[j])
           /\ s \in matches[p] => (Offered(s, p) = <<>> <=> ~Knows(s, p))
<1> DEFINE keys == Providers[p].keys
           present == KeysPresent(s, p)
           offered == Offered(s, p)
<1>1. keys \in Seq(Keys) /\ DOMAIN keys = 1..Len(keys)
  BY ProviderIs
<1>2. Filtered(present, keys, Has(s, keys), Keys, Len(keys))
  BY KeysPresentIs
<1>3. offered = [i \in DOMAIN present |-> [secret |-> s, provider |-> p, key |-> present[i]]]
  BY DEF Offered
<1> HIDE DEF keys, present, offered
<1>4. /\ present \in Seq(Keys) /\ DOMAIN present = 1..Len(present) /\ Len(present) \in Nat
      /\ \A i \in DOMAIN present : present[i] \in Keys
  BY <1>2 DEF Filtered
<1>5. offered \in Seq(Candidate) /\ DOMAIN offered = DOMAIN present
  <2>1. \A i \in 1..Len(present) : offered[i] \in Candidate
    BY <1>3, <1>4 DEF Candidate
  <2>2. offered = [i \in 1..Len(present) |-> offered[i]]
    BY <1>3, <1>4
  <2>3. offered \in [1..Len(present) -> Candidate]
    BY <2>1, <2>2
  <2> QED BY <1>3, <1>4, <2>3
<1>6. \A i \in DOMAIN offered : offered[i] = [secret |-> s, provider |-> p, key |-> present[i]]
  BY <1>3
<1>7. \A i \in DOMAIN offered : /\ offered[i].secret = s /\ offered[i].provider = p
                                /\ offered[i].key = present[i]
  BY <1>6
<1>f. /\ \A i \in DOMAIN present : \E m \in DOMAIN keys : present[i] = keys[m] /\ data[s][keys[m]] # None
      /\ \A m \in DOMAIN keys : data[s][keys[m]] # None => \E i \in DOMAIN present : present[i] = keys[m]
      /\ \A i, j \in DOMAIN present :
             i < j => \E m, l \in DOMAIN keys : m < l /\ keys[m] = present[i] /\ keys[l] = present[j]
  <2> DEFINE N == Len(keys)
  <2>1. DOMAIN keys = 1..N
    BY <1>1
  <2>2. Filtered(present, keys, Has(s, keys), Keys, N)
    BY <1>2
  <2>a. \A m \in 1..N : m \in Has(s, keys) <=> data[s][keys[m]] # None
    BY DEF Has
  <2> HIDE DEF N
  <2>3. ASSUME NEW i \in DOMAIN present
        PROVE  \E m \in DOMAIN keys : present[i] = keys[m] /\ data[s][keys[m]] # None
    <3>1. PICK m \in 1..N : present[i] = keys[m] /\ data[s][keys[m]] # None
      BY <2>2, <2>a DEF Filtered
    <3>2. m \in DOMAIN keys
      BY <2>1
    <3> QED BY <3>1, <3>2
  <2>4. ASSUME NEW m \in DOMAIN keys, data[s][keys[m]] # None
        PROVE  \E i \in DOMAIN present : present[i] = keys[m]
    <3>1. m \in 1..N
      BY <2>1
    <3> QED BY <2>2, <2>4, <2>a, <3>1 DEF Filtered
  <2>5. ASSUME NEW i \in DOMAIN present, NEW j \in DOMAIN present, i < j
        PROVE  \E m, l \in DOMAIN keys : m < l /\ keys[m] = present[i] /\ keys[l] = present[j]
    <3>1. PICK m \in 1..N, l \in 1..N : m < l /\ keys[m] = present[i] /\ keys[l] = present[j]
      BY <2>2, <2>5 DEF Filtered
    <3>2. m \in DOMAIN keys /\ l \in DOMAIN keys
      BY <2>1
    <3> QED BY <3>1, <3>2
  <2> QED BY <2>3, <2>4, <2>5
<1>8. ASSUME NEW i \in DOMAIN offered
      PROVE  \E m \in DOMAIN keys : keys[m] = offered[i].key /\ data[s][keys[m]] # None
  <2>1. PICK m \in DOMAIN keys : present[i] = keys[m] /\ data[s][keys[m]] # None
    BY <1>f, <1>5
  <2> QED BY <1>7, <2>1
<1>9. ASSUME NEW m \in DOMAIN keys, data[s][keys[m]] # None
      PROVE  \E i \in DOMAIN offered : offered[i] = [secret |-> s, provider |-> p, key |-> keys[m]]
  <2>1. PICK i \in DOMAIN present : present[i] = keys[m]
    BY <1>f, <1>9
  <2> QED BY <1>5, <1>6, <2>1
<1>10. ASSUME NEW i \in DOMAIN offered, NEW j \in DOMAIN offered, i < j
       PROVE  Preferred(offered[i], offered[j])
  <2>1. PICK m \in DOMAIN keys, l \in DOMAIN keys : m < l /\ keys[m] = present[i] /\ keys[l] = present[j]
    BY <1>f, <1>5, <1>10
  <2>2. KeyBefore(offered[i].key, offered[j].key, p)
    BY <1>7, <2>1 DEF KeyBefore, keys
  <2> QED BY <1>7, <2>2 DEF Preferred
<1>11. ASSUME s \in matches[p]
       PROVE  offered = <<>> <=> ~Knows(s, p)
  <2>1. offered = <<>> <=> DOMAIN offered = {}
    BY <1>5
  <2>2. Knows(s, p) <=> \E m \in DOMAIN keys : data[s][keys[m]] # None
    BY <1>11 DEF Knows, keys
  <2> QED BY <1>8, <1>9, <2>1, <2>2
<1> QED BY <1>5, <1>7, <1>8, <1>9, <1>10, <1>11 DEF keys, offered

LEMMA Concatenated ==
    ASSUME NEW S, NEW a \in Seq(S), NEW b \in Seq(S)
    PROVE  /\ a \o b \in Seq(S)
           /\ \A i \in DOMAIN (a \o b) : \/ i \in DOMAIN a /\ (a \o b)[i] = a[i]
                                         \/ /\ i - Len(a) \in DOMAIN b /\ i > Len(a)
                                            /\ (a \o b)[i] = b[i - Len(a)]
           /\ \A i \in DOMAIN a : i \in DOMAIN (a \o b) /\ (a \o b)[i] = a[i] /\ i <= Len(a) /\ i \in Nat
           /\ \A i \in DOMAIN b : /\ i + Len(a) \in DOMAIN (a \o b) /\ (a \o b)[i + Len(a)] = b[i]
                                  /\ i \in Nat
           /\ Len(a) \in Nat /\ DOMAIN (a \o b) \subseteq Nat
OBVIOUS

LEMMA OfferInv ==
    ASSUME DInv, NEW s \in Secrets, Offer(s)
    PROVE  DInv'
<1> DEFINE new == Offered(s, at)
<1>1. /\ Looks(s) /\ s \notin claimed /\ left' = left \ {s}
      /\ candidates' = candidates \o new
      /\ claimed' = IF new = <<>> THEN claimed ELSE claimed \cup {s}
      /\ UNCHANGED <<inputs, at>> /\ UNCHANGED <<shadowed, chosen>>
  BY DEF Offer, ClaimedWhenOffered
<1>2. \A q \in 1..(at - 1) : ~Knows(s, q)
  BY <1>1, ClaimedWhenLooked
<1>3. at \in DOMAIN Providers /\ s \in matches[at] /\ Matching /\ Matching'
  BY <1>1, LookedAtOne DEF Looks
<1>4. Belongs(s, at) <=> Knows(s, at)
  BY <1>2 DEF Belongs
<1>5. \A t, p : p \in DOMAIN Providers => (LookedAt(t, p)' <=> LookedAt(t, p) \/ (t = s /\ p = at))
  BY <1>1, LookedAtOne
<1>6. new \in Seq(Candidate) /\ candidates \in Seq(Candidate) /\ (new = <<>> <=> ~Knows(s, at))
  BY <1>3, OfferedIs DEF DInv, Typed
<1> HIDE DEF new
<1>7. candidates' \in Seq(Candidate)
  BY <1>1, <1>6, Concatenated
<1>8. Typed' /\ LooksInOrder'
  BY <1>1, <1>7, LookedAtOne DEF DInv
<1>9. ClaimsRight'
  <2>1. claimed = {t \in Secrets : \E p \in DOMAIN Providers : LookedAt(t, p) /\ Knows(t, p)}
    BY DEF DInv, ClaimsRight
  <2>2. claimed' = {t \in Secrets : \E p \in DOMAIN Providers : LookedAt(t, p)' /\ Knows(t, p)}
    BY <1>1, <1>3, <1>5, <1>6, <2>1
  <2> QED BY <1>1, <2>2, InputsKept DEF ClaimsRight
<1>10. ShadowsRight'
  <2> DEFINE Lost(t, p) == Providers[p].allowExec /\ CarriesExec(t, p) /\ ~Belongs(t, p)
  <2>1. ~Lost(s, at)
    BY <1>3, <1>4, PluginKnown
  <2>2. shadowed = {t \in Secrets : \E p \in DOMAIN Providers : LookedAt(t, p) /\ Lost(t, p)}
    BY DEF DInv, ShadowsRight
  <2>3. ShadowsRight' <=>
          shadowed' = {t \in Secrets : \E p \in DOMAIN Providers : LookedAt(t, p)' /\ Lost(t, p)}
    BY <1>1, InputsKept DEF ShadowsRight
  <2> HIDE DEF Lost
  <2> QED BY <1>1, <1>5, <2>1, <2>2, <2>3
<1>11. \A c \in Candidate : Found(c)' <=>
           \/ Found(c)
           \/ /\ c.secret = s /\ c.provider = at /\ Knows(s, at)
              /\ \E i \in DOMAIN Providers[at].keys : Providers[at].keys[i] = c.key
              /\ data[s][c.key] # None
  <2>1. ASSUME NEW c \in Candidate
        PROVE  Found(c)' <=>
                   \/ Found(c)
                   \/ /\ c.secret = s /\ c.provider = at /\ Knows(s, at)
                      /\ \E i \in DOMAIN Providers[at].keys : Providers[at].keys[i] = c.key
                      /\ data[s][c.key] # None
    <3>1. c.provider \in DOMAIN Providers
      BY DEF Candidate
    <3> QED BY <1>1, <1>4, <1>5, <3>1, InputsKept DEF Found
  <2> QED BY <2>1
<1>12. \A i \in DOMAIN candidates : /\ candidates[i] \in Candidate /\ Found(candidates[i])
                                    /\ candidates[i].provider < at
                                       \/ /\ candidates[i].provider = at
                                          /\ candidates[i].secret \in matches[at] \ left
  <2>1. ASSUME NEW i \in DOMAIN candidates
        PROVE  /\ candidates[i] \in Candidate /\ Found(candidates[i])
               /\ \/ candidates[i].provider < at
                  \/ /\ candidates[i].provider = at
                     /\ candidates[i].secret \in matches[at] \ left
    <3>1. candidates[i] \in Candidate /\ Found(candidates[i])
      BY <1>6 DEF DInv, OffersFound
    <3> QED BY <3>1 DEF Found, LookedAt
  <2> QED BY <2>1
<1>13. \A i \in DOMAIN new : /\ new[i].secret = s /\ new[i].provider = at /\ new[i] \in Candidate
                             /\ \E m \in DOMAIN Providers[at].keys : Providers[at].keys[m] = new[i].key
                             /\ data[s][new[i].key] # None
                             /\ Knows(s, at)
  <2>1. \A i \in DOMAIN new : new # <<>> /\ new[i] \in Candidate
    BY <1>6
  <2> QED BY <1>3, <1>6, <2>1, OfferedIs DEF new
<1> DEFINE both == candidates \o new
<1>c. /\ both \in Seq(Candidate)
      /\ \A i \in DOMAIN both : \/ i \in DOMAIN candidates /\ both[i] = candidates[i]
                                \/ /\ i - Len(candidates) \in DOMAIN new /\ i > Len(candidates)
                                   /\ both[i] = new[i - Len(candidates)]
      /\ \A i \in DOMAIN candidates : i \in DOMAIN both /\ both[i] = candidates[i] /\ i <= Len(candidates)
      /\ \A i \in DOMAIN new : i + Len(candidates) \in DOMAIN both /\ both[i + Len(candidates)] = new[i]
      /\ Len(candidates) \in Nat /\ DOMAIN both \subseteq Nat
  BY <1>6, Concatenated
<1> HIDE DEF both
<1>d. candidates' = both
  BY <1>1 DEF both
<1>14. OffersFound'
  <2>1. ASSUME NEW i \in DOMAIN both, NEW c, c = both[i]
        PROVE  Found(c)'
    <3>1. CASE i \in DOMAIN candidates /\ both[i] = candidates[i]
      BY <1>11, <1>12, <2>1, <3>1
    <3>2. CASE i - Len(candidates) \in DOMAIN new /\ both[i] = new[i - Len(candidates)]
      BY <1>11, <1>13, <2>1, <3>2
    <3> QED BY <1>c, <3>1, <3>2
  <2>2. \A c : (\E i \in DOMAIN candidates' : candidates'[i] = c) => Found(c)'
    BY <1>d, <2>1
  <2> QED BY <2>2 DEF OffersFound
<1>15. OffersInOrder'
  <2>1. SUFFICES ASSUME NEW i \in DOMAIN candidates', NEW j \in DOMAIN candidates', i < j
                 PROVE  Preferred(candidates'[i], candidates'[j])
    BY <1>1, InputsKept DEF OffersInOrder
  <2>2. /\ \A k \in DOMAIN candidates' :
               \/ k \in DOMAIN candidates /\ candidates'[k] = candidates[k]
               \/ /\ k - Len(candidates) \in DOMAIN new /\ k > Len(candidates)
                  /\ candidates'[k] = new[k - Len(candidates)]
        /\ \A k \in DOMAIN candidates : k <= Len(candidates)
        /\ Len(candidates) \in Nat /\ i \in Nat /\ j \in Nat
    BY <1>c, <1>d
  <2>3. CASE i \in DOMAIN candidates /\ j \in DOMAIN candidates
    <3>1. candidates'[i] = candidates[i] /\ candidates'[j] = candidates[j]
      BY <2>2, <2>3
    <3> QED BY <2>1, <2>3, <3>1 DEF DInv, OffersInOrder
  <2>4. CASE i \in DOMAIN candidates /\ j \notin DOMAIN candidates
    <3>1. candidates'[i] = candidates[i]
      BY <2>2, <2>4
    <3>2. candidates'[j].secret = s /\ candidates'[j].provider = at
      BY <1>13, <2>2, <2>4
    <3>3. CASE candidates[i].provider < at
      BY <3>1, <3>2, <3>3 DEF Preferred
    <3>4. CASE candidates[i].provider = at /\ candidates[i].secret \in matches[at] \ left
      <4>1. Before(candidates[i].secret, s, at)
        BY <1>1, <1>3, <3>4 DEF DInv, LooksInOrder, Looks
      <4> QED BY <3>1, <3>2, <3>4, <4>1 DEF Before, Preferred
    <3> QED BY <1>12, <2>4, <3>3, <3>4
  <2>5. CASE i \notin DOMAIN candidates
    <3>1. i - Len(candidates) \in DOMAIN new /\ i > Len(candidates) /\ candidates'[i] = new[i - Len(candidates)]
      BY <2>2, <2>5
    <3>2. j \notin DOMAIN candidates
      BY <2>1, <2>2, <3>1
    <3>3. j - Len(candidates) \in DOMAIN new /\ candidates'[j] = new[j - Len(candidates)]
      BY <2>2, <3>2
    <3>4. i - Len(candidates) < j - Len(candidates)
      BY <2>1, <2>2
    <3>5. Preferred(new[i - Len(candidates)], new[j - Len(candidates)])
      BY <1>3, <3>1, <3>3, <3>4, OfferedIs DEF new
    <3> QED BY <3>1, <3>3, <3>5
  <2> QED BY <2>3, <2>4, <2>5
<1>16. FoundOffered'
  <2>1. SUFFICES ASSUME NEW c \in Candidate, Found(c)'
                 PROVE  \E i \in DOMAIN candidates' : candidates'[i] = c
    BY DEF FoundOffered
  <2>2. CASE Found(c)
    <3>1. PICK i \in DOMAIN candidates : candidates[i] = c
      BY <1>3, <2>2 DEF DInv, FoundOffered
    <3> QED BY <1>c, <1>d, <3>1
  <2>3. CASE /\ c.secret = s /\ c.provider = at /\ Knows(s, at)
             /\ \E i \in DOMAIN Providers[at].keys : Providers[at].keys[i] = c.key
             /\ data[s][c.key] # None
    <3>1. c = [secret |-> s, provider |-> at, key |-> c.key]
      BY <2>3 DEF Candidate
    <3>2. PICK i \in DOMAIN new : new[i] = [secret |-> s, provider |-> at, key |-> c.key]
      BY <1>3, <2>3, OfferedIs DEF new
    <3> QED BY <1>c, <1>d, <3>1, <3>2
  <2> QED BY <1>11, <2>1, <2>2, <2>3
<1>17. ChosenHead'
  BY <1>1, <1>3 DEF DInv, ChosenHead
<1> QED BY <1>8, <1>9, <1>10, <1>14, <1>15, <1>16, <1>17 DEF DInv

LEMMA NextProviderInv ==
    ASSUME DInv, NextProvider
    PROVE  DInv'
<1>1. /\ Matching /\ left = {} /\ at' = at + 1
      /\ left' = IF at + 1 \in DOMAIN Providers THEN matches[at + 1] ELSE {}
      /\ UNCHANGED inputs /\ UNCHANGED <<claimed, shadowed, candidates, chosen>>
  BY DEF NextProvider
<1>2. at \in Nat /\ at \in 1..Len(Providers) /\ DOMAIN Providers = 1..Len(Providers) /\ Len(Providers) \in Nat
  BY <1>1, Numbers DEF Matching
<1>3. matches' = matches /\ data' = data
  BY <1>1, InputsKept
<1>4. \A t, p : p \in DOMAIN Providers => (LookedAt(t, p)' <=> LookedAt(t, p))
  <2>1. ASSUME NEW t, NEW p \in DOMAIN Providers
        PROVE  LookedAt(t, p)' <=> LookedAt(t, p)
    <3>0. p \in Nat
      BY Numbers
    <3>1. CASE p = at + 1
      <4>1. t \in matches[p] => t \in left'
        BY <1>1, <2>1, <3>1
      <4>2. ~(p < at) /\ p # at /\ ~(p < at + 1)
        BY <1>2, <3>1
      <4> QED BY <1>1, <1>3, <4>1, <4>2 DEF LookedAt
    <3>2. CASE p # at + 1
      <4>1. p < at + 1 <=> (p < at \/ p = at)
        BY <1>2, <3>0
      <4> QED BY <1>1, <1>3, <3>2, <4>1 DEF LookedAt
    <3> QED BY <3>1, <3>2
  <2> QED BY <2>1
<1>5. Typed'
  <2>1. at' \in 1..(Len(Providers) + 1)
    BY <1>1, <1>2
  <2>2. left' \in SUBSET Secrets /\ IF Matching' THEN left' \subseteq matches[at'] ELSE left' = {}
    BY <1>1, <1>3 DEF DInv, Typed, Matching
  <2> QED BY <1>1, <1>3, <2>1, <2>2 DEF DInv, Typed
<1>6. ClaimsRight' /\ ShadowsRight'
  BY <1>1, <1>4, InputsKept DEF DInv, ClaimsRight, ShadowsRight
<1>7. LooksInOrder'
  BY <1>1, <1>3 DEF LooksInOrder, Matching
<1>8. \A c : Found(c)' <=> Found(c)
  <2>1. ASSUME NEW c \in Candidate
        PROVE  Found(c)' <=> Found(c)
    <3>1. c.provider \in DOMAIN Providers
      BY DEF Candidate
    <3> QED BY <1>1, <1>4, <3>1, InputsKept DEF Found
  <2> QED BY <2>1 DEF Found
<1>9. OffersInOrder' /\ OffersFound'
  BY <1>1, <1>8, InputsKept DEF DInv, OffersInOrder, OffersFound
<1>10. FoundOffered'
  BY <1>1, <1>8 DEF DInv, FoundOffered
<1>11. ChosenHead'
  BY <1>1 DEF DInv, ChosenHead
<1> QED BY <1>5, <1>6, <1>7, <1>9, <1>10, <1>11 DEF DInv

LEMMA TryInv ==
    ASSUME DInv, Use \/ Skip
    PROVE  DInv'
<1>1. /\ ~Matching /\ chosen = None /\ candidates # <<>> /\ candidates \in Seq(Candidate)
      /\ UNCHANGED inputs /\ UNCHANGED <<at, left, claimed, shadowed>>
  BY DEF Use, Skip, Trying, DInv, Typed
<1>2. matches' = matches /\ data' = data /\ ~Matching'
  BY <1>1, InputsKept DEF Matching
<1>3. \A t, p : LookedAt(t, p)' <=> LookedAt(t, p)
  BY <1>1, <1>2 DEF LookedAt
<1>4. \A c : Found(c)' <=> Found(c)
  BY <1>1, <1>2, <1>3, InputsKept DEF Found
<1>5. ClaimsRight' /\ ShadowsRight' /\ LooksInOrder'
  <2>1. LooksInOrder'
    BY <1>2 DEF LooksInOrder
  <2> QED BY <1>1, <1>3, <2>1, InputsKept DEF DInv, ClaimsRight, ShadowsRight
<1>6. Typed' <=> candidates' \in Seq(Candidate)
  BY <1>1, <1>2 DEF DInv, Typed, Matching
<1>7. /\ Head(candidates) = candidates[1] /\ 1 \in DOMAIN candidates
      /\ Tail(candidates) \in Seq(Candidate)
      /\ \A i \in DOMAIN Tail(candidates) : /\ i + 1 \in DOMAIN candidates
                                            /\ Tail(candidates)[i] = candidates[i + 1]
                                            /\ i \in Nat
      /\ \A i \in DOMAIN candidates : i = 1 \/ (i - 1 \in DOMAIN Tail(candidates) /\ (i - 1) + 1 = i)
  BY <1>1
<1>8. CASE Use
  <2>1. Parses(candidates[1]) /\ chosen' = candidates[1] /\ candidates' = candidates
    BY <1>7, <1>8 DEF Use
  <2>2. OffersInOrder' /\ OffersFound' /\ FoundOffered'
    BY <1>1, <1>2, <1>4, <2>1, InputsKept DEF DInv, OffersInOrder, OffersFound, FoundOffered
  <2>3. ChosenHead'
    BY <1>1, <1>2, <2>1, InputsKept DEF ChosenHead
  <2> QED BY <1>1, <1>5, <1>6, <2>1, <2>2, <2>3 DEF DInv
<1>9. CASE Skip
  <2>1. ~Parses(candidates[1]) /\ candidates' = Tail(candidates) /\ chosen' = None
    BY <1>1, <1>7, <1>9 DEF Skip
  <2> DEFINE rest == Tail(candidates)
  <2> HIDE DEF rest
  <2>2. candidates' = rest /\ \A i \in DOMAIN rest : i + 1 \in DOMAIN candidates /\ rest[i] = candidates[i + 1] /\ i \in Nat
    BY <1>7, <2>1 DEF rest
  <2>3. OffersInOrder'
    <3>1. SUFFICES ASSUME NEW i \in DOMAIN rest, NEW j \in DOMAIN rest, i < j
                   PROVE  Preferred(rest[i], rest[j])
      BY <1>1, <2>2, InputsKept DEF OffersInOrder
    <3>2. i + 1 < j + 1
      BY <2>2, <3>1
    <3> QED BY <2>2, <3>2 DEF DInv, OffersInOrder
  <2>4. OffersFound'
    BY <1>4, <2>2 DEF DInv, OffersFound
  <2>5. FoundOffered'
    <3>1. SUFFICES ASSUME NEW c \in Candidate, Found(c), Parses(c)
                   PROVE  \E i \in DOMAIN rest : rest[i] = c
      BY <1>1, <1>2, <1>4, <2>2, InputsKept DEF FoundOffered
    <3>2. PICK i \in DOMAIN candidates : candidates[i] = c
      BY <3>1 DEF DInv, FoundOffered
    <3>3. i # 1
      BY <2>1, <3>1, <3>2
    <3> QED BY <1>7, <2>2, <3>2, <3>3 DEF rest
  <2>6. ChosenHead'
    BY <2>1 DEF ChosenHead
  <2> QED BY <1>5, <1>6, <1>7, <2>1, <2>3, <2>4, <2>5, <2>6 DEF DInv
<1> QED BY <1>8, <1>9

LEMMA DStep ==
    DInv /\ [Next]_vars => DInv'
<1> SUFFICES ASSUME DInv, [Next]_vars PROVE DInv'
  OBVIOUS
<1>1. CASE UNCHANGED vars
  <2>1. UNCHANGED inputs /\ UNCHANGED <<at, left, claimed, shadowed, candidates, chosen>>
    BY <1>1 DEF vars
  <2>2. matches' = matches /\ data' = data /\ (Matching' <=> Matching)
    BY <2>1, InputsKept DEF Matching
  <2>3. \A t, p : LookedAt(t, p)' <=> LookedAt(t, p)
    BY <2>1, <2>2 DEF LookedAt
  <2>4. \A c : Found(c)' <=> Found(c)
    BY <2>1, <2>2, <2>3, InputsKept DEF Found
  <2>5. Typed' /\ ClaimsRight' /\ ShadowsRight' /\ LooksInOrder'
    BY <2>1, <2>2, <2>3, InputsKept DEF DInv, Typed, ClaimsRight, ShadowsRight, LooksInOrder
  <2>6. OffersInOrder' /\ OffersFound' /\ FoundOffered' /\ ChosenHead'
    BY <2>1, <2>2, <2>4, InputsKept DEF DInv, OffersInOrder, OffersFound, FoundOffered, ChosenHead
  <2> QED BY <2>5, <2>6 DEF DInv
<1> QED BY <1>1, PassOverInv, OfferInv, NextProviderInv, TryInv DEF Next

-----------------------------------------------------------------------------
(* What the invariant gives.                                               *)

LEMMA AllLookedAt ==
    ASSUME DInv, ~Matching
    PROVE  \A s, p : p \in DOMAIN Providers => (LookedAt(s, p) <=> s \in matches[p])
<1>1. at = Len(Providers) + 1 /\ at \in Nat
  BY Numbers DEF DInv, Typed, Matching
<1>2. \A p \in DOMAIN Providers : p < at
  BY <1>1, Numbers
<1> QED BY <1>2 DEF LookedAt

LEMMA TypeIs ==
    DInv => TypeOK
<1> SUFFICES ASSUME DInv PROVE TypeOK
  OBVIOUS
<1>1. shadowed \subseteq claimed
  <2>1. \A s, p : LookedAt(s, p) /\ CarriesExec(s, p) => Knows(s, p)
    BY PluginKnown DEF LookedAt
  <2> QED BY <2>1 DEF DInv, ClaimsRight, ShadowsRight
<1>2. claimed \subseteq Secrets
  BY DEF DInv, ClaimsRight
<1>3. \A i \in DOMAIN candidates : candidates[i] \in Candidate
  BY DEF DInv, Typed
<1>4. \A i \in DOMAIN candidates : candidates[i].secret \in claimed
  BY <1>3 DEF DInv, OffersFound, Found, Belongs, Candidate, ClaimsRight
<1>5. chosen \in Candidate \cup {None}
  <2>1. candidates # <<>> => 1 \in DOMAIN candidates
    BY DEF DInv, Typed
  <2> QED BY <1>3, <2>1 DEF DInv, ChosenHead
<1> QED BY <1>1, <1>2, <1>4, <1>5 DEF DInv, Typed, TypeOK

LEMMA UsableFound ==
    ASSUME DInv, ~Matching, NEW c
    PROVE  c \in Usable <=> Found(c) /\ Parses(c)
<1>1. c \in Candidate => c.provider \in DOMAIN Providers
  BY DEF Candidate
<1> QED BY <1>1, AllLookedAt DEF Usable, Found, Belongs, Knows

LEMMA PreferredChosen ==
    DInv => ChoosesPreferred
<1> SUFFICES ASSUME DInv, Over PROVE IF Usable = {} THEN chosen = None
                                     ELSE /\ chosen \in Usable
                                          /\ \A d \in Usable \ {chosen} : Preferred(chosen, d)
  BY DEF ChoosesPreferred
<1>1. ~Matching /\ (chosen # None \/ candidates = <<>>)
  BY DEF Over
<1>2. \A d \in Usable : \E i \in DOMAIN candidates : candidates[i] = d
  <2>1. \A d \in Usable : d \in Candidate
    BY DEF Usable
  <2> QED BY <1>1, <2>1, UsableFound DEF DInv, FoundOffered
<1>3. CASE chosen = None
  <2>1. DOMAIN candidates = {}
    BY <1>1, <1>3
  <2> QED BY <1>2, <1>3, <2>1
<1>4. CASE chosen # None
  <2>1. candidates # <<>> /\ chosen = candidates[1] /\ Parses(chosen)
    BY <1>4 DEF DInv, ChosenHead
  <2>2. 1 \in DOMAIN candidates /\ DOMAIN candidates \subseteq Nat /\ \A i \in DOMAIN candidates : i = 1 \/ 1 < i
    BY <2>1 DEF DInv, Typed
  <2>3. chosen \in Usable
    BY <1>1, <2>1, <2>2, UsableFound DEF DInv, OffersFound
  <2>4. ASSUME NEW d \in Usable \ {chosen}
        PROVE  Preferred(chosen, d)
    <3>1. PICK i \in DOMAIN candidates : candidates[i] = d
      BY <1>2
    <3>2. 1 < i
      BY <2>1, <2>2, <3>1
    <3> QED BY <2>1, <2>2, <3>1, <3>2 DEF DInv, OffersInOrder
  <2> QED BY <2>3, <2>4
<1> QED BY <1>3, <1>4

(* A plugin that could have been translated was lost only with its Secret   *)
(* passed over, and only a Secret with an exec block was passed over.       *)
LEMMA LostIsShadowed ==
    ASSUME DInv, ~Matching
    PROVE  /\ \A s \in Secrets : LostToOrder(s) => s \in shadowed
           /\ \A s \in shadowed : Reorderable(s)
<1>1. shadowed = {s \in Secrets : \E p \in DOMAIN Providers :
                     s \in matches[p] /\ Providers[p].allowExec /\ CarriesExec(s, p) /\ ~Belongs(s, p)}
  BY AllLookedAt DEF DInv, ShadowsRight
<1>2. ASSUME NEW s \in Secrets, LostToOrder(s)
      PROVE  s \in shadowed
  <2>1. PICK p \in DOMAIN Providers : \E k \in Keys :
            /\ Providers[p].allowExec
            /\ s \in matches[p]
            /\ \E i \in DOMAIN Providers[p].keys : Providers[p].keys[i] = k
            /\ data[s][k] = "exec"
            /\ \E q \in 1..(p - 1) : Knows(s, q)
    BY <1>2 DEF LostToOrder
  <2>2. CarriesExec(s, p)
    BY <2>1 DEF CarriesExec, HasExecBlock
  <2>3. ~Belongs(s, p)
    BY <2>1 DEF Belongs
  <2> QED BY <1>1, <2>1, <2>2, <2>3
<1>3. ASSUME NEW s \in shadowed
      PROVE  Reorderable(s)
  <2>1. PICK p \in DOMAIN Providers :
            s \in matches[p] /\ Providers[p].allowExec /\ CarriesExec(s, p) /\ ~Belongs(s, p)
    BY <1>1
  <2>2. Knows(s, p)
    BY <2>1, PluginKnown
  <2>3. PICK i \in DOMAIN Providers[p].keys : data[s][Providers[p].keys[i]] \in {"both", "exec", "alien"}
    BY <2>1 DEF CarriesExec, HasExecBlock
  <2>4. Providers[p].keys[i] \in Keys
    BY <2>1, <2>3, ProviderIs
  <2>5. data[s][Providers[p].keys[i]] \notin {None, "static", "broken"}
    BY <2>3, NoneAssumption DEF ContentKinds
  <2> QED BY <2>1, <2>2, <2>4, <2>5 DEF Reorderable
<1> QED BY <1>2, <1>3

LEMMA MisorderWarned ==
    DInv => WarnsOfMisorder
<1> SUFFICES ASSUME DInv, Over, chosen # None
             PROVE  /\ ~Providers[chosen.provider].allowExec =>
                           \A s \in Secrets \ {chosen.secret} : LostToOrder(s) => s \in PassedOver
                    /\ \A s \in PassedOver :
                           /\ s # chosen.secret
                           /\ execAllowed /\ ~Providers[chosen.provider].allowExec
                           /\ Reorderable(s)
  BY DEF WarnsOfMisorder
<1>1. ~Matching
  BY DEF Over
<1>2. \A s : LostToOrder(s) => execAllowed
  BY DEF LostToOrder
<1> QED BY <1>1, <1>2, LostIsShadowed DEF PassedOver

LEMMA DInvariance == Spec => []DInv
BY DInit, DStep, PTL DEF Spec

(* The search always has its type; what it passed over it had claimed, and  *)
(* nothing is left to look at once every provider had its turn.             *)
THEOREM SearchTyped == Spec => []TypeOK
BY TypeIs, DInvariance, PTL

(* However the Secrets, globs and keys overlap, the namespace is registered *)
(* with the first of its usable kubeconfigs by provider, provenance, name   *)
(* and key, and is passed by only if it has none.                           *)
THEOREM Choice == Spec => []ChoosesPreferred
BY PreferredChosen, DInvariance, PTL

(* Every other Secret whose plugin an exec-capable provider would have      *)
(* translated, had an earlier provider not taken it first, is named in the  *)
(* warning; a Secret named has an exec block, and another order of the      *)
(* providers gives it to an exec-capable one.                               *)
THEOREM Warning == Spec => []WarnsOfMisorder
BY MisorderWarned, DInvariance, PTL

=============================================================================
