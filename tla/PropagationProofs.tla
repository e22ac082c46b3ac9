--------------------------- MODULE PropagationProofs ---------------------------
(***************************************************************************)
(* What Propagation guarantees for any parties, any number of annotations  *)
(* and any limits.                                                         *)
(*                                                                         *)
(* The first part is about the operators: what the recursion of propagate  *)
(* admits, and what a sum over a set of annotations is.  Both are          *)
(* functions on sets given by recursion, so that there is one and what it  *)
(* does is shown by induction over the naturals, each time for a set of    *)
(* numbers.  The second part is about the steps.                           *)
(***************************************************************************)
EXTENDS Propagation, LoopFacts

-----------------------------------------------------------------------------
(* Sums of annotations.                                                    *)

Present == {n \in Notes : notes[n] # Absent}

NotesOK == notes \in [Notes -> Nat \cup {Absent}]

LEMMA PresentNotes ==
    ASSUME NotesOK
    PROVE  /\ IsFiniteSet(Present) /\ Present \subseteq Notes
           /\ \A S \in SUBSET Present : IsFiniteSet(S) /\ Cardinality(S) \in Nat
           /\ \A n \in Present : notes[n] \in Nat
<1>1. IsFiniteSet(Notes)
  BY FS_Interval, LimitsAssumption DEF Notes
<1>2. IsFiniteSet(Present)
  BY <1>1, FS_Subset DEF Present
<1> QED BY <1>2, FS_Subset, FS_CardinalityType DEF Present, NotesOK

(* What the annotations of a set sum up to, as WithinLimits has it.         *)
Sum(S) == SumOver(notes, S)

LEMMA SumOfNotes ==
    ASSUME NotesOK
    PROVE  /\ Sum({}) = 0
           /\ \A S \in SUBSET Present :
                  /\ Sum(S) \in Nat
                  /\ \A n \in Present \ S : Sum(S \cup {n}) = Sum(S) + notes[n]
BY PresentNotes, SumOf DEF Sum, Additive

-----------------------------------------------------------------------------
(* What is admitted.                                                       *)

Results == [keys: SUBSET Notes, total: Nat]

(* One annotation further than r.                                           *)
Onto(r, n) ==
    IF notes[n] # Absent /\ Fits(r.keys, r.total, n)
    THEN [keys |-> r.keys \cup {n}, total |-> r.total + notes[n]]
    ELSE r

LEMMA OntoResults ==
    ASSUME NotesOK, NEW n \in Notes, NEW r \in Results
    PROVE  Onto(r, n) \in Results
BY DEF Onto, Results, NotesOK

LEMMA Bounds ==
    /\ NoteCount \in Nat /\ Notes = 1..NoteCount /\ NoteKeys = 0..NoteCount
    /\ \A n \in Notes : n \in NoteKeys /\ n - 1 \in NoteKeys /\ n # 0 /\ n \in Nat
    /\ \A n \in NoteKeys : n \in Nat /\ (n # 0 => n \in Notes)
    /\ 0 \in NoteKeys /\ NoteCount \in NoteKeys
    /\ \A n \in Nat : n + 1 \in NoteKeys => n \in NoteKeys /\ n + 1 \in Notes /\ (n + 1) - 1 = n
<1>1. NoteCount \in Nat
  BY LimitsAssumption
<1> QED BY <1>1 DEF Notes, NoteKeys

(* There is a function that does one annotation after the other.            *)
LEMMA Iterated ==
    ASSUME NotesOK
    PROVE  \E f \in [NoteKeys -> Results] :
               /\ f[0] = [keys |-> {}, total |-> 0]
               /\ \A n \in Notes : f[n] = Onto(f[n - 1], n)
<1> DEFINE a == [keys |-> {}, total |-> 0]
           Upto(f, k) == f[0] = a /\ \A m \in Notes : m <= k => f[m] = Onto(f[m - 1], m)
           S == {k \in Nat : \E f \in [NoteKeys -> Results] : Upto(f, k)}
<1>0. a \in Results
  BY DEF Results
<1>1. 0 \in S
  <2> DEFINE f == [m \in NoteKeys |-> a]
  <2>1. 0 \in NoteKeys /\ \A m \in Notes : ~(m <= 0)
    BY Bounds
  <2>2. f \in [NoteKeys -> Results] /\ Upto(f, 0)
    BY <1>0, <2>1
  <2> HIDE DEF f, Upto
  <2> QED BY <2>2
<1>2. ASSUME NEW k \in Nat, k \in S
      PROVE  k + 1 \in S
  <2>1. PICK f \in [NoteKeys -> Results] : Upto(f, k)
    BY <1>2
  <2> DEFINE h == [m \in NoteKeys |-> IF m = k + 1 THEN Onto(f[k], m) ELSE f[m]]
  <2>2. \A m \in NoteKeys : m = k + 1 => k \in NoteKeys /\ m \in Notes
    BY Bounds
  <2>3. h \in [NoteKeys -> Results]
    BY <2>2, OntoResults
  <2>4. h[0] = a
    <3>1. 0 \in NoteKeys /\ 0 # k + 1 /\ f[0] = a
      BY <2>1, Bounds
    <3> HIDE DEF a
    <3> QED BY <3>1
  <2>5. ASSUME NEW m \in Notes, m <= k + 1
        PROVE  h[m] = Onto(h[m - 1], m)
    <3>1. m \in NoteKeys /\ m - 1 \in NoteKeys /\ m - 1 # k + 1 /\ m \in Nat
      BY <2>5, Bounds
    <3>2. h[m - 1] = f[m - 1]
      BY <3>1
    <3>3. CASE m = k + 1
      <4>1. h[m] = Onto(f[k], m) /\ m - 1 = k
        BY <3>1, <3>3
      <4> HIDE DEF h
      <4> QED BY <3>2, <4>1
    <3>4. CASE m # k + 1
      <4>1. h[m] = f[m] /\ m <= k
        BY <2>5, <3>1, <3>4
      <4> HIDE DEF h
      <4> QED BY <2>1, <3>2, <4>1
    <3> QED BY <3>3, <3>4
  <2>6. Upto(h, k + 1)
    BY <2>4, <2>5
  <2> HIDE DEF h, Upto
  <2> QED BY <2>3, <2>6
<1>3. NoteCount \in S
  <2> HIDE DEF S
  <2> QED BY <1>1, <1>2, NatSetInduction, Bounds
<1>4. PICK f \in [NoteKeys -> Results] : Upto(f, NoteCount)
  BY <1>3
<1>5. \A m \in Notes : m <= NoteCount
  BY Bounds
<1> QED BY <1>4, <1>5

(* The recursion of propagate has a result, and it is the result of one     *)
(* annotation after the other.                                              *)
LEMMA UpToIs ==
    ASSUME NotesOK
    PROVE  /\ \A n \in NoteKeys : UpTo[n] \in Results
           /\ UpTo[0] = [keys |-> {}, total |-> 0]
           /\ \A n \in Notes : UpTo[n] = Onto(UpTo[n - 1], n)
<1> DEFINE a == [keys |-> {}, total |-> 0]
           Eq(f) == f = [n \in NoteKeys |-> IF n = 0 THEN a ELSE Onto(f[n - 1], n)]
<1>1. PICK f \in [NoteKeys -> Results] : f[0] = a /\ \A n \in Notes : f[n] = Onto(f[n - 1], n)
  BY Iterated
<1>2. Eq(f)
  <2>1. \A n \in NoteKeys : f[n] = IF n = 0 THEN a ELSE Onto(f[n - 1], n)
    BY <1>1, Bounds
  <2> QED BY <2>1
<1>3. UpTo = CHOOSE h : Eq(h)
  BY DEF UpTo, Onto
<1>4. Eq(UpTo)
  <2> HIDE DEF Eq
  <2> QED BY <1>2, <1>3
<1>5. UpTo[0] = a /\ \A n \in Notes : UpTo[n] = Onto(UpTo[n - 1], n)
  <2>1. \A n \in NoteKeys : UpTo[n] = IF n = 0 THEN a ELSE Onto(UpTo[n - 1], n)
    BY <1>4
  <2>2. 0 \in NoteKeys /\ \A n \in Notes : n \in NoteKeys /\ n # 0
    BY Bounds
  <2> HIDE DEF a
  <2> QED BY <2>1, <2>2
<1>6. \A n \in NoteKeys : UpTo[n] \in Results
  <2> DEFINE S == {n \in Nat : n \in NoteKeys => UpTo[n] \in Results}
  <2>1. 0 \in S
    BY <1>5 DEF Results
  <2>2. ASSUME NEW n \in Nat, n \in S
        PROVE  n + 1 \in S
    <3>1. ASSUME n + 1 \in NoteKeys
          PROVE  UpTo[n + 1] \in Results
      <4>1. n \in NoteKeys /\ n + 1 \in Notes /\ (n + 1) - 1 = n
        BY <3>1, Bounds
      <4>2. UpTo[n] \in Results /\ UpTo[n + 1] = Onto(UpTo[n], n + 1)
        BY <1>5, <2>2, <4>1
      <4> QED BY <4>1, <4>2, OntoResults
    <3> QED BY <3>1
  <2> HIDE DEF S
  <2>3. Nat \subseteq S
    BY <2>1, <2>2, NatSetInduction
  <2> QED BY <2>3, Bounds DEF S
<1> QED BY <1>5, <1>6

(* Up to n: what is admitted is within the limits, and for what is not      *)
(* there was no room when its turn came, and there is none later.           *)
Admits(r, n) ==
    /\ r.keys \subseteq {m \in Present : m <= n}
    /\ r.total = Sum(r.keys)
    /\ \A m \in r.keys : notes[m] <= LimitValue
    /\ Cardinality(r.keys) <= LimitCount
    /\ r.total <= LimitTotal
    /\ \A m \in Present \ r.keys :
           m <= n => \/ notes[m] > LimitValue
                     \/ Cardinality(r.keys) >= LimitCount
                     \/ r.total + notes[m] > LimitTotal

LEMMA AdmitsOnto ==
    ASSUME NotesOK, NEW n \in Notes, NEW r \in Results, Admits(r, n - 1)
    PROVE  Admits(Onto(r, n), n)
<1>0. /\ n \in Nat /\ LimitValue \in Nat /\ LimitCount \in Nat /\ LimitTotal \in Nat
      /\ \A m \in Present : m \in Nat /\ notes[m] \in Nat
      /\ \A m \in Present : m <= n => m <= n - 1 \/ m = n
      /\ \A m \in Present : m <= n - 1 => m <= n /\ m # n
  BY Bounds, PresentNotes, LimitsAssumption
<1>1. /\ r.keys \in SUBSET Present /\ n \notin r.keys /\ r.total \in Nat
      /\ IsFiniteSet(r.keys) /\ Cardinality(r.keys) \in Nat
  BY <1>0, PresentNotes DEF Admits, Results
<1>2. CASE notes[n] # Absent /\ Fits(r.keys, r.total, n)
  <2> DEFINE keys == r.keys \cup {n}
             total == r.total + notes[n]
  <2>1. n \in Present /\ notes[n] \in Nat
    BY <1>0, <1>2 DEF Present
  <2>2. Onto(r, n).keys = keys /\ Onto(r, n).total = total
    BY <1>2 DEF Onto
  <2>3. Cardinality(keys) = Cardinality(r.keys) + 1
    BY <1>1, FS_AddElement
  <2>4. total = Sum(keys)
    <3>1. Sum(r.keys \cup {n}) = Sum(r.keys) + notes[n]
      BY <1>1, <2>1, SumOfNotes
    <3> QED BY <3>1 DEF Admits
  <2>5. keys \subseteq {m \in Present : m <= n}
    <3>1. r.keys \subseteq {m \in Present : m <= n - 1} /\ n <= n
      BY <1>0 DEF Admits
    <3> QED BY <1>0, <2>1, <3>1
  <2>6. \A m \in keys : notes[m] <= LimitValue
    BY <1>2 DEF Admits, Fits
  <2>7. Cardinality(keys) <= LimitCount /\ total <= LimitTotal
    BY <1>0, <1>1, <1>2, <2>1, <2>3 DEF Fits
  <2>8. ASSUME NEW m \in Present \ keys, m <= n
        PROVE  notes[m] > LimitValue \/ Cardinality(keys) >= LimitCount \/ total + notes[m] > LimitTotal
    <3>1. m \in Present \ r.keys /\ m <= n - 1 /\ notes[m] \in Nat
      BY <1>0, <2>8
    <3>2. notes[m] > LimitValue \/ Cardinality(r.keys) >= LimitCount \/ r.total + notes[m] > LimitTotal
      BY <3>1 DEF Admits
    <3> QED BY <1>0, <1>1, <2>1, <2>3, <3>1, <3>2
  <2> HIDE DEF keys, total
  <2> QED BY <2>2, <2>4, <2>5, <2>6, <2>7, <2>8 DEF Admits
<1>3. CASE ~(notes[n] # Absent /\ Fits(r.keys, r.total, n))
  <2>1. Onto(r, n) = r
    BY <1>3 DEF Onto
  <2>2. ASSUME NEW m \in Present \ r.keys, m <= n
        PROVE  notes[m] > LimitValue \/ Cardinality(r.keys) >= LimitCount \/ r.total + notes[m] > LimitTotal
    <3>1. CASE m = n
      <4>1. notes[n] # Absent /\ notes[n] \in Nat
        BY <1>0, <3>1 DEF Present
      <4> QED BY <1>0, <1>1, <1>3, <3>1, <4>1 DEF Fits
    <3>2. CASE m <= n - 1
      BY <3>2 DEF Admits
    <3> QED BY <1>0, <2>2, <3>1, <3>2
  <2>3. r.keys \subseteq {m \in Present : m <= n}
    BY <1>0 DEF Admits
  <2> QED BY <2>1, <2>2, <2>3 DEF Admits
<1> QED BY <1>2, <1>3

LEMMA AdmitsUpTo ==
    ASSUME NotesOK, NEW n \in NoteKeys
    PROVE  Admits(UpTo[n], n)
<1> DEFINE S == {k \in Nat : k \in NoteKeys => Admits(UpTo[k], k)}
<1>1. 0 \in S
  <2>1. UpTo[0].keys = {} /\ UpTo[0].total = 0
    BY UpToIs
  <2>2. Cardinality({}) = 0 /\ 0 <= LimitCount /\ 0 <= LimitTotal
    BY FS_EmptySet, LimitsAssumption
  <2>3. Sum({}) = 0
    BY SumOfNotes
  <2>4. \A m \in Present : ~(m <= 0)
    BY Bounds, PresentNotes DEF Notes
  <2> QED BY <2>1, <2>2, <2>3, <2>4 DEF Admits
<1>2. ASSUME NEW k \in Nat, k \in S
      PROVE  k + 1 \in S
  <2>1. ASSUME k + 1 \in NoteKeys
        PROVE  Admits(UpTo[k + 1], k + 1)
    <3>1. k \in NoteKeys /\ k + 1 \in Notes /\ (k + 1) - 1 = k
      BY <2>1, Bounds
    <3>2. UpTo[k] \in Results /\ UpTo[k + 1] = Onto(UpTo[k], k + 1)
      BY <3>1, UpToIs
    <3>3. Admits(UpTo[k], k)
      BY <1>2, <3>1
    <3>4. Admits(Onto(UpTo[k], k + 1), k + 1)
      BY <3>1, <3>2, <3>3, AdmitsOnto
    <3> QED BY <3>2, <3>4
  <2> QED BY <2>1
<1> HIDE DEF S
<1>3. Nat \subseteq S
  BY <1>1, <1>2, NatSetInduction
<1> QED BY <1>3, Bounds DEF S

LEMMA WithinIs ==
    ASSUME NEW S
    PROVE  WithinLimits(S) <=> /\ \A n \in S : notes[n] <= LimitValue
                               /\ Cardinality(S) <= LimitCount
                               /\ Sum(S) <= LimitTotal
BY DEF WithinLimits, Sum, SumOver

(* What propagate admits is there, within the limits, and as much as can be. *)
LEMMA AdmittedFits ==
    ASSUME NotesOK
    PROVE  /\ Admitted \in SUBSET Present
           /\ WithinLimits(Admitted)
           /\ \A n \in Present \ Admitted : ~WithinLimits(Admitted \cup {n})
<1>1. Admits(UpTo[NoteCount], NoteCount) /\ UpTo[NoteCount] \in Results
  BY AdmitsUpTo, UpToIs, Bounds
<1>2. Admitted \in SUBSET Present
  BY <1>1 DEF Admits, Admitted
<1>3. WithinLimits(Admitted)
  BY <1>1, WithinIs DEF Admits, Admitted
<1>4. ASSUME NEW n \in Present \ Admitted
      PROVE  ~WithinLimits(Admitted \cup {n})
  <2>1. /\ n \in Nat /\ n <= NoteCount /\ notes[n] \in Nat
        /\ LimitValue \in Nat /\ LimitCount \in Nat /\ LimitTotal \in Nat
    BY Bounds, PresentNotes, LimitsAssumption DEF Notes
  <2>2. /\ Sum(Admitted \cup {n}) = Sum(Admitted) + notes[n]
        /\ Sum(Admitted) \in Nat
    BY <1>2, SumOfNotes
  <2>3. /\ Cardinality(Admitted \cup {n}) = Cardinality(Admitted) + 1
        /\ Cardinality(Admitted) \in Nat
    BY <1>2, PresentNotes, FS_AddElement
  <2>4. notes[n] > LimitValue \/ Cardinality(Admitted) >= LimitCount \/ Sum(Admitted) + notes[n] > LimitTotal
    BY <1>1, <2>1 DEF Admits, Admitted
  <2>5. n \in Admitted \cup {n}
    OBVIOUS
  <2>6. CASE notes[n] > LimitValue
    BY <2>1, <2>5, <2>6, WithinIs
  <2>7. CASE Cardinality(Admitted) >= LimitCount
    <3>1. ~(Cardinality(Admitted \cup {n}) <= LimitCount)
      BY <2>1, <2>3, <2>7
    <3> QED BY <3>1, WithinIs
  <2>8. CASE Sum(Admitted) + notes[n] > LimitTotal
    <3>1. ~(Sum(Admitted \cup {n}) <= LimitTotal)
      BY <2>1, <2>2, <2>8
    <3> QED BY <3>1, WithinIs
  <2> QED BY <2>4, <2>6, <2>7, <2>8
<1> QED BY <1>2, <1>3, <1>4

-----------------------------------------------------------------------------
(* The invariant.                                                          *)

LabelValues == {"", "tenant", "computed", "cluster", "hand", "disabled", "stamp", Absent}

Secrets == [there: {TRUE}, labels: [LabelKeys -> LabelValues],
            notes: [NoteKeys -> party.lengths \cup {1, Absent}],
            kube: Kubeconfigs, argo: {"none", "project"}]

(* TypeOK, and that the Secret has the fields and the keys of one.          *)
PInv ==
    /\ party \in Parties
    /\ TypeOK
    /\ secret = NoSecret \/ secret \in Secrets

LEMMA PartyIs ==
    ASSUME party \in Parties
    PROVE  /\ party.tenant \subseteq LabelKeys /\ party.hand \subseteq LabelKeys \ {"source"}
           /\ party.lengths \subseteq Nat /\ party.demotedTTL \in Nat
BY PartiesAssumption

LEMMA TypedNotes ==
    ASSUME PInv
    PROVE  /\ NotesOK
           /\ Admitted \in SUBSET Present /\ Present \subseteq Notes /\ Notes \subseteq NoteKeys
           /\ 0 \notin Notes /\ 0 \in NoteKeys
<1>1. NotesOK
  BY PartyIs DEF PInv, TypeOK, NotesOK
<1> QED BY <1>1, AdmittedFits, PresentNotes, Bounds

(* What apply wants, key by key.                                            *)
LEMMA LabelsWanted ==
    /\ WantLabels = [k \in LabelKeys |-> WantLabels[k]]
    /\ WantLabels["secret-type"] = "cluster"
    /\ \A k \in Computed : WantLabels[k] = "computed"
    /\ \A k \in Demotion \cup {"prune", "operator"} : WantLabels[k] = Absent
    /\ \A k \in Team : WantLabels[k] = labels[k]
    /\ LabelKeys = Team \cup Computed \cup Demotion \cup {"prune", "operator", "secret-type"}
BY DEF WantLabels, LabelKeys, Outside, Prefixed, Reserved, Team, Computed, Demotion

LEMMA NotesWanted ==
    ASSUME PInv
    PROVE  /\ WantNotes = [n \in NoteKeys |-> WantNotes[n]]
           /\ \A n \in Admitted : WantNotes[n] = notes[n] /\ notes[n] # Absent /\ n \in Notes
           /\ \A n \in NoteKeys \ Admitted : WantNotes[n] = Absent
           /\ WantNotes[0] = Absent
BY TypedNotes DEF WantNotes, Present

LEMMA WantedTyped ==
    ASSUME PInv
    PROVE  /\ \A k \in LabelKeys : WantLabels[k] \in Values(k) /\ WantLabels[k] \in LabelValues
           /\ \A n \in NoteKeys : WantNotes[n] \in party.lengths \cup {1, Absent}
<1>1. \A k \in Team : labels[k] \in TenantValues \cup {Absent}
  BY DEF PInv, TypeOK, LabelKeys, Prefixed
<1>2. \A k \in LabelKeys : WantLabels[k] \in Values(k)
  BY <1>1, LabelsWanted DEF Values, Team, Computed, Demotion
<1>3. \A k \in LabelKeys : WantLabels[k] \in LabelValues
  BY <1>1, LabelsWanted DEF LabelValues, TenantValues
<1>4. \A n \in NoteKeys : WantNotes[n] \in party.lengths \cup {1, Absent}
  BY NotesWanted DEF PInv, TypeOK
<1> QED BY <1>2, <1>3, <1>4

(* An unchanged namespace is wanted the same.                               *)
LEMMA WantedSame ==
    ASSUME UNCHANGED <<labels, notes>>
    PROVE  WantLabels' = WantLabels /\ WantNotes' = WantNotes
<1>1. UpTo' = UpTo
  BY DEF UpTo, Fits
<1>2. Admitted' = Admitted
  BY <1>1 DEF Admitted
<1> QED BY <1>2 DEF WantLabels, WantNotes

LEMMA PInit ==
    Init => PInv
<1> SUFFICES ASSUME Init PROVE PInv
  OBVIOUS
<1>1. party.demotedTTL \in Nat
  BY PartyIs DEF Init
<1>2. age \in 0..party.demotedTTL + 1
  BY <1>1 DEF Init
<1> QED BY <1>2 DEF Init, PInv, TypeOK, NoSecret, TenantValues, Kubeconfigs

(* The merge of an update.                                                  *)
LEMMA Merged ==
    ASSUME PInv, secret.there
    PROVE  /\ Merge(secret.labels, WantLabels, Swept) \in [LabelKeys -> LabelValues]
           /\ \A k \in LabelKeys : Merge(secret.labels, WantLabels, Swept)[k] \in Values(k)
           /\ Merge(secret.notes, WantNotes, Notes) \in [NoteKeys -> party.lengths \cup {1, Absent}]
<1>0. secret \in Secrets
  BY DEF PInv, NoSecret
<1>1. /\ secret.labels \in [LabelKeys -> LabelValues]
      /\ secret.notes \in [NoteKeys -> party.lengths \cup {1, Absent}]
  BY <1>0 DEF Secrets
<1>2. /\ \A k \in LabelKeys : secret.labels[k] \in LabelValues /\ secret.labels[k] \in Values(k)
      /\ \A n \in NoteKeys : secret.notes[n] \in party.lengths \cup {1, Absent}
  BY <1>1 DEF PInv, TypeOK, Secrets
<1>3. Absent \in LabelValues /\ \A k \in LabelKeys : Absent \in Values(k)
  BY DEF LabelValues, Values
<1> QED BY <1>1, <1>2, <1>3, WantedTyped DEF Merge

(* A Secret put together from typed parts is one.                           *)
LEMMA PutTogether ==
    ASSUME PInv, UNCHANGED party,
           NEW s \in Secrets, \A k \in LabelKeys : s.labels[k] \in Values(k), secret' = s
    PROVE  /\ secret' \in Secrets'
           /\ secret'.there => /\ \A k \in LabelKeys : secret'.labels[k] \in Values(k)'
                               /\ secret'.notes \in [NoteKeys -> party.lengths \cup {1, Absent}]'
                               /\ secret'.kube \in Kubeconfigs
                               /\ secret'.argo \in {"none", "project"}
<1>1. Secrets' = Secrets
  BY DEF Secrets
<1>2. \A k \in LabelKeys : Values(k)' = Values(k)
  BY DEF Values
<1>3. /\ s.notes \in [NoteKeys -> party.lengths \cup {1, Absent}]
      /\ s.kube \in Kubeconfigs /\ s.argo \in {"none", "project"}
  BY DEF Secrets
<1> QED BY <1>1, <1>2, <1>3

LEMMA SecretIs ==
    ASSUME PInv, secret.there
    PROVE  /\ secret \in Secrets
           /\ secret = [there |-> TRUE, labels |-> secret.labels, notes |-> secret.notes,
                        kube |-> secret.kube, argo |-> secret.argo]
           /\ secret.labels \in [LabelKeys -> LabelValues]
           /\ \A k \in LabelKeys : secret.labels[k] \in Values(k)
           /\ secret.notes \in [NoteKeys -> party.lengths \cup {1, Absent}]
           /\ secret.kube \in Kubeconfigs
           /\ secret.argo \in {"none", "project"}
<1>1. secret \in Secrets
  BY DEF PInv, NoSecret
<1>2. \A k \in LabelKeys : secret.labels[k] \in Values(k)
  BY DEF PInv, TypeOK
<1> QED BY <1>1, <1>2 DEF Secrets

(* Anything that leaves all but the Secret alone.                           *)
LEMMA SecretOnly ==
    ASSUME PInv, UNCHANGED <<party, labels, notes, kube, named, age>>,
           NEW s \in Secrets, \A k \in LabelKeys : s.labels[k] \in Values(k), secret' = s
    PROVE  PInv'
BY PutTogether DEF PInv, TypeOK

LEMMA ApplyInv ==
    ASSUME PInv, Apply
    PROVE  PInv'
<1>1. kube \in Kubeconfigs
  BY DEF PInv, TypeOK
<1>2. CASE ~secret.there /\ Create
  <2> DEFINE s == [there |-> TRUE, labels |-> WantLabels, notes |-> WantNotes,
                   kube |-> kube, argo |-> "none"]
  <2>1. WantLabels \in [LabelKeys -> LabelValues] /\ WantNotes \in [NoteKeys -> party.lengths \cup {1, Absent}]
    BY WantedTyped, LabelsWanted, NotesWanted
  <2>2. s \in Secrets /\ s.labels = WantLabels
    BY <1>1, <2>1 DEF Secrets
  <2>3. secret' = s
    BY <1>2 DEF Create
  <2> HIDE DEF s
  <2> QED BY <2>2, <2>3, WantedTyped, SecretOnly DEF Apply
<1>3. CASE secret.there /\ Changed /\ Update
  <2> DEFINE s == [there |-> TRUE, labels |-> Merge(secret.labels, WantLabels, Swept),
                   notes |-> Merge(secret.notes, WantNotes, Notes),
                   kube |-> kube, argo |-> secret.argo]
  <2>1. s \in Secrets /\ s.labels = Merge(secret.labels, WantLabels, Swept)
    <3>1. /\ Merge(secret.labels, WantLabels, Swept) \in [LabelKeys -> LabelValues]
          /\ Merge(secret.notes, WantNotes, Notes) \in [NoteKeys -> party.lengths \cup {1, Absent}]
      BY <1>3, Merged
    <3>2. secret.argo \in {"none", "project"}
      BY <1>3, SecretIs
    <3> QED BY <1>1, <3>1, <3>2 DEF Secrets
  <2>2. \A k \in LabelKeys : s.labels[k] \in Values(k)
    BY <1>3, <2>1, Merged
  <2>3. secret' = s
    BY <1>3, SecretIs DEF Update
  <2> HIDE DEF s
  <2> QED BY <2>1, <2>2, <2>3, SecretOnly DEF Apply
<1> QED BY <1>2, <1>3 DEF Apply

(* The labels of a Secret changed in place.                                 *)
LEMMA Relabelled ==
    ASSUME PInv, secret.there, NEW l \in [LabelKeys -> LabelValues],
           \A k \in LabelKeys : l[k] \in Values(k)
    PROVE  [secret EXCEPT !.labels = l] \in Secrets /\ [secret EXCEPT !.labels = l].labels = l
<1>1. secret \in Secrets
  BY SecretIs
<1>2. [secret EXCEPT !.labels = l] \in Secrets
  BY <1>1 DEF Secrets
<1>3. [secret EXCEPT !.labels = l].labels = l
  BY <1>1 DEF Secrets
<1> QED BY <1>2, <1>3

LEMMA StampedTyped ==
    ASSUME NEW l \in [LabelKeys -> LabelValues], \A k \in LabelKeys : l[k] \in Values(k)
    PROVE  /\ Stamped(Parked(l)) \in [LabelKeys -> LabelValues]
           /\ \A k \in LabelKeys : Stamped(Parked(l))[k] \in Values(k)
           /\ \A k \in LabelKeys \ (Demotion \cup {"secret-type"}) : Stamped(Parked(l))[k] = l[k]
<1>1. /\ Absent \in LabelValues /\ "computed" \in LabelValues /\ "stamp" \in LabelValues
      /\ "stale-since" \in LabelKeys /\ "superseded-by" \in LabelKeys
      /\ "orphaned-secret-type" \in LabelKeys /\ "secret-type" \in LabelKeys
  BY DEF LabelValues, LabelKeys, Prefixed, Demotion, Outside
<1>2. Parked(l) \in [LabelKeys -> LabelValues]
  BY <1>1 DEF Parked
<1>3. l["secret-type"] # Absent => l["secret-type"] \in Values("orphaned-secret-type")
  <2>1. l["secret-type"] \in Values("secret-type")
    BY <1>1
  <2>2. l["secret-type"] \in {"cluster", "hand", Absent}
    BY <2>1 DEF Values, Team, Computed, HandValue
  <2> QED BY <2>2 DEF Values, Team, Computed
<1>4. /\ \A k \in LabelKeys : Absent \in Values(k)
      /\ "computed" \in Values("superseded-by") /\ "stamp" \in Values("stale-since")
  BY DEF Values, Team, Computed
<1>5. \A k \in LabelKeys : Parked(l)[k] \in Values(k)
  BY <1>1, <1>3, <1>4 DEF Parked
<1>6. \A k \in LabelKeys : Stamped(Parked(l))[k] = IF k = "superseded-by" THEN "computed"
                                                   ELSE IF k = "stale-since" THEN "stamp"
                                                   ELSE Parked(l)[k]
  BY <1>2 DEF Stamped
<1>7. Stamped(Parked(l)) \in [LabelKeys -> LabelValues]
  BY <1>1, <1>2 DEF Stamped
<1>8. \A k \in LabelKeys : Stamped(Parked(l))[k] \in Values(k)
  BY <1>4, <1>5, <1>6
<1>9. ASSUME NEW k \in LabelKeys \ (Demotion \cup {"secret-type"})
      PROVE  Stamped(Parked(l))[k] = l[k]
  <2>1. Parked(l)[k] = l[k]
    BY DEF Parked, Demotion
  <2> QED BY <1>6, <2>1 DEF Demotion
<1> QED BY <1>7, <1>8, <1>9

LEMMA DemoteInv ==
    ASSUME PInv, Demote
    PROVE  PInv'
<1> DEFINE l == Stamped(Parked(secret.labels))
           s == [secret EXCEPT !.labels = l]
<1>0. secret.there /\ secret' = s /\ age' = 0 /\ UNCHANGED <<party, labels, notes, kube, named>>
  BY DEF Demote
<1>1. /\ secret.labels \in [LabelKeys -> LabelValues]
      /\ \A k \in LabelKeys : secret.labels[k] \in Values(k)
  BY <1>0, SecretIs
<1>2. l \in [LabelKeys -> LabelValues] /\ \A k \in LabelKeys : l[k] \in Values(k)
  BY <1>1, StampedTyped
<1> HIDE DEF l
<1>3. s \in Secrets /\ s.labels = l
  BY <1>0, <1>2, Relabelled
<1> HIDE DEF s
<1>4. \A k \in LabelKeys : s.labels[k] \in Values(k)
  BY <1>2, <1>3
<1>5. age' \in 0..party'.demotedTTL + 1
  <2>1. party.demotedTTL \in Nat
    BY PartyIs DEF PInv
  <2> QED BY <1>0, <2>1
<1> QED BY <1>0, <1>3, <1>4, <1>5, PutTogether DEF PInv, TypeOK

LEMMA HandEditInv ==
    ASSUME PInv, HandEdit
    PROVE  PInv'
<1>1. PICK k \in party.hand, how \in {"set", "remove"} :
          secret' = [secret EXCEPT !.labels[k] = IF how = "set" THEN HandValue(k) ELSE Absent]
  BY DEF HandEdit
<1>2. k \in LabelKeys /\ secret.there /\ UNCHANGED <<party, labels, notes, kube, named, age>>
  BY PartyIs DEF PInv, HandEdit
<1> DEFINE v == IF how = "set" THEN HandValue(k) ELSE Absent
           l == [secret.labels EXCEPT ![k] = v]
           s == [secret EXCEPT !.labels = l]
<1>3. v \in LabelValues /\ v \in Values(k)
  BY DEF HandValue, LabelValues, Values
<1> HIDE DEF v
<1>4. /\ secret.labels \in [LabelKeys -> LabelValues]
      /\ \A j \in LabelKeys : secret.labels[j] \in Values(j)
  BY <1>2, SecretIs
<1>5. l \in [LabelKeys -> LabelValues] /\ \A j \in LabelKeys : l[j] \in Values(j)
  BY <1>2, <1>3, <1>4
<1>6. secret' = s
  BY <1>1 DEF v
<1> HIDE DEF l
<1>7. s \in Secrets /\ s.labels = l
  BY <1>2, <1>5, Relabelled
<1> HIDE DEF s
<1> QED BY <1>2, <1>5, <1>6, <1>7, SecretOnly

LEMMA ArgoEditInv ==
    ASSUME PInv, ArgoEdit
    PROVE  PInv'
<1>1. secret.there /\ UNCHANGED <<party, labels, notes, kube, named, age>>
  BY DEF ArgoEdit
<1>2. PICK a \in [LabelKeys -> LabelValues], b \in [NoteKeys -> party.lengths \cup {1, Absent}],
           c \in Kubeconfigs, d \in {"none", "project"} :
          secret = [there |-> TRUE, labels |-> a, notes |-> b, kube |-> c, argo |-> d]
  BY <1>1, SecretIs
<1> DEFINE s1 == [there |-> TRUE, labels |-> a, notes |-> [b EXCEPT ![0] = 1], kube |-> c, argo |-> d]
           s2 == [there |-> TRUE, labels |-> a, notes |-> b, kube |-> c, argo |-> "project"]
<1>3. /\ s1 \in Secrets /\ s1.labels = secret.labels
      /\ s2 \in Secrets /\ s2.labels = secret.labels
  BY <1>2 DEF Secrets
<1>4. secret' = s1 \/ secret' = s2
  BY <1>2 DEF ArgoEdit
<1>5. \A j \in LabelKeys : secret.labels[j] \in Values(j)
  BY <1>1, SecretIs
<1> HIDE DEF s1, s2
<1> QED BY <1>1, <1>3, <1>4, <1>5, SecretOnly

LEMMA PStep ==
    PInv /\ [Next]_vars => PInv'
<1> SUFFICES ASSUME PInv, [Next]_vars PROVE PInv'
  OBVIOUS
<1>0. party.demotedTTL \in Nat
  BY PartyIs DEF PInv
<1>1. CASE Apply
  BY <1>1, ApplyInv
<1>2. CASE Demote
  BY <1>2, DemoteInv
<1>3. CASE Expire
  <2>1. secret' = NoSecret /\ UNCHANGED <<party, labels, notes, kube, named, age>>
    BY <1>3 DEF Expire
  <2> QED BY <2>1 DEF PInv, TypeOK, NoSecret
<1>4. CASE Label
  <2>1. PICK k \in party.tenant, v \in TenantValues \cup {Absent} : labels' = [labels EXCEPT ![k] = v]
    BY <1>4 DEF Label
  <2>2. UNCHANGED <<party, notes, kube, named, secret, age>>
    BY <1>4 DEF Label
  <2>3. labels' \in [LabelKeys -> TenantValues \cup {Absent}]
    BY <2>1 DEF PInv, TypeOK
  <2>4. Secrets' = Secrets /\ \A j \in LabelKeys : Values(j)' = Values(j)
    BY <2>2 DEF Secrets, Values
  <2> QED BY <2>2, <2>3, <2>4 DEF PInv, TypeOK
<1>5. CASE Annotate
  <2>1. PICK n \in Notes, v \in party.lengths \cup {Absent} : notes' = [notes EXCEPT ![n] = v]
    BY <1>5 DEF Annotate
  <2>2. UNCHANGED <<party, labels, kube, named, secret, age>>
    BY <1>5 DEF Annotate
  <2>3. notes' \in [Notes -> party.lengths \cup {Absent}]
    BY <2>1 DEF PInv, TypeOK
  <2>4. Secrets' = Secrets /\ \A j \in LabelKeys : Values(j)' = Values(j)
    BY <2>2 DEF Secrets, Values
  <2> QED BY <2>2, <2>3, <2>4 DEF PInv, TypeOK
<1>6. CASE Rotate
  <2>1. kube' \in Kubeconfigs /\ UNCHANGED <<party, labels, notes, named, secret, age>>
    BY <1>6 DEF Rotate
  <2>2. Secrets' = Secrets /\ \A j \in LabelKeys : Values(j)' = Values(j)
    BY <2>1 DEF Secrets, Values
  <2> QED BY <2>1, <2>2 DEF PInv, TypeOK
<1>7. CASE Rename
  <2>1. named' \in BOOLEAN /\ UNCHANGED <<party, labels, notes, kube, secret, age>>
    BY <1>7 DEF Rename
  <2>2. Secrets' = Secrets /\ \A j \in LabelKeys : Values(j)' = Values(j)
    BY <2>1 DEF Secrets, Values
  <2> QED BY <2>1, <2>2 DEF PInv, TypeOK
<1>8. CASE HandEdit
  BY <1>8, HandEditInv
<1>9. CASE ArgoEdit
  BY <1>9, ArgoEditInv
<1>10. CASE Tick
  <2>1. age <= party.demotedTTL /\ age' = age + 1 /\ UNCHANGED <<party, labels, notes, kube, named, secret>>
    BY <1>10 DEF Tick
  <2>2. age' \in 0..party.demotedTTL + 1
    BY <1>0, <2>1 DEF PInv, TypeOK
  <2>3. Secrets' = Secrets /\ \A j \in LabelKeys : Values(j)' = Values(j)
    BY <2>1 DEF Secrets, Values
  <2> QED BY <2>1, <2>2, <2>3 DEF PInv, TypeOK
<1>11. CASE UNCHANGED vars
  <2>1. UNCHANGED <<party, labels, notes, kube, named, secret, age>>
    BY <1>11 DEF vars
  <2>2. Secrets' = Secrets /\ \A j \in LabelKeys : Values(j)' = Values(j)
    BY <2>1 DEF Secrets, Values
  <2> QED BY <2>1, <2>2 DEF PInv, TypeOK
<1> QED BY <1>1, <1>2, <1>3, <1>4, <1>5, <1>6, <1>7, <1>8, <1>9, <1>10, <1>11 DEF Next

-----------------------------------------------------------------------------
(* What the invariant gives.                                               *)

(* Nothing drifts: every key that changed() compares reads as it is wanted. *)
LEMMA NoDrift ==
    ~LabelsDrift <=>
        \A k \in LabelKeys :
            /\ WantLabels[k] # Absent => Read(secret.labels[k]) = WantLabels[k]
            /\ WantLabels[k] = Absent /\ k \in Compared => secret.labels[k] = Absent
BY DEF LabelsDrift

LEMMA NoNotesDrift ==
    ~NotesDrift <=>
        \A n \in NoteKeys :
            /\ WantNotes[n] # Absent => ReadNote(secret.notes[n]) = WantNotes[n]
            /\ WantNotes[n] = Absent /\ n \in Notes => secret.notes[n] = Absent
BY DEF NotesDrift

LEMMA Unspoofed ==
    PInv => NoSpoofing
<1> SUFFICES ASSUME PInv, secret.there, NEW k \in LabelKeys \ Team
             PROVE  secret.labels[k] \notin TenantValues
  BY DEF NoSpoofing
<1>1. secret.labels[k] \in Values(k)
  BY SecretIs
<1>2. \A v \in Values(k) : v \in {Absent, "disabled", "hand", "computed", "cluster", "stamp"}
  BY DEF Values, HandValue
<1>3. \A v \in {Absent, "disabled", "hand", "computed", "cluster", "stamp"} : v \notin TenantValues
  BY AbsentAssumption DEF TenantValues
<1> QED BY <1>1, <1>2, <1>3

LEMMA Unmissed ==
    PInv => NothingMissed
<1> SUFFICES ASSUME PInv, UpToDate
             PROVE  /\ secret.labels["secret-type"] = "cluster"
                    /\ secret.kube = kube
                    /\ \A k \in Computed : secret.labels[k] = "computed"
                    /\ \A k \in Demotion : secret.labels[k] = Absent
                    /\ \A k \in Team : Read(secret.labels[k]) = Read(labels[k])
  BY DEF NothingMissed
<1>1. secret.kube = kube /\ ~LabelsDrift
  BY DEF UpToDate, Changed
<1>2. \A k \in LabelKeys :
          /\ WantLabels[k] # Absent => Read(secret.labels[k]) = WantLabels[k]
          /\ WantLabels[k] = Absent /\ k \in Compared => secret.labels[k] = Absent
  BY <1>1, NoDrift
<1>3. Absent # "cluster" /\ Absent # "computed"
  BY AbsentAssumption
<1>4. secret.labels["secret-type"] = "cluster"
  BY <1>2, <1>3, LabelsWanted DEF Read
<1>5. \A k \in Computed : secret.labels[k] = "computed"
  BY <1>2, <1>3, LabelsWanted DEF Read
<1>6. Demotion \subseteq Compared /\ Team \subseteq Compared
  BY DEF Compared, Prefixed, Demotion, Team
<1>7. \A k \in Demotion : secret.labels[k] = Absent
  BY <1>2, <1>6, LabelsWanted
<1>8. \A k \in Team : Read(secret.labels[k]) = Read(labels[k])
  BY <1>2, <1>6, LabelsWanted DEF Read
<1> QED BY <1>1, <1>4, <1>5, <1>7, <1>8

LEMMA FitIs ==
    PInv => NotesFit
<1> SUFFICES ASSUME PInv, UpToDate
             PROVE  \E carried \in SUBSET Present :
                        /\ \A n \in carried : ReadNote(secret.notes[n]) = notes[n]
                        /\ \A n \in Notes \ carried : secret.notes[n] = Absent
                        /\ WithinLimits(carried)
                        /\ \A n \in Present \ carried : ~WithinLimits(carried \cup {n})
  BY DEF NotesFit, Present
<1>1. \A n \in NoteKeys :
          /\ WantNotes[n] # Absent => ReadNote(secret.notes[n]) = WantNotes[n]
          /\ WantNotes[n] = Absent /\ n \in Notes => secret.notes[n] = Absent
  BY NoNotesDrift DEF UpToDate, Changed
<1>2. \A n \in Admitted : ReadNote(secret.notes[n]) = notes[n]
  BY <1>1, NotesWanted, TypedNotes
<1>3. \A n \in Notes \ Admitted : secret.notes[n] = Absent
  BY <1>1, NotesWanted, TypedNotes
<1> QED BY <1>2, <1>3, TypedNotes, AdmittedFits

LEMMA SettlesStep ==
    ASSUME PInv, Apply
    PROVE  ~Changed'
<1>1. PInv' /\ UNCHANGED <<labels, notes, kube>>
  BY ApplyInv DEF Apply
<1>2. WantLabels' = WantLabels /\ WantNotes' = WantNotes
  BY <1>1, WantedSame
<1>3. /\ secret'.kube = kube
      /\ \A k \in LabelKeys :
            \/ secret'.labels[k] = WantLabels[k]
            \/ WantLabels[k] = Absent /\ k \notin Compared
      /\ \A n \in NoteKeys :
            \/ secret'.notes[n] = WantNotes[n]
            \/ WantNotes[n] = Absent /\ n \notin Notes
  <2>1. CASE Create
    BY <2>1 DEF Create
  <2>2. CASE secret.there /\ Update
    <3>1. /\ secret'.labels = Merge(secret.labels, WantLabels, Swept)
          /\ secret'.notes = Merge(secret.notes, WantNotes, Notes)
          /\ secret'.kube = kube
      <4>1. PICK a, b, c, d : secret = [there |-> TRUE, labels |-> a, notes |-> b, kube |-> c, argo |-> d]
        BY <2>2, SecretIs
      <4> QED BY <2>2, <4>1 DEF Update
    <3>2. DOMAIN secret.labels = LabelKeys /\ DOMAIN secret.notes = NoteKeys
      BY <2>2, SecretIs
    <3>3. \A k \in LabelKeys : secret'.labels[k] = IF WantLabels[k] # Absent THEN WantLabels[k]
                                                   ELSE IF k \in Swept THEN Absent
                                                   ELSE secret.labels[k]
      BY <3>1, <3>2 DEF Merge
    <3>4. \A n \in NoteKeys : secret'.notes[n] = IF WantNotes[n] # Absent THEN WantNotes[n]
                                                 ELSE IF n \in Notes THEN Absent
                                                 ELSE secret.notes[n]
      BY <3>1, <3>2 DEF Merge
    <3>5. Swept = Compared
      BY DEF Swept, Compared
    <3> QED BY <3>1, <3>3, <3>4, <3>5
  <2> QED BY <2>1, <2>2 DEF Apply
<1>4. ~LabelsDrift'
  BY <1>2, <1>3 DEF LabelsDrift, Read
<1>5. ~NotesDrift'
  BY <1>2, <1>3 DEF NotesDrift, ReadNote
<1> QED BY <1>1, <1>3, <1>4, <1>5 DEF Changed

LEMMA OthersStep ==
    ASSUME PInv, Pass, secret.there, secret'.there
    PROVE  /\ secret'.argo = secret.argo
           /\ secret'.notes[0] = secret.notes[0]
           /\ \A k \in {"operator", "prune"} : secret'.labels[k] = secret.labels[k]
<1>1. PICK a, b, c, d : secret = [there |-> TRUE, labels |-> a, notes |-> b, kube |-> c, argo |-> d]
  BY SecretIs
<1>2. "operator" \in LabelKeys /\ "prune" \in LabelKeys
  BY DEF LabelKeys, Prefixed, Outside
<1>3. a \in [LabelKeys -> LabelValues] /\ b \in [NoteKeys -> party.lengths \cup {1, Absent}]
      /\ \A k \in LabelKeys : a[k] \in Values(k)
  BY <1>1, SecretIs
<1>4. CASE Apply
  <2>1. Update
    BY <1>4 DEF Apply
  <2>2. /\ secret'.argo = d
        /\ secret'.labels = Merge(a, WantLabels, Swept)
        /\ secret'.notes = Merge(b, WantNotes, Notes)
    BY <1>1, <2>1 DEF Update
  <2>3. WantNotes[0] = Absent /\ 0 \in NoteKeys /\ 0 \notin Notes
    BY NotesWanted, TypedNotes
  <2>4. secret'.notes[0] = b[0]
    BY <1>3, <2>2, <2>3 DEF Merge
  <2>5. ASSUME NEW k \in {"operator", "prune"}
        PROVE  secret'.labels[k] = a[k]
    <3>1. WantLabels[k] = Absent /\ k \in LabelKeys
      BY <1>2, LabelsWanted
    <3>2. k \notin Swept
      BY DEF Swept, Prefixed, Team, Computed, Demotion
    <3> QED BY <1>3, <2>2, <3>1, <3>2 DEF Merge
  <2> QED BY <1>1, <2>2, <2>4, <2>5
<1>5. CASE Demote
  <2>1. secret'.argo = d /\ secret'.notes = b /\ secret'.labels = Stamped(Parked(a))
    BY <1>1, <1>5 DEF Demote
  <2>2. \A k \in {"operator", "prune"} : Stamped(Parked(a))[k] = a[k]
    BY <1>2, <1>3, StampedTyped DEF Demotion
  <2> QED BY <1>1, <2>1, <2>2
<1>6. CASE Expire
  BY <1>6 DEF Expire, NoSecret
<1> QED BY <1>4, <1>5, <1>6 DEF Pass

LEMMA RevertStep ==
    ASSUME PInv, Demote, ~Changed, NEW k \in LabelKeys
    PROVE  Read(Merge(secret'.labels, WantLabels, Swept)[k]) = Read(secret.labels[k])
<1>1. secret.there
  BY DEF Demote
<1>2. PICK a, b, c, d : secret = [there |-> TRUE, labels |-> a, notes |-> b, kube |-> c, argo |-> d]
  BY <1>1, SecretIs
<1>3. a \in [LabelKeys -> LabelValues] /\ \A j \in LabelKeys : a[j] \in Values(j)
  BY <1>1, <1>2, SecretIs
<1> DEFINE l == Stamped(Parked(a))
<1>4. secret'.labels = l
  BY <1>2 DEF Demote
<1>5. /\ l \in [LabelKeys -> LabelValues]
      /\ \A j \in LabelKeys \ (Demotion \cup {"secret-type"}) : l[j] = a[j]
  BY <1>3, StampedTyped
<1> HIDE DEF l
<1>6. Merge(l, WantLabels, Swept)[k] = IF WantLabels[k] # Absent THEN WantLabels[k]
                                       ELSE IF k \in Swept THEN Absent
                                       ELSE l[k]
  BY <1>5 DEF Merge
<1>7. /\ WantLabels[k] # Absent => Read(a[k]) = WantLabels[k]
      /\ WantLabels[k] = Absent /\ k \in Compared => a[k] = Absent
  BY <1>2, NoDrift DEF Changed
<1>8. CASE WantLabels[k] # Absent
  BY <1>2, <1>4, <1>6, <1>7, <1>8 DEF Read
<1>9. CASE WantLabels[k] = Absent /\ k \in Swept
  BY <1>2, <1>4, <1>6, <1>7, <1>9 DEF Swept, Compared
<1>10. CASE WantLabels[k] = Absent /\ k \notin Swept
  <2>1. k \notin Demotion
    BY <1>10 DEF Swept, Prefixed, Demotion
  <2>2. k # "secret-type"
    BY <1>10, LabelsWanted, AbsentAssumption
  <2> QED BY <1>2, <1>4, <1>5, <1>6, <1>10, <2>1, <2>2
<1> QED BY <1>8, <1>9, <1>10

LEMMA PInvariance == Spec => []PInv
BY PInit, PStep, PTL DEF Spec

(* Every variable, and every label and annotation of the Secret, stays of   *)
(* its type, whatever the parties.                                          *)
THEOREM PropagationTyped == Spec => []TypeOK
<1>1. PInv => TypeOK
  BY DEF PInv
<1> QED BY <1>1, PInvariance, PTL

(* What a tenant writes on the namespace never becomes the value of a key   *)
(* of the Secret that means something: reservedSuffixes is enough of a      *)
(* boundary for any tenant, in any order of copies, demotions and sweeps.   *)
THEOREM TrustBoundary == Spec => []NoSpoofing
BY Unspoofed, PInvariance, PTL

(* A registration that changed() finds unchanged is in every respect as     *)
(* apply would have written it, whatever people did to the Secret.          *)
THEOREM ComparesEnough == Spec => []NothingMissed
BY Unmissed, PInvariance, PTL

(* Whatever the limits and however many the annotations, an up-to-date      *)
(* registration carries a largest set of them that stays within the limits. *)
THEOREM LimitsKept == Spec => []NotesFit
BY FitIs, PInvariance, PTL

(* A pass that wrote leaves nothing for the next: changed() compares no key *)
(* that the merge does not bring into line.                                 *)
THEOREM OnePassEnough == Spec => Settles
<1>1. PInv /\ [Next]_vars => [Apply => ~Changed']_vars
  BY SettlesStep
<1> QED BY <1>1, PInit, PStep, PTL DEF Spec, Settles

(* No pass touches what is ArgoCD's or the operator's.                      *)
THEOREM OthersLeftAlone == Spec => OthersKept
<1>1. PInv /\ [Next]_vars =>
        [Pass /\ secret.there /\ secret'.there =>
          /\ secret'.argo = secret.argo
          /\ secret'.notes[0] = secret.notes[0]
          /\ \A k \in {"operator", "prune"} : secret'.labels[k] = secret.labels[k]]_vars
  BY OthersStep
<1> QED BY <1>1, PInit, PStep, PTL DEF Spec, OthersKept

(* A demotion of an up-to-date registration loses nothing that the merge of *)
(* the pass after the rename was taken back would not restore.              *)
THEOREM Reverting == Spec => RevertRestores
<1>1. PInv /\ [Next]_vars =>
        [Demote =>
         LET back == Merge(secret'.labels, WantLabels, Swept)
         IN  ~Changed => \A k \in LabelKeys : Read(back[k]) = Read(secret.labels[k])]_vars
  BY RevertStep
<1> QED BY <1>1, PInit, PStep, PTL DEF Spec, RevertRestores

=============================================================================
