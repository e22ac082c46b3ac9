------------------------------ MODULE Propagation ------------------------------
(***************************************************************************)
(* The labels, annotations and data of one cluster Secret over its life:   *)
(* copied from its namespace, merged with what ArgoCD and people put       *)
(* there, hidden by a demotion, restored by a reverted rename, expired.    *)
(*                                                                         *)
(* Four parties write here.  The tenant labels the namespace; the          *)
(* provisioner rotates the kubeconfig; ArgoCD and people edit the Secret   *)
(* itself; the registrar's pass reads all of it and writes what differs.   *)
(* Reconcile has the interleaving of a pass with everything else; here a   *)
(* pass is one step, and what it does to every single key counts.          *)
(***************************************************************************)
EXTENDS Naturals, FiniteSets, FiniteSetsExt

CONSTANTS
    Parties,      \* who may do what in a behaviour, and the TTL in force
    NoteCount,    \* annotation keys under our prefix: 1..NoteCount, as they sort
    LimitValue, LimitTotal, LimitCount,   \* annotationLimits
    Absent        \* the value of a key that is not there; an empty value is one that is

ASSUME AbsentAssumption ==
    Absent \notin Nat \cup {"", "tenant", "computed", "cluster", "hand", "disabled", "stamp"}

Team == {"team"}                      \* keys under our prefix that mean nothing to us
Computed == {"source", "provider"}    \* what apply computes; there are more
Demotion == {"orphaned-secret-type", "superseded-by", "stale-since"}
Prefixed == Team \cup Computed \cup Demotion \cup {"prune"}
Outside == {"secret-type", "operator"}   \* ArgoCD's key, and anybody's
LabelKeys == Prefixed \cup Outside

Notes == 1..NoteCount
NoteKeys == 0..NoteCount              \* 0 is an annotation outside our prefix

(* tenant and hand are the label keys the tenant sets on the namespace and  *)
(* people change on the Secret; lengths are those of annotation values;     *)
(* others says whether the provisioner and ArgoCD are about as well.        *)
ASSUME PartiesAssumption ==
    \A p \in Parties : /\ p.tenant \subseteq LabelKeys
                       /\ p.hand \subseteq LabelKeys \ {"source"}
                       /\ p.lengths \subseteq Nat
                       /\ p.others \in BOOLEAN
                       /\ p.demotedTTL \in Nat
ASSUME LimitsAssumption == /\ NoteCount \in Nat /\ LimitValue \in Nat \ {0}
                           /\ LimitTotal \in Nat \ {0} /\ LimitCount \in Nat \ {0}

VARIABLES
    party,    \* the one of Parties, always the same
    labels,   \* labels of the namespace
    notes,    \* its annotations, by the lengths of their values
    kube,     \* its kubeconfig
    named,    \* its cluster label names this Secret
    secret,   \* the Secret
    age       \* time since the Secret was last stamped stale-since

vars == <<party, labels, notes, kube, named, secret, age>>

Kubeconfigs == {"k1", "k2"}
TenantValues == {"", "tenant"}
HandValue(k) == IF k = "prune" THEN "disabled" ELSE "hand"

NoSecret == [there |-> FALSE]

-----------------------------------------------------------------------------
(* What is copied from the namespace.                                      *)

ReservedButPrune == Computed \cup Demotion
Reserved == Computed \cup Demotion \cup {"prune"}

(* One more annotation, after those admitted, which sum up to total.        *)
FitsBelow(admitted, total, n) ==
    notes[n] < LimitValue /\ Cardinality(admitted) < LimitCount /\ total + notes[n] < LimitTotal

Fits(admitted, total, n) ==
    /\ notes[n] <= LimitValue
    /\ Cardinality(admitted) < LimitCount
    /\ total + notes[n] <= LimitTotal

(* propagate: in the order of the keys, each that fits; what does not is    *)
(* left out, never cut off.                                                 *)
UpTo[n \in NoteKeys] ==
    IF n = 0 THEN [keys |-> {}, total |-> 0]
    ELSE LET before == UpTo[n - 1]
         IN  IF notes[n] # Absent /\ Fits(before.keys, before.total, n)
             THEN [keys |-> before.keys \cup {n}, total |-> before.total + notes[n]]
             ELSE before

Admitted == UpTo[NoteCount].keys

(* The labels and annotations of the registration apply wants.              *)
WantLabels ==
    [k \in LabelKeys |->
        IF k \in Prefixed \ Reserved /\ labels[k] # Absent THEN labels[k]
        ELSE IF k \in Computed THEN "computed"
        ELSE IF k = "secret-type" THEN "cluster"
        ELSE Absent]

WantNotes ==
    LET admitted == Admitted
    IN  [n \in NoteKeys |-> IF n \in admitted THEN notes[n] ELSE Absent]

(* A map read with Go's index expression: a key that is not there reads as  *)
(* empty.                                                                   *)
Read(v) == IF v = Absent THEN "" ELSE v
ReadNote(v) == IF v = Absent THEN 0 ELSE v

-----------------------------------------------------------------------------
(* apply on an existing Secret.                                            *)

(* The opt-out is set on the Secret and has no upstream to be absent from:  *)
(* it is no drift, and it is not swept.                                     *)
ComparedWithPrune == Prefixed
Compared == Prefixed \ {"prune"}
Swept == Prefixed \ {"prune"}

LabelsDriftOneWay ==
    \E k \in LabelKeys : WantLabels[k] # Absent /\ Read(secret.labels[k]) # WantLabels[k]

LabelsDrift ==
    \E k \in LabelKeys :
        \/ WantLabels[k] # Absent /\ Read(secret.labels[k]) # WantLabels[k]
        \/ WantLabels[k] = Absent /\ k \in Compared /\ secret.labels[k] # Absent

NotesDrift ==
    LET want == WantNotes IN
    \E n \in NoteKeys :
        \/ want[n] # Absent /\ ReadNote(secret.notes[n]) # want[n]
        \/ want[n] = Absent /\ n \in Notes /\ secret.notes[n] # Absent

Changed == secret.kube # kube \/ LabelsDrift \/ NotesDrift

MergeWithoutSweep(old, want, swept) ==
    [k \in DOMAIN old |-> IF want[k] # Absent THEN want[k] ELSE old[k]]
MergeReplacing(old, want, swept) == want
Merge(old, want, swept) ==
    [k \in DOMAIN old |-> IF want[k] # Absent THEN want[k]
                          ELSE IF k \in swept THEN Absent
                          ELSE old[k]]

Create ==
    secret' = [there |-> TRUE, labels |-> WantLabels, notes |-> WantNotes,
               kube |-> kube, argo |-> "none"]

Update ==
    secret' = [secret EXCEPT !.labels = Merge(@, WantLabels, Swept),
                             !.notes = Merge(@, WantNotes, Notes),
                             !.kube = kube]

(* A pass while the namespace names this Secret.                            *)
Apply ==
    /\ named
    /\ \/ ~secret.there /\ Create
       \/ secret.there /\ Changed /\ Update
    /\ UNCHANGED <<party, labels, notes, kube, named, age>>

-----------------------------------------------------------------------------
(* A pass while it names another.                                          *)

(* The breadcrumb is taken to be a valid label value; one that is not is    *)
(* left out.                                                                *)
Stamped(l) == [l EXCEPT !["superseded-by"] = "computed", !["stale-since"] = "stamp"]

Parked(l) ==
    IF l["secret-type"] = Absent THEN l
    ELSE [l EXCEPT !["orphaned-secret-type"] = l["secret-type"], !["secret-type"] = Absent]

IsDemotedByType == secret.labels["orphaned-secret-type"] = "demoted"
IsDemoted == Read(secret.labels["orphaned-secret-type"]) # ""
Pinned == secret.labels["prune"] = "disabled"

(* An absent or unreadable stamp never expires.                             *)
Expired == party.demotedTTL > 0 /\ secret.labels["stale-since"] = "stamp" /\ age > party.demotedTTL

Demote ==
    /\ ~named
    /\ secret.there
    /\ ~Pinned
    /\ ~IsDemoted
    /\ secret' = [secret EXCEPT !.labels = Stamped(Parked(@))]
    /\ age' = 0
    /\ UNCHANGED <<party, labels, notes, kube, named>>

Expire ==
    /\ ~named
    /\ secret.there
    /\ ~Pinned
    /\ IsDemoted
    /\ Expired
    /\ secret' = NoSecret
    /\ UNCHANGED <<party, labels, notes, kube, named, age>>

Pass == Apply \/ Demote \/ Expire

-----------------------------------------------------------------------------
(* Everybody else.                                                         *)

Label ==
    /\ \E k \in party.tenant, v \in TenantValues \cup {Absent} :
           v # labels[k] /\ labels' = [labels EXCEPT ![k] = v]
    /\ UNCHANGED <<party, notes, kube, named, secret, age>>

Annotate ==
    /\ \E n \in Notes, v \in party.lengths \cup {Absent} :
           v # notes[n] /\ notes' = [notes EXCEPT ![n] = v]
    /\ UNCHANGED <<party, labels, kube, named, secret, age>>

Rotate ==
    /\ party.others
    /\ kube' \in Kubeconfigs \ {kube}
    /\ UNCHANGED <<party, labels, notes, named, secret, age>>

Rename ==
    /\ named' = ~named
    /\ UNCHANGED <<party, labels, notes, kube, secret, age>>

HandEdit ==
    /\ secret.there
    /\ \E k \in party.hand, how \in {"set", "remove"} :
           secret' = [secret EXCEPT !.labels[k] = IF how = "set" THEN HandValue(k) ELSE Absent]
    /\ secret' # secret
    /\ UNCHANGED <<party, labels, notes, kube, named, age>>

(* An annotation outside our prefix, and ArgoCD's own data keys.            *)
ArgoEdit ==
    /\ party.others
    /\ secret.there
    /\ secret' \in {[secret EXCEPT !.notes[0] = 1], [secret EXCEPT !.argo = "project"]}
    /\ secret' # secret
    /\ UNCHANGED <<party, labels, notes, kube, named, age>>

Tick ==
    /\ age <= party.demotedTTL
    /\ age' = age + 1
    /\ UNCHANGED <<party, labels, notes, kube, named, secret>>

-----------------------------------------------------------------------------
Init ==
    /\ party \in Parties
    /\ labels = [k \in LabelKeys |-> Absent]
    /\ notes = [n \in Notes |-> Absent]
    /\ kube = "k1"
    /\ named \in BOOLEAN
    /\ secret = NoSecret
    /\ age = 0

Next ==
    \/ Apply \/ Demote \/ Expire
    \/ Label \/ Annotate \/ Rotate \/ Rename \/ HandEdit \/ ArgoEdit \/ Tick

(* The interval brings every pass, and time goes on.                        *)
Spec == Init /\ [][Next]_vars /\ WF_vars(Pass) /\ WF_vars(Tick)

-----------------------------------------------------------------------------
(* Properties.                                                             *)

(* What a key of the Secret can hold: what we compute, what is parked or    *)
(* stamped, what a tenant or a person wrote.                                *)
Values(k) ==
    {Absent} \cup (IF k \in party.hand THEN {HandValue(k)} ELSE {}) \cup
    CASE k \in Team -> TenantValues
      [] k \in Computed \cup {"superseded-by"} -> {"computed"}
      [] k \in {"secret-type", "orphaned-secret-type"} -> {"cluster", "hand"}
      [] k = "stale-since" -> {"stamp"}
      [] OTHER -> {}

(* Every variable, and every key of the Secret, has its type.               *)
TypeOK ==
    /\ labels \in [LabelKeys -> TenantValues \cup {Absent}]
    /\ notes \in [Notes -> party.lengths \cup {Absent}]
    /\ kube \in Kubeconfigs
    /\ named \in BOOLEAN
    /\ age \in 0..party.demotedTTL + 1
    /\ secret.there =>
           /\ \A k \in LabelKeys : secret.labels[k] \in Values(k)
           /\ secret.notes \in [NoteKeys -> party.lengths \cup {1, Absent}]
           /\ secret.kube \in Kubeconfigs
           /\ secret.argo \in {"none", "project"}

(* The trust boundary of reservedSuffixes: nothing a tenant writes on the   *)
(* namespace, in whatever order it is copied, parked, restored and swept,   *)
(* becomes the value of a key that routes, pins, hides or expires the       *)
(* registration, or of a key outside our prefix.                            *)
NoSpoofing ==
    secret.there =>
        \A k \in LabelKeys \ Team : secret.labels[k] \notin TenantValues

(* One pass is enough: what apply has just written, the next pass finds     *)
(* unchanged.  A key that changed() compares and the merge does not write   *)
(* would make every pass an Update.                                         *)
Settles == [][Apply => ~Changed']_vars

UpToDate == named /\ secret.there /\ ~Changed

(* And a pass that finds nothing changed has nothing to change, whatever    *)
(* people did to the Secret: it is visible to ArgoCD and under our          *)
(* computed labels, nothing of a demotion is left, and the kubeconfig and   *)
(* every label of the tenant's read as they do on the namespace.            *)
NothingMissed ==
    UpToDate =>
        /\ secret.labels["secret-type"] = "cluster"
        /\ secret.kube = kube
        /\ \A k \in Computed : secret.labels[k] = "computed"
        /\ \A k \in Demotion : secret.labels[k] = Absent
        /\ \A k \in Team : Read(secret.labels[k]) = Read(labels[k])

(* The read-modify-write: no pass touches ArgoCD's data, the labels and     *)
(* annotations outside the prefix, or the opt-out.                          *)
OthersKept ==
    [][Pass /\ secret.there /\ secret'.there =>
          /\ secret'.argo = secret.argo
          /\ secret'.notes[0] = secret.notes[0]
          /\ \A k \in {"operator", "prune"} : secret'.labels[k] = secret.labels[k]]_vars

(* "Change the label back and the registration returns intact": a demotion  *)
(* loses nothing of an up-to-date registration that the merge of the        *)
(* reverting pass would not put back.                                       *)
RevertRestores ==
    [][Demote =>
         LET back == Merge(secret'.labels, WantLabels, Swept)
         IN  ~Changed => \A k \in LabelKeys : Read(back[k]) = Read(secret.labels[k])]_vars

WithinLimits(S) ==
    /\ \A n \in S : notes[n] <= LimitValue
    /\ Cardinality(S) <= LimitCount
    /\ MapThenSumSet(LAMBDA n : notes[n], S) <= LimitTotal

(* The annotations an up-to-date registration carries are those of its      *)
(* namespace, within every limit, and none was left out that there was room *)
(* for; but one that is empty may be missing, since it reads the same.      *)
NotesFit ==
    UpToDate =>
        LET there == {n \in Notes : notes[n] # Absent} IN
        \E carried \in SUBSET there :
            /\ \A n \in carried : ReadNote(secret.notes[n]) = notes[n]
            /\ \A n \in Notes \ carried : secret.notes[n] = Absent
            /\ WithinLimits(carried)
            /\ \A n \in there \ carried : ~WithinLimits(carried \cup {n})

(* With a TTL set, a registration its namespace no longer names, and nobody *)
(* pins, does not stay for ever.                                            *)
SupersededExpires ==
    (secret.there /\ ~named /\ party.demotedTTL > 0) ~> (~secret.there \/ named \/ Pinned)

=============================================================================
