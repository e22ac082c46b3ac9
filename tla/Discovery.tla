------------------------------ MODULE Discovery ------------------------------
(***************************************************************************)
(* Which kubeconfig one namespace is registered with (registrar.go,        *)
(* findKubeconfigCandidates and the loop of discoverOne): the Secrets of   *)
(* the namespace are offered to the configured providers in order, a       *)
(* Secret's keys become candidates of the first provider that finds one of *)
(* its own, and the first candidate that parses is the registration's.     *)
(*                                                                         *)
(* The namespace, the result of one list call, does not change while it is *)
(* looked at; it is part of the state only to be any namespace.            *)
(***************************************************************************)
EXTENDS Naturals, Sequences

CONSTANTS
    Secrets,      \* Secret names; numbers in the order of the names
    Providers,    \* the configured providers, a sequence in --provider order
    Keys,         \* data keys
    Types,        \* Secret types
    Contents,     \* which kinds of kubeconfig occur in one namespace
    None          \* no key, no type, no result

(* What a key holds.  static: a usable credential copied from the document, *)
(* which has no exec block.  both: one, in a document in which some user    *)
(* has an exec block, too.  exec: usable, by translating the plugin of the  *)
(* user it points at.  alien: an exec block somewhere in a document that no *)
(* provider can use, as its plugin has no equivalent or its cluster, its    *)
(* pairing or the rest of its user is refused.  broken: of no use, and no   *)
(* exec block that YAML shows.                                              *)
ContentKinds == {"static", "both", "exec", "alien", "broken"}

Provider == [keys: Seq(Keys), type: Types \cup {None}, allowExec: BOOLEAN]

ASSUME SecretsAssumption == Secrets \subseteq Nat
ASSUME ContentsAssumption == \A kinds \in Contents : kinds \subseteq ContentKinds
ASSUME NoneAssumption == None \notin Types \cup ContentKinds
(* What Validate has made sure of: no provider without keys, no key twice.  *)
Valid(p) == /\ p.keys # <<>>
            /\ \A i, j \in DOMAIN p.keys : p.keys[i] = p.keys[j] => i = j

ASSUME ProvidersAssumption ==
    Providers \in Seq(Provider) /\ \A p \in DOMAIN Providers : Valid(Providers[p])

VARIABLES
    matches,      \* the Secret names each provider's glob matches
    data,         \* what each Secret has under each key
    type,         \* the type of each Secret
    controlled,   \* the Secrets that some controller owns
    execAllowed,  \* --exec-credentials
    at,           \* the provider whose turn it is
    left,         \* the Secrets it matches and has not looked at
    claimed,      \* the Secrets that became candidates
    shadowed,     \* claimed Secrets a later provider would have used for exec
    candidates,   \* (Secret, provider, key) in the order found
    chosen        \* the candidate used

inputs == <<matches, data, type, controlled, execAllowed>>
vars == <<inputs, at, left, claimed, shadowed, candidates, chosen>>

Candidate == [secret: Secrets, provider: DOMAIN Providers, key: Keys]

-----------------------------------------------------------------------------
(* How much a Secret looks as if its provisioner had written it.            *)
Provenance(s, p) ==
    (IF Providers[p].type # None /\ type[s] = Providers[p].type THEN 2 ELSE 0)
        + (IF s \in controlled THEN 1 ELSE 0)

(* The order in which one provider looks at the Secrets it matches.         *)
Before(s, t, p) ==
    \/ Provenance(s, p) > Provenance(t, p)
    \/ Provenance(s, p) = Provenance(t, p) /\ s < t

(* The keys of provider p that Secret s has, in declared order.             *)
KeysPresent(s, p) ==
    LET keys == Providers[p].keys
        upTo[n \in 0..Len(keys)] ==
            IF n = 0 THEN <<>>
            ELSE IF data[s][keys[n]] = None THEN upTo[n - 1]
            ELSE Append(upTo[n - 1], keys[n])
    IN  upTo[Len(keys)]

Offered(s, p) ==
    [i \in DOMAIN KeysPresent(s, p) |->
        [secret |-> s, provider |-> p, key |-> KeysPresent(s, p)[i]]]

(* carriesExec: some user in the document under one of the provider's keys  *)
(* has an exec block, whichever user the document points at, and whether or *)
(* not it has a static credential, a plugin with an equivalent, or any use. *)
HasExecBlock(content) == content \in {"both", "exec", "alien"}
CarriesExecInFirst(s, p) == HasExecBlock(data[s][Providers[p].keys[1]])
CarriesExec(s, p) ==
    \E i \in DOMAIN Providers[p].keys : HasExecBlock(data[s][Providers[p].keys[i]])
(* parseKubeconfig: a plugin is translated only if both gates are open.     *)
Parses(c) ==
    LET content == data[c.secret][c.key]
    IN  \/ content \in {"static", "both"}
        \/ content = "exec" /\ execAllowed /\ Providers[c.provider].allowExec

-----------------------------------------------------------------------------
(* findKubeconfigCandidates.                                               *)

Matching == at \in DOMAIN Providers

(* The Secret that provider at looks at next.                               *)
Looks(s) == /\ Matching
            /\ s \in left
            /\ \A t \in left \ {s} : Before(s, t, at)

PassOver(s) ==
    /\ Looks(s)
    /\ s \in claimed
    /\ left' = left \ {s}
    /\ shadowed' = IF Providers[at].allowExec /\ CarriesExec(s, at)
                   THEN shadowed \cup {s} ELSE shadowed
    /\ UNCHANGED <<inputs, at, claimed, candidates, chosen>>

(* A Secret with none of the provider's keys is left to the next one.       *)
ClaimedWhenMatched(s) == claimed \cup {s}
ClaimedWhenOffered(s) == IF Offered(s, at) = <<>> THEN claimed ELSE claimed \cup {s}

Offer(s) ==
    /\ Looks(s)
    /\ s \notin claimed
    /\ left' = left \ {s}
    /\ candidates' = candidates \o Offered(s, at)
    /\ claimed' = ClaimedWhenOffered(s)
    /\ UNCHANGED <<inputs, at, shadowed, chosen>>

NextProvider ==
    /\ Matching
    /\ left = {}
    /\ at' = at + 1
    /\ left' = IF at + 1 \in DOMAIN Providers THEN matches[at + 1] ELSE {}
    /\ UNCHANGED <<inputs, claimed, shadowed, candidates, chosen>>

-----------------------------------------------------------------------------
(* The loop of discoverOne: the candidates in order, until one parses.      *)

Trying == ~Matching /\ chosen = None /\ candidates # <<>>

Use ==
    /\ Trying
    /\ Parses(Head(candidates))
    /\ chosen' = Head(candidates)
    /\ UNCHANGED <<inputs, at, left, claimed, shadowed, candidates>>

Skip ==
    /\ Trying
    /\ ~Parses(Head(candidates))
    /\ candidates' = Tail(candidates)
    /\ UNCHANGED <<inputs, at, left, claimed, shadowed, chosen>>

(* The Secrets named in the warning about a misordered provider list; the   *)
(* one used may have been passed over, too, and is not named.               *)
PassedOver ==
    IF execAllowed /\ chosen # None /\ ~Providers[chosen.provider].allowExec
    THEN shadowed \ {chosen.secret} ELSE {}

-----------------------------------------------------------------------------
Init ==
    /\ matches \in [DOMAIN Providers -> SUBSET Secrets]
    /\ \E kinds \in Contents : data \in [Secrets -> [Keys -> kinds \cup {None}]]
    /\ type \in [Secrets -> Types]
    /\ controlled \in SUBSET Secrets
    /\ execAllowed \in BOOLEAN
    /\ at = 1
    /\ left = IF 1 \in DOMAIN Providers THEN matches[1] ELSE {}
    /\ claimed = {}
    /\ shadowed = {}
    /\ candidates = <<>>
    /\ chosen = None

Next ==
    \/ \E s \in Secrets : PassOver(s) \/ Offer(s)
    \/ NextProvider \/ Use \/ Skip

Spec == Init /\ [][Next]_vars

-----------------------------------------------------------------------------
(* Properties.                                                             *)

Over == ~Matching /\ (chosen # None \/ candidates = <<>>)

(* Every variable has its type, and nothing is left to look at once all     *)
(* providers had their turn.                                                *)
TypeOK ==
    /\ at \in 1..(Len(Providers) + 1)
    /\ left \subseteq Secrets
    /\ claimed \subseteq Secrets
    /\ shadowed \subseteq claimed
    /\ candidates \in Seq(Candidate)
    /\ chosen \in Candidate \cup {None}
    /\ ~Matching => left = {}
    /\ \A i \in DOMAIN candidates : candidates[i].secret \in claimed

(* What the search is for, said without the search.  A Secret belongs to    *)
(* the first provider that matches its name and knows one of its keys.      *)
Knows(s, p) == /\ s \in matches[p]
               /\ \E i \in DOMAIN Providers[p].keys : data[s][Providers[p].keys[i]] # None

Belongs(s, p) == Knows(s, p) /\ \A q \in 1..(p - 1) : ~Knows(s, q)

Usable == {c \in Candidate : /\ Belongs(c.secret, c.provider)
                             /\ \E i \in DOMAIN Providers[c.provider].keys :
                                    Providers[c.provider].keys[i] = c.key
                             /\ data[c.secret][c.key] # None
                             /\ Parses(c)}

KeyBefore(k, l, p) ==
    \E i, j \in DOMAIN Providers[p].keys :
        i < j /\ Providers[p].keys[i] = k /\ Providers[p].keys[j] = l

Preferred(c, d) ==
    \/ c.provider < d.provider
    \/ /\ c.provider = d.provider
       /\ Provenance(c.secret, c.provider) > Provenance(d.secret, d.provider)
    \/ /\ c.provider = d.provider
       /\ Provenance(c.secret, c.provider) = Provenance(d.secret, d.provider)
       /\ c.secret < d.secret
    \/ /\ c.provider = d.provider
       /\ c.secret = d.secret
       /\ KeyBefore(c.key, d.key, c.provider)

(* "Ordered by provider precedence, then provenance, then Secret name, then *)
(* declared key order": the namespace is registered with the first of its   *)
(* usable kubeconfigs in that order, and only without any is it passed by.  *)
(* Half-written Secrets, keyless near-misses, overlapping globs and closed  *)
(* exec gates never put a usable one out of reach.                          *)
ChoosesPreferred ==
    Over => IF Usable = {} THEN chosen = None
            ELSE /\ chosen \in Usable
                 /\ \A d \in Usable \ {chosen} : Preferred(chosen, d)

(* A Secret whose plugin an exec-capable provider would have translated,    *)
(* had an earlier provider not taken the Secret first.                      *)
LostToOrder(s) ==
    \E p \in DOMAIN Providers, k \in Keys :
        /\ Providers[p].allowExec /\ execAllowed
        /\ s \in matches[p]
        /\ \E i \in DOMAIN Providers[p].keys : Providers[p].keys[i] = k
        /\ data[s][k] = "exec"
        /\ \E q \in 1..(p - 1) : Knows(s, q)

(* What a person can act upon: a Secret that another order of the providers *)
(* gives to one that may translate, and a document in it with an exec block.*)
Reorderable(s) ==
    \E p \in DOMAIN Providers, k \in Keys :
        /\ Providers[p].allowExec
        /\ Knows(s, p) /\ ~Belongs(s, p)
        /\ \E i \in DOMAIN Providers[p].keys : Providers[p].keys[i] = k
        /\ data[s][k] \notin {None, "static", "broken"}

(* No managed cluster is lost to the order of the providers in silence: if  *)
(* the registration came from a provider that may not translate, every      *)
(* other Secret whose plugin an exec-capable one would have translated is   *)
(* named in the warning.  A Secret named is not the one used, is one that   *)
(* another order would give to an exec-capable provider, and has an exec    *)
(* block.                                                                   *)
WarnsOfMisorder ==
    Over /\ chosen # None =>
        /\ ~Providers[chosen.provider].allowExec =>
               \A s \in Secrets \ {chosen.secret} : LostToOrder(s) => s \in PassedOver
        /\ \A s \in PassedOver :
               /\ s # chosen.secret
               /\ execAllowed /\ ~Providers[chosen.provider].allowExec
               /\ Reorderable(s)

=============================================================================
