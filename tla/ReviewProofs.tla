---------------------------- MODULE ReviewProofs ----------------------------
(***************************************************************************)
(* For every number of users, Candidates and versions: an Artifact         *)
(* revision is the result of exactly one approval, of the content that was *)
(* read, on top of the revision it replaces, and the Experience index      *)
(* moves with it.                                                          *)
(***************************************************************************)
EXTENDS Review, FiniteSetTheorems, TLAPS

\* What is known of a Candidate: its versions are numbered, its target is
\* evidence of its current version, and only an approval gave it a result.
Sound(c) ==
    /\ Len(versions[c]) = candidates[c].version
    /\ candidates[c].target # None =>
          /\ candidates[c].target.family = candidates[c].family
          /\ candidates[c].target \in versions[c][candidates[c].version].artifacts
    /\ candidates[c].status = "approved" =>
          /\ candidates[c].result \in Stored
          /\ artifacts[candidates[c].result] = approvedAs[c]
          /\ versions[c][candidates[c].version] = approvedAs[c]
    /\ candidates[c].status # "approved" => candidates[c].result = None

\* What a reviewer holds is a version of the Candidate as it was written.
Reads(u) ==
    Viewed(u) =>
        /\ call[u].candidate \in Proposed
        /\ call[u].version <= candidates[call[u].candidate].version
        /\ call[u].content = versions[call[u].candidate][call[u].version]

\* No revision without a Candidate, and none with two.
Results ==
    /\ \A ref \in Stored : \E c \in Proposed : candidates[c].result = ref
    /\ \A c, d \in Proposed :
          candidates[c].result = candidates[d].result /\ candidates[c].result # None => c = d

IInv ==
    /\ TypeOK /\ versions \in [Ids -> Seq(Contents)]
    /\ \A c \in Proposed : Sound(c)
    /\ \A u \in Users : Reads(u)
    /\ Results /\ RevisionsBuildOnTheLast /\ IndexFollowsHeads

\* The types a step needs, in one place.
LEMMA Typed ==
    ASSUME IInv
    PROVE  /\ candidates \in [Ids -> Candidate \cup {None}]
           /\ versions \in [Ids -> Seq(Contents)]
           /\ call \in [Users -> Drafts \cup Views \cup {None}]
           /\ heads \in [Families -> [Ids -> Nat]] /\ indexed \in [Ids -> Nat]
           /\ approvedAs \in [Ids -> Contents \cup {None}]
           /\ Stored \subseteq Refs /\ \A ref \in Stored : artifacts[ref] \in Contents
           /\ packages \subseteq Packages /\ sources \subseteq {Captured} \cup Packages
BY DEF IInv, TypeOK

\* The fields of what is stored.
LEMMA Fields ==
    /\ \A r \in Candidate : /\ r.version \in Nat \ {0} /\ r.family \in Families
                            /\ r.status \in {"pending", "approved", "rejected"}
                            /\ r.target \in Refs \cup {None} /\ r.result \in Refs \cup {None}
    /\ \A r \in Refs : /\ r.family \in Families /\ r.id \in Ids /\ r.revision \in Nat \ {0}
                       /\ r = [family |-> r.family, id |-> r.id, revision |-> r.revision]
    /\ \A v \in Views : v.candidate \in Ids /\ v.version \in Nat \ {0} /\ v.content \in Contents
    /\ \A d \in Drafts : d.family \in Families /\ d.content \in Contents /\ d.target \in Refs \cup {None}
    /\ Drafts \cap Views = {}
    /\ None \notin Refs /\ None \notin Candidate /\ None \notin Drafts /\ None \notin Views /\ None \notin Contents
<1>1. \A r \in Candidate : /\ r.version \in Nat \ {0} /\ r.family \in Families
                           /\ r.status \in {"pending", "approved", "rejected"}
                           /\ r.target \in Refs \cup {None} /\ r.result \in Refs \cup {None}
  BY DEF Candidate
<1>2. \A r \in Refs : /\ r.family \in Families /\ r.id \in Ids /\ r.revision \in Nat \ {0}
                      /\ r = [family |-> r.family, id |-> r.id, revision |-> r.revision]
  BY DEF Refs
<1>3. \A v \in Views : v.candidate \in Ids /\ v.version \in Nat \ {0} /\ v.content \in Contents
  BY DEF Views
<1>4. \A d \in Drafts : d.family \in Families /\ d.content \in Contents /\ d.target \in Refs \cup {None}
  BY DEF Drafts
<1>5. Drafts \cap Views = {}
  BY DEF Drafts, Views
<1>6. /\ None \notin Refs /\ None \notin Candidate /\ None \notin Drafts /\ None \notin Views
      /\ None \notin Contents
  BY NoneAssumption
<1> QED
  BY <1>1, <1>2, <1>3, <1>4, <1>5, <1>6

LEMMA Known ==
    ASSUME IInv, NEW c \in Proposed
    PROVE  /\ c \in Ids /\ candidates[c] \in Candidate /\ candidates[c] # None
           /\ candidates[c].version \in Nat \ {0}
           /\ versions[c] \in Seq(Contents) /\ Len(versions[c]) = candidates[c].version
           /\ versions[c][candidates[c].version] \in Contents
<1>1. c \in Ids /\ candidates[c] \in Candidate /\ candidates[c] # None
  BY Typed DEF Proposed
<1>2. versions[c] \in Seq(Contents) /\ Len(versions[c]) = candidates[c].version
  BY <1>1, Typed DEF IInv, Sound
<1>3. candidates[c].version \in Nat \ {0}
  BY <1>1, Fields
<1>4. candidates[c].version \in 1..Len(versions[c])
  BY <1>2, <1>3
<1> QED
  BY <1>1, <1>2, <1>3, <1>4

LEMMA Appending ==
    ASSUME NEW S, NEW s \in Seq(S), NEW e \in S
    PROVE  /\ Append(s, e) \in Seq(S) /\ Len(Append(s, e)) = Len(s) + 1
           /\ \A i \in 1..Len(s) : Append(s, e)[i] = s[i]
           /\ Append(s, e)[Len(s) + 1] = e
OBVIOUS

LEMMA Starting ==
    ASSUME NEW S, NEW e \in S
    PROVE  <<e>> \in Seq(S) /\ Len(<<e>>) = 1 /\ <<e>>[1] = e
OBVIOUS
-----------------------------------------------------------------------------
\* What users have read stays true: Candidates stay, and their versions are
\* only added to.
Extends ==
    \A c \in Proposed :
        /\ c \in Proposed' /\ candidates[c].version <= candidates'[c].version
        /\ \A i \in 1..candidates[c].version : versions'[c][i] = versions[c][i]

LEMMA ReadsStand ==
    ASSUME IInv, Extends, NEW u \in Users, candidates' \in [Ids -> Candidate \cup {None}],
           call'[u] = call[u] \/ call'[u] = None
    PROVE  Reads(u)'
<1>1. CASE call'[u] = None
  BY <1>1, Fields DEF Reads, Viewed
<1>2. CASE call'[u] = call[u] /\ Viewed(u)
  <2>1. PICK v \in Views : v = call[u] /\ v = call'[u]
    BY <1>2 DEF Viewed
  <2>2. v.candidate \in Proposed /\ v.version <= candidates[v.candidate].version
        /\ v.content = versions[v.candidate][v.version]
    BY <1>2, <2>1 DEF IInv, Reads
  <2>3. v.version \in Nat \ {0} /\ candidates[v.candidate].version \in Nat
    BY <2>2, Fields, Known
  <2>4. v.candidate \in Proposed' /\ candidates[v.candidate].version <= candidates'[v.candidate].version
    BY <2>2 DEF Extends
  <2>5. v.version \in 1..candidates[v.candidate].version
    BY <2>2, <2>3
  <2>6. versions'[v.candidate][v.version] = versions[v.candidate][v.version]
    BY <2>2, <2>5 DEF Extends
  <2>7. candidates'[v.candidate].version \in Nat
    BY <2>2, <2>4, Fields DEF Proposed
  <2>8. v.version <= candidates'[v.candidate].version
    BY <2>2, <2>3, <2>4, <2>7
  <2> QED
    BY <2>1, <2>2, <2>4, <2>6, <2>8 DEF Reads
<1>3. CASE call'[u] = call[u] /\ ~Viewed(u)
  BY <1>3 DEF Reads, Viewed
<1> QED
  BY <1>1, <1>2, <1>3

LEMMA ReadsSame ==
    ASSUME NEW u, Reads(u), call'[u] = call[u], candidates' = candidates, versions' = versions
    PROVE  Reads(u)'
<1>1. Proposed' = Proposed
  BY DEF Proposed
<1> QED
  BY <1>1 DEF Reads, Viewed

\* Steps that only change what users hold.
LEMMA CallsKeep ==
    ASSUME IInv, call' \in [Users -> Drafts \cup Views \cup {None}],
           UNCHANGED <<artifacts, heads, indexed, packages, sources, candidates, versions, approvedAs>>,
           \A u \in Users : Reads(u)'
    PROVE  IInv'
<1>1. Stored' = Stored /\ Proposed' = Proposed
  BY DEF Stored, Proposed
<1>2. TypeOK'
  BY <1>1 DEF IInv, TypeOK
<1>3. \A c \in Proposed' : Sound(c)'
  BY <1>1 DEF IInv, Sound
<1>4. Results' /\ IndexFollowsHeads'
  BY <1>1 DEF IInv, Results, IndexFollowsHeads
<1>5. RevisionsBuildOnTheLast'
  BY <1>1 DEF IInv, RevisionsBuildOnTheLast
<1> QED
  BY <1>2, <1>3, <1>4, <1>5 DEF IInv

\* A Candidate is written, and no Artifact with it: Create, Revise and Reject.
LEMMA CandidateKeeps ==
    ASSUME IInv, NEW c \in Ids, NEW r \in Candidate, NEW s \in Seq(Contents),
           candidates' = [candidates EXCEPT ![c] = r],
           versions' = [versions EXCEPT ![c] = s],
           r.status # "approved" /\ r.result = None,
           candidates[c] # None => candidates[c].result = None,
           Len(s) = r.version,
           r.target # None => r.target.family = r.family /\ r.target \in s[r.version].artifacts,
           c \in Proposed => /\ candidates[c].version <= r.version
                             /\ \A i \in 1..candidates[c].version : s[i] = versions[c][i],
           packages' \subseteq Packages, sources' \subseteq {Captured} \cup Packages,
           call' \in [Users -> Drafts \cup Views \cup {None}],
           \A u \in Users : call'[u] = call[u] \/ call'[u] = None,
           UNCHANGED <<artifacts, heads, indexed, approvedAs>>
    PROVE  IInv'
<1>1. /\ candidates'[c] = r /\ versions'[c] = s
      /\ \A d \in Ids : d # c => candidates'[d] = candidates[d] /\ versions'[d] = versions[d]
  BY Typed
<1>2. candidates' \in [Ids -> Candidate \cup {None}] /\ versions' \in [Ids -> Seq(Contents)]
  BY Typed
<1>3. Stored' = Stored
  BY DEF Stored
<1>4. Proposed' = Proposed \cup {c} /\ Proposed \subseteq Ids
  BY <1>1, Fields DEF Proposed
<1>5. TypeOK'
  BY <1>2, <1>3, Typed DEF TypeOK
<1>6. \A d \in Proposed' : Sound(d)'
  <2> TAKE d \in Proposed'
  <2>1. CASE d = c
    BY <1>1, <2>1 DEF Sound
  <2>2. CASE d # c
    <3>1. d \in Proposed /\ Sound(d)
      BY <1>4, <2>2 DEF IInv
    <3>2. candidates'[d] = candidates[d] /\ versions'[d] = versions[d]
      BY <1>1, <1>4, <2>2, <3>1
    <3> QED
      BY <1>3, <3>1, <3>2 DEF Sound
  <2> QED
    BY <2>1, <2>2
<1>7. Extends
  <2> SUFFICES ASSUME NEW d \in Proposed
               PROVE  /\ d \in Proposed' /\ candidates[d].version <= candidates'[d].version
                      /\ \A i \in 1..candidates[d].version : versions'[d][i] = versions[d][i]
    BY DEF Extends
  <2>1. CASE d = c
    BY <1>1, <1>4, <2>1
  <2>2. CASE d # c
    <3>1. candidates'[d] = candidates[d] /\ versions'[d] = versions[d] /\ d \in Proposed'
      BY <1>1, <1>4, <2>2
    <3>2. candidates[d].version \in Nat
      BY Known
    <3> QED
      BY <3>1, <3>2
  <2> QED
    BY <2>1, <2>2
<1>8. \A u \in Users : Reads(u)'
  BY <1>2, <1>7, ReadsStand
<1>9. Results'
  <2>1. \A ref \in Stored' : \E d \in Proposed' : candidates'[d].result = ref
    <3> TAKE ref \in Stored'
    <3>1. ref \in Stored /\ ref # None
      BY <1>3, Typed, Fields
    <3>2. PICK d \in Proposed : candidates[d].result = ref
      BY <3>1 DEF IInv, Results
    <3>3. d # c
      BY <3>1, <3>2 DEF Proposed
    <3>4. d \in Proposed' /\ candidates'[d] = candidates[d]
      BY <1>1, <1>4, <3>3
    <3> QED
      BY <3>2, <3>4
  <2>2. ASSUME NEW d \in Proposed', NEW e \in Proposed',
               candidates'[d].result = candidates'[e].result, candidates'[d].result # None
        PROVE  d = e
    <3>1. d # c /\ e # c
      BY <1>1, <2>2
    <3>2. /\ d \in Proposed /\ e \in Proposed
          /\ candidates'[d] = candidates[d] /\ candidates'[e] = candidates[e]
      BY <1>1, <1>4, <3>1
    <3> QED
      BY <2>2, <3>2 DEF IInv, Results
  <2> QED
    BY <2>1, <2>2 DEF Results
<1>10. RevisionsBuildOnTheLast'
  BY <1>3 DEF IInv, RevisionsBuildOnTheLast
<1>11. IndexFollowsHeads'
  BY DEF IInv, IndexFollowsHeads
<1> QED
  BY <1>2, <1>5, <1>6, <1>8, <1>9, <1>10, <1>11 DEF IInv

\* CandidateRepository.Create: the target was validated against the content.
LEMMA CreateKeeps ==
    ASSUME IInv, NEW family \in Families, NEW target \in Refs \cup {None}, NEW content \in Contents,
           ValidTarget(family, target, content), Create(family, target, content),
           packages' \subseteq Packages, sources' \subseteq {Captured} \cup Packages,
           call' \in [Users -> Drafts \cup Views \cup {None}],
           \A u \in Users : call'[u] = call[u] \/ call'[u] = None,
           UNCHANGED <<artifacts, heads, indexed, approvedAs>>
    PROVE  IInv'
<1> DEFINE r == [version |-> 1, family |-> family, status |-> "pending",
                 target |-> target, result |-> None]
<1>1. PICK c \in Ids : /\ candidates[c] = None
                       /\ candidates' = [candidates EXCEPT ![c] = r]
                       /\ versions' = [versions EXCEPT ![c] = <<content>>]
  BY DEF Create
<1>2. r \in Candidate
  BY DEF Candidate
<1>3. /\ r.status = "pending" /\ r.result = None /\ r.version = 1
      /\ r.target = target /\ r.family = family
  OBVIOUS
<1> HIDE DEF r
<1>4. c \notin Proposed
  BY <1>1 DEF Proposed
<1>5. <<content>> \in Seq(Contents) /\ Len(<<content>>) = 1 /\ <<content>>[1] = content
  BY Starting
<1>6. PICK s \in Seq(Contents) : s = <<content>>
  BY <1>5
<1>7. target # None => target.family = family /\ target \in content.artifacts
  BY DEF ValidTarget
<1>8. r.target # None => r.target.family = r.family /\ r.target \in s[r.version].artifacts
  BY <1>3, <1>5, <1>6, <1>7
<1>9. Len(s) = r.version /\ r.status # "approved" /\ versions' = [versions EXCEPT ![c] = s]
  BY <1>1, <1>3, <1>5, <1>6
<1> QED
  BY <1>1, <1>2, <1>3, <1>4, <1>8, <1>9, CandidateKeeps

LEMMA InputsTyped ==
    ASSUME IInv, NEW content \in Inputs(Citable, {Captured} \cup Packages), ValidEvidence(content)
    PROVE  content \in Contents
<1>1. content \in [proposal : Plain \cup Packages, sources : SUBSET ({Captured} \cup Packages),
                   artifacts : {a \in SUBSET Citable : Cardinality(a) <= MaxEvidence}]
  BY DEF Inputs
<1>2. content.artifacts \in SUBSET Refs
  BY Typed DEF ValidEvidence
<1> QED
  BY <1>1, <1>2 DEF Contents

LEMMA Forgets ==
    ASSUME IInv, NEW u \in Users, Forget(u)
    PROVE  /\ call' \in [Users -> Drafts \cup Views \cup {None}]
           /\ \A v \in Users : call'[v] = call[v] \/ call'[v] = None
BY Typed DEF Forget

LEMMA ForgetKeeps ==
    ASSUME IInv, NEW u \in Users, Forget(u),
           UNCHANGED <<artifacts, heads, indexed, packages, sources, candidates, versions, approvedAs>>
    PROVE  IInv'
<1>1. Extends
  <2> SUFFICES ASSUME NEW c \in Proposed
               PROVE  /\ c \in Proposed' /\ candidates[c].version <= candidates'[c].version
                      /\ \A i \in 1..candidates[c].version : versions'[c][i] = versions[c][i]
    BY DEF Extends
  <2>1. candidates[c].version \in Nat
    BY Known
  <2> QED
    BY <2>1 DEF Proposed
<1>2. \A v \in Users : Reads(v)'
  BY <1>1, Forgets, ReadsStand, Typed
<1> QED
  BY <1>2, Forgets, CallsKeep

\* What a generator reads is no Candidate.
LEMMA ReadEvidenceKeeps ==
    ASSUME IInv, NEW u \in Users, NEW family \in Families,
           NEW content \in Inputs(Citable, {Captured} \cup Packages),
           NEW target \in content.artifacts \cup {None}, ReadEvidence(u, family, target, content)
    PROVE  IInv'
<1> DEFINE d == [family |-> family, content |-> content, target |-> target]
<1>1. ValidEvidence(content) /\ call' = [call EXCEPT ![u] = d]
      /\ UNCHANGED <<artifacts, heads, indexed, packages, sources, candidates, versions, approvedAs>>
  BY DEF ReadEvidence
<1>2. content \in Contents /\ target \in Refs \cup {None}
  BY <1>1, InputsTyped, Typed DEF ValidEvidence
<1>3. d \in Drafts
  BY <1>2 DEF Drafts
<1> HIDE DEF d
<1>4. d \notin Views
  BY <1>3, Fields
<1>5. call' \in [Users -> Drafts \cup Views \cup {None}]
      /\ call'[u] = d /\ \A v \in Users : v # u => call'[v] = call[v]
  BY <1>1, <1>3, Typed
<1>6. \A v \in Users : Reads(v)'
  <2> TAKE v \in Users
  <2>1. CASE v = u
    BY <1>4, <1>5, <2>1 DEF Reads, Viewed
  <2>2. CASE v # u
    <3>1. call'[v] = call[v] /\ Reads(v)
      BY <1>5, <2>2 DEF IInv
    <3> QED
      BY <1>1, <3>1, ReadsSame
  <2> QED
    BY <2>1, <2>2
<1> QED
  BY <1>1, <1>5, <1>6, CallsKeep

\* A reviewer reads the current version.
LEMMA GetKeeps ==
    ASSUME IInv, NEW u \in Users, NEW c \in Ids, Get(u, c)
    PROVE  IInv'
<1> DEFINE w == [candidate |-> c, version |-> candidates[c].version,
                 content |-> versions[c][candidates[c].version]]
<1>1. c \in Proposed /\ call' = [call EXCEPT ![u] = w]
      /\ UNCHANGED <<artifacts, heads, indexed, packages, sources, candidates, versions, approvedAs>>
  BY DEF Get
<1>2. candidates[c].version \in Nat \ {0} /\ versions[c][candidates[c].version] \in Contents
  BY <1>1, Known
<1>3. /\ w \in Views /\ w.candidate = c /\ w.version = candidates[c].version
      /\ w.content = versions[c][candidates[c].version]
  BY <1>2 DEF Views
<1> HIDE DEF w
<1>4. call' \in [Users -> Drafts \cup Views \cup {None}]
      /\ call'[u] = w /\ \A v \in Users : v # u => call'[v] = call[v]
  BY <1>1, <1>3, Typed
<1>5. Proposed' = Proposed
  BY <1>1 DEF Proposed
<1>6. \A v \in Users : Reads(v)'
  <2> TAKE v \in Users
  <2>1. CASE v = u
    <3>1. w.version <= candidates[c].version
      BY <1>2, <1>3
    <3> QED
      BY <1>1, <1>3, <1>4, <1>5, <2>1, <3>1 DEF Reads
  <2>2. CASE v # u
    <3>1. call'[v] = call[v] /\ Reads(v)
      BY <1>4, <2>2 DEF IInv
    <3> QED
      BY <1>1, <3>1, ReadsSame
  <2> QED
    BY <2>1, <2>2
<1> QED
  BY <1>1, <1>4, <1>6, CallsKeep

LEMMA ProposeKeeps ==
    ASSUME IInv, NEW family \in Families, NEW content \in Inputs(Citable, {Captured} \cup Packages),
           NEW target \in content.artifacts \cup {None}, Propose(family, target, content)
    PROVE  IInv'
<1>1. /\ ValidEvidence(content) /\ ValidTarget(family, target, content)
      /\ Create(family, target, content)
      /\ UNCHANGED <<artifacts, heads, indexed, sources, call, approvedAs>>
  BY DEF Propose
<1>2. content \in Contents /\ target \in Refs \cup {None}
  BY <1>1, InputsTyped, Typed DEF ValidEvidence
<1>3. packages' \subseteq Packages /\ sources' \subseteq {Captured} \cup Packages
  BY Typed DEF Propose
<1>4. call' \in [Users -> Drafts \cup Views \cup {None}] /\ \A u \in Users : call'[u] = call[u]
  BY <1>1, Typed
<1> QED
  BY <1>1, <1>2, <1>3, <1>4, CreateKeeps

LEMMA UploadKeeps ==
    ASSUME IInv, NEW package \in Packages, NEW cited \in SUBSET Stored, NEW target \in cited \cup {None},
           ProposeUploadedPackage(package, cited, target)
    PROVE  IInv'
<1> DEFINE content == [proposal |-> package, sources |-> {package}, artifacts |-> cited]
<1>1. /\ ValidTarget("skill", target, content) /\ Create("skill", target, content)
      /\ packages' = packages \cup {package} /\ sources' = sources \cup {package}
      /\ UNCHANGED <<artifacts, heads, indexed, call, approvedAs>>
  BY DEF ProposeUploadedPackage
<1>2. cited \in SUBSET Refs /\ target \in Refs \cup {None}
  BY Typed
<1>3. content \in Contents
  BY <1>2 DEF Contents
<1> HIDE DEF content
<1>4. packages' \subseteq Packages /\ sources' \subseteq {Captured} \cup Packages
  BY <1>1, Typed
<1>5. call' \in [Users -> Drafts \cup Views \cup {None}] /\ \A u \in Users : call'[u] = call[u]
  BY <1>1, Typed
<1>6. "skill" \in Families
  BY DEF Families
<1> QED
  BY <1>1, <1>2, <1>3, <1>4, <1>5, <1>6, CreateKeeps

LEMMA GeneratedKeeps ==
    ASSUME IInv, NEW u \in Users, ProposeGenerated(u)
    PROVE  IInv'
<1>1. PICK d \in Drafts : d = call[u]
  BY DEF ProposeGenerated, Drafted
<1>2. d.family \in Families /\ d.content \in Contents /\ d.target \in Refs \cup {None}
  BY Fields
<1>3. /\ ValidTarget(d.family, d.target, d.content) /\ Create(d.family, d.target, d.content)
      /\ Forget(u) /\ UNCHANGED <<artifacts, heads, indexed, packages, sources, approvedAs>>
  BY <1>1 DEF ProposeGenerated
<1>4. packages' \subseteq Packages /\ sources' \subseteq {Captured} \cup Packages
  BY <1>3, Typed
<1> QED
  BY <1>2, <1>3, <1>4, Forgets, CreateKeeps

\* What LockPending leaves to the three decisions: the caller read the
\* current version of a Candidate that has no result.
LEMMA Locked ==
    ASSUME IInv, NEW u \in Users, Viewed(u), LockPending(call[u].candidate, call[u].version)
    PROVE  \E c \in Proposed :
               /\ call[u].candidate = c /\ call[u].version = candidates[c].version
               /\ call[u].content = versions[c][candidates[c].version]
               /\ candidates[c].status = "pending" /\ candidates[c].result = None
               /\ Sound(c)
<1>1. call[u].candidate \in Proposed /\ call[u].content = versions[call[u].candidate][call[u].version]
  BY DEF IInv, Reads
<1>2. Sound(call[u].candidate)
  BY <1>1 DEF IInv
<1>3. candidates[call[u].candidate].status = "pending"
      /\ call[u].version = candidates[call[u].candidate].version
  BY DEF LockPending
<1>4. candidates[call[u].candidate].result = None
  BY <1>2, <1>3 DEF Sound
<1> QED
  BY <1>1, <1>2, <1>3, <1>4

LEMMA ReviseKeeps ==
    ASSUME IInv, NEW u \in Users, NEW content \in Inputs(Citable, {Captured} \cup Packages),
           Revise(u, content)
    PROVE  IInv'
<1>1. PICK c \in Proposed :
               /\ call[u].candidate = c /\ call[u].version = candidates[c].version
               /\ candidates[c].status = "pending" /\ candidates[c].result = None
  BY Locked DEF Revise
<1> DEFINE n == candidates[c].version
           r == [candidates[c] EXCEPT !.version = n + 1]
<1>2. /\ ValidEvidence(content)
      /\ ValidTarget(candidates[c].family, candidates[c].target, content)
      /\ packages' = packages \cup ({content.proposal} \cap Packages)
      /\ versions' = [versions EXCEPT ![c] = Append(versions[c], content)]
      /\ Forget(u)
      /\ UNCHANGED <<artifacts, heads, indexed, sources, approvedAs>>
  BY <1>1 DEF Revise
<1>3. candidates' = [candidates EXCEPT ![c] = r]
  BY <1>1 DEF Revise
<1>4. /\ c \in Ids /\ candidates[c] \in Candidate /\ n \in Nat \ {0}
      /\ versions[c] \in Seq(Contents) /\ Len(versions[c]) = n
  BY Known
<1>5. content \in Contents
  BY <1>2, InputsTyped
<1>6. /\ r \in Candidate /\ r.version = n + 1 /\ r.status = "pending" /\ r.result = None
      /\ r.target = candidates[c].target /\ r.family = candidates[c].family
  BY <1>1, <1>4 DEF Candidate
<1> HIDE DEF n, r
<1>7. PICK s \in Seq(Contents) :
               /\ s = Append(versions[c], content) /\ Len(s) = n + 1
               /\ \A i \in 1..n : s[i] = versions[c][i]
               /\ s[n + 1] = content
  <2> DEFINE t == Append(versions[c], content)
  <2>1. /\ t \in Seq(Contents) /\ Len(t) = Len(versions[c]) + 1
        /\ \A i \in 1..Len(versions[c]) : t[i] = versions[c][i]
        /\ t[Len(versions[c]) + 1] = content
    BY <1>4, <1>5, Appending
  <2> QED
    BY <1>4, <2>1
<1>8. n <= n + 1
  BY <1>4
<1>9. candidates[c].version <= r.version /\ \A i \in 1..candidates[c].version : s[i] = versions[c][i]
  BY <1>6, <1>7, <1>8 DEF n
<1>10. r.target # None => r.target.family = r.family /\ r.target \in s[r.version].artifacts
  BY <1>2, <1>6, <1>7 DEF ValidTarget
<1>11. packages' \subseteq Packages /\ sources' \subseteq {Captured} \cup Packages
  BY <1>2, Typed
<1>12. Len(s) = r.version /\ r.status # "approved" /\ versions' = [versions EXCEPT ![c] = s]
  BY <1>2, <1>6, <1>7
<1>13. /\ call' \in [Users -> Drafts \cup Views \cup {None}]
       /\ \A v \in Users : call'[v] = call[v] \/ call'[v] = None
  BY <1>2, Forgets
<1>14. UNCHANGED <<artifacts, heads, indexed, approvedAs>>
  BY <1>2
<1>15. c \in Ids /\ r \in Candidate /\ r.result = None /\ candidates[c].result = None
  BY <1>1, <1>4, <1>6
<1> QED
  BY <1>3, <1>9, <1>10, <1>11, <1>12, <1>13, <1>14, <1>15, CandidateKeeps

LEMMA RejectKeeps ==
    ASSUME IInv, NEW u \in Users, Reject(u)
    PROVE  IInv'
<1>1. PICK c \in Proposed :
               /\ call[u].candidate = c /\ candidates[c].status = "pending"
               /\ candidates[c].result = None /\ Sound(c)
  BY Locked DEF Reject
<1> DEFINE r == [candidates[c] EXCEPT !.status = "rejected"]
<1>2. /\ candidates' = [candidates EXCEPT ![c] = r] /\ Forget(u)
      /\ UNCHANGED <<artifacts, heads, indexed, packages, sources, versions, approvedAs>>
  BY <1>1 DEF Reject
<1>3. /\ c \in Ids /\ candidates[c] \in Candidate /\ candidates[c].version \in Nat \ {0}
      /\ versions[c] \in Seq(Contents) /\ Len(versions[c]) = candidates[c].version
  BY Known
<1>4. /\ r \in Candidate /\ r.version = candidates[c].version /\ r.status = "rejected"
      /\ r.result = None /\ r.target = candidates[c].target /\ r.family = candidates[c].family
  BY <1>1, <1>3 DEF Candidate
<1> HIDE DEF r
<1>5. PICK s \in Seq(Contents) : s = versions[c] /\ versions' = [versions EXCEPT ![c] = s]
  BY <1>2, <1>3, Typed
<1>6. candidates[c].version <= r.version /\ \A i \in 1..candidates[c].version : s[i] = versions[c][i]
  BY <1>3, <1>4, <1>5
<1>7. r.target # None => r.target.family = r.family /\ r.target \in s[r.version].artifacts
  BY <1>1, <1>4, <1>5 DEF Sound
<1>8. packages' \subseteq Packages /\ sources' \subseteq {Captured} \cup Packages
  BY <1>2, Typed
<1>9. Len(s) = r.version /\ r.status # "approved"
  BY <1>3, <1>4, <1>5
<1>10. /\ call' \in [Users -> Drafts \cup Views \cup {None}]
       /\ \A v \in Users : call'[v] = call[v] \/ call'[v] = None
  BY <1>2, Forgets
<1> QED
  BY <1>1, <1>2, <1>3, <1>4, <1>5, <1>6, <1>7, <1>8, <1>9, <1>10, CandidateKeeps

\* The revision an approval stores is new: it is the one after the head.
LEMMA ResultIsNew ==
    ASSUME IInv, NEW family \in Families, NEW target \in Refs \cup {None}, NEW ref \in Refs,
           ref.family = family, target # None => target.family = family,
           Result(family, target, ref)
    PROVE  /\ ref.revision = heads[family][ref.id] + 1
           /\ ref \notin Stored
           /\ target = None => heads[family][ref.id] = 0
           /\ target # None => target = [family |-> family, id |-> ref.id,
                                         revision |-> heads[family][ref.id]]
<1>1. ref.id \in Ids /\ heads[family][ref.id] \in Nat
  BY Typed, Fields
<1>2. CASE target = None
  <2>1. heads[family][ref.id] = 0 /\ ref.revision = 1
    BY <1>2 DEF Result
  <2> QED
    BY <1>2, <2>1, <1>1 DEF IInv, RevisionsBuildOnTheLast
<1>3. CASE target # None
  <2>1. target = Latest(family, target.id) /\ ref.id = target.id /\ ref.revision = target.revision + 1
    BY <1>3 DEF Result
  <2>2. target = [family |-> family, id |-> ref.id, revision |-> heads[family][ref.id]]
    BY <2>1 DEF Latest
  <2>3. ref.revision = heads[family][ref.id] + 1
    BY <2>1, <2>2
  <2>4. ref \notin Stored
    <3> SUFFICES ASSUME ref \in Stored PROVE FALSE
      OBVIOUS
    <3>1. ref.revision \in 1..heads[family][ref.id]
      BY DEF IInv, RevisionsBuildOnTheLast
    <3> QED
      BY <1>1, <2>3, <3>1
  <2> QED
    BY <1>3, <2>2, <2>3, <2>4
<1> QED
  BY <1>2, <1>3

\* ReviewBackend.Approve, its writes by name.
Approves(u, c, ref) ==
    /\ Viewed(u) /\ Forget(u)
    /\ call[u].content = versions[c][candidates[c].version]
    /\ candidates[c].status = "pending" /\ candidates[c].result = None
    /\ ref.family = candidates[c].family
    /\ Result(candidates[c].family, candidates[c].target, ref)
    /\ Stored' = Stored \cup {ref}
    /\ artifacts'[ref] = versions[c][candidates[c].version]
    /\ \A r \in Stored : r # ref => artifacts'[r] = artifacts[r]
    /\ heads' = [heads EXCEPT ![ref.family][ref.id] = ref.revision]
    /\ Replace(ref.family, ref)
    /\ MarkApproved(c, ref)
    /\ approvedAs' = [approvedAs EXCEPT ![c] = versions[c][candidates[c].version]]
    /\ UNCHANGED <<packages, sources, versions>>

LEMMA ApproveWrites ==
    ASSUME IInv, NEW u \in Users, Approve(u)
    PROVE  \E c \in Proposed, ref \in Refs : Approves(u, c, ref)
<1>1. PICK c \in Proposed :
               /\ call[u].candidate = c /\ call[u].version = candidates[c].version
               /\ call[u].content = versions[c][candidates[c].version]
               /\ candidates[c].status = "pending" /\ candidates[c].result = None
  BY Locked DEF Approve
<1> DEFINE family == candidates[c].family
           content == versions[c][candidates[c].version]
<1>2. PICK id \in Ids, revision \in 1..MaxCandidates :
          LET ref == [family |-> family, id |-> id, revision |-> revision]
          IN /\ Result(family, candidates[c].target, ref)
             /\ artifacts' = [r \in Stored \cup {ref} |-> IF r = ref THEN content ELSE artifacts[r]]
             /\ heads' = [heads EXCEPT ![family][id] = revision]
             /\ Replace(family, ref)
             /\ MarkApproved(c, ref)
  BY <1>1 DEF Approve
<1>3. /\ Viewed(u) /\ Forget(u) /\ UNCHANGED <<packages, sources, versions>>
      /\ approvedAs' = [approvedAs EXCEPT ![c] = content]
  BY <1>1 DEF Approve
<1>4. family \in Families /\ revision \in Nat \ {0}
  BY Known, Fields, ReviewAssumption
<1> HIDE DEF family, content
<1>5. PICK ref \in Refs : ref = [family |-> family, id |-> id, revision |-> revision]
  BY <1>4 DEF Refs
<1>6. ref.family = family /\ ref.id = id /\ ref.revision = revision
  BY <1>5
<1>7. /\ Result(family, candidates[c].target, ref)
      /\ artifacts' = [r \in Stored \cup {ref} |-> IF r = ref THEN content ELSE artifacts[r]]
      /\ heads' = [heads EXCEPT ![family][id] = revision]
      /\ Replace(family, ref) /\ MarkApproved(c, ref)
  BY <1>2, <1>5
<1>8. /\ Stored' = Stored \cup {ref} /\ artifacts'[ref] = content
      /\ \A r \in Stored : r # ref => artifacts'[r] = artifacts[r]
  BY <1>7 DEF Stored
<1>9. Approves(u, c, ref)
  BY <1>1, <1>3, <1>6, <1>7, <1>8 DEF Approves, family, content
<1> QED
  BY <1>9

LEMMA ApproveKeeps ==
    ASSUME IInv, NEW u \in Users, Approve(u)
    PROVE  IInv'
<1>1. PICK c \in Proposed, ref \in Refs : Approves(u, c, ref)
  BY ApproveWrites
<1> DEFINE family == candidates[c].family
           target == candidates[c].target
           content == versions[c][candidates[c].version]
           r == [candidates[c] EXCEPT !.status = "approved", !.result = ref]
<1>2. /\ c \in Ids /\ candidates[c] \in Candidate /\ candidates[c] # None
      /\ content \in Contents /\ Sound(c)
  BY Known DEF IInv
<1>3. /\ r \in Candidate /\ r.version = candidates[c].version /\ r.status = "approved"
      /\ r.result = ref /\ r.target = target /\ r.family = family
  BY <1>2 DEF Candidate
<1>4. candidates' = [candidates EXCEPT ![c] = r]
  BY <1>1, <1>2 DEF Approves, MarkApproved
<1>5. family \in Families /\ target \in Refs \cup {None} /\ ref.family = family /\ ref.id \in Ids
      /\ ref.revision \in Nat \ {0} /\ ref # None
      /\ ref = [family |-> family, id |-> ref.id, revision |-> ref.revision]
  BY <1>1, <1>2, Fields DEF Approves
<1>6. target # None => target.family = family /\ target \in content.artifacts
  BY <1>2 DEF Sound
<1>7. /\ ref.revision = heads[family][ref.id] + 1 /\ ref \notin Stored
      /\ target = None => heads[family][ref.id] = 0
      /\ target # None => target = [family |-> family, id |-> ref.id, revision |-> heads[family][ref.id]]
  <2>1. Result(family, target, ref)
    BY <1>1 DEF Approves
  <2> HIDE DEF family, target, content, r
  <2> QED
    BY <1>5, <1>6, <2>1, ResultIsNew
<1>8. /\ Stored' = Stored \cup {ref} /\ artifacts'[ref] = content
      /\ \A s \in Stored : artifacts'[s] = artifacts[s]
  BY <1>1, <1>7 DEF Approves
<1>9. /\ heads' = [heads EXCEPT ![family][ref.id] = ref.revision] /\ Replace(family, ref)
      /\ approvedAs' = [approvedAs EXCEPT ![c] = content]
      /\ UNCHANGED <<packages, sources, versions>>
  BY <1>1, <1>5 DEF Approves
<1>10. /\ call' \in [Users -> Drafts \cup Views \cup {None}]
       /\ \A v \in Users : call'[v] = call[v] \/ call'[v] = None
  BY <1>1, Forgets DEF Approves
<1>11. candidates[c].status = "pending" /\ candidates[c].result = None
  BY <1>1 DEF Approves
<1> HIDE DEF family, target, content, r
<1>12. /\ candidates'[c] = r /\ \A d \in Ids : d # c => candidates'[d] = candidates[d]
       /\ candidates' \in [Ids -> Candidate \cup {None}]
  BY <1>2, <1>3, <1>4, Typed
<1>13. Proposed' = Proposed /\ Proposed \subseteq Ids
  BY <1>2, <1>3, <1>12, Fields DEF Proposed
<1>14. /\ approvedAs'[c] = content /\ \A d \in Ids : d # c => approvedAs'[d] = approvedAs[d]
       /\ approvedAs' \in [Ids -> Contents \cup {None}]
  BY <1>2, <1>9, Typed
<1>15. heads' \in [Families -> [Ids -> Nat]]
       /\ heads'[family][ref.id] = ref.revision
       /\ \A f \in Families, id \in Ids : f # family \/ id # ref.id => heads'[f][id] = heads[f][id]
  BY <1>5, <1>9, Typed
<1>16. IndexFollowsHeads' /\ indexed' \in [Ids -> Nat]
  <2>1. indexed = heads["experience"] /\ indexed \in [Ids -> Nat] /\ "experience" \in Families
    BY Typed DEF IInv, IndexFollowsHeads, Families
  <2>2. CASE family = "experience"
    <3>1. indexed' = [indexed EXCEPT ![ref.id] = ref.revision]
      BY <1>9, <2>2 DEF Replace
    <3>2. heads'["experience"] = [heads["experience"] EXCEPT ![ref.id] = ref.revision]
      BY <1>9, <2>1, <2>2, Typed
    <3> QED
      BY <1>5, <2>1, <3>1, <3>2 DEF IndexFollowsHeads
  <2>3. CASE family # "experience"
    <3>1. indexed' = indexed
      BY <1>9, <2>3 DEF Replace
    <3>2. heads'["experience"] = heads["experience"]
      BY <1>9, <2>1, <2>3, Typed
    <3> QED
      BY <2>1, <3>1, <3>2 DEF IndexFollowsHeads
  <2> QED
    BY <2>2, <2>3
<1>17. TypeOK' /\ versions' \in [Ids -> Seq(Contents)]
  <2>1. \A s \in Stored' : s \in Refs /\ artifacts'[s] \in Contents
    BY <1>2, <1>8, Typed
  <2>2. \A d \in Ids : versions'[d] \in Seq(Contents)
    BY <1>9, Typed
  <2>3. packages' \subseteq Packages /\ sources' \subseteq {Captured} \cup Packages
    BY <1>9, Typed
  <2> QED
    BY <1>9, <1>10, <1>12, <1>14, <1>15, <1>16, <2>1, <2>2, <2>3, Typed DEF TypeOK
<1>18. \A d \in Proposed' : Sound(d)'
  <2> TAKE d \in Proposed'
  <2>1. CASE d = c
    <3>1. Len(versions'[c]) = candidates'[c].version
      BY <1>2, <1>3, <1>9, <1>12 DEF Sound
    <3>2. versions'[c][candidates'[c].version] = content
      BY <1>3, <1>9, <1>12 DEF content
    <3>3. candidates'[c].target # None =>
             /\ candidates'[c].target.family = candidates'[c].family
             /\ candidates'[c].target \in versions'[c][candidates'[c].version].artifacts
      BY <1>3, <1>6, <1>12, <3>2
    <3>4. candidates'[c].result \in Stored' /\ artifacts'[candidates'[c].result] = approvedAs'[c]
      BY <1>3, <1>8, <1>12, <1>14
    <3> QED
      BY <1>3, <1>12, <1>14, <2>1, <3>1, <3>2, <3>3, <3>4 DEF Sound
  <2>2. CASE d # c
    <3>1. d \in Proposed /\ Sound(d) /\ candidates'[d] = candidates[d] /\ versions'[d] = versions[d]
          /\ approvedAs'[d] = approvedAs[d]
      BY <1>9, <1>12, <1>13, <1>14, <2>2 DEF IInv
    <3> QED
      BY <1>8, <3>1 DEF Sound
  <2> QED
    BY <2>1, <2>2
<1>19. \A v \in Users : Reads(v)'
  <2>1. Extends
    <3> SUFFICES ASSUME NEW d \in Proposed
                 PROVE  /\ d \in Proposed' /\ candidates[d].version <= candidates'[d].version
                        /\ \A i \in 1..candidates[d].version : versions'[d][i] = versions[d][i]
      BY DEF Extends
    <3>1. candidates[d].version \in Nat
      BY Known
    <3>2. candidates'[d].version = candidates[d].version /\ versions'[d] = versions[d]
      BY <1>3, <1>9, <1>12, <1>13
    <3> QED
      BY <1>13, <3>1, <3>2
  <2> QED
    BY <1>10, <1>12, <2>1, ReadsStand
<1>20. Results'
  <2>1. \A s \in Stored' : \E d \in Proposed' : candidates'[d].result = s
    <3> TAKE s \in Stored'
    <3>1. CASE s = ref
      BY <1>3, <1>12, <1>13, <3>1
    <3>2. CASE s \in Stored
      <4>1. PICK d \in Proposed : candidates[d].result = s
        BY <3>2 DEF IInv, Results
      <4>2. s # None
        BY <3>2, Typed, Fields
      <4>3. d # c
        BY <1>11, <4>1, <4>2
      <4> QED
        BY <1>12, <1>13, <4>1, <4>3
    <3> QED
      BY <1>8, <3>1, <3>2
  <2>2. ASSUME NEW d \in Proposed, d # c, candidates[d].result = ref
        PROVE  FALSE
    <3>1. Sound(d)
      BY DEF IInv
    <3>2. candidates[d].result \in Stored
      BY <1>5, <2>2, <3>1 DEF Sound
    <3> QED
      BY <1>7, <2>2, <3>2
  <2>3. ASSUME NEW d \in Proposed', NEW e \in Proposed',
               candidates'[d].result = candidates'[e].result, candidates'[d].result # None
        PROVE  d = e
    <3>1. d \in Proposed /\ e \in Proposed
      BY <1>13
    <3>2. CASE d # c /\ e # c
      <4>1. candidates'[d] = candidates[d] /\ candidates'[e] = candidates[e]
        BY <1>12, <1>13, <3>1, <3>2
      <4>2. Results
        BY DEF IInv
      <4> QED
        BY <2>3, <3>1, <4>1, <4>2 DEF Results
    <3>3. CASE d = c /\ e # c
      <4>1. candidates[e].result = ref
        BY <1>3, <1>12, <1>13, <2>3, <3>1, <3>3
      <4> QED
        BY <2>2, <3>1, <3>3, <4>1
    <3>4. CASE d # c /\ e = c
      <4>1. candidates[d].result = ref
        BY <1>3, <1>12, <1>13, <2>3, <3>1, <3>4
      <4> QED
        BY <2>2, <3>1, <3>4, <4>1
    <3> QED
      BY <3>2, <3>3, <3>4
  <2> QED
    BY <2>1, <2>3 DEF Results
<1>21. RevisionsBuildOnTheLast'
  <2> DEFINE at(f, id, n) == [family |-> f, id |-> id, revision |-> n]
             last == heads[family][ref.id]
  <2>1. last \in Nat /\ ref.revision = last + 1
    BY <1>5, <1>7, Typed
  <2>2. \A s \in Stored' : s.revision \in 1..heads'[s.family][s.id]
    <3> TAKE s \in Stored'
    <3>1. CASE s = ref
      BY <1>5, <1>15, <3>1
    <3>2. CASE s \in Stored
      <4>1. s.family \in Families /\ s.id \in Ids /\ s.revision \in 1..heads[s.family][s.id]
        BY <3>2, Typed, Fields DEF IInv, RevisionsBuildOnTheLast
      <4>2. CASE s.family = family /\ s.id = ref.id
        <5>1. heads'[s.family][s.id] = last + 1 /\ heads[s.family][s.id] = last
          BY <1>15, <2>1, <4>2
        <5>2. s.revision \in 1..last
          BY <4>1, <5>1
        <5> HIDE DEF last
        <5>3. s.revision \in 1..(last + 1)
          BY <2>1, <5>2
        <5> QED
          BY <5>1, <5>3
      <4>3. CASE s.family # family \/ s.id # ref.id
        BY <1>15, <4>1, <4>3
      <4> QED
        BY <4>2, <4>3
    <3> QED
      BY <1>8, <3>1, <3>2
  <2>3. ASSUME NEW f \in Families, NEW id \in Ids, NEW n \in 1..heads[f][id]
        PROVE  /\ at(f, id, n) \in Stored
               /\ n > 1 => at(f, id, n - 1) \in artifacts[at(f, id, n)].artifacts
    BY DEF IInv, RevisionsBuildOnTheLast
  <2>4. ref.revision > 1 => at(family, ref.id, ref.revision - 1) \in content.artifacts
    <3> SUFFICES ASSUME ref.revision > 1 PROVE at(family, ref.id, ref.revision - 1) \in content.artifacts
      OBVIOUS
    <3>1. last # 0
      BY <2>1
    <3>2. target # None
      BY <1>7, <3>1
    <3>3. ref.revision - 1 = last
      BY <2>1
    <3> QED
      BY <1>6, <1>7, <3>2, <3>3
  <2>5. ASSUME NEW f \in Families, NEW id \in Ids, NEW n \in 1..heads'[f][id]
        PROVE  /\ at(f, id, n) \in Stored'
               /\ n > 1 => at(f, id, n - 1) \in artifacts'[at(f, id, n)].artifacts
    <3>1. CASE n \in 1..heads[f][id]
      <4>1. at(f, id, n) \in Stored /\ (n > 1 => at(f, id, n - 1) \in artifacts[at(f, id, n)].artifacts)
        BY <2>3, <3>1
      <4> HIDE DEF at
      <4> QED
        BY <1>8, <4>1
    <3>2. CASE n \notin 1..heads[f][id]
      <4>1. f = family /\ id = ref.id
        BY <1>15, <2>5, <3>2
      <4>2. n = ref.revision
        <5>1. heads'[f][id] = last + 1 /\ heads[f][id] = last
          BY <1>15, <2>1, <4>1
        <5>2. n \in 1..(last + 1) /\ n \notin 1..last
          BY <2>5, <3>2, <5>1
        <5> HIDE DEF last
        <5> QED
          BY <2>1, <5>2
      <4>3. at(f, id, n) = ref
        BY <1>5, <4>1, <4>2
      <4> HIDE DEF at
      <4> QED
        BY <1>8, <2>4, <4>1, <4>2, <4>3
    <3> QED
      BY <3>1, <3>2
  <2> QED
    BY <2>2, <2>5 DEF RevisionsBuildOnTheLast
<1> QED
  BY <1>16, <1>17, <1>18, <1>19, <1>20, <1>21 DEF IInv
-----------------------------------------------------------------------------
LEMMA Starts ==
    ASSUME Init
    PROVE  IInv
<1>1. Stored = {} /\ Proposed = {}
  BY DEF Init, Stored, Proposed
<1>2. \A f \in Families, id \in Ids : heads[f][id] = 0
  BY DEF Init
<1>3. TypeOK /\ versions \in [Ids -> Seq(Contents)]
  BY <1>1 DEF Init, TypeOK
<1>4. \A u \in Users : Reads(u)
  BY Fields DEF Init, Reads, Viewed
<1>5. RevisionsBuildOnTheLast
  <2>1. \A f \in Families, id \in Ids : 1..heads[f][id] = {}
    BY <1>2
  <2> QED
    BY <1>1, <2>1 DEF RevisionsBuildOnTheLast
<1>6. IndexFollowsHeads
  BY DEF Init, IndexFollowsHeads, Families
<1> QED
  BY <1>1, <1>3, <1>4, <1>5, <1>6 DEF IInv, Results

LEMMA WriteKeeps ==
    ASSUME IInv, Write
    PROVE  IInv'
<1>1. CASE \E family \in Families, content \in Inputs(Citable, {Captured} \cup Packages) :
              \E target \in content.artifacts \cup {None} :
                 \/ Propose(family, target, content)
                 \/ \E u \in Users : ReadEvidence(u, family, target, content)
  BY <1>1, ProposeKeeps, ReadEvidenceKeeps
<1>2. CASE \E package \in Packages, cited \in SUBSET Stored :
              \E target \in cited \cup {None} : ProposeUploadedPackage(package, cited, target)
  BY <1>2, UploadKeeps
<1>3. CASE \E u \in Users : ProposeGenerated(u)
  BY <1>3, GeneratedKeeps
<1>4. CASE \E u \in Users : \E content \in Inputs(Citable, {Captured} \cup Packages) : Revise(u, content)
  BY <1>4, ReviseKeeps
<1> QED
  BY <1>1, <1>2, <1>3, <1>4 DEF Write

LEMMA Invariant == Spec => []IInv
<1>1. Init => IInv
  BY Starts
<1>2. IInv /\ [Next]_vars => IInv'
  <2> SUFFICES ASSUME IInv, [Next]_vars PROVE IInv'
    OBVIOUS
  <2>1. CASE Write
    BY <2>1, WriteKeeps
  <2>2. ASSUME NEW u \in Users, GenerationEnds(u) \/ DecisionEnds(u) PROVE IInv'
    BY <2>2, ForgetKeeps DEF GenerationEnds, DecisionEnds
  <2>3. ASSUME NEW u \in Users, NEW c \in Ids, Get(u, c) PROVE IInv'
    BY <2>3, GetKeeps
  <2>4. ASSUME NEW u \in Users, Reject(u) \/ Approve(u) PROVE IInv'
    BY <2>4, RejectKeeps, ApproveKeeps
  <2>5. CASE UNCHANGED vars
    <3>1. UNCHANGED <<artifacts, heads, indexed, packages, sources, candidates, versions, call, approvedAs>>
      BY <2>5 DEF vars
    <3>2. Proposed' = Proposed /\ call' \in [Users -> Drafts \cup Views \cup {None}]
      BY <3>1, Typed DEF Proposed
    <3>3. \A u \in Users : Reads(u)'
      BY <3>1, <3>2 DEF IInv, Reads, Viewed
    <3> QED
      BY <3>1, <3>2, <3>3, CallsKeep
  <2> QED
    BY <2>1, <2>2, <2>3, <2>4, <2>5 DEF Next
<1> QED
  BY <1>1, <1>2, PTL DEF Spec

\* The tables and the values callers hold keep the types of the code.
THEOREM TypeCorrect == Spec => []TypeOK
<1>1. IInv => TypeOK
  BY DEF IInv
<1> QED
  BY <1>1, Invariant, PTL

\* ReviewBackend.Approve is exactly once: each stored revision is the result of
\* one approved Candidate, however many reviewers decide at the same time.
THEOREM ApprovedOnce == Spec => []RevisionsAreApprovals
<1>1. ASSUME IInv PROVE RevisionsAreApprovals
  <2>1. ASSUME NEW ref \in Stored
        PROVE  Cardinality({c \in Proposed : candidates[c].result = ref}) = 1
    <3>1. PICK c \in Proposed : candidates[c].result = ref
      BY <1>1 DEF IInv, Results
    <3>2. ref # None
      BY <1>1, Typed, Fields
    <3>3. {d \in Proposed : candidates[d].result = ref} = {c}
      BY <1>1, <3>1, <3>2 DEF IInv, Results
    <3> QED
      BY <3>3, FS_Singleton
  <2>2. \A c \in Proposed : IF candidates[c].status = "approved"
                              THEN candidates[c].result \in Stored ELSE candidates[c].result = None
    BY <1>1 DEF IInv, Sound
  <2> QED
    BY <2>1, <2>2 DEF RevisionsAreApprovals
<1> QED
  BY <1>1, Invariant, PTL

\* The revision an approval stores holds what the approving user had read,
\* because LockPending compares the version they read with the current one.
THEOREM StoredAsRead == Spec => []ApprovedWhatWasRead
<1>1. IInv => ApprovedWhatWasRead
  BY DEF IInv, Sound, ApprovedWhatWasRead
<1> QED
  BY <1>1, Invariant, PTL

\* ArtifactRepository.Create and Revise leave no gap and overwrite nothing:
\* the revisions are dense, and each cites the one before it.
THEOREM NoLostRevision == Spec => []RevisionsBuildOnTheLast
<1>1. IInv => RevisionsBuildOnTheLast
  BY DEF IInv
<1> QED
  BY <1>1, Invariant, PTL

\* ExperienceIndex.Replace, in the transaction of the approval, keeps the
\* search index at the Artifact heads.
THEOREM IndexInStep == Spec => []IndexFollowsHeads
<1>1. IInv => IndexFollowsHeads
  BY DEF IInv
<1> QED
  BY <1>1, Invariant, PTL
=============================================================================
