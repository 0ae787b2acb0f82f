------------------------------- MODULE Review -------------------------------
(***************************************************************************)
(* The review authority of one Scope: Candidates, the Artifacts their      *)
(* approval creates, the packages a Skill proposal carries and the         *)
(* Experience index (src/internal/sqlstore/review.go, candidates.go,       *)
(* artifacts.go, experience_index.go, skill_packages.go; the generation    *)
(* service of src/internal/review).                                        *)
(*                                                                         *)
(* Each transaction is one action; a failed one rolls back and leaves      *)
(* nothing.  What interleaves is what callers hold between transactions:   *)
(* a Candidate they have read and will decide on, or evidence a generator  *)
(* has read and will propose from.  The callers may belong to several      *)
(* processes that share the database.                                      *)
(***************************************************************************)
EXTENDS Naturals, Sequences, FiniteSets, FiniteSetsExt

CONSTANTS
    Users,          \* reviewers and generators
    Plain,          \* the contents a proposal can have
    Packages,       \* the package-backed contents of a Skill proposal
    Captured,       \* a Source that is in the Scope from the start
    MaxEvidence,    \* references a Candidate may cite (32 in the code)
    MaxCandidates,  \* bound: Candidates proposed
    MaxVersions,    \* bound: versions of all Candidates together
    None

ASSUME ReviewAssumption ==
    /\ MaxEvidence \in Nat \ {0}
    /\ MaxCandidates \in Nat
    /\ MaxVersions \in Nat \ {0}
    /\ Plain \cap Packages = {}
    /\ Captured \notin Packages

VARIABLES
    artifacts,   \* pc_artifacts: what each stored revision holds
    heads,       \* pc_artifact_heads: current revision, 0 when there is none
    indexed,     \* pc_experience_fts: the indexed revision, 0 when there is none
    packages,    \* pc_skill_packages
    sources,     \* the Sources of the Scope that evidence may cite
    candidates,  \* pc_candidates: one record per Candidate
    versions,    \* pc_candidate_versions: the contents of every version
    call,        \* what each user has read and not yet used
    approvedAs   \* the content the approving user had read

vars == <<artifacts, heads, indexed, packages, sources, candidates, versions,
          call, approvedAs>>

Families == {"experience", "skill"}

Ids == 1..MaxCandidates

Refs == [family : Families, id : Ids, revision : Nat \ {0}]

Proposals(family) == IF family = "skill" THEN Plain \cup Packages ELSE Plain

(* The immutable part of a Candidate version and of an Artifact revision. *)
Contents ==
    [proposal : Plain \cup Packages,
     sources : SUBSET ({Captured} \cup Packages),
     artifacts : SUBSET Refs]

Candidate ==
    [version : Nat \ {0}, family : Families,
     status : {"pending", "approved", "rejected"},
     target : Refs \cup {None}, result : Refs \cup {None}]

Drafts == [family : Families, content : Contents, target : Refs \cup {None}]

Views == [candidate : Ids, version : Nat \ {0}, content : Contents]

ASSUME NoneAssumption == None \notin Refs \cup Candidate \cup Drafts \cup Views \cup Contents

Stored == DOMAIN artifacts

Latest(family, id) ==
    [family |-> family, id |-> id, revision |-> heads[family][id]]

Proposed == {c \in Ids : candidates[c] # None}

(***************************************************************************)
(* ReviewBackend.validateEvidence: between one and MaxEvidence references, *)
(* each of which is stored in the Scope.                                   *)
(***************************************************************************)
ValidEvidence(content) ==
    /\ Cardinality(content.sources) + Cardinality(content.artifacts)
          \in 1..MaxEvidence
    /\ content.sources \subseteq sources
    /\ content.artifacts \subseteq Stored

(***************************************************************************)
(* ReviewBackend.validateTarget: the target belongs to the family, is      *)
(* among the cited Artifacts and is the current revision.                  *)
(***************************************************************************)
ValidTarget(family, target, content) ==
    target # None =>
        /\ target.family = family
        /\ target \in content.artifacts
        /\ target = Latest(family, target.id)

(* Mutant: the version is not compared. *)
MutantLock(c, version) ==
    candidates[c].status = "pending"

(* Mutant: the status is not compared. *)
MutantLockVersion(c, version) ==
    candidates[c].version = version

(***************************************************************************)
(* CandidateRepository.LockPending: the Candidate is pending at exactly    *)
(* the version the caller expects.                                         *)
(***************************************************************************)
LockPending(c, version) ==
    /\ candidates[c].status = "pending"
    /\ candidates[c].version = version

Init ==
    /\ artifacts = [ref \in {} |-> None]
    /\ heads = [family \in Families |-> [id \in Ids |-> 0]]
    /\ indexed = [id \in Ids |-> 0]
    /\ packages = {}
    /\ sources = {Captured}
    /\ candidates = [c \in Ids |-> None]
    /\ versions = [c \in Ids |-> <<>>]
    /\ call = [u \in Users |-> None]
    /\ approvedAs = [c \in Ids |-> None]

-----------------------------------------------------------------------------
(* CandidateRepository.Create under a fresh id: version one, pending. *)
Create(family, target, content) ==
    \E c \in Ids :
        /\ candidates[c] = None
        /\ \A d \in Ids : d < c => candidates[d] # None
        /\ candidates' = [candidates EXCEPT ![c] =
              [version |-> 1, family |-> family, status |-> "pending",
               target |-> target, result |-> None]]
        /\ versions' = [versions EXCEPT ![c] = <<content>>]

(***************************************************************************)
(* ReviewBackend.Propose by a caller that holds nothing from an earlier    *)
(* transaction: the package is persisted, evidence and target are checked, *)
(* the Candidate is created.                                               *)
(***************************************************************************)
Propose(family, target, content) ==
    /\ content.proposal \in Proposals(family)
    /\ ValidEvidence(content)
    /\ ValidTarget(family, target, content)
    /\ packages' = packages \cup ({content.proposal} \cap Packages)
    /\ Create(family, target, content)
    /\ UNCHANGED <<artifacts, heads, indexed, sources, call, approvedAs>>

(***************************************************************************)
(* ReviewBackend.ProposeUploadedPackage: the package, its upload Source    *)
(* and the Candidate that cites this Source commit together.               *)
(***************************************************************************)
ProposeUploadedPackage(package, cited, target) ==
    LET content == [proposal |-> package, sources |-> {package},
                    artifacts |-> cited]
    IN /\ 1 + Cardinality(cited) <= MaxEvidence
       /\ cited \subseteq Stored
       /\ ValidTarget("skill", target, content)
       /\ packages' = packages \cup {package}
       /\ sources' = sources \cup {package}
       /\ Create("skill", target, content)
       /\ UNCHANGED <<artifacts, heads, indexed, call, approvedAs>>

(***************************************************************************)
(* GenerationService.Experience and Skill, first half: the evidence is     *)
(* read in one transaction and the model is called with none open.  The    *)
(* origins of a Skill are Experiences, Sources, or the use of the Skill it *)
(* replaces (validateSkillLineage).                                        *)
(***************************************************************************)
Originates(family, target, content) ==
    \/ /\ family = "experience"
       /\ target # None => target.family = "experience"
    \/ /\ family = "skill"
       /\ target = None
       /\ content.artifacts # {}
       /\ \A ref \in content.artifacts : ref.family = "experience"
    \/ /\ family = "skill"
       /\ target = None
       /\ content.sources # {}
       /\ content.artifacts = {}
    \/ /\ family = "skill"
       /\ target # None
       /\ target.family = "skill"
       /\ content.sources # {}

ReadEvidence(u, family, target, content) ==
    /\ call[u] = None
    /\ content.proposal \in Plain
    /\ ValidEvidence(content)
    /\ Originates(family, target, content)
    /\ target # None => target \in content.artifacts
    /\ call' = [call EXCEPT ![u] =
          [family |-> family, content |-> content, target |-> target]]
    /\ UNCHANGED <<artifacts, heads, indexed, packages, sources, candidates,
                   versions, approvedAs>>

Drafted(u) == call[u] \in Drafts

Forget(u) == call' = [call EXCEPT ![u] = None]

(* Second half: what the model returned is proposed in its own transaction. *)
ProposeGenerated(u) ==
    /\ Drafted(u)
    /\ ValidEvidence(call[u].content)
    /\ ValidTarget(call[u].family, call[u].target, call[u].content)
    /\ Create(call[u].family, call[u].target, call[u].content)
    /\ Forget(u)
    /\ UNCHANGED <<artifacts, heads, indexed, packages, sources, approvedAs>>

(* The model proposed nothing, or the target moved in the meantime. *)
GenerationEnds(u) ==
    /\ Drafted(u)
    /\ Forget(u)
    /\ UNCHANGED <<artifacts, heads, indexed, packages, sources, candidates,
                   versions, approvedAs>>

-----------------------------------------------------------------------------
(* ReviewBackend.Get: a user reads a Candidate at its current version. *)
Get(u, c) ==
    /\ call[u] = None
    /\ c \in Proposed
    /\ call' = [call EXCEPT ![u] =
          [candidate |-> c, version |-> candidates[c].version,
           content |-> versions[c][candidates[c].version]]]
    /\ UNCHANGED <<artifacts, heads, indexed, packages, sources, candidates,
                   versions, approvedAs>>

Viewed(u) == call[u] \in Views

(***************************************************************************)
(* ReviewBackend.Revise: a new version of a pending Candidate.  Its type   *)
(* and target stay; evidence and target are checked as for a new one.      *)
(***************************************************************************)
Revise(u, content) ==
    LET c == call[u].candidate
        version == call[u].version
    IN /\ Viewed(u)
       /\ LockPending(c, version)
       /\ content.proposal \in Proposals(candidates[c].family)
       /\ (content.proposal \in Packages) <=>
             (versions[c][version].proposal \in Packages)
       /\ ValidEvidence(content)
       /\ ValidTarget(candidates[c].family, candidates[c].target, content)
       /\ packages' = packages \cup ({content.proposal} \cap Packages)
       /\ versions' = [versions EXCEPT ![c] = Append(@, content)]
       /\ candidates' = [candidates EXCEPT ![c].version = version + 1]
       /\ Forget(u)
       /\ UNCHANGED <<artifacts, heads, indexed, sources, approvedAs>>

(* ReviewBackend.Reject. *)
Reject(u) ==
    LET c == call[u].candidate
    IN /\ Viewed(u)
       /\ LockPending(c, call[u].version)
       /\ candidates' = [candidates EXCEPT ![c].status = "rejected"]
       /\ Forget(u)
       /\ UNCHANGED <<artifacts, heads, indexed, packages, sources, versions,
                      approvedAs>>

(* validateApprovalLineage: what a Skill may descend from. *)
ApprovalLineage(family, target, content) ==
    \/ family = "experience"
    \/ target = None /\ \A ref \in content.artifacts : ref.family = "experience"
    \/ target # None /\ target \in content.artifacts /\ content.sources # {}

(* Mutant: the head is not compared with the target. *)
MutantTarget(family, target, ref) ==
    IF target = None
      THEN /\ heads[family][ref.id] = 0
           /\ \A id \in Ids : id < ref.id => heads[family][id] # 0
           /\ ref.revision = 1
      ELSE /\ ref.id = target.id
           /\ ref.revision = heads[family][ref.id] + 1

(***************************************************************************)
(* ArtifactRepository.Create stores revision one of a fresh id;            *)
(* ArtifactRepository.Revise adds the next revision, provided the head is  *)
(* still the target.                                                       *)
(***************************************************************************)
Result(family, target, ref) ==
    IF target = None
      THEN /\ heads[family][ref.id] = 0
           /\ \A id \in Ids : id < ref.id => heads[family][id] # 0
           /\ ref.revision = 1
      ELSE /\ target \in Stored
           /\ target = Latest(family, target.id)
           /\ ref.id = target.id
           /\ ref.revision = target.revision + 1

(* Mutant: only new Experiences are indexed. *)
MutantReplace(family, ref) ==
    indexed' = IF family = "experience" /\ ref.revision = 1
                 THEN [indexed EXCEPT ![ref.id] = ref.revision]
                 ELSE indexed

(* ExperienceIndex.Replace: the index row follows the approved Experience. *)
Replace(family, ref) ==
    indexed' = IF family = "experience"
                 THEN [indexed EXCEPT ![ref.id] = ref.revision]
                 ELSE indexed

(* CandidateRepository.MarkApproved. *)
MarkApproved(c, ref) ==
    candidates' = [candidates EXCEPT ![c].status = "approved",
                                     ![c].result = ref]

(***************************************************************************)
(* ReviewBackend.Approve, one transaction: the Candidate is locked, its    *)
(* package and lineage are checked, the Artifact revision is stored, its   *)
(* head moved and indexed, and the Candidate is marked approved.           *)
(***************************************************************************)
Approve(u) ==
    LET c == call[u].candidate
        family == candidates[c].family
        target == candidates[c].target
        content == versions[c][candidates[c].version]
    IN /\ Viewed(u)
       /\ LockPending(c, call[u].version)
       /\ content.proposal \in Packages => content.proposal \in packages
       /\ ApprovalLineage(family, target, content)
       /\ \E id \in Ids, revision \in 1..MaxCandidates :
             LET ref == [family |-> family, id |-> id, revision |-> revision]
             IN /\ Result(family, target, ref)
                /\ artifacts' = [r \in Stored \cup {ref} |->
                                    IF r = ref THEN content ELSE artifacts[r]]
                /\ heads' = [heads EXCEPT ![family][id] = revision]
                /\ Replace(family, ref)
                /\ MarkApproved(c, ref)
       /\ approvedAs' = [approvedAs EXCEPT ![c] = call[u].content]
       /\ Forget(u)
       /\ UNCHANGED <<packages, sources, versions>>

(* The decision is refused, or the user leaves the Candidate alone. *)
DecisionEnds(u) ==
    /\ Viewed(u)
    /\ Forget(u)
    /\ UNCHANGED <<artifacts, heads, indexed, packages, sources, candidates,
                   versions, approvedAs>>

-----------------------------------------------------------------------------
(* What callers may cite: stored revisions, and ones not yet there. *)
Citable ==
    Stored \cup
    {[family |-> family, id |-> 1, revision |-> heads[family][1] + 1] :
        family \in Families}

Inputs(cited, supported) ==
    {content \in [proposal : Plain \cup Packages,
                  sources : SUBSET supported,
                  artifacts : {a \in SUBSET cited :
                                 Cardinality(a) <= MaxEvidence}] :
        Cardinality(content.sources) + Cardinality(content.artifacts)
          <= MaxEvidence}

(* The bound: no more versions are prepared once MaxVersions are written. *)
MayWrite ==
    MapThenSumSet(LAMBDA c : candidates[c].version, Proposed) < MaxVersions

(* Transactions that write a version of a Candidate, or prepare one. *)
Write ==
    \/ \E family \in Families,
          content \in Inputs(Citable, {Captured} \cup Packages) :
          \E target \in content.artifacts \cup {None} :
             \/ Propose(family, target, content)
             \/ \E u \in Users : ReadEvidence(u, family, target, content)
    \/ \E package \in Packages, cited \in SUBSET Stored :
          \E target \in cited \cup {None} :
             ProposeUploadedPackage(package, cited, target)
    \/ \E u \in Users : ProposeGenerated(u)
    \/ \E u \in Users :
          /\ Viewed(u)
          /\ \E content \in Inputs(Citable, {Captured} \cup Packages) :
                Revise(u, content)

Next ==
    \/ MayWrite /\ Write
    \/ \E u \in Users :
          \/ GenerationEnds(u)
          \/ \E c \in Ids : Get(u, c)
          \/ Reject(u)
          \/ Approve(u)
          \/ DecisionEnds(u)

Spec == Init /\ [][Next]_vars

-----------------------------------------------------------------------------
(* The tables and the values callers hold have the types of the code. *)
TypeOK ==
    /\ Stored \subseteq Refs
    /\ \A ref \in Stored : artifacts[ref] \in Contents
    /\ heads \in [Families -> [Ids -> Nat]]
    /\ indexed \in [Ids -> Nat]
    /\ packages \subseteq Packages
    /\ sources \subseteq {Captured} \cup Packages
    /\ candidates \in [Ids -> Candidate \cup {None}]
    /\ \A c \in Ids : versions[c] \in Seq(Contents)
    /\ call \in [Users -> Drafts \cup Views \cup {None}]
    /\ approvedAs \in [Ids -> Contents \cup {None}]

(***************************************************************************)
(* Approve is exactly once: every stored Artifact revision is the result   *)
(* of exactly one Candidate, which is approved, and a Candidate without    *)
(* approval has none.  Two reviewers who approve the same Candidate, or    *)
(* one who approves while another rejects, cannot both succeed.            *)
(***************************************************************************)
RevisionsAreApprovals ==
    /\ \A ref \in Stored :
          Cardinality({c \in Proposed : candidates[c].result = ref}) = 1
    /\ \A c \in Proposed :
          IF candidates[c].status = "approved"
            THEN candidates[c].result \in Stored
            ELSE candidates[c].result = None

(***************************************************************************)
(* What is stored is what was reviewed: the Artifact revision an approval  *)
(* created holds the very content the approving user had read, although    *)
(* others could revise the Candidate between the reading and the decision. *)
(***************************************************************************)
ApprovedWhatWasRead ==
    \A c \in Proposed :
        candidates[c].status = "approved" =>
            /\ artifacts[candidates[c].result] = approvedAs[c]
            /\ versions[c][candidates[c].version] = approvedAs[c]

(***************************************************************************)
(* No approval overwrites another: the revisions of an Artifact are dense  *)
(* up to its head, and each one after the first cites the revision before  *)
(* it, so its author had seen what it replaces.                            *)
(***************************************************************************)
RevisionsBuildOnTheLast ==
    /\ \A ref \in Stored : ref.revision \in 1..heads[ref.family][ref.id]
    /\ \A family \in Families, id \in Ids :
          \A revision \in 1..heads[family][id] :
              LET at(n) == [family |-> family, id |-> id, revision |-> n]
              IN /\ at(revision) \in Stored
                 /\ revision > 1 =>
                       at(revision - 1) \in artifacts[at(revision)].artifacts

(***************************************************************************)
(* Experience search never returns a superseded revision and misses no     *)
(* approved one: the index and the Artifact heads move together.           *)
(***************************************************************************)
IndexFollowsHeads ==
    indexed = heads["experience"]
=============================================================================
