------------------------- MODULE ConnectorRunProofs -------------------------
(***************************************************************************)
(* For any runs, workers and items: the checkpoint of a binding only moves *)
(* forward, and what it has passed is stored.                              *)
(*                                                                         *)
(* The checkpoint a run saves was proposed when submissions were still in  *)
(* flight.  Nothing of them is left open when the run decides: the counter *)
(* session.inFlight counts them exactly, so that a drained session has     *)
(* none, and a closed session admits no new ones.                          *)
(***************************************************************************)
EXTENDS ConnectorRun, FiniteSetTheorems, TLAPS

Flying(r) == {i \in Ids : item[r][i] \in {"submitting", "stored", "refused by sink"}}

Returned == {"draining", "drained", "deciding", "saving"}

\* What is known of a run and of the session it opened.
Sound(r) ==
    /\ \A i \in Ids : item[r][i] \in {"stored", "accepted"} => i \in sources
    /\ \A i \in Ids : item[r][i] = "failed" => failure[r]
    /\ inFlight[r] = Cardinality(Flying(r))
    /\ phase[r] = "idle" => Flying(r) = {}
    /\ drained[r] => Flying(r) = {} /\ phase[r] \notin {"idle", "running"}
    /\ phase[r] \in {"drained", "deciding", "saving"} => drained[r]
    /\ phase[r] \in {"deciding", "saving"} => ~failure[r]
    /\ phase[r] \in Returned =>
          /\ proposed[r] # Absent
          /\ Wire(previous[r]) <= proposed[r]
          /\ (Wire(previous[r]) + 1)..proposed[r] \subseteq Claimed(r)
          /\ AwaitsRefusals => \A i \in Ids : item[r][i] # "refusing"
    /\ phase[r] = "saving" /\ AwaitsRefusals => \A i \in Ids : item[r][i] # "unsafe"

\* A worker has submitted what it goes on from, and commits to what it loaded.
Honest(w) ==
    /\ worker[w].expected <= worker[w].next
    /\ worker[w].at = "committing" => Wire(worker[w].actual) = worker[w].expected

IInv ==
    /\ TypeOK
    /\ \A r \in Runs : Sound(r)
    /\ \A w \in Workers : Honest(w)

LEMMA Wired ==
    /\ \A v \in Checkpoints : Wire(v) \in 0..Items
    /\ \A v \in 0..Items : Wire(v) = v /\ v # Absent /\ v \in Checkpoints
    /\ Wire(Absent) = 0 /\ Absent \in Checkpoints /\ 0 \in 0..Items
BY ConnectorAssumption DEF Wire, Checkpoints

\* Submissions in flight are finitely many, and a count of zero means none.
LEMMA FlyingIsFinite ==
    ASSUME NEW S \in SUBSET Ids
    PROVE  IsFiniteSet(S) /\ Cardinality(S) \in Nat /\ (Cardinality(S) = 0 <=> S = {})
<1>1. IsFiniteSet(Ids)
  BY ConnectorAssumption, FS_Interval DEF Ids
<1>2. IsFiniteSet(S)
  BY <1>1, FS_Subset
<1> QED
  BY <1>2, FS_CardinalityType, FS_EmptySet

\* A step of one run leaves what is known of the others.
LEMMA OthersStand ==
    ASSUME IInv, NEW r \in Runs, sources \subseteq sources', Sound(r)', TypeOK',
           \A w \in Workers : worker'[w] = worker[w],
           \A q \in Runs \ {r} :
               /\ phase'[q] = phase[q] /\ previous'[q] = previous[q] /\ proposed'[q] = proposed[q]
               /\ item'[q] = item[q] /\ failure'[q] = failure[q]
               /\ inFlight'[q] = inFlight[q] /\ drained'[q] = drained[q]
    PROVE  IInv'
<1>1. ASSUME NEW q \in Runs, q # r PROVE Sound(q)'
  <2>1. Sound(q)
    BY DEF IInv
  <2>2. Flying(q)' = Flying(q) /\ Claimed(q)' = Claimed(q)
    BY <1>1 DEF Flying, Claimed
  <2> QED
    BY <1>1, <2>1, <2>2 DEF Sound
<1>2. \A w \in Workers : Honest(w)'
  BY DEF IInv, Honest
<1> QED
  BY <1>1, <1>2 DEF IInv

LEMMA Typed ==
    ASSUME IInv, NEW r \in Runs
    PROVE  /\ item \in [Runs -> [Ids -> ItemStates]] /\ item[r] \in [Ids -> ItemStates]
           /\ phase \in [Runs -> {"idle", "running", "draining", "drained",
                                  "deciding", "saving", "ended"}]
           /\ previous \in [Runs -> Checkpoints] /\ proposed \in [Runs -> Checkpoints]
           /\ complete \in [Runs -> BOOLEAN] /\ failure \in [Runs -> BOOLEAN]
           /\ inFlight \in [Runs -> Nat] /\ drained \in [Runs -> BOOLEAN]
           /\ sources \subseteq Ids /\ checkpoint \in Checkpoints
           /\ Sound(r)
BY DEF IInv, TypeOK

LEMMA Kept ==
    ASSUME IInv, NEW r \in Runs, NEW j \in Ids
    PROVE  /\ item[r][j] \in {"stored", "accepted"} => j \in sources
           /\ item[r][j] = "failed" => failure[r]
BY DEF IInv, Sound

\* One item moves on.
LEMMA ItemMoves ==
    ASSUME IInv, NEW r \in Runs, NEW i \in Ids, NEW state \in ItemStates,
           item' = [item EXCEPT ![r][i] = state]
    PROVE  /\ item' \in [Runs -> [Ids -> ItemStates]] /\ item'[r][i] = state
           /\ \A j \in Ids : j # i => item'[r][j] = item[r][j]
           /\ \A q \in Runs \ {r} : item'[q] = item[q]
BY Typed

\* claim.
LEMMA ClaimKeeps ==
    ASSUME IInv, NEW r \in Runs, NEW i \in Ids, Submit(r, i) \/ Refuse(r, i)
    PROVE  IInv'
<1>1. PICK state \in ItemStates, tracked \in {0, 1} :
          /\ Claim(r, i, state, tracked)
          /\ \/ state = "submitting" /\ tracked = 1
             \/ state = "refusing" /\ tracked = 0
  BY DEF Submit, Refuse, ItemStates
<1>2. /\ phase[r] = "running" /\ item[r][i] = "new"
      /\ item' = [item EXCEPT ![r][i] = state]
      /\ inFlight' = [inFlight EXCEPT ![r] = @ + tracked]
      /\ UNCHANGED <<checkpoint, sources, phase, previous, proposed, complete, failure, drained, worker>>
  BY <1>1 DEF Claim, Open
<1>3. /\ item' \in [Runs -> [Ids -> ItemStates]] /\ item'[r][i] = state
      /\ \A j \in Ids : j # i => item'[r][j] = item[r][j]
      /\ \A q \in Runs \ {r} : item'[q] = item[q]
  BY <1>2, ItemMoves
<1>4. /\ Flying(r) \in SUBSET Ids /\ i \notin Flying(r)
      /\ tracked = 1 => Flying(r)' = Flying(r) \cup {i}
      /\ tracked = 0 => Flying(r)' = Flying(r)
  <2>1. Flying(r) \in SUBSET Ids /\ i \notin Flying(r)
    BY <1>2 DEF Flying
  <2>2. ASSUME NEW j \in Ids, j # i PROVE j \in Flying(r)' <=> j \in Flying(r)
    BY <1>3, <2>2 DEF Flying
  <2>3. (tracked = 1 => i \in Flying(r)') /\ (tracked = 0 => i \notin Flying(r)')
    <3>1. (tracked = 1 => state = "submitting") /\ (tracked = 0 => state = "refusing")
      BY <1>1
    <3>2. item'[r][i] = state
      BY <1>3
    <3> QED
      BY <3>1, <3>2 DEF Flying
  <2>4. Flying(r)' \subseteq Ids
    BY DEF Flying
  <2> QED
    BY <1>1, <2>1, <2>2, <2>3, <2>4
<1>5. inFlight[r] = Cardinality(Flying(r)) /\ inFlight[r] \in Nat
  BY Typed DEF Sound
<1>6. Cardinality(Flying(r)') = inFlight[r] + tracked
  BY <1>1, <1>4, <1>5, FlyingIsFinite, FS_AddElement
<1>7. /\ inFlight' \in [Runs -> Nat] /\ inFlight'[r] = inFlight[r] + tracked
      /\ \A q \in Runs \ {r} : inFlight'[q] = inFlight[q]
  BY <1>1, <1>2, Typed
<1>8. TypeOK'
  BY <1>2, <1>3, <1>7 DEF IInv, TypeOK
<1>9. \A j \in Ids : /\ item'[r][j] \in {"stored", "accepted"} => j \in sources'
                     /\ item'[r][j] = "failed" => failure'[r]
  <2> TAKE j \in Ids
  <2>1. CASE j = i
    BY <1>1, <1>3, <2>1
  <2>2. CASE j # i
    BY <1>1, <1>2, <1>3, <2>2, Kept
  <2> QED
    BY <2>1, <2>2
<1>10. Sound(r)'
  BY <1>2, <1>6, <1>7, <1>9, Typed DEF Sound, Returned
<1> QED
  BY <1>2, <1>3, <1>7, <1>8, <1>10, OthersStand

\* A second claim of an item, while the session is open.
LEMMA ClaimFailsKeeps ==
    ASSUME IInv, NEW r \in Runs, NEW i \in Ids, ClaimFails(r, i)
    PROVE  IInv'
<1>1. /\ phase[r] = "running" /\ failure' = [failure EXCEPT ![r] = TRUE]
      /\ UNCHANGED <<checkpoint, sources, phase, previous, proposed, complete, item, inFlight, drained, worker>>
  BY DEF ClaimFails, Open
<1>2. /\ failure'[r] = TRUE /\ failure' \in [Runs -> BOOLEAN]
      /\ \A q \in Runs \ {r} : failure'[q] = failure[q]
  BY <1>1, Typed
<1>3. TypeOK'
  BY <1>1, <1>2 DEF IInv, TypeOK
<1>4. Flying(r)' = Flying(r)
  BY <1>1 DEF Flying
<1>5. Sound(r)'
  BY <1>1, <1>2, <1>4, Typed DEF Sound, Returned
<1> QED
  BY <1>1, <1>2, <1>3, <1>5, OthersStand

\* The sink answers, and a refusal is recorded: the item stays in flight or
\* stays out of it.
LEMMA AnswerKeeps ==
    ASSUME IInv, NEW r \in Runs, NEW i \in Ids,
           SinkStores(r, i) \/ SinkRejects(r, i) \/ RecordRefusal(r, i)
    PROVE  IInv'
<1>1. PICK state \in ItemStates :
          /\ item' = [item EXCEPT ![r][i] = state]
          /\ \/ item[r][i] = "submitting" /\ state = "stored" /\ sources' = sources \cup {i}
             \/ item[r][i] = "submitting" /\ state = "refused by sink" /\ sources' = sources
             \/ item[r][i] = "refusing" /\ state = "unsafe" /\ sources' = sources
  BY DEF SinkStores, SinkRejects, RecordRefusal, ItemStates
<1>2. UNCHANGED <<checkpoint, phase, previous, proposed, complete, failure, inFlight, drained, worker>>
  BY DEF SinkStores, SinkRejects, RecordRefusal
<1>3. /\ item' \in [Runs -> [Ids -> ItemStates]] /\ item'[r][i] = state
      /\ \A j \in Ids : j # i => item'[r][j] = item[r][j]
      /\ \A q \in Runs \ {r} : item'[q] = item[q]
  BY <1>1, ItemMoves
<1>4. Flying(r)' = Flying(r)
  BY <1>1, <1>3 DEF Flying
<1>5. Claimed(r)' = Claimed(r)
  BY <1>1, <1>3 DEF Claimed
<1>6. sources \subseteq sources' /\ sources' \subseteq Ids
  BY <1>1, Typed
<1>7. TypeOK'
  BY <1>2, <1>3, <1>6 DEF IInv, TypeOK
<1>8. \A j \in Ids : /\ item'[r][j] \in {"stored", "accepted"} => j \in sources'
                     /\ item'[r][j] = "failed" => failure'[r]
  <2> TAKE j \in Ids
  <2>1. CASE j = i
    BY <1>1, <1>3, <2>1
  <2>2. CASE j # i
    BY <1>1, <1>2, <1>3, <2>2, Kept
  <2> QED
    BY <2>1, <2>2
<1>9. \A j \in Ids : item'[r][j] = "refusing" => item[r][j] = "refusing"
  BY <1>1, <1>3
<1>10. phase[r] = "saving" /\ AwaitsRefusals => \A j \in Ids : item'[r][j] # "unsafe"
  <2> SUFFICES ASSUME phase[r] = "saving", AwaitsRefusals PROVE \A j \in Ids : item'[r][j] # "unsafe"
    OBVIOUS
  <2>1. item[r][i] # "refusing" /\ \A j \in Ids : item[r][j] # "unsafe"
    BY Typed DEF Sound, Returned
  <2> QED
    BY <1>1, <1>3, <2>1
<1>11. Sound(r)'
  BY <1>2, <1>4, <1>5, <1>8, <1>9, <1>10, Typed DEF Sound
<1> QED
  BY <1>2, <1>3, <1>6, <1>7, <1>11, OthersStand

\* settleSubmission: one fewer is in flight, and the last one closes drained.
LEMMA SettleKeeps ==
    ASSUME IInv, NEW r \in Runs, NEW i \in Ids, Record(r, i) \/ SinkFails(r, i)
    PROVE  IInv'
<1>1. PICK state \in ItemStates :
          /\ item' = [item EXCEPT ![r][i] = state]
          /\ \/ item[r][i] = "stored" /\ state = "accepted" /\ failure' = failure
             \/ item[r][i] = "refused by sink" /\ state = "unsafe" /\ failure' = failure
             \/ item[r][i] = "submitting" /\ state = "failed" /\ failure' = [failure EXCEPT ![r] = TRUE]
  BY Typed DEF Record, SinkFails, ItemStates
<1>2. /\ UNCHANGED <<checkpoint, sources, phase, previous, proposed, complete, worker>>
      /\ Settle(r)
  BY DEF Record, SinkFails
<1>3. /\ item' \in [Runs -> [Ids -> ItemStates]] /\ item'[r][i] = state
      /\ \A j \in Ids : j # i => item'[r][j] = item[r][j]
      /\ \A q \in Runs \ {r} : item'[q] = item[q]
  BY <1>1, ItemMoves
<1>4. Flying(r) \in SUBSET Ids /\ i \in Flying(r) /\ Flying(r)' = Flying(r) \ {i}
  BY <1>1, <1>3 DEF Flying
<1>5. inFlight[r] = Cardinality(Flying(r)) /\ inFlight[r] \in Nat
  BY Typed DEF Sound
<1>6. Cardinality(Flying(r)') = inFlight[r] - 1 /\ inFlight[r] - 1 \in Nat
      /\ (inFlight[r] - 1 = 0 <=> Flying(r)' = {})
  <2>1. Cardinality(Flying(r) \ {i}) = Cardinality(Flying(r)) - 1
    BY <1>4, FlyingIsFinite, FS_RemoveElement
  <2>2. PICK S \in SUBSET Ids : S = Flying(r) \ {i}
    BY <1>4
  <2>3. Cardinality(S) \in Nat /\ (Cardinality(S) = 0 <=> S = {})
    BY FlyingIsFinite
  <2> QED
    BY <1>4, <1>5, <2>1, <2>2, <2>3
<1>7. ~drained[r] /\ phase[r] \notin {"idle", "drained", "deciding", "saving"}
  BY <1>4, Typed DEF Sound
<1>8. /\ inFlight' \in [Runs -> Nat] /\ inFlight'[r] = inFlight[r] - 1
      /\ \A q \in Runs \ {r} : inFlight'[q] = inFlight[q]
  BY <1>2, <1>6, Typed DEF Settle
<1>9. /\ drained' \in [Runs -> BOOLEAN]
      /\ drained'[r] => phase[r] # "running" /\ inFlight[r] - 1 = 0
      /\ \A q \in Runs \ {r} : drained'[q] = drained[q]
  BY <1>2, <1>7, Typed DEF Settle, FinishDrain, Open
<1>10. /\ failure' \in [Runs -> BOOLEAN] /\ (failure[r] => failure'[r])
       /\ (state = "failed" => failure'[r])
       /\ \A q \in Runs \ {r} : failure'[q] = failure[q]
  BY <1>1, Typed
<1>11. TypeOK'
  BY <1>2, <1>3, <1>8, <1>9, <1>10 DEF IInv, TypeOK
<1>12. \A j \in Ids : /\ item'[r][j] \in {"stored", "accepted"} => j \in sources'
                      /\ item'[r][j] = "failed" => failure'[r]
                      /\ item'[r][j] = "refusing" => item[r][j] = "refusing"
  <2> TAKE j \in Ids
  <2>1. CASE j = i
    BY <1>1, <1>2, <1>3, <1>10, <2>1, Kept
  <2>2. CASE j # i
    BY <1>2, <1>3, <1>10, <2>2, Kept
  <2> QED
    BY <2>1, <2>2
<1>13. Claimed(r)' = Claimed(r)
  BY <1>1, <1>3 DEF Claimed
<1>14. drained'[r] => Flying(r)' = {} /\ phase'[r] \notin {"idle", "running"}
  BY <1>2, <1>6, <1>7, <1>9
<1>15. phase'[r] \in Returned =>
          /\ proposed'[r] # Absent
          /\ Wire(previous'[r]) <= proposed'[r]
          /\ (Wire(previous'[r]) + 1)..proposed'[r] \subseteq Claimed(r)'
          /\ AwaitsRefusals => \A j \in Ids : item'[r][j] # "refusing"
  BY <1>2, <1>12, <1>13, Typed DEF Sound
<1>16. Sound(r)'
  BY <1>2, <1>6, <1>7, <1>8, <1>12, <1>14, <1>15 DEF Sound
<1> QED
  BY <1>2, <1>3, <1>8, <1>9, <1>10, <1>11, <1>16, OthersStand

\* A step of Run itself: it leaves the items and the counter of its session.
LEMMA RunMoves ==
    ASSUME IInv, NEW r \in Runs, NEW to \in {"idle", "running", "draining", "drained",
                                             "deciding", "saving", "ended"},
           NEW pv \in Checkpoints, NEW pp \in Checkpoints, NEW dr \in BOOLEAN,
           phase' = [phase EXCEPT ![r] = to],
           previous' = [previous EXCEPT ![r] = pv], proposed' = [proposed EXCEPT ![r] = pp],
           drained' = [drained EXCEPT ![r] = dr],
           complete' \in [Runs -> BOOLEAN], checkpoint' \in Checkpoints,
           UNCHANGED <<sources, item, failure, inFlight, worker>>,
           to = "idle" => Flying(r) = {},
           dr => Flying(r) = {} /\ to \notin {"idle", "running"},
           to \in {"drained", "deciding", "saving"} => dr,
           to \in {"deciding", "saving"} => ~failure[r],
           to \in Returned =>
              /\ pp # Absent /\ Wire(pv) <= pp
              /\ (Wire(pv) + 1)..pp \subseteq Claimed(r)
              /\ AwaitsRefusals => \A i \in Ids : item[r][i] # "refusing",
           to = "saving" /\ AwaitsRefusals => \A i \in Ids : item[r][i] # "unsafe"
    PROVE  IInv'
<1>1. /\ phase'[r] = to /\ previous'[r] = pv /\ proposed'[r] = pp /\ drained'[r] = dr
      /\ \A q \in Runs \ {r} :
            /\ phase'[q] = phase[q] /\ previous'[q] = previous[q] /\ proposed'[q] = proposed[q]
            /\ drained'[q] = drained[q]
  BY Typed
<1>2. /\ phase' \in [Runs -> {"idle", "running", "draining", "drained", "deciding", "saving", "ended"}]
      /\ previous' \in [Runs -> Checkpoints] /\ proposed' \in [Runs -> Checkpoints]
      /\ drained' \in [Runs -> BOOLEAN]
  BY Typed
<1>3. TypeOK'
  BY <1>2 DEF IInv, TypeOK
<1>4. Flying(r)' = Flying(r) /\ Claimed(r)' = Claimed(r)
  BY DEF Flying, Claimed
<1>5. Sound(r)'
  BY <1>1, <1>4, Typed DEF Sound
<1> QED
  BY <1>1, <1>3, <1>5, OthersStand

LEMMA LoadKeeps ==
    ASSUME IInv, NEW r \in Runs, Load(r)
    PROVE  IInv'
<1>1. /\ phase[r] = "idle" /\ phase' = [phase EXCEPT ![r] = "running"]
      /\ previous' = [previous EXCEPT ![r] = checkpoint]
      /\ UNCHANGED <<checkpoint, sources, proposed, complete, item, failure, inFlight, drained, worker>>
  BY DEF Load
<1>2. ~drained[r]
  BY <1>1, Typed DEF Sound
<1>3. proposed' = [proposed EXCEPT ![r] = proposed[r]] /\ drained' = [drained EXCEPT ![r] = FALSE]
      /\ complete' \in [Runs -> BOOLEAN] /\ checkpoint' \in Checkpoints
      /\ checkpoint \in Checkpoints /\ proposed[r] \in Checkpoints
  BY <1>1, <1>2, Typed
<1> QED
  BY <1>1, <1>3, RunMoves DEF Returned

LEMMA ReturnKeeps ==
    ASSUME IInv, NEW r \in Runs, NEW status \in BOOLEAN, NEW value \in 0..Items, Return(r, status, value)
    PROVE  IInv'
<1> DEFINE dr == inFlight[r] = 0
<1>1. /\ phase' = [phase EXCEPT ![r] = "draining"] /\ proposed' = [proposed EXCEPT ![r] = value]
      /\ complete' = [complete EXCEPT ![r] = status] /\ drained' = [drained EXCEPT ![r] = dr]
      /\ UNCHANGED <<checkpoint, sources, previous, item, failure, inFlight, worker>>
  BY DEF Return, FinishDrain
<1>2. /\ value >= Wire(previous[r]) /\ (Wire(previous[r]) + 1)..value \subseteq Claimed(r)
      /\ AwaitsRefusals => \A i \in Ids : item[r][i] # "refusing"
  BY DEF Return
<1>3. value # Absent /\ value \in Checkpoints /\ Wire(previous[r]) <= value
  BY <1>2, Wired, Typed
<1>4. dr \in BOOLEAN /\ (dr => Flying(r) = {})
  <2>1. inFlight[r] = Cardinality(Flying(r)) /\ Flying(r) \in SUBSET Ids
    BY Typed DEF Sound, Flying
  <2> QED
    BY <2>1, FlyingIsFinite
<1>5. previous' = [previous EXCEPT ![r] = previous[r]] /\ previous[r] \in Checkpoints
      /\ complete' \in [Runs -> BOOLEAN] /\ checkpoint' \in Checkpoints
  BY <1>1, Typed
<1> HIDE DEF dr
<1> QED
  BY <1>1, <1>2, <1>3, <1>4, <1>5, RunMoves

\* Run returns, with or without having saved.
LEMMA EndsKeeps ==
    ASSUME IInv, NEW r \in Runs, Ends(r), NEW dr \in BOOLEAN, drained' = [drained EXCEPT ![r] = dr],
           dr => Flying(r) = {}, checkpoint' \in Checkpoints,
           UNCHANGED <<sources, item, failure, inFlight, worker>>
    PROVE  IInv'
<1>1. complete' \in [Runs -> BOOLEAN]
  BY Typed DEF Ends
<1>2. Absent \in Checkpoints
  BY Wired
<1> QED
  BY <1>1, <1>2, RunMoves DEF Ends, Returned

LEMMA AbortKeeps ==
    ASSUME IInv, NEW r \in Runs, Abort(r)
    PROVE  IInv'
<1> DEFINE dr == drained[r] \/ inFlight[r] = 0
<1>1. /\ Ends(r) /\ drained' = [drained EXCEPT ![r] = dr]
      /\ UNCHANGED <<checkpoint, sources, item, failure, inFlight, worker>>
  BY DEF Abort, FinishDrain
<1>2. dr \in BOOLEAN /\ (dr => Flying(r) = {})
  <2>1. inFlight[r] = Cardinality(Flying(r)) /\ Flying(r) \in SUBSET Ids /\ (drained[r] => Flying(r) = {})
    BY Typed DEF Sound, Flying
  <2>2. drained[r] \in BOOLEAN
    BY Typed
  <2> QED
    BY <2>1, <2>2, FlyingIsFinite
<1>3. checkpoint' \in Checkpoints
  BY <1>1, Typed
<1> HIDE DEF dr
<1> QED
  BY <1>1, <1>2, <1>3, EndsKeeps

\* The steps after the drain.
LEMMA AfterwardsKeeps ==
    ASSUME IInv, NEW r \in Runs, Drain(r) \/ CheckFailure(r) \/ Decide(r) \/ SaveRun(r)
    PROVE  IInv'
<1>1. UNCHANGED <<sources, item, failure, inFlight, drained, worker>>
  BY DEF Drain, CheckFailure, Decide, SaveRun, Keeps
<1>2. phase[r] \in Returned /\ checkpoint' \in Checkpoints
  BY Typed DEF Drain, CheckFailure, Decide, SaveRun, Save, Keeps, Returned
<1>3. /\ drained' = [drained EXCEPT ![r] = drained[r]] /\ drained[r] \in BOOLEAN
      /\ drained[r] => Flying(r) = {}
      /\ phase[r] \in {"drained", "deciding", "saving"} => drained[r]
  BY <1>1, Typed DEF Sound
<1>4. CASE Ends(r)
  BY <1>1, <1>2, <1>3, <1>4, EndsKeeps
<1>5. ASSUME NEW to \in {"drained", "deciding", "saving"}, Goes(r, to), drained[r],
             to \in {"deciding", "saving"} => ~failure[r],
             to = "saving" => \A i \in Ids : item[r][i] # "unsafe"
      PROVE  IInv'
  <2>1. /\ phase' = [phase EXCEPT ![r] = to]
        /\ previous' = [previous EXCEPT ![r] = previous[r]] /\ previous[r] \in Checkpoints
        /\ proposed' = [proposed EXCEPT ![r] = proposed[r]] /\ proposed[r] \in Checkpoints
        /\ complete' \in [Runs -> BOOLEAN]
    BY <1>5, Typed DEF Goes
  <2>2. /\ proposed[r] # Absent /\ Wire(previous[r]) <= proposed[r]
        /\ (Wire(previous[r]) + 1)..proposed[r] \subseteq Claimed(r)
        /\ AwaitsRefusals => \A i \in Ids : item[r][i] # "refusing"
    BY <1>2, Typed DEF Sound
  <2> QED
    BY <1>1, <1>2, <1>3, <1>5, <2>1, <2>2, RunMoves
<1>6. CASE Drain(r)
  BY <1>5, <1>6 DEF Drain
<1>7. CASE CheckFailure(r)
  <2>1. drained[r]
    BY <1>3, <1>7 DEF CheckFailure
  <2> QED
    BY <1>4, <1>5, <1>7, <2>1 DEF CheckFailure
<1>8. CASE Decide(r)
  <2>1. drained[r] /\ ~failure[r]
    BY <1>3, <1>8, Typed DEF Decide, Sound
  <2>2. CASE Advances(r)
    BY <1>5, <1>8, <2>1, <2>2 DEF Decide, Advances
  <2>3. CASE ~Advances(r)
    BY <1>4, <1>8, <2>3 DEF Decide
  <2> QED
    BY <2>2, <2>3
<1>9. CASE SaveRun(r)
  BY <1>4, <1>9 DEF SaveRun
<1> QED
  BY <1>6, <1>7, <1>8, <1>9

LEMMA AgainKeeps ==
    ASSUME IInv, NEW r \in Runs, Again(r)
    PROVE  IInv'
<1>1. /\ phase[r] = "ended" /\ inFlight[r] = 0
      /\ phase' = [phase EXCEPT ![r] = "idle"] /\ item' = [item EXCEPT ![r] = Fresh]
      /\ failure' = [failure EXCEPT ![r] = FALSE] /\ drained' = [drained EXCEPT ![r] = FALSE]
      /\ UNCHANGED <<checkpoint, sources, previous, proposed, complete, inFlight, worker>>
  BY DEF Again
<1>2. Fresh \in [Ids -> ItemStates]
  BY DEF Fresh, ItemStates
<1>3. /\ phase'[r] = "idle" /\ item'[r] = Fresh /\ failure'[r] = FALSE /\ drained'[r] = FALSE
      /\ \A q \in Runs \ {r} : /\ phase'[q] = phase[q] /\ item'[q] = item[q]
                               /\ failure'[q] = failure[q] /\ drained'[q] = drained[q]
  BY <1>1, Typed
<1>4. TypeOK'
  <2>1. /\ phase' \in [Runs -> {"idle", "running", "draining", "drained", "deciding", "saving", "ended"}]
        /\ item' \in [Runs -> [Ids -> ItemStates]]
        /\ failure' \in [Runs -> BOOLEAN] /\ drained' \in [Runs -> BOOLEAN]
    BY <1>1, <1>2, Typed
  <2> QED
    BY <1>1, <2>1 DEF IInv, TypeOK
<1>5. \A i \in Ids : item'[r][i] = "new"
  BY <1>3 DEF Fresh
<1>6. Flying(r)' = {}
  BY <1>5 DEF Flying
<1>7. Cardinality(Flying(r)') = 0
  BY <1>6, FS_EmptySet
<1>8. Sound(r)'
  BY <1>1, <1>3, <1>5, <1>6, <1>7 DEF Sound, Returned
<1> QED
  BY <1>1, <1>3, <1>4, <1>8, OthersStand

\* A step of a worker leaves the runs alone.
LEMMA WorkerKeeps ==
    ASSUME IInv, NEW w \in Workers,
           WorkerGets(w) \/ WorkerSubmits(w) \/ CommitLoads(w) \/ CommitSaves(w)
    PROVE  IInv'
<1> DEFINE Records == [at : {"idle", "working", "committing"}, expected : 0..Items,
                       actual : Checkpoints, next : 0..Items]
<1>1. /\ worker \in [Workers -> Records] /\ checkpoint \in Checkpoints /\ sources \subseteq Ids
      /\ worker[w] \in Records
  BY DEF IInv, TypeOK
<1>2. /\ worker[w].expected \in 0..Items /\ worker[w].next \in 0..Items
      /\ worker[w].actual \in Checkpoints /\ worker[w].expected <= worker[w].next
  BY <1>1 DEF IInv, Honest
<1>3. Idle \in Records /\ Idle.expected = 0 /\ Idle.next = 0 /\ Idle.at = "idle"
  BY Wired DEF Idle
<1>4. PICK k \in Records : /\ worker' = [worker EXCEPT ![w] = k] /\ k.expected <= k.next
                           /\ k.at = "committing" => Wire(k.actual) = k.expected
  <2>1. CASE WorkerGets(w)
    <3> DEFINE k == [worker[w] EXCEPT !.at = "working", !.expected = Wire(checkpoint),
                                      !.next = Wire(checkpoint)]
    <3>1. Wire(checkpoint) \in 0..Items
      BY <1>1, Wired
    <3>2. k \in Records /\ k.at = "working" /\ k.expected = Wire(checkpoint) /\ k.next = Wire(checkpoint)
      BY <1>1, <3>1
    <3>3. worker' = [worker EXCEPT ![w] = k]
      BY <1>1, <2>1 DEF WorkerGets
    <3>4. Wire(checkpoint) <= Wire(checkpoint)
      BY <3>1
    <3> HIDE DEF k
    <3> QED
      BY <3>2, <3>3, <3>4
  <2>2. CASE WorkerSubmits(w)
    <3> DEFINE k == [worker[w] EXCEPT !.next = @ + 1]
    <3>1. worker[w].next < Items /\ worker[w].at = "working" /\ worker' = [worker EXCEPT ![w] = k]
      BY <1>1, <2>2 DEF WorkerSubmits
    <3>2. worker[w].next + 1 \in 0..Items /\ worker[w].expected <= worker[w].next + 1
      BY <1>2, <3>1, ConnectorAssumption
    <3>3. /\ k \in Records /\ k.at = "working" /\ k.expected = worker[w].expected
          /\ k.next = worker[w].next + 1
      BY <1>1, <3>1, <3>2
    <3> HIDE DEF k
    <3> QED
      BY <3>1, <3>2, <3>3
  <2>3. CASE CommitLoads(w) /\ Wire(checkpoint) = worker[w].expected
    <3> DEFINE k == [worker[w] EXCEPT !.at = "committing", !.actual = checkpoint]
    <3>1. worker' = [worker EXCEPT ![w] = k]
      BY <2>3 DEF CommitLoads
    <3>2. /\ k \in Records /\ k.actual = checkpoint /\ k.expected = worker[w].expected
          /\ k.next = worker[w].next
      BY <1>1
    <3> HIDE DEF k
    <3> QED
      BY <1>2, <2>3, <3>1, <3>2
  <2>4. CASE CommitSaves(w) \/ (CommitLoads(w) /\ Wire(checkpoint) # worker[w].expected)
    <3>1. worker' = [worker EXCEPT ![w] = Idle]
      BY <2>4 DEF CommitSaves, CommitLoads
    <3>2. Idle.expected <= Idle.next
      BY <1>3
    <3> QED
      BY <1>3, <3>1, <3>2
  <2> QED
    BY <2>1, <2>2, <2>3, <2>4
<1> HIDE DEF Records
<1>5. /\ worker' \in [Workers -> Records] /\ worker'[w] = k
      /\ \A x \in Workers : x # w => worker'[x] = worker[x]
  BY <1>1, <1>4
<1>6. /\ UNCHANGED session
      /\ sources \subseteq sources'
  BY DEF WorkerGets, WorkerSubmits, CommitLoads, CommitSaves
<1>7. sources' \subseteq Ids
  <2>1. worker[w].next < Items => worker[w].next + 1 \in Ids
    BY <1>2, ConnectorAssumption DEF Ids
  <2> QED
    BY <1>1, <2>1 DEF WorkerGets, WorkerSubmits, CommitLoads, CommitSaves
<1>8. checkpoint' \in Checkpoints
  <2>1. worker[w].next \in Checkpoints
    BY <1>2, Wired
  <2> QED
    BY <1>1, <2>1 DEF WorkerGets, WorkerSubmits, CommitLoads, CommitSaves, Save
<1>9. UNCHANGED <<phase, previous, proposed, complete, item, failure, inFlight, drained>>
  BY <1>6 DEF session
<1>10. TypeOK'
  BY <1>5, <1>7, <1>8, <1>9 DEF IInv, TypeOK, Records
<1>11. ASSUME NEW r \in Runs PROVE Sound(r)'
  <2>1. Flying(r)' = Flying(r) /\ Claimed(r)' = Claimed(r)
    BY <1>9 DEF Flying, Claimed
  <2>2. Sound(r)
    BY DEF IInv
  <2> QED
    BY <1>6, <1>9, <2>1, <2>2 DEF Sound
<1>12. ASSUME NEW x \in Workers PROVE Honest(x)'
  <2>1. CASE x = w
    BY <1>4, <1>5, <2>1 DEF Honest
  <2>2. CASE x # w
    BY <1>5, <2>2 DEF IInv, Honest
  <2> QED
    BY <2>1, <2>2
<1> QED
  BY <1>10, <1>11, <1>12 DEF IInv

LEMMA Starts == Init => IInv
<1> SUFFICES ASSUME Init PROVE IInv
  OBVIOUS
<1>1. Fresh \in [Ids -> ItemStates]
  BY DEF Fresh, ItemStates
<1>2. Idle \in [at : {"idle", "working", "committing"}, expected : 0..Items,
                actual : Checkpoints, next : 0..Items]
  BY Wired DEF Idle
<1>3. TypeOK
  BY <1>1, <1>2, Wired DEF Init, TypeOK
<1>4. ASSUME NEW r \in Runs PROVE Sound(r)
  <2>1. \A i \in Ids : item[r][i] = "new"
    BY DEF Init, Fresh
  <2>2. Flying(r) = {}
    BY <2>1 DEF Flying
  <2>3. Cardinality(Flying(r)) = 0
    BY <2>2, FS_EmptySet
  <2> QED
    BY <2>1, <2>2, <2>3 DEF Init, Sound, Returned
<1>5. \A w \in Workers : Honest(w)
  BY DEF Init, Idle, Honest
<1> QED
  BY <1>3, <1>4, <1>5 DEF IInv

LEMMA StepKeeps == IInv /\ [Next]_vars => IInv'
<1> SUFFICES ASSUME IInv, [Next]_vars PROVE IInv'
  OBVIOUS
<1>1. ASSUME NEW r \in Runs, Load(r) \/ Abort(r) \/ Again(r) PROVE IInv'
  BY <1>1, LoadKeeps, AbortKeeps, AgainKeeps
<1>2. ASSUME NEW r \in Runs, NEW i \in Ids, Submit(r, i) \/ Refuse(r, i) \/ ClaimFails(r, i) PROVE IInv'
  BY <1>2, ClaimKeeps, ClaimFailsKeeps
<1>3. ASSUME NEW r \in Runs, NEW status \in BOOLEAN, NEW value \in 0..Items, Return(r, status, value)
      PROVE  IInv'
  BY <1>3, ReturnKeeps
<1>4. ASSUME NEW r \in Runs, Step(r) PROVE IInv'
  BY <1>4, AnswerKeeps, SettleKeeps, AfterwardsKeeps DEF Step
<1>5. ASSUME NEW w \in Workers, WorkerGets(w) \/ WorkerSubmits(w) \/ CommitLoads(w) \/ CommitSaves(w)
      PROVE  IInv'
  BY <1>5, WorkerKeeps
<1>6. CASE UNCHANGED vars
  <2>1. UNCHANGED <<checkpoint, sources, phase, previous, proposed, complete, item, failure,
                    inFlight, drained, worker>>
    BY <1>6 DEF vars, session
  <2>2. ASSUME NEW r \in Runs PROVE Sound(r)'
    <3>1. Flying(r)' = Flying(r) /\ Claimed(r)' = Claimed(r)
      BY <2>1 DEF Flying, Claimed
    <3> QED
      BY <2>1, <3>1, Typed DEF Sound
  <2>3. TypeOK' /\ \A w \in Workers : Honest(w)'
    BY <2>1 DEF IInv, TypeOK, Honest
  <2> QED
    BY <2>2, <2>3 DEF IInv
<1> QED
  BY <1>1, <1>2, <1>3, <1>4, <1>5, <1>6 DEF Next

\* The session's counter and its channel are exact in every reachable state.
THEOREM SessionsAreSound == Spec => []IInv
BY Starts, StepKeeps, PTL DEF Spec

\* Sessions, rows and workers keep the types of the code.
THEOREM TypeCorrect == Spec => []TypeOK
<1>1. IInv => TypeOK
  BY DEF IInv
<1> QED
  BY <1>1, SessionsAreSound, PTL
-----------------------------------------------------------------------------
\* The two steps that write the row, and what they write.
LEMMA Writes ==
    ASSUME IInv, [Next]_vars, checkpoint' # checkpoint
    PROVE  \/ \E r \in Runs : /\ phase[r] = "saving" /\ checkpoint = previous[r]
                              /\ checkpoint' = proposed[r]
           \/ \E w \in Workers : /\ worker[w].at = "committing" /\ checkpoint = worker[w].actual
                                 /\ checkpoint' = worker[w].next
<1>1. ASSUME NEW r \in Runs, SaveRun(r)
      PROVE  phase[r] = "saving" /\ checkpoint = previous[r] /\ checkpoint' = proposed[r]
  BY <1>1 DEF SaveRun, Save
<1>2. ASSUME NEW w \in Workers, CommitSaves(w)
      PROVE  worker[w].at = "committing" /\ checkpoint = worker[w].actual /\ checkpoint' = worker[w].next
  BY <1>2 DEF CommitSaves, Save
<1>3. (\E r \in Runs : SaveRun(r)) \/ (\E w \in Workers : CommitSaves(w))
  <2>1. \A r \in Runs : ~(Load(r) \/ Abort(r) \/ Again(r))
    BY DEF Load, Abort, Again
  <2>2. \A r \in Runs, i \in Ids : ~(Submit(r, i) \/ Refuse(r, i) \/ ClaimFails(r, i))
    BY DEF Submit, Refuse, Claim, ClaimFails
  <2>3. \A r \in Runs, status \in BOOLEAN, value \in 0..Items : ~Return(r, status, value)
    BY DEF Return
  <2>4. \A r \in Runs, i \in Ids : ~(SinkStores(r, i) \/ SinkRejects(r, i) \/ SinkFails(r, i)
                                     \/ Record(r, i) \/ RecordRefusal(r, i))
    BY DEF SinkStores, SinkRejects, SinkFails, Record, RecordRefusal
  <2>5. \A r \in Runs : ~(Drain(r) \/ CheckFailure(r) \/ Decide(r))
    BY DEF Drain, CheckFailure, Decide, Keeps
  <2>6. \A w \in Workers : ~(WorkerGets(w) \/ WorkerSubmits(w) \/ CommitLoads(w))
    BY DEF WorkerGets, WorkerSubmits, CommitLoads
  <2>7. Next
    BY DEF vars
  <2> QED
    BY <2>1, <2>2, <2>3, <2>4, <2>5, <2>6, <2>7 DEF Next, Step
<1> QED
  BY <1>1, <1>2, <1>3

\* ConnectorCheckpointRepository.Save and the comparison Commit makes before it
\* never undo a later checkpoint, whoever saves and however late.
THEOREM CheckpointAdvances == Spec => CheckpointOnlyAdvances
<1>1. ASSUME IInv, [Next]_vars, checkpoint' # checkpoint
      PROVE  checkpoint' # Absent /\ Wire(checkpoint) <= checkpoint'
  <2>1. ASSUME NEW r \in Runs, phase[r] = "saving", checkpoint = previous[r], checkpoint' = proposed[r]
        PROVE  checkpoint' # Absent /\ Wire(checkpoint) <= checkpoint'
    BY <1>1, <2>1, Typed DEF Sound, Returned
  <2>2. ASSUME NEW w \in Workers, worker[w].at = "committing", checkpoint = worker[w].actual,
               checkpoint' = worker[w].next
        PROVE  checkpoint' # Absent /\ Wire(checkpoint) <= checkpoint'
    <3>1. Honest(w) /\ worker[w].next \in 0..Items
      BY <1>1 DEF IInv, TypeOK
    <3> QED
      BY <2>2, <3>1, Wired DEF Honest
  <2> QED
    BY <1>1, <2>1, <2>2, Writes
<1>2. IInv /\ [Next]_vars =>
         [checkpoint' # checkpoint => checkpoint' # Absent /\ Wire(checkpoint) <= checkpoint']_vars
  BY <1>1
<1> QED
  BY <1>2, SessionsAreSound, PTL DEF Spec, CheckpointOnlyAdvances
-----------------------------------------------------------------------------
\* Whatever holds a checkpoint, for the row, a run or a worker, holds one whose
\* items are stored.
Covered ==
    /\ 1..Wire(checkpoint) \subseteq sources
    /\ \A r \in Runs : 1..Wire(previous[r]) \subseteq sources
    /\ \A w \in Workers : 1..worker[w].next \subseteq sources

\* A run that saves has had every item it passes accepted by the sink.
LEMMA SavesCovered ==
    ASSUME IInv, Covered, AwaitsRefusals, NEW r \in Runs, phase[r] = "saving"
    PROVE  proposed[r] \in 0..Items /\ 1..proposed[r] \subseteq sources
<1>1. /\ proposed[r] # Absent /\ Wire(previous[r]) <= proposed[r]
      /\ (Wire(previous[r]) + 1)..proposed[r] \subseteq Claimed(r)
      /\ \A i \in Ids : item[r][i] # "refusing" /\ item[r][i] # "unsafe"
      /\ drained[r] /\ ~failure[r] /\ Flying(r) = {}
  BY Typed DEF Sound, Returned
<1>2. \A i \in Claimed(r) : i \in sources
  <2> TAKE i \in Claimed(r)
  <2>1. i \in Ids /\ item[r][i] # "new" /\ item[r][i] \in ItemStates
    BY Typed DEF Claimed
  <2>2. item[r][i] \notin {"submitting", "stored", "refused by sink"}
    BY <1>1, <2>1 DEF Flying
  <2>3. item[r][i] # "failed"
    BY <1>1, <2>1, Kept
  <2>4. item[r][i] = "accepted"
    BY <1>1, <2>1, <2>2, <2>3 DEF ItemStates
  <2> QED
    BY <2>1, <2>4, Kept
<1>3. proposed[r] \in 0..Items /\ Wire(previous[r]) \in 0..Items
  BY <1>1, Typed, Wired DEF Checkpoints
<1>4. 1..Wire(previous[r]) \subseteq sources
  BY DEF Covered
<1>5. \A i \in 1..proposed[r] : i \in 1..Wire(previous[r]) \/ i \in (Wire(previous[r]) + 1)..proposed[r]
  BY <1>3
<1> QED
  BY <1>1, <1>2, <1>3, <1>4, <1>5

LEMMA CoveredStarts == Init => Covered
<1> SUFFICES ASSUME Init PROVE Covered
  OBVIOUS
<1>1. 1..0 = {} /\ Wire(Absent) = 0
  BY Wired
<1> QED
  BY <1>1 DEF Init, Idle, Covered

LEMMA CoveredStands ==
    ASSUME AwaitsRefusals, IInv, Covered, [Next]_vars
    PROVE  Covered'
<1>1. sources \subseteq sources'
  <2>1. \A r \in Runs : Load(r) \/ Abort(r) \/ Again(r) => sources' = sources
    BY DEF Load, Abort, Again
  <2>2. \A r \in Runs, i \in Ids : Submit(r, i) \/ Refuse(r, i) \/ ClaimFails(r, i) => sources' = sources
    BY DEF Submit, Refuse, Claim, ClaimFails
  <2>3. \A r \in Runs, status \in BOOLEAN, value \in 0..Items :
            Return(r, status, value) => sources' = sources
    BY DEF Return
  <2>4. \A r \in Runs, i \in Ids : SinkStores(r, i) \/ SinkRejects(r, i) \/ SinkFails(r, i)
                                   \/ Record(r, i) \/ RecordRefusal(r, i) => sources \subseteq sources'
    BY DEF SinkStores, SinkRejects, SinkFails, Record, RecordRefusal
  <2>5. \A r \in Runs : Drain(r) \/ CheckFailure(r) \/ Decide(r) \/ SaveRun(r) => sources' = sources
    BY DEF Drain, CheckFailure, Decide, SaveRun, Keeps
  <2>6. \A w \in Workers : WorkerGets(w) \/ WorkerSubmits(w) \/ CommitLoads(w) \/ CommitSaves(w)
                           => sources \subseteq sources'
    BY DEF WorkerGets, WorkerSubmits, CommitLoads, CommitSaves
  <2>7. UNCHANGED vars => sources' = sources
    BY DEF vars
  <2> QED
    BY <2>1, <2>2, <2>3, <2>4, <2>5, <2>6, <2>7 DEF Next, Step
<1>2. 1..Wire(checkpoint') \subseteq sources'
  <2>1. CASE checkpoint' = checkpoint
    BY <1>1, <2>1 DEF Covered
  <2>2. ASSUME NEW r \in Runs, phase[r] = "saving", checkpoint' = proposed[r]
        PROVE  1..Wire(checkpoint') \subseteq sources'
    <3>1. Wire(checkpoint') = proposed[r] /\ 1..proposed[r] \subseteq sources
      BY <2>2, SavesCovered, Wired
    <3> QED
      BY <1>1, <3>1
  <2>3. ASSUME NEW w \in Workers, checkpoint' = worker[w].next
        PROVE  1..Wire(checkpoint') \subseteq sources'
    <3>1. worker[w].next \in 0..Items
      BY DEF IInv, TypeOK
    <3>2. Wire(checkpoint') = worker[w].next /\ 1..worker[w].next \subseteq sources
      BY <2>3, <3>1, Wired DEF Covered
    <3> QED
      BY <1>1, <3>2
  <2> QED
    BY <2>1, <2>2, <2>3, Writes
<1>3. ASSUME NEW r \in Runs PROVE previous'[r] \in {previous[r], checkpoint, Absent}
  <2>1. previous \in [Runs -> Checkpoints]
    BY Typed
  <2>2. \A q \in Runs : Load(q) \/ Abort(q) \/ Again(q) => previous'[r] \in {previous[r], checkpoint, Absent}
    BY <2>1 DEF Load, Abort, Ends, Again
  <2>3. \A q \in Runs, i \in Ids : Submit(q, i) \/ Refuse(q, i) \/ ClaimFails(q, i) => previous' = previous
    BY DEF Submit, Refuse, Claim, ClaimFails
  <2>4. \A q \in Runs, status \in BOOLEAN, value \in 0..Items :
            Return(q, status, value) => previous' = previous
    BY DEF Return
  <2>5. \A q \in Runs, i \in Ids : SinkStores(q, i) \/ SinkRejects(q, i) \/ SinkFails(q, i)
                                   \/ Record(q, i) \/ RecordRefusal(q, i) => previous' = previous
    BY DEF SinkStores, SinkRejects, SinkFails, Record, RecordRefusal
  <2>6. \A q \in Runs : Drain(q) \/ CheckFailure(q) \/ Decide(q) \/ SaveRun(q)
                        => previous'[r] \in {previous[r], Absent}
    BY <2>1 DEF Drain, CheckFailure, Decide, SaveRun, Goes, Ends
  <2>7. \A w \in Workers : WorkerGets(w) \/ WorkerSubmits(w) \/ CommitLoads(w) \/ CommitSaves(w)
                           => previous' = previous
    BY DEF WorkerGets, WorkerSubmits, CommitLoads, CommitSaves, session
  <2>8. UNCHANGED vars => previous' = previous
    BY DEF vars, session
  <2> QED
    BY <2>2, <2>3, <2>4, <2>5, <2>6, <2>7, <2>8 DEF Next, Step
<1>4. ASSUME NEW r \in Runs PROVE 1..Wire(previous'[r]) \subseteq sources'
  <2>1. 1..Wire(Absent) = {}
    BY Wired
  <2> QED
    BY <1>1, <1>3, <2>1 DEF Covered
<1>5. ASSUME NEW w \in Workers PROVE 1..worker'[w].next \subseteq sources'
  <2>1. /\ worker \in [Workers -> [at : {"idle", "working", "committing"}, expected : 0..Items,
                                   actual : Checkpoints, next : 0..Items]]
        /\ 1..0 = {} /\ Idle.next = 0
    BY DEF IInv, TypeOK, Idle
  <2>2. CASE worker'[w].next = worker[w].next
    BY <1>1, <2>2 DEF Covered
  <2>3. CASE worker'[w].next = Wire(checkpoint)
    BY <1>1, <2>3 DEF Covered
  <2>4. CASE worker'[w].next = 0
    BY <2>1, <2>4
  <2>5. CASE WorkerSubmits(w)
    <3>1. worker'[w].next = worker[w].next + 1 /\ worker[w].next + 1 \in sources'
      BY <2>1, <2>5 DEF WorkerSubmits
    <3>2. worker[w].next \in Nat
      BY <2>1
    <3>3. \A i \in 1..(worker[w].next + 1) : i \in 1..worker[w].next \/ i = worker[w].next + 1
      BY <3>2
    <3> QED
      BY <1>1, <3>1, <3>3 DEF Covered
  <2>6. ASSUME NEW x \in Workers, x # w,
               WorkerGets(x) \/ WorkerSubmits(x) \/ CommitLoads(x) \/ CommitSaves(x)
        PROVE  worker'[w] = worker[w]
    BY <2>1, <2>6 DEF WorkerGets, WorkerSubmits, CommitLoads, CommitSaves
  <2>7. WorkerGets(w) => worker'[w].next = Wire(checkpoint)
    BY <2>1 DEF WorkerGets
  <2>8. CommitSaves(w) => worker'[w].next = 0
    BY <2>1 DEF CommitSaves
  <2>9. CommitLoads(w) => worker'[w].next \in {worker[w].next, 0}
    BY <2>1 DEF CommitLoads
  <2>10. \/ worker' = worker
         \/ \E x \in Workers : WorkerGets(x) \/ WorkerSubmits(x) \/ CommitLoads(x) \/ CommitSaves(x)
    <3>1. \A r \in Runs : Load(r) \/ Abort(r) \/ Again(r) => worker' = worker
      BY DEF Load, Abort, Again
    <3>2. \A r \in Runs, i \in Ids : Submit(r, i) \/ Refuse(r, i) \/ ClaimFails(r, i) => worker' = worker
      BY DEF Submit, Refuse, Claim, ClaimFails
    <3>3. \A r \in Runs, status \in BOOLEAN, value \in 0..Items :
              Return(r, status, value) => worker' = worker
      BY DEF Return
    <3>4. \A r \in Runs, i \in Ids : SinkStores(r, i) \/ SinkRejects(r, i) \/ SinkFails(r, i)
                                     \/ Record(r, i) \/ RecordRefusal(r, i) => worker' = worker
      BY DEF SinkStores, SinkRejects, SinkFails, Record, RecordRefusal
    <3>5. \A r \in Runs : Drain(r) \/ CheckFailure(r) \/ Decide(r) \/ SaveRun(r) => worker' = worker
      BY DEF Drain, CheckFailure, Decide, SaveRun, Keeps
    <3>6. UNCHANGED vars => worker' = worker
      BY DEF vars
    <3> QED
      BY <3>1, <3>2, <3>3, <3>4, <3>5, <3>6 DEF Next, Step
  <2> QED
    BY <2>2, <2>3, <2>4, <2>5, <2>6, <2>7, <2>8, <2>9, <2>10
<1> QED
  BY <1>2, <1>4, <1>5 DEF Covered

\* No item is lost: what a checkpoint has passed is stored, for every Connector
\* that awaits its own Reject and Fail calls, which ConnectorSession does not
\* count as in flight.
THEOREM NoItemIsLost ==
    ASSUME AwaitsRefusals
    PROVE  Spec => []CheckpointIsCovered
<1>1. IInv /\ Covered /\ [Next]_vars => Covered'
  BY CoveredStands
<1>2. Covered => CheckpointIsCovered
  BY DEF Covered, CheckpointIsCovered
<1> QED
  BY <1>1, <1>2, CoveredStarts, SessionsAreSound, PTL DEF Spec
=============================================================================
