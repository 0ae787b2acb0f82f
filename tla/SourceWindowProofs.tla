------------------------- MODULE SourceWindowProofs -------------------------
(***************************************************************************)
(* For every number of processes, Sources, Definitions and every Limit:    *)
(* each row of the journal decodes for ever, and the two consumers hand    *)
(* each position over once, in order, whatever processes compete.          *)
(***************************************************************************)
EXTENDS SourceWindow, FiniteSetTheorems, TLAPS

-----------------------------------------------------------------------------
(* The journal *)

\* A stored position is one the head has passed.
Positioned == \A r \in Stored : rows[r].position > 0 /\ rows[r].position <= head

AcceptedAreObserved == \A r \in Stored : rows[r].accepted => rows[r].value \in Observation

JInv == JournalTypeOK /\ JournalDecodes /\ Positioned /\ AcceptedAreObserved

\* Rows are immutable: a step of the journal keeps the stored ones and adds at
\* most one, at the position after the head.
Grows ==
    /\ head' = head \/ head' = head + 1
    /\ \A r \in Stored : rows'[r] = rows[r]
    /\ \A r \in Refs \ Stored : rows'[r] # None => rows'[r].position = head + 1 /\ head' = head + 1

LEMMA InsertGrows ==
    ASSUME JInv, NEW r \in Refs, NEW value \in Payloads \cup Observation, NEW accepted \in BOOLEAN,
           Add(r, value, accepted)
    PROVE  /\ rows' \in [Refs -> Row \cup {None}] /\ head' \in Nat
           /\ Grows
           /\ \A s \in Refs : s # r => rows'[s] = rows[s]
           /\ \/ rows'[r] = [value |-> value, accepted |-> accepted, position |-> head + 1]
              \/ rows' = rows
<1>0. rows \in [Refs -> Row \cup {None}] /\ head \in Nat
  BY DEF JInv, JournalTypeOK
<1>1. CASE rows[r] # None
  <2>1. rows' = rows /\ head' = head
    BY <1>1 DEF Add
  <2> QED
    BY <1>0, <2>1 DEF Grows, Stored
<1>2. CASE rows[r] = None
  <2> DEFINE row == [value |-> value, accepted |-> accepted, position |-> head + 1]
  <2>1. rows' = [rows EXCEPT ![r] = row] /\ head' = head + 1
    BY <1>2 DEF Add, Insert
  <2>2. row \in Row /\ row.position = head + 1
    BY <1>0 DEF Row
  <2> HIDE DEF row
  <2>3. Grows
    BY <1>0, <1>2, <2>1, <2>2 DEF Grows, Stored
  <2> QED
    BY <1>0, <2>1, <2>2, <2>3 DEF row
<1> QED
  BY <1>1, <1>2

\* A row that decodes goes on to: it keeps its value, and the Definition it
\* was admitted by is never registered again.
LEMMA DecodesOn ==
    ASSUME JInv, NEW r \in Stored, rows'[r] = rows[r],
           \A v \in Versions : definitions[v] # None => definitions'[v] = definitions[v]
    PROVE  Decodes(r)'
<1>1. Decodes(r) /\ rows[r] \in Row
  BY DEF JInv, JournalDecodes, JournalTypeOK, Stored
<1>2. CASE rows[r].accepted
  <2>1. Admits(definitions, rows[r].value) /\ r \in WorkerRefs /\ rows[r].value \in Observation
    BY <1>1, <1>2 DEF Decodes, JInv, AcceptedAreObserved
  <2>2. definitions'[rows[r].value.version] = definitions[rows[r].value.version]
    BY <2>1, JournalAssumption DEF Admits, Observation
  <2> QED
    BY <1>2, <2>1, <2>2 DEF Decodes, Admits
<1>3. CASE ~rows[r].accepted
  BY <1>1, <1>3 DEF Decodes
<1> QED
  BY <1>2, <1>3

\* What one step of the journal changes keeps the invariant, given that a new
\* row decodes.
LEMMA GrowthKeeps ==
    ASSUME JInv, JournalTypeOK', Grows,
           \A v \in Versions : definitions[v] # None => definitions'[v] = definitions[v],
           \A r \in Refs \ Stored : rows'[r] # None =>
               Decodes(r)' /\ (rows'[r].accepted => rows'[r].value \in Observation)
    PROVE  JInv'
<1>1. Stored \subseteq Refs /\ Stored' \subseteq Refs
  BY DEF Stored
<1>2. \A r \in Stored' : Decodes(r)'
  BY <1>1, DecodesOn DEF Stored, Grows
<1>3. \A r \in Stored' : rows'[r].position > 0 /\ rows'[r].position <= head'
  <2>1. head \in Nat
    BY DEF JInv, JournalTypeOK
  <2>2. ASSUME NEW r \in Stored PROVE rows'[r].position > 0 /\ rows'[r].position <= head'
    <3>1. rows[r].position \in Nat /\ rows[r].position > 0 /\ rows[r].position <= head /\ rows'[r] = rows[r]
      BY <1>1 DEF JInv, Positioned, JournalTypeOK, Stored, Row, Grows
    <3> QED
      BY <2>1, <3>1 DEF Grows
  <2>3. ASSUME NEW r \in Refs \ Stored, rows'[r] # None
        PROVE  rows'[r].position > 0 /\ rows'[r].position <= head'
    BY <2>1, <2>3 DEF Grows
  <2> QED
    BY <1>1, <2>2, <2>3 DEF Stored
<1>4. \A r \in Stored' : rows'[r].accepted => rows'[r].value \in Observation
  BY <1>1 DEF Stored, Grows, JInv, AcceptedAreObserved
<1> QED
  BY <1>2, <1>3, <1>4 DEF JInv, JournalDecodes, Positioned, AcceptedAreObserved

LEMMA JournalStep ==
    ASSUME JInv, [JournalNext]_journalVars
    PROVE  JInv' /\ Grows
<1>0. /\ rows \in [Refs -> Row \cup {None}] /\ head \in Nat
      /\ definitions \in [Versions -> Fingerprints \cup {None}]
      /\ pending \in [Processes -> (WorkerRefs \X Observation) \cup {None}]
  BY DEF JInv, JournalTypeOK
<1>1. ASSUME UNCHANGED <<rows, head>>, JournalTypeOK',
             \A v \in Versions : definitions[v] # None => definitions'[v] = definitions[v]
      PROVE  JInv' /\ Grows
  <2>1. Grows
    BY <1>0, <1>1 DEF Grows, Stored
  <2>2. \A r \in Refs \ Stored : rows'[r] = None
    BY <1>1 DEF Stored
  <2> QED
    BY <1>1, <2>1, <2>2, GrowthKeeps
<1>2. ASSUME NEW p \in Processes, NEW r \in NativeRefs, NEW x \in Payloads, Capture(p, r, x)
      PROVE  JInv' /\ Grows
  <2>1. r \in Refs /\ x \in Payloads \cup Observation /\ r \notin WorkerRefs /\ Add(r, x, FALSE)
        /\ definitions' = definitions /\ pending' = pending
    BY <1>2, JournalAssumption DEF Capture, Refs
  <2>2. /\ rows' \in [Refs -> Row \cup {None}] /\ head' \in Nat /\ Grows
        /\ \A s \in Refs : s # r => rows'[s] = rows[s]
        /\ \/ rows'[r] = [value |-> x, accepted |-> FALSE, position |-> head + 1]
           \/ rows' = rows
    BY <2>1, InsertGrows
  <2>3. JournalTypeOK'
    BY <1>0, <2>1, <2>2 DEF JournalTypeOK
  <2>4. ASSUME NEW s \in Refs \ Stored, rows'[s] # None
        PROVE  Decodes(s)' /\ (rows'[s].accepted => rows'[s].value \in Observation)
    <3>1. s = r /\ rows'[r] = [value |-> x, accepted |-> FALSE, position |-> head + 1]
      BY <2>2, <2>4 DEF Stored
    <3>2. ~rows'[r].accepted /\ rows'[r].value = x
      BY <3>1
    <3> QED
      BY <3>1, <3>2 DEF Decodes
  <2> QED
    BY <2>1, <2>2, <2>3, <2>4, GrowthKeeps
<1>3. ASSUME NEW v \in Versions, NEW f \in Fingerprints, Register(v, f) PROVE JInv' /\ Grows
  <2>1. JournalTypeOK' /\ UNCHANGED <<rows, head>>
    BY <1>0, <1>3 DEF Register, JournalTypeOK
  <2> QED
    BY <1>0, <1>1, <1>3, <2>1 DEF Register
<1>4. ASSUME NEW p \in Processes, NEW r \in WorkerRefs, NEW o \in Observation,
             SubmitFind(p, r, o) \/ SubmitAcceptedFind(p, r, o)
      PROVE  JInv' /\ Grows
  <2>1. UNCHANGED <<rows, head, definitions>> /\ pending' = [pending EXCEPT ![p] = <<r, o>>]
    BY <1>4 DEF SubmitFind, SubmitAcceptedFind
  <2>2. JournalTypeOK'
    BY <1>0, <2>1 DEF JournalTypeOK
  <2> QED
    BY <1>1, <2>1, <2>2
<1>5. ASSUME NEW p \in Processes, SubmitAdd(p) PROVE JInv' /\ Grows
  <2> DEFINE r == pending[p][1]
             o == pending[p][2]
  <2>1. r \in WorkerRefs /\ o \in Observation /\ Admits(definitions, o) /\ Add(r, o, TRUE)
        /\ definitions' = definitions /\ pending' = [pending EXCEPT ![p] = None]
    BY <1>0, <1>5 DEF SubmitAdd
  <2> HIDE DEF r, o
  <2>2. /\ rows' \in [Refs -> Row \cup {None}] /\ head' \in Nat /\ Grows
        /\ \A s \in Refs : s # r => rows'[s] = rows[s]
        /\ \/ rows'[r] = [value |-> o, accepted |-> TRUE, position |-> head + 1]
           \/ rows' = rows
    BY <2>1, InsertGrows DEF Refs
  <2>3. JournalTypeOK'
    BY <1>0, <2>1, <2>2 DEF JournalTypeOK
  <2>4. ASSUME NEW s \in Refs \ Stored, rows'[s] # None
        PROVE  Decodes(s)' /\ (rows'[s].accepted => rows'[s].value \in Observation)
    <3>1. s = r /\ rows'[r] = [value |-> o, accepted |-> TRUE, position |-> head + 1]
      BY <2>2, <2>4 DEF Stored
    <3>2. rows'[r].accepted /\ rows'[r].value = o
      BY <3>1
    <3> QED
      BY <2>1, <3>1, <3>2 DEF Decodes, Admits
  <2> QED
    BY <2>1, <2>2, <2>3, <2>4, GrowthKeeps
<1>6. ASSUME NEW p \in Processes, SubmitFails(p) PROVE JInv' /\ Grows
  <2>1. UNCHANGED <<rows, head, definitions>> /\ pending' = [pending EXCEPT ![p] = None]
    BY <1>6 DEF SubmitFails
  <2>2. JournalTypeOK'
    BY <1>0, <2>1 DEF JournalTypeOK
  <2> QED
    BY <1>1, <2>1, <2>2
<1>7. CASE UNCHANGED journalVars
  <2>1. UNCHANGED <<rows, head, definitions, pending>>
    BY <1>7 DEF journalVars
  <2>2. JournalTypeOK'
    BY <1>0, <2>1 DEF JournalTypeOK
  <2> QED
    BY <1>1, <2>1, <2>2
<1> QED
  BY <1>2, <1>3, <1>4, <1>5, <1>6, <1>7 DEF JournalNext

LEMMA JournalStarts == JournalInit => JInv
<1> SUFFICES ASSUME JournalInit PROVE JInv
  OBVIOUS
<1>1. PICK legacy \in {{}} \cup {{r} : r \in WorkerRefs}, row \in LegacyRow(1) :
        /\ rows = [r \in Refs |-> IF r \in legacy THEN row ELSE None]
        /\ head = Cardinality(legacy)
  BY DEF JournalInit
<1>2. row.value \in Observation /\ row.accepted = FALSE /\ row.position = 1 /\ row \in Row
  <2>1. row \in [value : Observation, accepted : {FALSE}, position : {1}]
    BY DEF LegacyRow
  <2>2. row.value \in Observation /\ row.accepted = FALSE /\ row.position = 1
    BY <2>1
  <2>3. row = [value |-> row.value, accepted |-> FALSE, position |-> 1]
    BY <2>1, <2>2
  <2>4. [value |-> row.value, accepted |-> FALSE, position |-> 1] \in Row
    BY <2>2 DEF Row
  <2> QED
    BY <2>2, <2>3, <2>4
<1>3. legacy \subseteq WorkerRefs /\ (legacy = {} \/ head = 1) /\ head \in Nat
  <2>1. CASE legacy = {}
    BY <1>1, <2>1, FS_EmptySet
  <2>2. CASE legacy # {}
    <3>1. PICK r \in WorkerRefs : legacy = {r}
      BY <2>2
    <3> QED
      BY <1>1, <3>1, FS_Singleton
  <2> QED
    BY <2>1, <2>2
<1>4. Stored \subseteq legacy /\ \A r \in Stored : rows[r] = row
  BY <1>1, <1>2, JournalAssumption DEF Stored
<1>5. JournalTypeOK
  BY <1>1, <1>2, <1>3 DEF JournalTypeOK, JournalInit
<1>6. JournalDecodes
  BY <1>2, <1>3, <1>4, JournalAssumption DEF JournalDecodes, Decodes
<1>7. Positioned
  BY <1>2, <1>3, <1>4 DEF Positioned
<1> QED
  BY <1>2, <1>4, <1>5, <1>6, <1>7 DEF JInv, AcceptedAreObserved

\* A row of the journal decodes for ever, whatever registrations and submissions
\* of other processes come between Find and AddAccepted.
THEOREM RowsDecode == JournalSpec => []JournalDecodes
<1>1. JInv /\ [JournalNext]_journalVars => JInv'
  BY JournalStep
<1>2. JInv => JournalDecodes
  BY DEF JInv
<1> QED
  BY <1>1, <1>2, JournalStarts, PTL DEF JournalSpec
-----------------------------------------------------------------------------
(* The consumers *)

\* What a step may do to the journal.
LEMMA StepsOfJournal ==
    ASSUME [Next]_vars
    PROVE  [JournalNext]_journalVars
<1>1. CASE Journal
  BY <1>1 DEF Journal, JournalNext
<1>2. ASSUME NEW p \in Processes, WriteMemory(p) \/ Abandon(p) PROVE UNCHANGED journalVars
  BY <1>2 DEF WriteMemory, Abandon
<1>3. ASSUME NEW p \in Processes, NEW b \in Bindings, Step(p, b) PROVE UNCHANGED journalVars
  BY <1>3 DEF Step, Observe, ReadHead, PlanRefused, ApplyFlush, PlanFlush, ApplyIncubation, PlanIncubation,
       ApplyConflicts
<1>4. CASE UNCHANGED vars
  BY <1>4 DEF vars
<1> QED
  BY <1>1, <1>2, <1>3, <1>4 DEF Next

\* The consumers leave the journal to its own operations, so rows decode in the
\* composed system too.
THEOREM RowsDecodeForConsumers == Spec => []JournalDecodes
<1>1. Init => JournalInit
  BY DEF Init
<1>2. [Next]_vars => [JournalNext]_journalVars
  BY StepsOfJournal
<1> QED
  BY <1>1, <1>2, RowsDecode, PTL DEF Spec, JournalSpec

LEMMA JournalInvariant == Spec => []JInv
<1>1. Init => JInv
  BY JournalStarts DEF Init
<1>2. JInv /\ [Next]_vars => JInv'
  BY JournalStep, StepsOfJournal
<1> QED
  BY <1>1, <1>2, PTL DEF Spec

\* The rows of a window that ends at or before the head never change.
LEMMA ValuesStand ==
    ASSUME JInv, Grows, NEW b, NEW after \in Nat, NEW through \in Nat, through <= head
    PROVE  Values(b, after, through)' = Values(b, after, through)
<1>1. ASSUME NEW r \in Refs PROVE InWindow(r, after, through)' <=> InWindow(r, after, through)
  <2>1. CASE r \in Stored
    <3>1. rows'[r] = rows[r] /\ rows[r] # None
      BY <2>1 DEF Grows, Stored
    <3> QED
      BY <2>1, <3>1 DEF InWindow, Stored
  <2>2. CASE r \notin Stored
    <3>1. head \in Nat
      BY DEF JInv, JournalTypeOK
    <3>2. rows'[r] # None => rows'[r].position = head + 1
      BY <2>2 DEF Grows
    <3> QED
      BY <2>2, <3>1, <3>2 DEF InWindow, Stored
  <2> QED
    BY <2>1, <2>2
<1>2. ASSUME NEW r \in Refs, InWindow(r, after, through) PROVE Keeps(b, r)' <=> Keeps(b, r)
  <2>1. rows'[r] = rows[r]
    BY <1>2 DEF InWindow, Grows
  <2> QED
    BY <2>1 DEF Keeps, HasText, Evidence
<1> QED
  BY <1>1, <1>2 DEF Values

\* A window was observed at its cursor, holds what the journal holds there, and
\* is stale exactly when its generation is.
Follows(w) ==
    /\ w.generation <= cursor[w.binding].generation
    /\ w.generation = cursor[w.binding].generation => w.previous = cursor[w.binding].sequence
    /\ w.previous < w.next /\ w.next <= w.previous + Limit /\ w.next <= head
    /\ w.values = Values(w.binding, w.previous, w.next)
    /\ w.plan \subseteq w.values

AllFollow == \A p \in Processes : window[p] # None => Follows(window[p])

Behind == \A b \in Bindings : cursor[b].sequence <= head

\* What was recorded is stored and behind the cursor it was recorded with.
Passed(r, position) == r \in Stored /\ rows[r].position <= position

FlushRecorded ==
    /\ \E k \in Nat : DOMAIN memory = 1..k
    /\ \A n \in DOMAIN memory : \A r \in memory[n] : Passed(r, cursor["memory"].sequence)

IncubationRecorded ==
    \A c \in candidates : /\ c.through \in Nat
                          /\ \A r \in c.sources : Passed(r, c.through)

WInv ==
    /\ TypeOK /\ JInv /\ AllFollow /\ Behind
    /\ FlushRecorded /\ IncubationRecorded /\ HandedOverOnce

\* The types a step needs, in one place.
LEMMA Typed ==
    ASSUME WInv
    PROVE  /\ head \in Nat /\ Limit \in Nat \ {0}
           /\ cursor \in [Bindings -> [sequence : Nat, generation : Nat]]
           /\ \A b \in Bindings : cursor[b].sequence \in Nat /\ cursor[b].generation \in Nat
           /\ window \in [Processes -> Window \cup {None}]
           /\ \A r \in Stored : r \in Refs /\ rows[r].position \in Nat
BY WindowAssumption DEF WInv, TypeOK, JournalTypeOK, Stored, Row

LEMMA WindowTyped ==
    ASSUME NEW w \in Window
    PROVE  /\ w.binding \in Bindings /\ w.previous \in Nat /\ w.next \in Nat /\ w.generation \in Nat
           /\ w.values \subseteq Refs /\ w.plan \subseteq Refs
BY DEF Window

\* What is passed stays passed as the journal grows and the cursor moves on.
LEMMA PassedOn ==
    ASSUME WInv, Grows, NEW r, NEW m \in Nat, NEW n \in Nat, m <= n, Passed(r, m)
    PROVE  Passed(r, n)' /\ rows'[r] = rows[r] /\ r \in Refs
<1>1. r \in Refs /\ rows[r].position \in Nat /\ rows[r].position <= m /\ rows[r] # None
  BY Typed DEF Passed, Stored
<1>2. rows'[r] = rows[r]
  BY DEF Passed, Grows
<1> QED
  BY <1>1, <1>2 DEF Passed, Stored

\* A window that follows its cursor still does after the journal has grown.
LEMMA FollowsOn ==
    ASSUME WInv, Grows, cursor' = cursor, NEW w \in Window, Follows(w)
    PROVE  Follows(w)'
<1>1. w.previous \in Nat /\ w.next \in Nat /\ w.next <= head /\ head \in Nat
  BY Typed, WindowTyped DEF Follows
<1>2. Values(w.binding, w.previous, w.next)' = Values(w.binding, w.previous, w.next)
  BY <1>1, ValuesStand DEF WInv
<1>3. w.next <= head'
  BY <1>1 DEF Grows
<1> QED
  BY <1>2, <1>3 DEF Follows

\* Growth of the journal alone keeps the records.
LEMMA RecordsStand ==
    ASSUME WInv, Grows, cursor' = cursor, memory' = memory, candidates' = candidates
    PROVE  FlushRecorded' /\ IncubationRecorded' /\ HandedOverOnce' /\ Behind'
<1>0. "memory" \in Bindings /\ "incubation" \in Bindings
  BY DEF Bindings
<1>1. FlushRecorded'
  <2>1. ASSUME NEW n \in DOMAIN memory, NEW r \in memory[n] PROVE Passed(r, cursor["memory"].sequence)'
    BY <1>0, Typed, PassedOn DEF WInv, FlushRecorded
  <2> QED
    BY <2>1 DEF WInv, FlushRecorded
<1>2. IncubationRecorded'
  BY PassedOn DEF WInv, IncubationRecorded
<1>3. HandedOverOnce'
  <2>1. FlushedOnce'
    BY <1>1 DEF FlushRecorded, Passed, WInv, HandedOverOnce, FlushedOnce
  <2>2. IncubatedOnce'
    BY DEF WInv, HandedOverOnce, IncubatedOnce
  <2> QED
    BY <2>1, <2>2 DEF HandedOverOnce
<1>4. Behind'
  <2>1. ASSUME NEW b \in Bindings PROVE cursor[b].sequence <= head'
    BY Typed DEF WInv, Behind, Grows
  <2> QED
    BY <2>1 DEF Behind
<1> QED
  BY <1>1, <1>2, <1>3, <1>4

\* The same window at another step of its operation.
SameWindow(w, v) ==
    /\ v \in Window
    /\ v.binding = w.binding /\ v.previous = w.previous /\ v.next = w.next
    /\ v.generation = w.generation /\ v.values = w.values
    /\ v.plan \subseteq w.values

\* A step of p that is neither an observation nor a commit.
Moves(p) ==
    /\ UNCHANGED <<journalVars, cursor, memory, candidates, writes>>
    /\ failures' \in Nat
    /\ window[p] # None
    /\ \/ window' = [window EXCEPT ![p] = None]
       \/ \E v : SameWindow(window[p], v) /\ window' = [window EXCEPT ![p] = v]

LEMMA HeadCounts ==
    ASSUME WInv
    PROVE  Head \in Nat /\ DOMAIN memory = 1..Head
<1>1. PICK k \in Nat : DOMAIN memory = 1..k
  BY DEF WInv, FlushRecorded
<1>2. Cardinality(1..k) = k
  <2>1. Cardinality(1..k) = IF 1 > k THEN 0 ELSE k - 1 + 1
    BY FS_Interval
  <2> QED
    BY <2>1
<1> QED
  BY <1>1, <1>2 DEF Head

LEMMA WindowMoves ==
    ASSUME WInv, NEW p \in Processes,
           \/ ReadHead(p) \/ PlanRefused(p) \/ ApplyConflicts(p) \/ Abandon(p)
           \/ \E commit \in BOOLEAN : PlanFlush(p, commit)
           \/ \E plan \in SUBSET Refs : PlanIncubation(p, plan)
    PROVE  Moves(p)
<1> DEFINE w == window[p]
<1>0. window \in [Processes -> Window \cup {None}] /\ failures \in Nat
  BY DEF WInv, TypeOK
<1>1. CASE ReadHead(p)
  <2>1. w \in Window /\ w # None /\ w.plan \subseteq w.values
    BY <1>0, <1>1 DEF ReadHead, At, WInv, AllFollow, Follows
  <2> DEFINE v == [w EXCEPT !.stage = "based", !.base = Head]
  <2>2. window' = [window EXCEPT ![p] = v]
    BY <1>0, <1>1 DEF ReadHead
  <2>3. SameWindow(w, v)
    BY <2>1, HeadCounts DEF SameWindow, Window
  <2> QED
    BY <1>0, <1>1, <2>1, <2>2, <2>3 DEF ReadHead, Moves
<1>2. ASSUME NEW commit \in BOOLEAN, PlanFlush(p, commit) PROVE Moves(p)
  <2>1. w \in Window /\ w # None /\ w.plan \subseteq w.values
    BY <1>0, <1>2 DEF PlanFlush, At, WInv, AllFollow, Follows
  <2> DEFINE v == [w EXCEPT !.stage = "planned", !.commit = commit]
  <2>2. window' = [window EXCEPT ![p] = v]
    BY <1>0, <1>2 DEF PlanFlush
  <2>3. SameWindow(w, v)
    BY <2>1 DEF SameWindow, Window
  <2> QED
    BY <1>0, <1>2, <2>1, <2>2, <2>3 DEF PlanFlush, Moves
<1>3. ASSUME NEW plan \in SUBSET Refs, PlanIncubation(p, plan) PROVE Moves(p)
  <2>1. w \in Window /\ w # None /\ plan \subseteq w.values
    BY <1>0, <1>3 DEF PlanIncubation, At
  <2> DEFINE commit == plan # {}
  <2> DEFINE v == [w EXCEPT !.stage = "planned", !.plan = plan, !.commit = commit]
  <2>2. window' = [window EXCEPT ![p] = v]
    BY <1>0, <1>3 DEF PlanIncubation
  <2>3. commit \in BOOLEAN
    OBVIOUS
  <2> HIDE DEF commit
  <2>4. SameWindow(w, v)
    BY <2>1, <2>3 DEF SameWindow, Window
  <2> QED
    BY <1>0, <1>3, <2>1, <2>2, <2>4 DEF PlanIncubation, Moves
<1>4. CASE PlanRefused(p)
  BY <1>0, <1>4 DEF PlanRefused, At, Forget, Moves
<1>5. CASE ApplyConflicts(p)
  BY <1>0, <1>5 DEF ApplyConflicts, Forget, Moves
<1>6. CASE Abandon(p)
  BY <1>0, <1>6 DEF Abandon, Forget, Moves
<1> QED
  BY <1>1, <1>2, <1>3, <1>4, <1>5, <1>6

LEMMA MovesKeep ==
    ASSUME WInv, NEW p \in Processes, Moves(p)
    PROVE  WInv'
<1>0. window \in [Processes -> Window \cup {None}]
  BY Typed
<1>1. /\ rows' = rows /\ head' = head /\ definitions' = definitions /\ pending' = pending
      /\ cursor' = cursor /\ memory' = memory /\ candidates' = candidates /\ writes' = writes
      /\ failures' \in Nat
  BY DEF Moves, journalVars
<1>2. Grows
  BY <1>1 DEF Grows, Stored
<1>3. JInv'
  BY <1>1, JournalStep DEF journalVars, WInv
<1>4. FlushRecorded' /\ IncubationRecorded' /\ HandedOverOnce' /\ Behind'
  BY <1>1, <1>2, RecordsStand
<1>5. window' \in [Processes -> Window \cup {None}]
  BY <1>0 DEF Moves, SameWindow
<1>6. TypeOK'
  BY <1>1, <1>3, <1>5 DEF WInv, TypeOK, JInv
<1>7. ASSUME NEW q \in Processes, window'[q] # None PROVE Follows(window[q])'
  <2>1. CASE q = p
    <3>1. PICK v : SameWindow(window[p], v) /\ window'[p] = v
      BY <1>0, <1>7, <2>1 DEF Moves
    <3>2. Follows(window[p]) /\ window[p] \in Window
      BY <1>0 DEF WInv, AllFollow, Moves
    <3>3. v \in Window /\ Follows(v)
      BY <3>1, <3>2 DEF Follows, SameWindow
    <3>4. Follows(v)'
      BY <1>1, <1>2, <3>3, FollowsOn
    <3> QED
      BY <2>1, <3>1, <3>4
  <2>2. CASE q # p
    <3>1. PICK v \in Window : window'[q] = v /\ window[q] = v /\ v # None
      BY <1>0, <1>7, <2>2 DEF Moves
    <3>2. Follows(v)
      BY <3>1 DEF WInv, AllFollow
    <3>3. Follows(v)'
      BY <1>1, <1>2, <3>2, FollowsOn
    <3> QED
      BY <3>1, <3>3
  <2> QED
    BY <2>1, <2>2
<1> QED
  BY <1>3, <1>4, <1>6, <1>7 DEF WInv, AllFollow

LEMMA JournalKeeps ==
    ASSUME WInv, Journal \/ UNCHANGED vars
    PROVE  WInv'
<1>0. window \in [Processes -> Window \cup {None}]
  BY Typed
<1>1. /\ cursor' = cursor /\ memory' = memory /\ candidates' = candidates /\ window' = window
      /\ writes' = writes /\ failures' = failures
  BY DEF Journal, windowVars, vars
<1>2. JInv' /\ Grows
  BY JournalStep, StepsOfJournal DEF WInv, Next
<1>3. FlushRecorded' /\ IncubationRecorded' /\ HandedOverOnce' /\ Behind'
  BY <1>1, <1>2, RecordsStand
<1>4. TypeOK'
  BY <1>1, <1>2 DEF WInv, TypeOK, JInv
<1>5. ASSUME NEW q \in Processes, window'[q] # None PROVE Follows(window[q])'
  <2>1. PICK v \in Window : window'[q] = v /\ window[q] = v /\ v # None
    BY <1>0, <1>1, <1>5
  <2>2. Follows(v)
    BY <2>1 DEF WInv, AllFollow
  <2>3. Follows(v)'
    BY <1>1, <1>2, <2>2, FollowsOn
  <2> QED
    BY <2>1, <2>3
<1> QED
  BY <1>2, <1>3, <1>4, <1>5 DEF WInv, AllFollow

\* A fresh window follows the cursor it was observed at.
LEMMA ObserveKeeps ==
    ASSUME WInv, NEW p \in Processes, NEW b \in Bindings, Observe(p, b)
    PROVE  WInv'
<1> DEFINE after == cursor[b].sequence
           w == [binding |-> b, previous |-> after, next |-> Through(after),
                 generation |-> cursor[b].generation,
                 values |-> Values(b, after, Through(after)),
                 stage |-> "observed", base |-> 0, plan |-> {}, commit |-> FALSE]
<1>0. window \in [Processes -> Window \cup {None}]
  BY Typed
<1>1. /\ rows' = rows /\ head' = head /\ definitions' = definitions /\ pending' = pending
      /\ cursor' = cursor /\ memory' = memory /\ candidates' = candidates
      /\ writes' = writes /\ failures' = failures
      /\ window' = [window EXCEPT ![p] = w]
      /\ head > after
  BY DEF Observe, journalVars
<1>2. /\ after \in Nat /\ Through(after) \in Nat /\ after < Through(after)
      /\ Through(after) <= after + Limit /\ Through(after) <= head
      /\ cursor[b].generation \in Nat
  <2>1. after \in Nat /\ head \in Nat /\ Limit \in Nat \ {0} /\ head > after /\ cursor[b].generation \in Nat
    BY <1>1, Typed
  <2> HIDE DEF after
  <2> QED
    BY <2>1 DEF Through
<1>3. w \in Window
  BY <1>2 DEF Window, Values
<1>4. Follows(w)
  <2>1. /\ w.binding = b /\ w.previous = after /\ w.next = Through(after) /\ w.plan = {}
        /\ w.generation = cursor[b].generation /\ w.values = Values(b, after, Through(after))
    OBVIOUS
  <2>2. cursor[b].generation <= cursor[b].generation
    BY <1>2
  <2> HIDE DEF w
  <2> QED
    BY <1>2, <2>1, <2>2 DEF Follows
<1> HIDE DEF w
<1>5. Grows
  BY <1>1 DEF Grows, Stored
<1>6. JInv'
  BY <1>1, JournalStep DEF journalVars, WInv
<1>7. FlushRecorded' /\ IncubationRecorded' /\ HandedOverOnce' /\ Behind'
  BY <1>1, <1>5, RecordsStand
<1>8. TypeOK'
  BY <1>0, <1>1, <1>3, <1>6 DEF WInv, TypeOK, JInv
<1>9. ASSUME NEW q \in Processes, window'[q] # None PROVE Follows(window[q])'
  <2>1. PICK v \in Window : window'[q] = v
    BY <1>0, <1>1, <1>3, <1>9
  <2>2. Follows(v)
    BY <1>0, <1>1, <1>4, <1>9, <2>1 DEF WInv, AllFollow
  <2>3. Follows(v)'
    BY <1>1, <1>5, <2>2, FollowsOn
  <2> QED
    BY <2>1, <2>3
<1> QED
  BY <1>6, <1>7, <1>8, <1>9 DEF WInv, AllFollow

\* A commit moves the cursor to the end of the window, and every other window on
\* that cursor becomes stale.
LEMMA CommitMoves ==
    ASSUME WInv, NEW p \in Processes, NEW w \in Window, window[p] = w, w # None, Follows(w),
           Matches(w), Save(w), Forget(p), UNCHANGED journalVars
    PROVE  /\ cursor' \in [Bindings -> [sequence : Nat, generation : Nat]]
           /\ cursor[w.binding].sequence = w.previous
           /\ cursor'[w.binding].sequence = w.next
           /\ \A b \in Bindings : b # w.binding => cursor'[b] = cursor[b]
           /\ \A b \in Bindings : cursor[b].sequence <= cursor'[b].sequence
           /\ window' \in [Processes -> Window \cup {None}]
           /\ AllFollow' /\ Behind' /\ JInv' /\ Grows
<1>0. /\ window \in [Processes -> Window \cup {None}] /\ head \in Nat
      /\ cursor \in [Bindings -> [sequence : Nat, generation : Nat]]
      /\ \A b \in Bindings : cursor[b].sequence \in Nat /\ cursor[b].generation \in Nat
  BY Typed
<1>1. w.binding \in Bindings /\ w.previous \in Nat /\ w.next \in Nat /\ w.generation \in Nat
  BY WindowTyped
<1>9. cursor[w.binding].sequence = w.previous /\ cursor[w.binding].generation = w.generation
  BY DEF Follows, Matches
<1>10. w.previous <= w.next /\ w.next <= head
  <2>1. w.previous < w.next /\ w.next <= head
    BY DEF Follows
  <2> QED
    BY <1>1, <2>1
<1>2. rows' = rows /\ head' = head /\ window' = [window EXCEPT ![p] = None]
  BY DEF journalVars, Forget
<1>3. cursor' = [cursor EXCEPT ![w.binding] = [sequence |-> w.next, generation |-> w.generation + 1]]
  BY DEF Save
<1>4. /\ cursor'[w.binding].sequence = w.next /\ cursor'[w.binding].generation = w.generation + 1
      /\ \A b \in Bindings : b # w.binding => cursor'[b] = cursor[b]
      /\ cursor' \in [Bindings -> [sequence : Nat, generation : Nat]]
  <2>1. [sequence |-> w.next, generation |-> w.generation + 1] \in [sequence : Nat, generation : Nat]
    BY <1>1
  <2> QED
    BY <1>0, <1>1, <1>3, <2>1
<1>5. \A b \in Bindings : cursor[b].sequence <= cursor'[b].sequence /\ cursor'[b].sequence <= head'
  <2>1. ASSUME NEW b \in Bindings
        PROVE  cursor[b].sequence <= cursor'[b].sequence /\ cursor'[b].sequence <= head'
    <3>1. CASE b = w.binding
      <4>1. cursor[b].sequence = w.previous /\ cursor'[b].sequence = w.next /\ head' = head
        BY <1>2, <1>4, <1>9, <3>1
      <4> QED
        BY <1>10, <4>1
    <3>2. CASE b # w.binding
      BY <1>0, <1>2, <1>4, <3>2 DEF WInv, Behind
    <3> QED
      BY <3>1, <3>2
  <2> QED
    BY <2>1
<1>6. Grows /\ JInv'
  BY <1>2, JournalStep DEF WInv, Grows, Stored
<1>7. ASSUME NEW q \in Processes, window'[q] # None PROVE Follows(window[q])'
  <2>1. PICK v \in Window : window'[q] = v /\ window[q] = v /\ v # None
    BY <1>0, <1>2, <1>7
  <2>2. Follows(v)
    BY <2>1 DEF WInv, AllFollow
  <2>3. v.binding \in Bindings /\ v.generation \in Nat /\ v.generation <= cursor[v.binding].generation
    BY <2>2, WindowTyped DEF Follows
  <2>4. Values(v.binding, v.previous, v.next)' = Values(v.binding, v.previous, v.next)
    BY <1>2 DEF Values, InWindow, Keeps, HasText, Evidence, Stored
  <2>5. CASE v.binding = w.binding
    <3>1. v.generation \in Nat /\ w.generation \in Nat /\ v.generation <= w.generation
      BY <1>1, <1>9, <2>3, <2>5
    <3>2. v.generation <= w.generation + 1 /\ v.generation # w.generation + 1
      BY <3>1
    <3>3. /\ v.generation <= cursor'[v.binding].generation
          /\ v.generation # cursor'[v.binding].generation
      BY <1>4, <2>5, <3>2
    <3> QED
      BY <1>2, <2>1, <2>2, <2>4, <3>3 DEF Follows
  <2>6. CASE v.binding # w.binding
    <3>1. cursor'[v.binding] = cursor[v.binding]
      BY <1>4, <2>3, <2>6
    <3> QED
      BY <1>2, <2>1, <2>2, <2>4, <3>1 DEF Follows
  <2> QED
    BY <2>5, <2>6
<1>8. window' \in [Processes -> Window \cup {None}]
  BY <1>0, <1>2
<1> QED
  BY <1>4, <1>5, <1>6, <1>7, <1>8, <1>9 DEF AllFollow, Behind

\* Cursors only move forward, so old records stay behind them.
Onward ==
    \A b \in Bindings : cursor'[b].sequence \in Nat /\ cursor[b].sequence <= cursor'[b].sequence

LEMMA FlushStands ==
    ASSUME WInv, Grows, Onward, memory' = memory
    PROVE  FlushRecorded' /\ FlushedOnce'
<1>0. "memory" \in Bindings /\ cursor["memory"].sequence \in Nat
  BY Typed DEF Bindings
<1>1. ASSUME NEW n \in DOMAIN memory, NEW r \in memory[n] PROVE Passed(r, cursor["memory"].sequence)'
  <2>1. PICK m \in Nat : m = cursor'["memory"].sequence /\ cursor["memory"].sequence <= m
    BY <1>0 DEF Onward
  <2>2. Passed(r, m)'
    BY <1>0, <2>1, PassedOn DEF WInv, FlushRecorded
  <2> QED
    BY <2>1, <2>2 DEF Passed
<1>2. FlushRecorded'
  BY <1>1 DEF WInv, FlushRecorded
<1>3. FlushedOnce'
  BY <1>2 DEF FlushRecorded, Passed, WInv, HandedOverOnce, FlushedOnce
<1> QED
  BY <1>2, <1>3

LEMMA IncubationStands ==
    ASSUME WInv, Grows, Onward, candidates' = candidates
    PROVE  IncubationRecorded' /\ IncubatedOnce'
<1>0. "incubation" \in Bindings /\ cursor["incubation"].sequence \in Nat
  BY Typed DEF Bindings
<1>1. IncubationRecorded'
  BY PassedOn DEF WInv, IncubationRecorded
<1>2. ASSUME NEW c \in candidates PROVE c.through <= cursor'["incubation"].sequence
  <2>1. c.through \in Nat /\ c.through <= cursor["incubation"].sequence
    BY DEF WInv, IncubationRecorded, HandedOverOnce, IncubatedOnce
  <2> QED
    BY <1>0, <2>1 DEF Onward
<1>3. IncubatedOnce'
  BY <1>2 DEF WInv, HandedOverOnce, IncubatedOnce
<1> QED
  BY <1>1, <1>3

\* A new revision of evidence the cursor moves over now.
LEMMA RevisionAdds ==
    ASSUME WInv, Grows, Onward, NEW new \in SUBSET Refs,
           memory' = [n \in 1..(Head + 1) |-> IF n <= Head THEN memory[n] ELSE new],
           \A r \in new : /\ r \in Stored
                          /\ rows[r].position > cursor["memory"].sequence
                          /\ rows[r].position <= cursor'["memory"].sequence
    PROVE  FlushRecorded' /\ FlushedOnce' /\ \A n \in DOMAIN memory' : memory'[n] \subseteq Refs
<1>0. "memory" \in Bindings /\ cursor["memory"].sequence \in Nat
  BY Typed DEF Bindings
<1>1. Head \in Nat /\ DOMAIN memory = 1..Head
  BY HeadCounts
<1>2. /\ DOMAIN memory' = 1..(Head + 1)
      /\ \A n \in 1..Head : n \in 1..(Head + 1) /\ memory'[n] = memory[n]
      /\ memory'[Head + 1] = new
      /\ \A n \in 1..(Head + 1) : n \in 1..Head \/ n = Head + 1
  BY <1>1
<1>3. \A n \in 1..Head : \A r \in memory[n] :
        /\ r \in Stored /\ rows[r].position \in Nat /\ rows[r].position <= cursor["memory"].sequence
  BY <1>1, Typed DEF WInv, FlushRecorded, Passed
<1>4. \A r \in Stored : rows'[r] = rows[r] /\ r \in Stored' /\ rows[r].position \in Nat
  BY Typed DEF Grows, Stored
<1>5. ASSUME NEW n \in 1..(Head + 1), NEW r \in memory'[n]
      PROVE  r \in Stored /\ rows[r].position <= cursor'["memory"].sequence
  <2>1. CASE n \in 1..Head
    <3>1. rows[r].position <= cursor["memory"].sequence /\ rows[r].position \in Nat /\ r \in Stored
      BY <1>2, <1>3, <1>5, <2>1
    <3> QED
      BY <1>0, <3>1 DEF Onward
  <2>2. CASE n = Head + 1
    BY <1>2, <1>5, <2>2
  <2> QED
    BY <1>2, <2>1, <2>2
<1>6. FlushRecorded'
  <2>1. Head + 1 \in Nat
    BY <1>1
  <2>2. \A n \in 1..(Head + 1) : \A r \in memory'[n] : Passed(r, cursor["memory"].sequence)'
    BY <1>4, <1>5 DEF Passed
  <2> QED
    BY <1>2, <2>1, <2>2 DEF FlushRecorded
<1>7. ASSUME NEW m \in 1..(Head + 1), NEW n \in 1..(Head + 1), m # n
      PROVE  memory'[m] \cap memory'[n] = {}
  <2>1. ASSUME NEW k \in 1..Head PROVE memory[k] \cap new = {}
    <3>1. ASSUME NEW r \in memory[k], r \in new PROVE FALSE
      <4>1. rows[r].position \in Nat /\ rows[r].position <= cursor["memory"].sequence
        BY <1>3
      <4>2. rows[r].position > cursor["memory"].sequence
        BY <3>1
      <4> QED
        BY <1>0, <4>1, <4>2
    <3> QED
      BY <3>1
  <2>2. \A i, j \in 1..Head : i # j => memory[i] \cap memory[j] = {}
    BY <1>1 DEF WInv, HandedOverOnce, FlushedOnce
  <2> QED
    BY <1>2, <1>7, <2>1, <2>2
<1>8. FlushedOnce'
  <2>1. \A n \in 1..(Head + 1) : \A r \in memory'[n] : rows'[r].position <= cursor'["memory"].sequence
    BY <1>4, <1>5
  <2>2. DOMAIN memory' = 1..(Head + 1)
    BY <1>2
  <2> QED
    BY <1>7, <2>1, <2>2 DEF FlushedOnce
<1>9. \A n \in DOMAIN memory' : memory'[n] \subseteq Refs
  BY <1>1, <1>2 DEF WInv, TypeOK
<1> QED
  BY <1>6, <1>8, <1>9

LEMMA WriteKeeps ==
    ASSUME WInv, NEW p \in Processes, WriteMemory(p)
    PROVE  WInv'
<1>0. window \in [Processes -> Window \cup {None}] /\ \A b \in Bindings : cursor[b].sequence \in Nat
  BY Typed
<1>1. /\ rows' = rows /\ head' = head /\ definitions' = definitions /\ pending' = pending
      /\ cursor' = cursor /\ candidates' = candidates /\ window' = window /\ failures' = failures
      /\ writes' = writes + 1
      /\ memory' = [n \in 1..(Head + 1) |-> IF n <= Head THEN memory[n] ELSE {}]
  BY DEF WriteMemory, journalVars
<1>2. Grows /\ Onward
  <2>1. Grows
    BY <1>1 DEF Grows, Stored
  <2>2. \A b \in Bindings : cursor[b].sequence <= cursor[b].sequence
    BY <1>0
  <2> QED
    BY <1>0, <1>1, <2>1, <2>2 DEF Onward
<1>3. JInv'
  BY <1>1, JournalStep DEF journalVars, WInv
<1>4. FlushRecorded' /\ FlushedOnce' /\ \A n \in DOMAIN memory' : memory'[n] \subseteq Refs
  <2>1. PICK new \in SUBSET Refs : new = {}
    OBVIOUS
  <2>2. memory' = [n \in 1..(Head + 1) |-> IF n <= Head THEN memory[n] ELSE new]
    BY <1>1, <2>1
  <2> QED
    BY <1>2, <2>1, <2>2, RevisionAdds
<1>5. IncubationRecorded' /\ IncubatedOnce'
  BY <1>1, <1>2, IncubationStands
<1>6. TypeOK'
  <2>1. /\ cursor \in [Bindings -> [sequence : Nat, generation : Nat]] /\ writes \in Nat /\ failures \in Nat
        /\ \A c \in candidates : c.sources \subseteq Refs /\ c.through \in Nat
    BY DEF WInv, TypeOK
  <2>2. writes' \in Nat
    BY <1>1, <2>1
  <2> QED
    BY <1>0, <1>1, <1>3, <1>4, <2>1, <2>2 DEF TypeOK, JInv
<1>7. Behind'
  BY <1>1 DEF WInv, Behind
<1>8. ASSUME NEW q \in Processes, window'[q] # None PROVE Follows(window[q])'
  <2>1. PICK v \in Window : window'[q] = v /\ window[q] = v /\ v # None
    BY <1>0, <1>1, <1>8
  <2>2. Follows(v)
    BY <2>1 DEF WInv, AllFollow
  <2>3. Follows(v)'
    BY <1>1, <1>2, <2>2, FollowsOn
  <2> QED
    BY <2>1, <2>3
<1> QED
  BY <1>3, <1>4, <1>5, <1>6, <1>7, <1>8 DEF WInv, AllFollow, HandedOverOnce

LEMMA FlushKeeps ==
    ASSUME WInv, NEW p \in Processes, ApplyFlush(p)
    PROVE  WInv'
<1>0. window \in [Processes -> Window \cup {None}] /\ \A r \in Stored : rows[r].position \in Nat
  BY Typed
<1>1. PICK w \in Window : window[p] = w /\ w # None /\ w.binding = "memory"
  BY <1>0 DEF ApplyFlush, At
<1>2. Follows(w)
  BY <1>1 DEF WInv, AllFollow
<1>3. /\ Matches(w) /\ Save(w) /\ Forget(p) /\ UNCHANGED <<journalVars, candidates, writes, failures>>
      /\ \/ memory' = [n \in 1..(Head + 1) |-> IF n <= Head THEN memory[n] ELSE w.values]
         \/ memory' = memory
  BY <1>1 DEF ApplyFlush
<1>4. /\ cursor' \in [Bindings -> [sequence : Nat, generation : Nat]]
      /\ cursor[w.binding].sequence = w.previous /\ cursor'[w.binding].sequence = w.next
      /\ \A b \in Bindings : cursor[b].sequence <= cursor'[b].sequence
      /\ window' \in [Processes -> Window \cup {None}]
      /\ AllFollow' /\ Behind' /\ JInv' /\ Grows
  BY <1>1, <1>2, <1>3, CommitMoves
<1>5. Onward
  BY <1>4 DEF Onward
<1>6. w.values \in SUBSET Refs
  BY WindowTyped
<1>7. \A r \in w.values : /\ r \in Stored
                          /\ rows[r].position > cursor["memory"].sequence
                          /\ rows[r].position <= cursor'["memory"].sequence
  <2>1. \A r \in w.values : InWindow(r, w.previous, w.next)
    BY <1>2 DEF Follows, Values
  <2>2. w.previous \in Nat
    BY WindowTyped
  <2> QED
    BY <1>0, <1>1, <1>4, <2>1, <2>2 DEF InWindow
<1>8. FlushRecorded' /\ FlushedOnce' /\ \A n \in DOMAIN memory' : memory'[n] \subseteq Refs
  <2>1. CASE memory' = memory
    BY <1>4, <1>5, <2>1, FlushStands DEF WInv, TypeOK
  <2>2. CASE memory' = [n \in 1..(Head + 1) |-> IF n <= Head THEN memory[n] ELSE w.values]
    BY <1>4, <1>5, <1>6, <1>7, <2>2, RevisionAdds
  <2> QED
    BY <1>3, <2>1, <2>2
<1>9. IncubationRecorded' /\ IncubatedOnce'
  BY <1>3, <1>4, <1>5, IncubationStands
<1>10. TypeOK'
  BY <1>3, <1>4, <1>8 DEF WInv, TypeOK, JInv
<1> QED
  BY <1>4, <1>8, <1>9, <1>10 DEF WInv, HandedOverOnce

LEMMA IncubationKeeps ==
    ASSUME WInv, NEW p \in Processes, ApplyIncubation(p)
    PROVE  WInv'
<1>0. window \in [Processes -> Window \cup {None}] /\ \A r \in Stored : rows[r].position \in Nat
  BY Typed
<1>1. PICK w \in Window : window[p] = w /\ w # None /\ w.binding = "incubation"
  BY <1>0 DEF ApplyIncubation, At
<1> DEFINE new == [sources |-> w.plan, through |-> w.next]
<1>2. Follows(w)
  BY <1>1 DEF WInv, AllFollow
<1>3. /\ Matches(w) /\ Save(w) /\ Forget(p) /\ UNCHANGED <<journalVars, memory, writes, failures>>
      /\ candidates' = candidates \cup {new} \/ candidates' = candidates
  BY <1>1 DEF ApplyIncubation
<1>4. /\ cursor' \in [Bindings -> [sequence : Nat, generation : Nat]]
      /\ cursor[w.binding].sequence = w.previous /\ cursor'[w.binding].sequence = w.next
      /\ \A b \in Bindings : cursor[b].sequence <= cursor'[b].sequence
      /\ window' \in [Processes -> Window \cup {None}]
      /\ AllFollow' /\ Behind' /\ JInv' /\ Grows
  BY <1>1, <1>2, <1>3, CommitMoves
<1>5. Onward
  BY <1>4 DEF Onward
<1>6. FlushRecorded' /\ FlushedOnce'
  BY <1>3, <1>4, <1>5, FlushStands
<1>7. /\ new.sources \subseteq Refs /\ new.through = w.next /\ w.next \in Nat /\ w.previous \in Nat
      /\ w.previous < w.next
  BY <1>2, WindowTyped DEF Follows
<1>8. \A r \in new.sources : /\ r \in Stored /\ rows[r].position \in Nat
                             /\ w.previous < rows[r].position /\ rows[r].position <= w.next
  BY <1>0, <1>2 DEF Follows, Values, InWindow
<1> HIDE DEF new
<1>9. CASE candidates' = candidates
  <2>1. IncubationRecorded' /\ IncubatedOnce'
    BY <1>4, <1>5, <1>9, IncubationStands
  <2>2. TypeOK'
    BY <1>3, <1>4, <1>9 DEF WInv, TypeOK, JInv
  <2> QED
    BY <1>3, <1>4, <1>6, <2>1, <2>2 DEF WInv, HandedOverOnce
<1>10. CASE candidates' = candidates \cup {new}
  <2>1. TypeOK'
    BY <1>3, <1>4, <1>7, <1>10 DEF WInv, TypeOK, JInv
  <2>2. ASSUME NEW c \in candidates
        PROVE  /\ c.through \in Nat /\ c.through <= w.previous
               /\ \A r \in c.sources : r \in Stored /\ rows[r].position <= c.through
    BY <1>1, <1>4 DEF WInv, IncubationRecorded, Passed, HandedOverOnce, IncubatedOnce
  <2>3. ASSUME NEW c \in candidates PROVE c.sources \cap new.sources = {}
    <3>1. ASSUME NEW r \in c.sources, r \in new.sources PROVE FALSE
      <4>1. rows[r].position <= c.through /\ c.through <= w.previous /\ c.through \in Nat
        BY <2>2
      <4>2. rows[r].position \in Nat /\ w.previous < rows[r].position
        BY <1>8, <3>1
      <4> QED
        BY <1>7, <4>1, <4>2
    <3> QED
      BY <3>1
  <2>4. \A r \in Stored : rows'[r] = rows[r] /\ r \in Stored'
    BY <1>4 DEF Grows, Stored
  <2>5. IncubationRecorded'
    BY <1>4, <1>7, <1>8, <1>10, <2>2, <2>4 DEF IncubationRecorded, Passed
  <2>6. ASSUME NEW c \in candidates' PROVE c.through <= cursor'["incubation"].sequence
    <3>1. CASE c = new
      <4>1. c.through = w.next /\ w.next <= w.next
        BY <1>7, <3>1
      <4> QED
        BY <1>1, <1>4, <4>1
    <3>2. CASE c \in candidates
      <4>1. c.through \in Nat /\ c.through <= w.previous
        BY <2>2, <3>2
      <4>2. c.through <= w.next
        BY <1>7, <4>1
      <4> QED
        BY <1>1, <1>4, <4>2
    <3> QED
      BY <1>10, <3>1, <3>2
  <2>7. ASSUME NEW c \in candidates', NEW d \in candidates', c.sources \cap d.sources # {}
        PROVE  c.through = d.through
    <3>1. CASE c \in candidates /\ d \in candidates
      BY <2>7, <3>1 DEF WInv, HandedOverOnce, IncubatedOnce
    <3>2. CASE c = new \/ d = new
      BY <1>10, <2>3, <2>7, <3>2
    <3> QED
      BY <1>10, <3>1, <3>2
  <2>8. IncubatedOnce'
    BY <2>6, <2>7 DEF IncubatedOnce
  <2> QED
    BY <1>4, <1>6, <2>1, <2>5, <2>8 DEF WInv, HandedOverOnce
<1> QED
  BY <1>3, <1>9, <1>10

LEMMA WindowInvariant == Spec => []WInv
<1>1. Init => WInv
  <2> SUFFICES ASSUME Init PROVE WInv
    OBVIOUS
  <2>1. JInv
    BY JournalStarts DEF Init
  <2>2. /\ cursor = [b \in Bindings |-> [sequence |-> 0, generation |-> 0]]
        /\ DOMAIN memory = {} /\ candidates = {} /\ window = [p \in Processes |-> None]
        /\ writes = 0 /\ failures = 0
    BY DEF Init
  <2>3. TypeOK
    BY <2>1, <2>2 DEF TypeOK, JInv
  <2>4. AllFollow /\ IncubationRecorded /\ HandedOverOnce
    BY <2>2 DEF AllFollow, IncubationRecorded, HandedOverOnce, FlushedOnce, IncubatedOnce
  <2>5. Behind
    BY <2>1, <2>2 DEF Behind, JInv, JournalTypeOK
  <2>6. FlushRecorded
    <3>1. DOMAIN memory = 1..0
      BY <2>2
    <3> QED
      BY <2>2, <3>1 DEF FlushRecorded
  <2> QED
    BY <2>1, <2>3, <2>4, <2>5, <2>6 DEF WInv
<1>2. WInv /\ [Next]_vars => WInv'
  <2> SUFFICES ASSUME WInv, [Next]_vars PROVE WInv'
    OBVIOUS
  <2>1. CASE Journal \/ UNCHANGED vars
    BY <2>1, JournalKeeps
  <2>2. ASSUME NEW p \in Processes, WriteMemory(p) PROVE WInv'
    BY <2>2, WriteKeeps
  <2>3. ASSUME NEW p \in Processes, Abandon(p) PROVE WInv'
    BY <2>3, WindowMoves, MovesKeep
  <2>4. ASSUME NEW p \in Processes, NEW b \in Bindings, Step(p, b) PROVE WInv'
    <3>1. CASE Observe(p, b)
      BY <3>1, ObserveKeeps
    <3>2. CASE ApplyFlush(p)
      BY <3>2, FlushKeeps
    <3>3. CASE ApplyIncubation(p)
      BY <3>3, IncubationKeeps
    <3>4. CASE \/ ReadHead(p) \/ PlanRefused(p) \/ ApplyConflicts(p)
               \/ \E commit \in BOOLEAN : PlanFlush(p, commit)
               \/ \E plan \in SUBSET Refs : PlanIncubation(p, plan)
      BY <3>4, WindowMoves, MovesKeep
    <3> QED
      BY <2>4, <3>1, <3>2, <3>3, <3>4 DEF Step
  <2> QED
    BY <2>1, <2>2, <2>3, <2>4 DEF Next
<1> QED
  BY <1>1, <1>2, PTL DEF Spec

\* Type correctness of the journal, the cursors and the windows.
THEOREM TypeCorrect == Spec => []TypeOK
BY WindowInvariant, PTL DEF WInv

\* Each consumer records a Source once: no Source is the extraction evidence of
\* two Memory revisions or of the Candidates of two windows, however many
\* processes flush and incubate at a time.
THEOREM RecordedOnce == Spec => []HandedOverOnce
BY WindowInvariant, PTL DEF WInv

\* The step that changes a cursor commits a window of that cursor.
LEMMA CursorChanges ==
    ASSUME WInv, [Next]_vars, NEW b \in Bindings, cursor'[b] # cursor[b]
    PROVE  \E p \in Processes :
               /\ window[p] \in Window /\ window[p] # None /\ Follows(window[p])
               /\ window[p].binding = b /\ Matches(window[p])
               /\ cursor'[b].sequence = window[p].next
               /\ UNCHANGED journalVars
<1>0. window \in [Processes -> Window \cup {None}] /\ cursor \in [Bindings -> [sequence : Nat, generation : Nat]]
  BY Typed
<1>1. PICK p \in Processes : ApplyFlush(p) \/ ApplyIncubation(p)
  BY DEF Next, Journal, windowVars, WriteMemory, Abandon, Step, Observe, ReadHead, PlanRefused, PlanFlush,
       PlanIncubation, ApplyConflicts, vars
<1>2. PICK w \in Window : window[p] = w /\ w # None /\ Matches(w) /\ Save(w) /\ UNCHANGED journalVars
  BY <1>0, <1>1 DEF ApplyFlush, ApplyIncubation, At
<1>3. Follows(w)
  BY <1>2 DEF WInv, AllFollow
<1>4. w.binding \in Bindings
  BY WindowTyped
<1>5. w.binding = b /\ cursor'[b].sequence = w.next
  BY <1>0, <1>2, <1>4 DEF Save
<1> QED
  BY <1>2, <1>3, <1>5

\* A cursor moves only over a window observed at the position it stands on, and
\* over exactly what the journal holds there (ApplyWindow's compare-and-swap).
THEOREM CursorsFollowWindows == Spec => CursorMovesOverItsWindow
<1>1. ASSUME WInv, [Next]_vars, NEW b \in Bindings, cursor'[b] # cursor[b]
      PROVE  \E p \in Processes :
                 /\ window[p] # None
                 /\ window[p].binding = b
                 /\ window[p].previous = cursor[b].sequence
                 /\ window[p].values = Values(b, cursor[b].sequence, cursor'[b].sequence)
  <2>1. PICK p \in Processes :
               /\ window[p] # None /\ Follows(window[p])
               /\ window[p].binding = b /\ Matches(window[p])
               /\ cursor'[b].sequence = window[p].next
    BY <1>1, CursorChanges
  <2>2. window[p].previous = cursor[b].sequence
    BY <2>1 DEF Follows, Matches
  <2>3. window[p].values = Values(b, window[p].previous, window[p].next)
    BY <2>1 DEF Follows
  <2> QED
    BY <2>1, <2>2, <2>3
<1> DEFINE Over == \A b \in Bindings : cursor'[b] # cursor[b] =>
        \E p \in Processes :
            /\ window[p] # None
            /\ window[p].binding = b
            /\ window[p].previous = cursor[b].sequence
            /\ window[p].values =
                 Values(b, cursor[b].sequence, cursor'[b].sequence)
<1>2. WInv /\ [Next]_vars => [Over]_vars
  BY <1>1
<1> QED
  BY <1>2, WindowInvariant, PTL DEF Spec, CursorMovesOverItsWindow

\* Both cursors implement the gapless consumer of JournalConsumer: a commit is a
\* Consume, an inserted row is an Append, and every other step a stutter.
THEOREM ConsumerRefinement == Spec => ImplementsConsumer
<1>0. "memory" \in Bindings /\ "incubation" \in Bindings
  BY DEF Bindings
<1>1. Init => /\ head \in Nat /\ cursor["memory"].sequence = 0 /\ cursor["incubation"].sequence = 0
  <2> SUFFICES ASSUME Init PROVE head \in Nat /\ cursor["memory"].sequence = 0 /\ cursor["incubation"].sequence = 0
    OBVIOUS
  <2>1. head \in Nat
    BY JournalStarts DEF Init, JInv, JournalTypeOK
  <2> QED
    BY <1>0, <2>1 DEF Init
<1>2. ASSUME WInv, [Next]_vars, NEW b \in Bindings
      PROVE  \/ head' = head + 1 /\ cursor'[b].sequence = cursor[b].sequence
             \/ /\ cursor[b].sequence < cursor'[b].sequence
                /\ cursor'[b].sequence <= head
                /\ cursor'[b].sequence <= cursor[b].sequence + Limit
                /\ head' = head
             \/ head' = head /\ cursor'[b].sequence = cursor[b].sequence
  <2>1. CASE cursor'[b] = cursor[b]
    <3>1. Grows
      BY <1>2, JournalStep, StepsOfJournal DEF WInv
    <3> QED
      BY <2>1, <3>1 DEF Grows
  <2>2. CASE cursor'[b] # cursor[b]
    <3>1. PICK p \in Processes :
               /\ Follows(window[p]) /\ window[p].binding = b /\ Matches(window[p])
               /\ cursor'[b].sequence = window[p].next
               /\ UNCHANGED journalVars
      BY <1>2, <2>2, CursorChanges
    <3>2. head' = head
      BY <3>1 DEF journalVars
    <3> QED
      BY <3>1, <3>2 DEF Follows, Matches
  <2> QED
    BY <2>1, <2>2
<1>3. Init => MemoryConsumer!Init /\ IncubationConsumer!Init
  BY <1>1 DEF MemoryConsumer!Init, IncubationConsumer!Init
<1>4. WInv /\ [Next]_vars => [MemoryConsumer!Next]_MemoryConsumer!vars
  BY <1>0, <1>2 DEF MemoryConsumer!Next, MemoryConsumer!Append, MemoryConsumer!Consume, MemoryConsumer!vars
<1>5. WInv /\ [Next]_vars => [IncubationConsumer!Next]_IncubationConsumer!vars
  BY <1>0, <1>2 DEF IncubationConsumer!Next, IncubationConsumer!Append, IncubationConsumer!Consume,
       IncubationConsumer!vars
<1> QED
  BY <1>3, <1>4, <1>5, WindowInvariant, PTL
  DEF Spec, ImplementsConsumer, MemoryConsumer!Spec, IncubationConsumer!Spec
=============================================================================
