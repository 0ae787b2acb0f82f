--------------------------- MODULE LocalEmbedding ---------------------------
(***************************************************************************)
(* The local embedding transport (sentenceTransformersTransport) and the   *)
(* lazily created ONNX session of its engine.                              *)
(*                                                                         *)
(* Embed starts a tracked goroutine and stops waiting for it when its      *)
(* context is done; the native call has no context and may never return.   *)
(* A worker of this module is such a goroutine.  It has a caller until     *)
(* Embed returns without its result; from then on its context is done.     *)
(* Calls are serialised by a token, which a worker holds while it          *)
(* initialises or runs.  Sending the result and leaving the wait group are *)
(* one step, and so are taking the token and the look at the context that  *)
(* follows it.                                                             *)
(***************************************************************************)
CONSTANT Workers    \* bound on the goroutines that are alive at once

VARIABLES
    refusing,   \* sentenceTransformersTransport.closing
    destroyed,  \* sentenceTransformersTransport.closed
    session,    \* the ONNX session: "none", "live" or "gone"
    work,       \* work[w]: "free", "queued", "initialising" or "running"
    orphan      \* orphan[w]: the context of w is done

embeddingVars == <<refusing, destroyed, session, work, orphan>>

EmbeddingTypeOK ==
    /\ refusing \in BOOLEAN
    /\ destroyed \in BOOLEAN
    /\ session \in {"none", "live", "gone"}
    /\ work \in [Workers -> {"free", "queued", "initialising", "running"}]
    /\ orphan \in [Workers -> BOOLEAN]

EmbeddingInit ==
    /\ refusing = FALSE
    /\ destroyed = FALSE
    /\ session = "none"
    /\ work = [w \in Workers |-> "free"]
    /\ orphan = [w \in Workers |-> FALSE]
-----------------------------------------------------------------------------
\* admit: the condition under which a call is let in.
EmbedAdmits == ~refusing /\ ~destroyed

\* Embed starts its goroutine.
Submit(w) ==
    /\ EmbedAdmits
    /\ work[w] = "free"
    /\ work' = [work EXCEPT ![w] = "queued"]
    /\ UNCHANGED <<refusing, destroyed, session, orphan>>

InNative(w) == work[w] \in {"initialising", "running"}

\* runSafely takes the token with a live context; embed of the lazy engine
\* initialises the session first if there is none.
Enter(w) ==
    /\ work[w] = "queued"
    /\ ~orphan[w]
    /\ \A v \in Workers : ~InNative(v)
    /\ work' = [work EXCEPT ![w] = IF session = "live" THEN "running"
                                   ELSE "initialising"]
    /\ UNCHANGED <<refusing, destroyed, session, orphan>>

\* initialize succeeds, and the engine calls the pipeline.
Initialised(w) ==
    /\ work[w] = "initialising"
    /\ session' = "live"
    /\ work' = [work EXCEPT ![w] = "running"]
    /\ UNCHANGED <<refusing, destroyed, orphan>>

\* The goroutine ends.
Leave(w) ==
    /\ work' = [work EXCEPT ![w] = "free"]
    /\ orphan' = [orphan EXCEPT ![w] = FALSE]
    /\ UNCHANGED <<refusing, destroyed, session>>

\* The native call returns a result, an error or a panic, or initialize fails.
NativeReturns(w) == InNative(w) /\ Leave(w)

\* A queued worker finds its context done, in either select branch.
QueueLeft(w) == work[w] = "queued" /\ orphan[w] /\ Leave(w)

\* Embed returns because its context is done; the goroutine goes on.
Abandon(w) ==
    /\ work[w] # "free"
    /\ ~orphan[w]
    /\ orphan' = [orphan EXCEPT ![w] = TRUE]
    /\ UNCHANGED <<refusing, destroyed, session, work>>

\* Close up to its select.
EmbeddingCloseBegin ==
    /\ ~destroyed
    /\ refusing' = TRUE
    /\ UNCHANGED <<destroyed, session, work, orphan>>

\* Mutant: Close waits only for the calls somebody still waits for.
MutantDestroy ==
    /\ refusing
    /\ \A w \in Workers : work[w] = "free" \/ orphan[w]
    /\ session' = IF session = "live" THEN "gone" ELSE session
    /\ destroyed' = TRUE
    /\ UNCHANGED <<refusing, work, orphan>>

\* The wait group is empty: the session is destroyed.  The transport is closed
\* whether or not that reports an error.
Destroy ==
    /\ refusing
    /\ \A w \in Workers : work[w] = "free"
    /\ session' = IF session = "live" THEN "gone" ELSE session
    /\ destroyed' = TRUE
    /\ UNCHANGED <<refusing, work, orphan>>

Work(w) ==
    \/ Submit(w) \/ Enter(w) \/ Initialised(w) \/ NativeReturns(w) \/ QueueLeft(w)
    \/ Abandon(w)

EmbeddingNext == EmbeddingCloseBegin \/ Destroy \/ \E w \in Workers : Work(w)

EmbeddingSpec == EmbeddingInit /\ [][EmbeddingNext]_embeddingVars
-----------------------------------------------------------------------------
\* No native call runs without its session, although Close may be called while
\* callers have long given up on calls that are still running; and a closed
\* transport never creates a session again.
SessionOutlivesCalls ==
    /\ \A w \in Workers : work[w] = "running" => session = "live"
    /\ destroyed => session # "live" /\ \A w \in Workers : ~InNative(w)
=============================================================================
