----------------------------- MODULE CachedProbe -----------------------------
(***************************************************************************)
(* CachedProbe of internal/runtime/readiness.go: a readiness outcome that  *)
(* expires, and the collapse of concurrent refreshes into one.             *)
(*                                                                         *)
(* The two lifetimes are abstracted to one step, Expire.  Probe reads the  *)
(* clock just before it takes the mutex; the reading and the critical      *)
(* section are one step, because an outcome that expires in between is     *)
(* served as if the section had come first, and one that is stored in      *)
(* between is fresh for either reading.                                    *)
(***************************************************************************)
CONSTANTS Callers, None

VARIABLES
    cached,     \* the outcome that has not expired: "none", "ready", "failed"
    refreshing, \* the caller whose refresh the channel stands for, or None
    seat        \* seat[c]: "out", "looking", "waiting" or "probing"

probeVars == <<cached, refreshing, seat>>

ProbeTypeOK ==
    /\ cached \in {"none", "ready", "failed"}
    /\ refreshing \in Callers \cup {None}
    /\ seat \in [Callers -> {"out", "looking", "waiting", "probing"}]

ProbeInit ==
    /\ cached = "none"
    /\ refreshing = None
    /\ seat = [c \in Callers |-> "out"]
-----------------------------------------------------------------------------
ProbeBegin(c) ==
    /\ seat[c] = "out"
    /\ seat' = [seat EXCEPT ![c] = "looking"]
    /\ UNCHANGED <<cached, refreshing>>

\* A fresh outcome is served.
Hit(c) ==
    /\ seat[c] = "looking"
    /\ cached # "none"
    /\ seat' = [seat EXCEPT ![c] = "out"]
    /\ UNCHANGED <<cached, refreshing>>

\* Another caller refreshes: wait for its channel.
Join(c) ==
    /\ seat[c] = "looking"
    /\ cached = "none"
    /\ refreshing # None
    /\ seat' = [seat EXCEPT ![c] = "waiting"]
    /\ UNCHANGED <<cached, refreshing>>

\* The context of a waiting caller is done.
StopWaiting(c) ==
    /\ seat[c] = "waiting"
    /\ seat' = [seat EXCEPT ![c] = "out"]
    /\ UNCHANGED <<cached, refreshing>>

Refresh(c) ==
    /\ seat[c] = "looking"
    /\ cached = "none"
    /\ refreshing = None
    /\ refreshing' = c
    /\ seat' = [seat EXCEPT ![c] = "probing"]
    /\ UNCHANGED cached

\* Mutant: a refresh that ends with an error leaves its channel in place.
MutantRefreshed(c, outcome) ==
    /\ seat[c] = "probing"
    /\ cached' = IF outcome = "error" THEN cached ELSE outcome
    /\ refreshing' = IF outcome = "error" THEN c ELSE None
    /\ seat' = [d \in Callers |-> IF d = c THEN "out"
                                  ELSE IF seat[d] = "waiting" THEN "looking"
                                  ELSE seat[d]]

\* The probe returned or panicked: an outcome is stored, an error is not, and
\* every waiting caller looks again.
Refreshed(c, outcome) ==
    /\ seat[c] = "probing"
    /\ cached' = IF outcome = "error" THEN cached ELSE outcome
    /\ refreshing' = None
    /\ seat' = [d \in Callers |-> IF d = c THEN "out"
                                  ELSE IF seat[d] = "waiting" THEN "looking"
                                  ELSE seat[d]]

Expire ==
    /\ cached # "none"
    /\ cached' = "none"
    /\ UNCHANGED <<refreshing, seat>>

Probe(c) ==
    \/ ProbeBegin(c) \/ Hit(c) \/ Join(c) \/ StopWaiting(c) \/ Refresh(c)
    \/ \E outcome \in {"ready", "failed", "error"} : Refreshed(c, outcome)

ProbeNext == Expire \/ \E c \in Callers : Probe(c)

ProbeSpec == ProbeInit /\ [][ProbeNext]_probeVars
-----------------------------------------------------------------------------
\* Concurrent refreshes are collapsed: the caller the channel stands for, and
\* no other, is probing, and nobody waits for a refresh that is over.
OneRefresh ==
    /\ \A c \in Callers : seat[c] = "probing" <=> refreshing = c
    /\ (\E c \in Callers : seat[c] = "waiting") => refreshing # None
=============================================================================
