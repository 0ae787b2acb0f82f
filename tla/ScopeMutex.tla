----------------------------- MODULE ScopeMutex -----------------------------
(***************************************************************************)
(* What the Runtime promises to the writers of one exact Scope: a write    *)
(* section belongs to one goroutine at a time, and leaves it only by that  *)
(* goroutine's own release.  Nothing is said of entries, leases or         *)
(* eviction; ScopeCache implements this specification.                     *)
(***************************************************************************)
CONSTANTS
    Holders,    \* the goroutines that enter Scopes
    Scopes,     \* exact Scope identifiers
    None        \* no goroutine

VARIABLE owner  \* owner[s]: the goroutine inside the write section of s

TypeOK == owner \in [Scopes -> Holders \cup {None}]

Init == owner = [s \in Scopes |-> None]

Enter(h, s) ==
    /\ owner[s] = None
    /\ \A x \in Scopes : owner[x] # h
    /\ owner' = [owner EXCEPT ![s] = h]

Leave(h, s) ==
    /\ owner[s] = h
    /\ owner' = [owner EXCEPT ![s] = None]

Next == \E h \in Holders, s \in Scopes : Enter(h, s) \/ Leave(h, s)

Spec == Init /\ [][Next]_owner
=============================================================================
