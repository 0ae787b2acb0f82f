---------------------------- MODULE MCScopeCache ----------------------------
(***************************************************************************)
(* The smallest instance in which a leased entry is the only candidate for *)
(* eviction, the cache is pushed past its capacity and trimmed back, and a *)
(* Scope is evicted and allocated again while others wait.                 *)
(***************************************************************************)
EXTENDS ScopeCache
=============================================================================
