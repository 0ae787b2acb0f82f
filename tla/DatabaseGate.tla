---------------------------- MODULE DatabaseGate ----------------------------
(***************************************************************************)
(* Admission, drain and shutdown of sqlstore.Database, which owns a        *)
(* database/sql pool.                                                      *)
(*                                                                         *)
(* A client runs Transaction (Ping is one); a closer runs Close, which     *)
(* closeMu admits one at a time, so that a second closer is a later call   *)
(* of the one modelled here.  An action is one critical section of stateMu *)
(* or one call of the pool; a transaction ends together with the release   *)
(* that follows it.                                                        *)
(***************************************************************************)
EXTENDS Naturals, FiniteSets

CONSTANT Clients    \* goroutines that run transactions

ASSUME ClientsAssumption == IsFiniteSet(Clients)

VARIABLES
    closing, closed,    \* Database.closing, Database.closed
    active,             \* Database.active
    drained,            \* Database.drained: "nil", "open" or "closed"
    pool,               \* the sql.DB: "open" or "closed"
    tx,                 \* tx[c]: "out", "admitted" or "begun"
    closer              \* Close: "out", or "draining" in its select

gateVars == <<closing, closed, active, drained, pool, tx, closer>>

GateTypeOK ==
    /\ closing \in BOOLEAN
    /\ closed \in BOOLEAN
    /\ active \in Nat
    /\ drained \in {"nil", "open", "closed"}
    /\ pool \in {"open", "closed"}
    /\ tx \in [Clients -> {"out", "admitted", "begun"}]
    /\ closer \in {"out", "draining"}

GateInit ==
    /\ closing = FALSE
    /\ closed = FALSE
    /\ active = 0
    /\ drained = "nil"
    /\ pool = "open"
    /\ tx = [c \in Clients |-> "out"]
    /\ closer = "out"
-----------------------------------------------------------------------------
\* admit: the condition under which a transaction is let in.
Admits == ~closed /\ ~closing

Admit(c) ==
    /\ tx[c] = "out"
    /\ Admits
    /\ active' = active + 1
    /\ tx' = [tx EXCEPT ![c] = "admitted"]
    /\ UNCHANGED <<closing, closed, drained, pool, closer>>

\* BeginTx on a pool that is open.
BeginTx(c) ==
    /\ tx[c] = "admitted"
    /\ pool = "open"
    /\ tx' = [tx EXCEPT ![c] = "begun"]
    /\ UNCHANGED <<closing, closed, active, drained, pool, closer>>

\* release, deferred by Transaction: the last one out closes the channel.
Release(c) ==
    /\ active' = active - 1
    /\ drained' = IF active' = 0 /\ closing /\ drained # "nil" THEN "closed"
                  ELSE drained
    /\ tx' = [tx EXCEPT ![c] = "out"]
    /\ UNCHANGED <<closing, closed, pool, closer>>

\* BeginTx fails: the pool is closed, the context is done, or the driver errs.
BeginFails(c) == tx[c] = "admitted" /\ Release(c)

\* Commit, or Rollback after an error of the callback.
Finish(c) == tx[c] = "begun" /\ Release(c)

\* Close up to its select.
CloseBegin ==
    /\ closer = "out"
    /\ ~closed
    /\ closing' = TRUE
    /\ drained' = IF closing THEN drained
                  ELSE IF active = 0 THEN "closed" ELSE "open"
    /\ closer' = "draining"
    /\ UNCHANGED <<closed, active, pool, tx>>

\* Admission is given back.
Reopen ==
    /\ closing' = FALSE
    /\ drained' = "nil"
    /\ closer' = "out"

\* Mutant: a cancelled Close leaves the Database closing.
MutantCloseCancelled ==
    /\ closer = "draining"
    /\ closer' = "out"
    /\ UNCHANGED <<closing, closed, active, drained, pool, tx>>

\* The context of Close is done; select may prefer it to a finished drain.
CloseCancelled ==
    /\ closer = "draining"
    /\ Reopen
    /\ UNCHANGED <<closed, active, pool, tx>>

\* Mutant: Close does not wait for the drain.
MutantClosePool ==
    /\ closer = "draining"
    /\ pool' = "closed"
    /\ closed' = TRUE
    /\ Reopen
    /\ UNCHANGED <<active, tx>>

\* The drain is over and sql.DB.Close succeeds.
ClosePool ==
    /\ closer = "draining"
    /\ drained = "closed"
    /\ pool' = "closed"
    /\ closed' = TRUE
    /\ Reopen
    /\ UNCHANGED <<active, tx>>

\* sql.DB.Close reports an error.  The pool is closed nevertheless, and its
\* second Close succeeds; the Database gives admission back.
ClosePoolFails ==
    /\ closer = "draining"
    /\ drained = "closed"
    /\ pool = "open"
    /\ pool' = "closed"
    /\ Reopen
    /\ UNCHANGED <<closed, active, tx>>

Transaction(c) == Admit(c) \/ BeginTx(c) \/ BeginFails(c) \/ Finish(c)

Close == CloseBegin \/ CloseCancelled \/ ClosePool \/ ClosePoolFails

GateNext == Close \/ \E c \in Clients : Transaction(c)

GateSpec == GateInit /\ [][GateNext]_gateVars
-----------------------------------------------------------------------------
Inside == {c \in Clients : tx[c] # "out"}

\* The pool outlives the transactions it runs: Close "waits for admitted
\* transactions, then closes the owned pool", also when an earlier Close was
\* cancelled or failed and work was admitted again since.
PoolOutlivesWork ==
    pool = "closed" => \A c \in Clients : tx[c] # "begun"

\* Close never sleeps through the end of the drain and never leaves it early:
\* its channel is open exactly while some transaction is inside.  And nothing
\* of it is left behind: when no Close is under way, admission is refused only
\* by a Database that is closed ("A canceled close restores admission").
CloseDrains ==
    IF closer = "draining"
    THEN closing /\ drained = (IF Inside = {} THEN "closed" ELSE "open")
    ELSE ~closing /\ drained = "nil"
=============================================================================
