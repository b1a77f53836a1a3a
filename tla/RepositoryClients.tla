------------------------- MODULE RepositoryClients -------------------------
(***************************************************************************)
(* The PostgreSQL repository with callers that call it at will, and the    *)
(* claim that it keeps the promise of OrderRepository to each of them.     *)
(***************************************************************************)
EXTENDS PgOrderRepository

CONSTANTS Seeded,  \* contents a row may start with (a subset of Statuses, NoRow)
          Asked    \* the calls the callers make (a subset of Calls)

\* Save takes one order; a batch takes any number.
ASSUME ClientsAssumption ==
  /\ Seeded \subseteq Statuses \cup {NoRow}
  /\ \A c \in Asked : /\ c \in Calls
                      /\ c.op = "save" => \E o \in Orders : c.ids = {o}

vars == repoVars

Init == RepoInit(Seeded)

Call(r, c) == \/ c.op = "save" /\ Save(r, c)
              \/ c.op = "batch" /\ BatchUpdate(r, c)

Next == \/ \E r \in Requests, c \in Asked : Call(r, c)
        \/ \E r \in Requests : RepoStep(r) \/ RepoFault(r)
        \/ AbortAll

Spec == Init /\ [][Next]_vars

-----------------------------------------------------------------------------
\* The promise: while a transaction is open the call is pending and nothing
\* of it is visible; its commit is the moment at which it takes effect.
Promise ==
  INSTANCE OrderRepository WITH
    answer <- [r \in Requests |-> IF InTx(r) THEN "pending" ELSE tx[r]],
    wrote  <- [r \in Requests |-> IF InTx(r) THEN {} ELSE hit[r]]

KeepsPromise == Promise!Spec
=============================================================================
