------------------------- MODULE PgOrderRepository -------------------------
(***************************************************************************)
(* The PostgreSQL order repository: the orders table, its row locks, and   *)
(* the transactions that Save and BatchUpdateOrderStatus run against it    *)
(* for callers that work concurrently.                                     *)
(*                                                                         *)
(* Save runs "SELECT ... FOR UPDATE NOWAIT; UPDATE or INSERT; COMMIT" in a *)
(* SERIALIZABLE transaction and retries it on 40001.  The lock protects    *)
(* the two statements of one attempt only: what the caller read with       *)
(* GetByID is not looked at again.  A batch is one autocommitted UPDATE    *)
(* that locks row after row, waiting where it must.                        *)
(*                                                                         *)
(* The UPDATE of Save is folded into its COMMIT: it runs under the lock    *)
(* that the SELECT took, and nobody sees it before the COMMIT.  Which      *)
(* interleavings make PostgreSQL report 40001 is left open: any attempt    *)
(* may fail that way.                                                      *)
(***************************************************************************)
EXTENDS OrderStatus

CONSTANTS Orders,      \* order ids
          Requests,    \* concurrent callers (goroutines)
          NoRow,       \* "the table has no row for this id"
          Nobody,      \* "the row lock is free"
          MaxRetries   \* attempts of one Save

ASSUME RepositoryAssumption ==
  /\ NoRow \notin Statuses
  /\ Nobody \notin Requests
  /\ MaxRetries \in Nat \ {0}

VARIABLES row,      \* [Orders -> Statuses or NoRow]: committed rows
          lock,     \* [Orders -> Requests or Nobody]: row or key lock
          tx,       \* [Requests -> phase of the transaction, or its answer]
          attempt,  \* [Requests -> 1..MaxRetries]: loop variable of Save
          call,     \* [Requests -> Calls]: what the caller asks for
          todo,     \* [Requests -> rows a batch has yet to lock]
          hit       \* [Requests -> rows written by the transaction]

repoVars == <<row, lock, tx, attempt, call, todo, hit>>

Phases  == {"select", "insert", "commit", "update"}
Answers == {"ok", "duplicate", "conflict", "error"}

\* from is the status the caller saw; only a batch looks at it.
Calls == [op : {"save", "batch"}, ids : SUBSET Orders,
          from : Statuses \cup {NoRow}, to : Statuses]

RepoTypeOK ==
  /\ row \in [Orders -> Statuses \cup {NoRow}]
  /\ lock \in [Orders -> Requests \cup {Nobody}]
  /\ tx \in [Requests -> {"none"} \cup Phases \cup Answers]
  /\ attempt \in [Requests -> 1..MaxRetries]
  /\ call \in [Requests -> Calls]
  /\ todo \in [Requests -> SUBSET Orders]
  /\ hit \in [Requests -> SUBSET Orders]

NoCall == [op |-> "save", ids |-> {}, from |-> NoRow, to |-> "Created"]

RepoInit(Rows) ==
  /\ row \in [Orders -> Rows]
  /\ lock = [o \in Orders |-> Nobody]
  /\ tx = [r \in Requests |-> "none"]
  /\ attempt = [r \in Requests |-> 1]
  /\ call = [r \in Requests |-> NoCall]
  /\ todo = [r \in Requests |-> {}]
  /\ hit = [r \in Requests |-> {}]

InTx(r) == tx[r] \in Phases

Released(r) == [o \in Orders |-> IF lock[o] = r THEN Nobody ELSE lock[o]]

-----------------------------------------------------------------------------
(* Save *)

Save(r, c) ==
  /\ ~ InTx(r)
  /\ call' = [call EXCEPT ![r] = c]
  /\ tx' = [tx EXCEPT ![r] = "select"]
  /\ attempt' = [attempt EXCEPT ![r] = 1]
  /\ hit' = [hit EXCEPT ![r] = {}]
  /\ UNCHANGED <<row, lock, todo>>

\* r locks o; if its transaction commits, it writes o.
Lock(r, o) ==
  /\ lock[o] = Nobody
  /\ lock' = [lock EXCEPT ![o] = r]
  /\ hit' = [hit EXCEPT ![r] = @ \cup {o}]

\* NOWAIT: a row locked by somebody else is an error, and not one of those
\* that Save retries.
GetOrderByIDForUpdate(r) ==
  /\ tx[r] = "select"
  /\ \E o \in call[r].ids :
       \/ /\ row[o] = NoRow
          /\ tx' = [tx EXCEPT ![r] = "insert"]
          /\ UNCHANGED <<lock, hit>>
       \/ /\ row[o] # NoRow
          /\ Lock(r, o)
          /\ tx' = [tx EXCEPT ![r] = "commit"]
       \/ /\ row[o] # NoRow
          /\ lock[o] # Nobody
          /\ tx' = [tx EXCEPT ![r] = "error"]
          /\ UNCHANGED <<lock, hit>>
  /\ UNCHANGED <<row, attempt, call, todo>>

\* The primary key: an INSERT waits for one in progress with the same id.
CreateOrder(r) ==
  /\ tx[r] = "insert"
  /\ \E o \in call[r].ids :
       \/ /\ row[o] # NoRow
          /\ tx' = [tx EXCEPT ![r] = "duplicate"]
          /\ UNCHANGED <<lock, hit>>
       \/ /\ row[o] = NoRow
          /\ Lock(r, o)
          /\ tx' = [tx EXCEPT ![r] = "commit"]
  /\ UNCHANGED <<row, attempt, call, todo>>

Rollback(r, p) ==
  /\ tx' = [tx EXCEPT ![r] = p]
  /\ lock' = Released(r)
  /\ hit' = [hit EXCEPT ![r] = {}]
  /\ todo' = [todo EXCEPT ![r] = {}]
  /\ UNCHANGED <<row, call>>

\* Mutant: one attempt too many.
OneAttemptTooMany(r) ==
  /\ InTx(r)
  /\ call[r].op = "save"
  /\ IF attempt[r] <= MaxRetries
     THEN /\ attempt' = [attempt EXCEPT ![r] = @ + 1]
          /\ Rollback(r, "select")
     ELSE /\ Rollback(r, "conflict")
          /\ UNCHANGED attempt

\* 40001 in any statement of Save: back to the SELECT while attempts remain.
SerializationFailure(r) ==
  /\ InTx(r)
  /\ call[r].op = "save"
  /\ IF attempt[r] < MaxRetries
     THEN /\ attempt' = [attempt EXCEPT ![r] = @ + 1]
          /\ Rollback(r, "select")
     ELSE /\ Rollback(r, "conflict")
          /\ UNCHANGED attempt

-----------------------------------------------------------------------------
(* BatchUpdateOrderStatus *)

\* The statement's snapshot decides which rows it will try to lock.
BatchUpdate(r, c) ==
  /\ ~ InTx(r)
  /\ call' = [call EXCEPT ![r] = c]
  /\ tx' = [tx EXCEPT ![r] = "update"]
  /\ todo' = [todo EXCEPT ![r] = {o \in c.ids : row[o] = c.from}]
  /\ hit' = [hit EXCEPT ![r] = {}]
  /\ UNCHANGED <<row, lock, attempt>>

\* Mutant: a row that was waited for is updated without a second look.
UpdateRowUnchecked(r) ==
  /\ tx[r] = "update"
  /\ \E o \in todo[r] :
       /\ todo' = [todo EXCEPT ![r] = @ \ {o}]
       /\ Lock(r, o)
  /\ UNCHANGED <<row, tx, attempt, call>>

\* A locked row is waited for; once free, its status is compared again.
UpdateRow(r) ==
  /\ tx[r] = "update"
  /\ \E o \in todo[r] :
       /\ todo' = [todo EXCEPT ![r] = @ \ {o}]
       /\ \/ /\ row[o] = call[r].from
             /\ Lock(r, o)
          \/ /\ row[o] # call[r].from
             /\ lock[o] = Nobody
             /\ UNCHANGED <<lock, hit>>
  /\ UNCHANGED <<row, tx, attempt, call>>

\* The server kills one of the callers that wait for each other's rows.
DeadlockDetected(r) ==
  /\ \E D \in SUBSET Requests :
       /\ r \in D
       /\ \A q \in D : /\ tx[q] = "update"
                       /\ todo[q] # {}
                       /\ \A o \in todo[q] : lock[o] \in D \ {q}
  /\ Rollback(r, "error")
  /\ UNCHANGED attempt

-----------------------------------------------------------------------------
(* Both *)

Commit(r, a) ==
  /\ \/ tx[r] = "commit"
     \/ tx[r] = "update" /\ todo[r] = {}
  /\ row' = [o \in Orders |-> IF o \in hit[r] THEN call[r].to ELSE row[o]]
  /\ lock' = Released(r)
  /\ tx' = [tx EXCEPT ![r] = a]
  /\ UNCHANGED <<attempt, call, todo, hit>>

\* Mutant: Save or the batch returns and leaves the transaction open.
FailWithoutRollback(r) ==
  /\ InTx(r)
  /\ tx' = [tx EXCEPT ![r] = "error"]
  /\ UNCHANGED <<row, lock, attempt, call, todo, hit>>

\* The context expires or the connection is lost; the server rolls back ...
Fail(r) == /\ InTx(r)
           /\ Rollback(r, "error")
           /\ UNCHANGED attempt

\* ... or has committed already, and the caller is told of an error.
CommitUnacknowledged(r) == Commit(r, "error")

\* A crash of the service: the server rolls every open transaction back.
AbortAll ==
  /\ tx' = [r \in Requests |-> IF InTx(r) THEN "error" ELSE tx[r]]
  /\ lock' = [o \in Orders |-> Nobody]
  /\ hit' = [r \in Requests |-> IF InTx(r) THEN {} ELSE hit[r]]
  /\ todo' = [r \in Requests |-> {}]
  /\ UNCHANGED <<row, attempt, call>>

\* What the repository does by itself, and what may go wrong in it.
RepoStep(r) == \/ GetOrderByIDForUpdate(r)
               \/ CreateOrder(r)
               \/ UpdateRow(r)
               \/ DeadlockDetected(r)
               \/ Commit(r, "ok")

RepoFault(r) == SerializationFailure(r) \/ Fail(r) \/ CommitUnacknowledged(r)

-----------------------------------------------------------------------------
\* A row is locked exactly by the transaction that is about to write it; no
\* exit (answer, retry, rollback, crash) leaves a lock behind.
LocksMatchTransactions ==
  \A o \in Orders, r \in Requests : lock[o] = r <=> InTx(r) /\ o \in hit[r]

\* The compare-and-set of a batch still holds when it commits: nobody has
\* changed a row between the comparison and the commit.
BatchRowsUnchanged ==
  \A r \in Requests :
    tx[r] = "update" => \A o \in hit[r] : row[o] = call[r].from

-----------------------------------------------------------------------------
\* A Save is about one order, locks nothing before its attempt is about to
\* commit, and holds exactly that order then; a batch locks rows it asked for.
TxMatchesCall ==
  \A r \in Requests :
    /\ tx[r] \in {"select", "insert", "commit"} =>
         call[r].op = "save" /\ \E o \in Orders : call[r].ids = {o}
    /\ tx[r] \in {"select", "insert"} => hit[r] = {}
    /\ tx[r] = "commit" => hit[r] = call[r].ids
    /\ tx[r] = "update" => /\ call[r].op = "batch"
                           /\ todo[r] \cup hit[r] \subseteq call[r].ids

\* What every step of the repository keeps: the inductive invariant of its
\* proofs.
RepoIInv == /\ RepoTypeOK
            /\ LocksMatchTransactions
            /\ BatchRowsUnchanged
            /\ TxMatchesCall
=============================================================================
