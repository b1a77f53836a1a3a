-------------------------- MODULE OrderRepository --------------------------
(***************************************************************************)
(* What the services may rely on when they call an order repository: every *)
(* call takes effect at one moment, at most once, and its answer says      *)
(* whether it did.                                                         *)
(*                                                                         *)
(*   "ok"         the effect happened                                      *)
(*   "duplicate"  nothing was written, and the row exists                  *)
(*   "conflict"   nothing was written, the call may be tried again         *)
(*   "error"      unknown: the whole effect happened or none of it         *)
(*                                                                         *)
(* A Save writes its status whatever the row held before.  A batch writes  *)
(* only rows that hold its "from" status at that moment.                   *)
(***************************************************************************)
EXTENDS OrderStatus

CONSTANTS Orders,    \* order ids
          Requests,  \* callers; each has at most one call in progress
          NoRow      \* "the table has no row for this id"

VARIABLES row,     \* [Orders -> Statuses or NoRow]: the orders table
          call,    \* [Requests -> a member of Calls]: arguments of the call
          answer,  \* [Requests -> "none", "pending" or the last answer]
          wrote    \* [Requests -> the rows the caller's last call wrote]

vars == <<row, call, answer, wrote>>

Calls == [op : {"save", "batch"}, ids : SUBSET Orders,
          from : Statuses \cup {NoRow}, to : Statuses]

Init == /\ row \in [Orders -> Statuses \cup {NoRow}]
        /\ call \in [Requests -> Calls]
        /\ answer = [r \in Requests |-> "none"]
        /\ wrote = [r \in Requests |-> {}]

Call(r) == /\ answer[r] # "pending"
           /\ answer' = [answer EXCEPT ![r] = "pending"]
           /\ wrote' = [wrote EXCEPT ![r] = {}]
           /\ UNCHANGED row
           /\ \E c \in Calls : call' = [call EXCEPT ![r] = c]

\* r's call writes the rows of S and answers a.
Return(r, S, a) ==
  /\ answer[r] = "pending"
  /\ answer' = [answer EXCEPT ![r] = a]
  /\ wrote' = [wrote EXCEPT ![r] = S]
  /\ row' = [o \in Orders |-> IF o \in S THEN call[r].to ELSE row[o]]
  /\ UNCHANGED call

ReturnFromSave(r) ==
  /\ call[r].op = "save"
  /\ \/ Return(r, call[r].ids, "ok")
     \/ (\A o \in call[r].ids : row[o] # NoRow) /\ Return(r, {}, "duplicate")
     \/ Return(r, {}, "conflict")
     \/ \E S \in {{}, call[r].ids} : Return(r, S, "error")

ReturnFromBatch(r) ==
  /\ call[r].op = "batch"
  /\ \E S \in SUBSET {o \in call[r].ids : row[o] = call[r].from} :
        Return(r, S, "ok") \/ Return(r, S, "error")

\* The service goes down: whatever was pending is over, without effect.
Crash == /\ answer' = [r \in Requests |->
                         IF answer[r] = "pending" THEN "error" ELSE answer[r]]
         /\ UNCHANGED <<row, call, wrote>>

Next == \/ \E r \in Requests : \/ Call(r)
                               \/ ReturnFromSave(r)
                               \/ ReturnFromBatch(r)
        \/ Crash

Spec == Init /\ [][Next]_vars
=============================================================================
