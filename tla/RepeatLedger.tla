----------------------------- MODULE RepeatLedger -----------------------------
(***************************************************************************)
(* What the retry queue promises about a failed message: its deliveries    *)
(* are counted one by one against the limit of its strategy.  There are no *)
(* copies, jobs or connections here: every delivery takes the entry as it  *)
(* is, is due, and changes it in one step.                                 *)
(*                                                                         *)
(* RepeatQueue implements this as long as one bus process runs the job.    *)
(***************************************************************************)
EXTENDS Naturals

CONSTANTS
  Ids,    \* primary keys of the table
  Limits  \* numbers of attempts the strategies allow

VARIABLE ledger  \* primary key -> entry

Entry(status, spent, limit, deferred, due) ==
  [status |-> status, spent |-> spent, limit |-> limit, deferred |-> deferred, due |-> due]

Init == \E limit \in Limits : ledger = [id \in Ids |-> Entry("none", 0, limit, FALSE, TRUE)]

Failed == {id \in Ids : ledger[id].status = "failed"}

Due(id) == ledger[id].status = "pending" /\ ledger[id].due

Store(id, limit, deferred, due) ==
  /\ ledger[id].status = "none"
  /\ ledger' = [ledger EXCEPT ![id] = Entry("pending", 0, limit, deferred, due)]

\* Time makes entries due and never undoes it.
Pass(some) ==
  ledger' = [id \in Ids |-> IF id \in some THEN [ledger[id] EXCEPT !.due = TRUE] ELSE ledger[id]]

Succeed(id) ==
  /\ Due(id)
  /\ ledger' = [ledger EXCEPT ![id] = [@ EXCEPT !.status = "done"]]

\* A delivery that fails spends an attempt as long as there is one.
Fail(id, due) ==
  /\ Due(id)
  /\ ledger[id].spent < ledger[id].limit
  /\ ledger' = [ledger EXCEPT ![id] = Entry("pending", @.spent + 1, @.limit, FALSE, due)]

GiveUp(id) ==
  /\ Due(id)
  /\ ledger[id].spent = ledger[id].limit
  /\ ledger' = [ledger EXCEPT ![id] = Entry("failed", @.spent, @.limit, FALSE, TRUE)]

\* A delivery that the consumer puts off costs nothing.
Postpone(id, due) ==
  /\ Due(id)
  /\ ledger' = [ledger EXCEPT ![id] = Entry("pending", @.spent, @.limit, TRUE, due)]

\* Only an administrator brings failed entries back, or takes them away.
Restart(some) ==
  ledger' = [id \in Ids |-> IF id \in some
                            THEN [ledger[id] EXCEPT !.status = "pending", !.spent = 0, !.due = TRUE]
                            ELSE ledger[id]]

Purge(some) ==
  ledger' = [id \in Ids |-> IF id \in some THEN [ledger[id] EXCEPT !.status = "purged"]
                            ELSE ledger[id]]

Next ==
  \/ \E some \in SUBSET Ids : Pass(some)
  \/ \E some \in SUBSET Failed : Restart(some) \/ Purge(some)
  \/ \E id \in Ids :
       \/ Succeed(id) \/ GiveUp(id)
       \/ \E due \in BOOLEAN :
            \/ Fail(id, due) \/ Postpone(id, due)
            \/ \E limit \in Limits, deferred \in BOOLEAN : Store(id, limit, deferred, due)

Spec == Init /\ [][Next]_ledger

=============================================================================
