------------------------------ MODULE TopicRelay ------------------------------
(***************************************************************************)
(* What the transactional outbox promises the services about their rows:   *)
(* the rows of a topic reach Kafka in their order and are forgotten only   *)
(* then, and a row is written again only because an attempt failed.  There *)
(* are no replicas, passes, fetches, locks or transactions here: the rows  *)
(* that wait are written in one step, which takes them, and what comes     *)
(* before them, as one request.                                            *)
(*                                                                         *)
(* Outbox implements this for any number of replicas.                      *)
(***************************************************************************)
EXTENDS Naturals

CONSTANTS
  Rows,    \* ids of the rows, as the table draws them
  TopicOf  \* row -> its topic

VARIABLES
  place,   \* row -> hidden, waiting, written (acknowledged by Kafka), forgotten
  earlier, \* row -> rows of its topic that go no later than it
  copies,  \* row -> how often it was written to Kafka
  excuses, \* row -> requests with it that did not settle it
  stray    \* rows of failed requests that Kafka may still write

vars == <<place, earlier, copies, excuses, stray>>

At(p) == {r \in Rows : place[r] = p}
Moved(S, p) == [r \in Rows |-> IF r \in S THEN p ELSE place[r]]
OneMore(count, S) == [r \in Rows |-> IF r \in S THEN count[r] + 1 ELSE count[r]]

Init ==
  /\ place = [r \in Rows |-> "hidden"] /\ earlier = [r \in Rows |-> {}]
  /\ copies = [r \in Rows |-> 0] /\ excuses = [r \in Rows |-> 0] /\ stray = {}

\* Rows become visible together, in the order of their ids among those that are.
Appear(S) ==
  /\ S \subseteq At("hidden")
  /\ place' = Moved(S, "waiting")
  /\ earlier' = [r \in Rows |->
       IF r \in S THEN {q \in S \union (Rows \ At("hidden")) : q < r /\ TopicOf[q] = TopicOf[r]}
       ELSE earlier[r]]
  /\ UNCHANGED <<copies, excuses, stray>>

\* The rows S may be one request: they wait, are of one topic, and overtake nothing.
Request(S) ==
  /\ S \subseteq At("waiting")
  /\ \A r, q \in S : TopicOf[r] = TopicOf[q]
  /\ \A r \in S : earlier[r] \subseteq S \union At("forgotten")

Publish(S) ==
  /\ Request(S)
  /\ place' = Moved(S, "written")
  /\ copies' = OneMore(copies, S)
  /\ UNCHANGED <<earlier, excuses, stray>>

\* A request fails after the rows W were written, and the rows L may still be.
Attempt(S, W, L) ==
  /\ Request(S)
  /\ copies' = OneMore(copies, W)
  /\ excuses' = OneMore(excuses, S)
  /\ stray' = stray \union L
  /\ UNCHANGED <<place, earlier>>

WriteStray(r) ==
  /\ r \in stray
  /\ stray' = stray \ {r}
  /\ copies' = OneMore(copies, {r})
  /\ UNCHANGED <<place, earlier, excuses>>

\* Rows are forgotten, none before those that go no later.
Forget(S) ==
  /\ S \subseteq At("written")
  /\ \A r \in S : earlier[r] \subseteq S \union At("forgotten")
  /\ place' = Moved(S, "forgotten")
  /\ UNCHANGED <<earlier, copies, excuses, stray>>

\* That rows were written is itself lost: they wait again.
Lose(S) ==
  /\ S \subseteq At("written")
  /\ place' = Moved(S, "waiting")
  /\ excuses' = OneMore(excuses, S)
  /\ UNCHANGED <<earlier, copies, stray>>

Next ==
  \/ \E S \in SUBSET Rows :
       \/ Appear(S) \/ Publish(S) \/ Forget(S) \/ Lose(S)
       \/ \E W \in SUBSET S : \E L \in SUBSET (S \ W) : Attempt(S, W, L)
  \/ \E r \in Rows : WriteStray(r)

Spec == Init /\ [][Next]_vars

=============================================================================
