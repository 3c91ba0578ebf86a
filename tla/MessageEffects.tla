---------------------------- MODULE MessageEffects ----------------------------
(***************************************************************************)
(* What the inbox of the Go SDK promises about the effects of messages and *)
(* the answers the bus gets: there are no consumers, streams, batches,     *)
(* deliveries or handlers here.  In the Transactional mode the effect of a *)
(* message comes with its mark, and so comes once.  In the OnlyOnce mode   *)
(* the mark follows, and each further effect needs an excuse.  In every    *)
(* mode a message is reported done only when there is nothing left to do.  *)
(*                                                                         *)
(* SdkConsumer implements this for any number of consumers.                *)
(***************************************************************************)
EXTENDS Naturals

CONSTANT Messages

VARIABLES
  mode,    \* Disabled, OnlyOnce or Transactional
  invalid, \* messages that cannot be decoded
  effects, \* message -> committed effects
  marks,   \* messages marked as processed
  told,    \* messages reported done
  excuses  \* message -> marks that were lost, and handlers that overlapped

vars == <<mode, invalid, effects, marks, told, excuses>>

Init ==
  /\ mode \in {"Disabled", "OnlyOnce", "Transactional"}
  /\ invalid \in SUBSET Messages
  /\ effects = [m \in Messages |-> 0] /\ excuses = [m \in Messages |-> 0]
  /\ marks = {} /\ told = {}

AddEffect(m) == effects' = [effects EXCEPT ![m] = @ + 1]

\* An effect without its mark.
Apply(m) ==
  /\ mode # "Transactional" /\ m \notin invalid
  /\ mode = "OnlyOnce" => effects[m] <= excuses[m]
  /\ AddEffect(m)
  /\ UNCHANGED <<mode, invalid, marks, told, excuses>>

\* The mark of a message with nothing left to do: its effect is there, or it cannot be decoded.
Mark(m) ==
  /\ mode = "OnlyOnce"
  /\ effects[m] > 0 \/ m \in invalid
  /\ marks' = marks \union {m}
  /\ UNCHANGED <<mode, invalid, effects, told, excuses>>

\* Both in one transaction.
ApplyMarked(m) ==
  /\ mode = "Transactional" /\ m \notin invalid \union marks
  /\ AddEffect(m)
  /\ marks' = marks \union {m}
  /\ UNCHANGED <<mode, invalid, told, excuses>>

\* Something happens that excuses further effects.
Excuse ==
  /\ excuses' \in [Messages -> Nat] /\ \A m \in Messages : excuses'[m] >= excuses[m]
  /\ UNCHANGED <<mode, invalid, effects, marks, told>>

Tell(some) ==
  /\ \A m \in some : effects[m] > 0 \/ m \in invalid
  /\ told' = told \union some
  /\ UNCHANGED <<mode, invalid, effects, marks, excuses>>

Next ==
  \/ \E m \in Messages : Apply(m) \/ Mark(m) \/ ApplyMarked(m)
  \/ \E some \in SUBSET Messages : Tell(some)
  \/ Excuse

Spec == Init /\ [][Next]_vars

=============================================================================
