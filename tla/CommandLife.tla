---------------------------- MODULE CommandLife -----------------------------
(***************************************************************************)
(* What the control queue promises about a command, whatever the order of  *)
(* requests, reports, expiries, cancellations, clean-ups and mode changes: *)
(* it is issued after every other command of its target, waits alone, ends *)
(* in exactly one outcome (docs/api.md, "from pending into exactly one     *)
(* final state; a return to pending is not allowed") and is deleted last.  *)
(***************************************************************************)
EXTENDS Integers

CONSTANTS Batch, Target

VARIABLE status   \* status[b][t]: the command of batch b for target t

Ended == {"applied", "failed", "cancelled", "expired"}

\* The changes one transaction may make to a command.  Clean-up may find a
\* command overdue, so it may be expired and deleted at once.
Edges == {<<"absent", "pending">>}
         \cup ({"pending"} \X (Ended \cup {"deleted"}))
         \cup (Ended \X {"deleted"})

Waiting(t) == {b \in Batch : status[b][t] = "pending"}

Init == status = [b \in Batch |-> [t \in Target |-> "absent"]]

\* One transaction: any commands move along an edge, and a new one is the
\* latest of its target and the only one that waits.
Step ==
  /\ status' \in [Batch -> [Target -> Ended \cup {"absent", "pending", "deleted"}]]
  /\ \A b \in Batch, t \in Target :
       status'[b][t] # status[b][t] => <<status[b][t], status'[b][t]>> \in Edges
  /\ \A b \in Batch, t \in Target :
       (status[b][t] = "absent" /\ status'[b][t] = "pending")
         => /\ \A c \in Batch : c > b => status'[c][t] = "absent"
            /\ Waiting(t)' = {b}

Spec == Init /\ [][Step]_status

=============================================================================
