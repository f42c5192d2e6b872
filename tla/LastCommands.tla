---------------------------- MODULE LastCommands ----------------------------
(***************************************************************************)
(* What the control tables are to those who decide about the room: the     *)
(* last command of each target, what the device reported and what the      *)
(* panel shows as desired.  Each transaction may find commands that nobody *)
(* answered in time, which have then failed, and does one thing after.     *)
(*                                                                         *)
(* CommandQueue implements this until the mode of the installation is      *)
(* switched.                                                               *)
(***************************************************************************)
CONSTANT Target

VARIABLES
  last,      \* each target's last command; "failed" is failed, expired or cancelled
  reported, desired, known

Command == [status: {"none", "pending", "applied", "failed"},
            want: BOOLEAN, source: {"manual", "automatic"}]
None    == [status |-> "none", want |-> FALSE, source |-> "manual"]

\* In what follows l is what last is once the commands of the moment have ended.
Waits(l, t) == l[t].status = "pending"

Wanted(l, rep) == [t \in Target |-> IF Waits(l, t) THEN l[t].want ELSE rep[t]]

Ending(T) == [t \in Target |-> IF t \in T /\ Waits(last, t)
                               THEN [last[t] EXCEPT !.status = "failed"] ELSE last[t]]

Init ==
  /\ last = [t \in Target |-> None]
  /\ reported = [t \in Target |-> FALSE] /\ desired = [t \in Target |-> FALSE]
  /\ known \subseteq Target

\* The automation does not repeat what failed.
Refused(l, t, want, source) ==
  source = "automatic" /\ l[t] = [status |-> "failed", want |-> want, source |-> source]

Satisfied(l, t, want) ==
  /\ Wanted(l, reported)[t] = want
  /\ Waits(l, t) \/ (t \in known /\ reported[t] = want)

\* A new command takes the place of the last one.
Queue(l, plan, source) ==
  /\ UNCHANGED <<reported, known>>
  /\ last' = [t \in Target |->
                IF /\ t \in DOMAIN plan
                   /\ ~Refused(l, t, plan[t], source) /\ ~Satisfied(l, t, plan[t])
                THEN [status |-> "pending", want |-> plan[t], source |-> source]
                ELSE l[t]]

\* Nothing more than the end of some commands, unanswered or cancelled.
End(l) == UNCHANGED <<reported, known>> /\ last' = l

\* The device has feedback for the targets in known': a command that waits is confirmed
\* only in the state it asked for.
Report(l) ==
  /\ known' \subseteq Target /\ reported' \in [Target -> BOOLEAN]
  /\ \A t \in Target \ known' : reported'[t] = reported[t]
  /\ \E T \in [Target -> {"pending", "applied", "failed"}] :
       /\ \A t \in Target : T[t] = "applied" => t \in known' /\ l[t].want = reported'[t]
       /\ last' = [t \in Target |-> IF Waits(l, t) THEN [l[t] EXCEPT !.status = T[t]]
                                                   ELSE l[t]]

\* The clean-up deletes commands that have ended.  Where the last one goes, one that was
\* issued before it may stay and be the last from now on; it has ended too.
Forget(l) ==
  /\ UNCHANGED <<reported, known>>
  /\ last' \in [Target -> Command]
  /\ \A t \in Target : last'[t] # l[t] => ~Waits(l, t) /\ last'[t].status # "pending"

Plans == UNION {[T -> BOOLEAN] : T \in SUBSET Target}

Transaction(l) ==
  \/ End(l)
  \/ \E plan \in Plans, source \in {"manual", "automatic"} : Queue(l, plan, source)
  \/ Report(l)
  \/ Forget(l)

Next ==
  /\ \E T \in SUBSET Target : Transaction(Ending(T))
  /\ desired' = Wanted(last', reported')

Spec == Init /\ [][Next]_<<last, reported, desired, known>>
=============================================================================
