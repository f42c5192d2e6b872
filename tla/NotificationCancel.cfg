\* The claim of the code that a change of mode cancels the delivery of earlier alerts.
SPECIFICATION Spec
CONSTANTS
  Worker = {a}
  Chat = {k}
  Batch = 1
  MaxEvents = 1
  MaxFaults = 0
  MaxChanges = 1
  none = none
PROPERTIES
  CancelledStaysCancelled
CHECK_DEADLOCK FALSE
