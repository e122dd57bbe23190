-------------------------- MODULE OperationContract --------------------------
(***************************************************************************)
(* What the driver promises an owner who knows nothing of its phases: one  *)
(* owner of the bus at a time, one operation with one result, an honest    *)
(* account of what an operation did, and a modeled power that is never     *)
(* wrong about the glass.  SSD1315Contract shows that the driver keeps it. *)
(***************************************************************************)

VARIABLES
  job,    \* the operation as takeOperationResult() and its progress show it
  owner,  \* who may use the bus: nobody in particular, an operation, a flush
  power,  \* panelPowerState()
  glass   \* whether the display is lit

vars == <<job, owner, power, glass>>

Kinds == {"INITIALIZE", "FLUSH", "SLEEP", "WAKE", "RESYNC", "SHUTDOWN", "SCROLL"}
Powers == {"UNKNOWN", "OFF", "STARTING", "ON"}
Failures == {"FAILED", "CANCELLED", "TIMED_OUT"}

\* The operations that may change the power; SUCCEEDED means they did.
Lights == {"WAKE", "RESYNC"}
Darkens == {"INITIALIZE", "SLEEP", "SHUTDOWN"}

\* touched: some transaction of the operation reached the controller.
NoJob == [kind |-> "NO_OP", state |-> "IDLE", touched |-> FALSE, effect |-> "NONE"]
Admitted(kind) ==
  [kind |-> kind, state |-> "ACTIVE", touched |-> FALSE, effect |-> "NONE"]
Ended(state, effect, touched) ==
  [kind |-> job.kind, state |-> state, touched |-> touched, effect |-> effect]

\* A modeled power other than UNKNOWN is true.
Honest(p, g) ==
  /\ p \in {"STARTING", "ON"} => g
  /\ p = "OFF" => ~g

\* Nothing happens to the panel but the end of its display-on guard.
PanelKept ==
  /\ glass' = glass
  /\ power' = power \/ (power = "STARTING" /\ power' = "ON")

\* Between an operation's transactions and at its end.
PanelDuring(kind, touched) ==
  IF kind \in Lights \cup Darkens
  THEN /\ power' \in Powers /\ glass' \in BOOLEAN
       /\ Honest(power', glass')
       /\ glass' # glass => touched
  ELSE PanelKept

Init ==
  /\ job = NoJob /\ owner = "NOBODY"
  /\ power = "UNKNOWN" /\ glass \in BOOLEAN

Free == owner = "NOBODY" /\ job = NoJob

Admit(kind) ==
  /\ Free
  /\ kind = "WAKE" => power = "OFF"
  /\ job' = Admitted(kind)
  /\ owner' = "OPERATION"
  /\ UNCHANGED <<power, glass>>

Work ==
  /\ owner = "OPERATION"
  /\ \E touched \in BOOLEAN :
       /\ job.touched => touched
       /\ job' = [job EXCEPT !.touched = touched]
       /\ PanelDuring(job.kind, touched)
  /\ UNCHANGED owner

\* The result of an operation that succeeded says what the panel is now.
Succeed ==
  /\ owner = "OPERATION"
  /\ \E touched \in BOOLEAN :
       /\ job.touched => touched
       /\ touched \/ job.kind = "FLUSH"
       /\ job' = Ended("SUCCEEDED", "CONFIRMED", touched)
       /\ PanelDuring(job.kind, touched)
  /\ job.kind \in Lights => power' = "ON"
  /\ job.kind \in Darkens => power' = "OFF"
  /\ owner' = "NOBODY"

\* One that did not succeed says what it may have left behind.
HonestEffect(effect, touched) ==
  /\ effect = "NONE" => ~touched
  /\ effect = "PARTIAL" => touched

Fail(state) ==
  /\ owner = "OPERATION"
  /\ \E touched \in BOOLEAN, effect \in {"NONE", "PARTIAL", "INDETERMINATE"} :
       /\ job.touched => touched
       /\ HonestEffect(effect, touched)
       /\ job' = Ended(state, effect, touched)
       /\ PanelDuring(job.kind, touched)
  /\ owner' = "NOBODY"

Take ==
  /\ owner = "NOBODY" /\ job # NoJob
  /\ job' = NoJob
  /\ UNCHANGED <<owner, power, glass>>

\* A flush outside any operation.
StartFlush ==
  /\ Free
  /\ owner' = "FLUSH"
  /\ UNCHANGED <<job, power, glass>>

PollFlush ==
  /\ owner = "FLUSH"
  /\ owner' \in {"FLUSH", "NOBODY"}
  /\ PanelKept
  /\ UNCHANGED job

\* A direct command.
Command ==
  /\ Free
  /\ power' \in Powers /\ glass' \in BOOLEAN
  /\ Honest(power', glass')
  /\ UNCHANGED <<job, owner>>

GuardEnds ==
  /\ power = "STARTING" /\ power' = "ON"
  /\ UNCHANGED <<job, owner, glass>>

\* The owner says that the panel may have been reset: nothing is known any more.
Invalidate ==
  /\ IF owner = "OPERATION"
     THEN job' = Ended("CANCELLED", IF job.touched THEN "PARTIAL" ELSE "NONE", job.touched)
     ELSE job' = job
  /\ owner' = "NOBODY"
  /\ power' = "UNKNOWN" /\ glass' \in BOOLEAN

\* The binding is dropped, or made anew.
Drop ==
  /\ job' = NoJob /\ owner' = "NOBODY"
  /\ power' = "UNKNOWN"
  /\ UNCHANGED glass

Next ==
  \/ \E kind \in Kinds : Admit(kind)
  \/ Work \/ Succeed
  \/ \E state \in Failures : Fail(state)
  \/ Take
  \/ StartFlush \/ PollFlush
  \/ Command
  \/ GuardEnds
  \/ Invalidate \/ Drop

Spec == Init /\ [][Next]_vars
=============================================================================
