----------------------------- MODULE MCTransports -----------------------------
(***************************************************************************)
(* The two transports of the examples.  A program is built for one of the  *)
(* platforms and has only that transport; the other one never starts.  On  *)
(* ESP-IDF: two tasks, timeouts of one to three milliseconds, time in half *)
(* milliseconds and an RTOS that ticks every second millisecond.  With     *)
(* Wire: a deadline of two milliseconds, every target, and two users.      *)
(***************************************************************************)
EXTENDS IdfTransport

CONSTANTS Timeout, Users

VARIABLES
  platform,  \* the platform that the program is built for
  at, clocks, elapsed, scl, sda, target, found, stretch, lock, write

Wire == INSTANCE WireTransport

ASSUME TransportsAssumption == Wire!WireAssumption

wireVars == <<at, clocks, elapsed, scl, sda, target, found, stretch, lock, write>>
all == <<platform, vars, wireVars>>

OnIdf(A) == platform = "ESP_IDF" /\ A /\ UNCHANGED <<platform, wireVars>>
OnWire(A) == platform = "ARDUINO" /\ A /\ UNCHANGED <<platform, vars>>

InitTransports ==
  /\ platform \in {"ESP_IDF", "ARDUINO"}
  /\ Init /\ Wire!Init
  /\ platform = "ESP_IDF" => target = Wire!Idle /\ ~stretch

NextTransports == OnIdf(Next) \/ OnWire(Wire!Next)

\* ESP-IDF: time goes on however busy the tasks are, and no task is left where it
\* was woken.  Wire: the recovery runs on, whatever the lines do, and a write that
\* has begun is ended.
Fairness ==
  /\ SF_all(OnIdf(Tick))
  /\ \A t \in Tasks : WF_all(OnIdf(Progress(t)))
  /\ WF_all(OnWire(Wire!Recover))
  /\ \A u \in Users : WF_all(OnWire(Wire!Progress(u)))

LiveSpec == InitTransports /\ [][NextTransports]_all /\ Fairness

-----------------------------------------------------------------------------
\* Properties

\* A caller may trust a definite result.  Of a write: OK means that the whole of
\* it reached the device, a NACK of the address that nothing did, and a timeout
\* that it was tried or the bus was in use.  Of the set-up: success means that
\* the bus is free, and a failure is not that of a target that would have let go.
ResultsAreTrue ==
  /\ DefiniteResultsAreTrue
  /\ Wire!DefiniteResultsAreTrue
  /\ Wire!ReadyMeansFree /\ Wire!StuckTargetLetsGo

\* What a call takes it gives back on every path: the mutex or the lock of the
\* bus, the lines, and the handles of a set-up that failed half way.
BusIsGivenBack ==
  /\ MutexIsGivenBack /\ NothingIsLeaked
  /\ Wire!LockIsGivenBack /\ Wire!LinesAreReleased

\* Every call returns, also behind a task that asks for the bus again and again
\* and with a line that is held for ever; and no step takes a write beyond the
\* timeout it was given, also when it had to wait for the mutex for a part of it.
CallsReturnInTime ==
  /\ [][\A t \in Tasks : call'[t].kind = "WRITE" =>
           call'[t].elapsed <= call'[t].timeout * PerMs]_call
  /\ EveryCallReturns
  /\ platform = "ARDUINO" => Wire!RecoveryEnds
=============================================================================
