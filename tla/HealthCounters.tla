---------------------------- MODULE HealthCounters ----------------------------
(***************************************************************************)
(* Health accounting over a long life: the counters saturate instead of    *)
(* wrapping, a cooperative operation counts once however many transactions *)
(* it needed, and the diagnostic state is read off the counter alone.      *)
(*                                                                         *)
(* The ghost variable seen holds the exact numbers that the driver's       *)
(* counters are compared with.                                             *)
(***************************************************************************)
EXTENDS Integers

CONSTANTS
  OfflineThreshold,  \* Config::offlineThreshold, at least 1 after attach()
  RunLimit,          \* 255: largest value of _consecutiveFailures
  TotalLimit,        \* UINT32_MAX: largest value of the lifetime counters
  MaxOutcomes        \* bound: outcomes of each sort since attach()

ASSUME HealthAssumption ==
  /\ {OfflineThreshold, RunLimit, TotalLimit, MaxOutcomes} \subseteq Nat \ {0}
  /\ OfflineThreshold <= RunLimit

VARIABLES
  initialized,  \* _initialized
  state,        \* _driverState
  counters,     \* _consecutiveFailures, _totalFailures, _totalSuccess
  op,           \* the operation: kind, whether it reached the bus, whether it
                \* has initialized the controller
  seen          \* exact outcomes of the calls that reached the bus; judged: one
                \* of them came after the last initialization

vars == <<initialized, state, counters, op, seen>>

Kinds == {"INITIALIZE", "RESYNC", "SHUTDOWN", "OTHER"}
NoOperation == [kind |-> "NONE", sent |-> FALSE, ready |-> FALSE]
OperationActive == op # NoOperation
\* An initialization ends with its last command.
Underway == OperationActive /\ ~(op.kind = "INITIALIZE" /\ op.ready)
Zero == [run |-> 0, failures |-> 0, successes |-> 0]

Unseen == [run |-> 0, failures |-> 0, successes |-> 0, judged |-> FALSE]

Init ==
  /\ initialized = FALSE /\ state = "UNINIT"
  /\ counters = Zero /\ seen = Unseen
  /\ op = NoOperation

\* Wrong: the counter wraps.
CountedMutant(n, limit) == (n + 1) % (limit + 1)

Counted(n, limit) == IF n < limit THEN n + 1 ELSE n

\* _updateHealth(), ignored inside an operation.  A driver that is shut down by
\* the same call is UNINIT; before initialization the state stays.
UpdateHealth(ok, active, ready) ==
  LET run == IF ok THEN 0 ELSE Counted(counters.run, RunLimit)
  IN  /\ counters' =
           IF active THEN counters
           ELSE [run |-> run,
                 failures |-> IF ok THEN counters.failures
                              ELSE Counted(counters.failures, TotalLimit),
                 successes |-> IF ok THEN Counted(counters.successes, TotalLimit)
                               ELSE counters.successes]
      /\ state' = IF active THEN state
                  ELSE IF ~ready THEN IF initialized THEN "UNINIT" ELSE state
                  ELSE IF ok THEN "READY"
                  ELSE IF run >= OfflineThreshold THEN "OFFLINE" ELSE "DEGRADED"

Exactly(ok, ready) ==
  /\ IF ok THEN seen.successes < MaxOutcomes ELSE seen.failures < MaxOutcomes
  /\ seen' = IF ok THEN [seen EXCEPT !.run = 0, !.successes = @ + 1, !.judged = ready]
             ELSE [seen EXCEPT !.run = @ + 1, !.failures = @ + 1, !.judged = ready]

\* A direct command: one transaction, published at once.
Direct(ok) ==
  /\ ~OperationActive
  /\ UpdateHealth(ok, FALSE, initialized)
  /\ Exactly(ok, initialized)
  /\ UNCHANGED <<initialized, op>>

\* (probe() asks the device and leaves health alone, whatever it answers.)

StartOperation(k) ==
  /\ ~OperationActive
  /\ k = "OTHER" => initialized
  /\ op' = [kind |-> k, sent |-> FALSE, ready |-> FALSE]
  /\ UNCHANGED <<initialized, state, counters, seen>>

\* A transaction inside the operation, whose last one ends it.
Transact ==
  /\ Underway
  /\ op' = [op EXCEPT !.sent = TRUE]
  /\ UpdateHealth(TRUE, TRUE, initialized)
  /\ UNCHANGED <<initialized, seen>>

\* The last initialization command: the driver is initialized, and a resync goes
\* on with a flush that may still fail or be cancelled.
Initialized ==
  /\ op.kind \in {"INITIALIZE", "RESYNC"} /\ op.sent /\ ~op.ready
  /\ op' = [op EXCEPT !.ready = TRUE]
  /\ initialized' = TRUE
  /\ UNCHANGED <<state, counters, seen>>

\* _finishOperation(); only an empty flush finishes without the bus.
Finish ==
  /\ OperationActive
  /\ op.sent \/ op.kind = "OTHER"
  /\ op.kind \in {"INITIALIZE", "RESYNC"} => op.ready
  /\ initialized' = (initialized /\ op.kind # "SHUTDOWN")
  /\ IF op.sent
     THEN UpdateHealth(TRUE, FALSE, initialized') /\ Exactly(TRUE, initialized')
     ELSE UNCHANGED <<state, counters, seen>>
  /\ op' = NoOperation

\* _failOperation(), at a deadline also before the first transaction.
Fail ==
  /\ Underway
  /\ IF op.sent
     THEN UpdateHealth(FALSE, FALSE, initialized) /\ Exactly(FALSE, initialized)
     ELSE UNCHANGED <<state, counters, seen>>
  /\ op' = NoOperation
  /\ UNCHANGED initialized

CancelOperation ==
  /\ Underway
  /\ op' = NoOperation
  /\ UNCHANGED <<initialized, state, counters, seen>>

\* detach(), end() and a new attach(): everything starts over.
Detach ==
  /\ initialized' = FALSE /\ state' = "UNINIT"
  /\ counters' = Zero /\ seen' = Unseen
  /\ op' = NoOperation

Next ==
  \/ \E ok \in BOOLEAN : Direct(ok)
  \/ \E k \in Kinds : StartOperation(k)
  \/ Transact \/ Initialized \/ Finish \/ Fail \/ CancelOperation
  \/ Detach

Spec == Init /\ [][Next]_vars

-----------------------------------------------------------------------------
\* Properties

\* Types, with every counter within its width.
TypeOK ==
  /\ initialized \in BOOLEAN
  /\ state \in {"UNINIT", "READY", "DEGRADED", "OFFLINE"}
  /\ counters \in [run : 0..RunLimit, failures : 0..TotalLimit, successes : 0..TotalLimit]
  /\ op \in [kind : Kinds, sent : BOOLEAN, ready : BOOLEAN] \cup {NoOperation}
  /\ seen \in [run : Nat, failures : Nat, successes : Nat, judged : BOOLEAN]

\* Once an outcome was counted on an initialized driver, the state is what the
\* number of consecutive failures says it is, also long after the counter ran into
\* its limit: no failure turns an offline driver back into a degraded one.
StateIsEarned ==
  initialized /\ seen.judged =>
    state = (IF seen.run = 0 THEN "READY"
             ELSE IF seen.run < OfflineThreshold THEN "DEGRADED" ELSE "OFFLINE")

\* The lifetime counters are exact up to their limit: each call or operation
\* that reached the bus contributes one, however many transactions it needed.
TotalsAreExact ==
  /\ counters.failures = (IF seen.failures < TotalLimit THEN seen.failures ELSE TotalLimit)
  /\ counters.successes = (IF seen.successes < TotalLimit THEN seen.successes ELSE TotalLimit)
=============================================================================
