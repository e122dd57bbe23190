----------------------- MODULE SSD1315Contract_proofs -----------------------
(***************************************************************************)
(* What the driver promises to those outside it, for every configuration.  *)
(* Its owner: each step of the driver is one of the contract's, or changes *)
(* nothing it shows.  Whoever watches its health: which call publishes the *)
(* outcome of a flush job, that each is published once, and what           *)
(* DriverState says of the counter.                                        *)
(***************************************************************************)
EXTENDS SSD1315Contract, SSD1315Driver_proofs

-----------------------------------------------------------------------------
\* The contract

\* What the contract shows of the driver's state.
LEMMA Shown ==
  ASSUME TruthInv
  PROVE  /\ VisiblePower = ShownPower(panel, op)
         /\ BusOwner = "OPERATION" <=> op.state = "ACTIVE"
         /\ op.state # "ACTIVE" =>
              /\ VisiblePower = panel.power
              /\ Running(flush) => BusOwner = "FLUSH"
              /\ ~Running(flush) => BusOwner = "NOBODY"
         /\ op.state = "IDLE" => VisibleJob = Contract!NoJob
         /\ op.state # "IDLE" => VisibleJob # Contract!NoJob
         /\ op.state = "ACTIVE" =>
              VisibleJob = [kind |-> op.kind, state |-> "ACTIVE", touched |-> op.touched,
                            effect |-> "NONE"]
         /\ op.state \in Terminal => ~Running(flush)
<1>1. VisiblePower = ShownPower(panel, op)
  BY DEF VisiblePower, InitSequenceBegun, OperationActive, ShownPower, Begun
<1>2. op.state # "ACTIVE" => VisiblePower = panel.power
  BY <1>1 DEF ShownPower, Begun
<1>3. /\ BusOwner = "OPERATION" <=> op.state = "ACTIVE"
      /\ op.state # "ACTIVE" =>
           /\ Running(flush) => BusOwner = "FLUSH"
           /\ ~Running(flush) => BusOwner = "NOBODY"
  BY DEF BusOwner, OperationActive, IsFlushing, Running
<1>4. op.state = "IDLE" => op.kind = "NO_OP" /\ op.touched = FALSE
  BY DEF TruthInv, EffectSafe, NoOperation
<1>5. op.state = "IDLE" => VisibleJob = Contract!NoJob
  BY <1>4 DEF VisibleJob, Contract!NoJob, Terminal
<1>6. op.state # "IDLE" => VisibleJob # Contract!NoJob
  BY DEF VisibleJob, Contract!NoJob
<1>7. op.state = "ACTIVE" =>
        VisibleJob = [kind |-> op.kind, state |-> "ACTIVE", touched |-> op.touched,
                      effect |-> "NONE"]
  BY DEF VisibleJob, Terminal
<1>8. op.state \in Terminal => ~Running(flush)
  BY DEF TruthInv, JobInv, JobSafe
<1>. QED BY <1>1, <1>2, <1>3, <1>5, <1>6, <1>7, <1>8

\* The same after a step.
LEMMA ShownNext ==
  ASSUME TruthInv'
  PROVE  /\ VisiblePower' = ShownPower(panel', op')
         /\ BusOwner' = "OPERATION" <=> op'.state = "ACTIVE"
         /\ op'.state # "ACTIVE" =>
              /\ VisiblePower' = panel'.power
              /\ Running(flush') => BusOwner' = "FLUSH"
              /\ ~Running(flush') => BusOwner' = "NOBODY"
         /\ op'.state = "IDLE" => VisibleJob' = Contract!NoJob
         /\ op'.state = "ACTIVE" =>
              VisibleJob' = [kind |-> op'.kind, state |-> "ACTIVE", touched |-> op'.touched,
                             effect |-> "NONE"]
         /\ op'.state \in Terminal =>
              VisibleJob' = [kind |-> op'.kind, state |-> op'.state, touched |-> op'.touched,
                             effect |-> op'.effect]
         /\ op'.state \in Terminal => ~Running(flush')
<1>1. VisiblePower' = ShownPower(panel', op')
  BY DEF VisiblePower, InitSequenceBegun, OperationActive, ShownPower, Begun
<1>2. op'.state # "ACTIVE" => VisiblePower' = panel'.power
  BY <1>1 DEF ShownPower, Begun
<1>3. /\ BusOwner' = "OPERATION" <=> op'.state = "ACTIVE"
      /\ op'.state # "ACTIVE" =>
           /\ Running(flush') => BusOwner' = "FLUSH"
           /\ ~Running(flush') => BusOwner' = "NOBODY"
  BY DEF BusOwner, OperationActive, IsFlushing, Running
<1>4. op'.state = "IDLE" => op'.kind = "NO_OP" /\ op'.touched = FALSE
  BY DEF TruthInv, EffectSafe, NoOperation
<1>5. op'.state = "IDLE" => VisibleJob' = Contract!NoJob
  BY <1>4 DEF VisibleJob, Contract!NoJob, Terminal
<1>6. /\ op'.state = "ACTIVE" =>
           VisibleJob' = [kind |-> op'.kind, state |-> "ACTIVE", touched |-> op'.touched,
                          effect |-> "NONE"]
      /\ op'.state \in Terminal =>
           VisibleJob' = [kind |-> op'.kind, state |-> op'.state, touched |-> op'.touched,
                          effect |-> op'.effect]
  BY DEF VisibleJob, Terminal
<1>7. op'.state \in Terminal => ~Running(flush')
  BY DEF TruthInv, JobInv, JobSafe
<1>. QED BY <1>1, <1>2, <1>3, <1>5, <1>6, <1>7

-----------------------------------------------------------------------------
\* One lemma per kind of call.

\* The panel of a working operation is the one the contract allows.
LEMMA PanelOfWork ==
  ASSUME TruthInv, TruthInv', op.state = "ACTIVE", EffectStep, PowerStep
  PROVE  /\ Contract!PanelDuring(op.kind, op'.touched)
         /\ op'.touched \in BOOLEAN
         /\ op.touched => op'.touched
<1>1. /\ panel' \in PanelType /\ op' \in OpType /\ device' \in DeviceType
      /\ op'.touched \in BOOLEAN /\ device'.lit \in BOOLEAN /\ panel'.power \in Powers
  BY DEF TruthInv, JobInv, PowerInv, TypeOK, OpType, DeviceType, PanelType
<1>2. VisiblePower = ShownPower(panel, op) /\ VisiblePower' = ShownPower(panel', op')
  BY Shown, ShownNext
<1>3. CASE op.kind \in {"FLUSH", "SCROLL"}
  <2>1. op.phase # "INITIALIZE_COMMAND" /\ op'.phase # "INITIALIZE_COMMAND"
    BY <1>3 DEF EffectStep, TruthInv, JobInv, PowerInv, PowerSafe, PhaseOfKind
  <2>2. VisiblePower = panel.power /\ VisiblePower' = panel'.power
    BY <1>2, <2>1 DEF ShownPower, Begun
  <2>3. Contract!PanelKept
    BY <1>3, <2>2 DEF PowerStep, PowerKept, Contract!PanelKept
  <2>. QED BY <1>1, <1>3, <2>3
           DEF EffectStep, Contract!PanelDuring, Contract!Lights, Contract!Darkens
<1>4. CASE op.kind \notin {"FLUSH", "SCROLL"}
  <2>1. op.kind \in Contract!Lights \cup Contract!Darkens
    <3>1. op.kind # "NO_OP"
      <4>1. op.kind = "NO_OP" => op.phase \notin ControlPhases \cup {"FLUSH_PHASE"} \cup QuietPhases
        BY DEF TruthInv, EffectSafe, KindOfPhase, JobInv, PowerInv, PowerSafe, PhaseOfKind,
               ControlPhases
      <4>. QED BY <4>1 DEF TruthInv, JobInv, PowerInv, TypeOK, OpType, QuietPhases
    <3>. QED BY <1>4, <3>1
             DEF TruthInv, JobInv, PowerInv, TypeOK, OpType, Kinds, Contract!Lights,
                 Contract!Darkens
  <2>2. VisiblePower' \in Contract!Powers
    BY <1>1, <1>2 DEF ShownPower, Powers, Contract!Powers
  <2>3. Contract!Honest(VisiblePower', device'.lit)
    BY <1>2 DEF PowerStep, LitSafe, Honest, Contract!Honest
  <2>. QED BY <1>1, <2>1, <2>2, <2>3 DEF EffectStep, PowerStep, Contract!PanelDuring
<1>. QED BY <1>1, <1>3, <1>4 DEF EffectStep

\* A poll, a cancellation or a stall is the operation's work, or its end.
LEMMA OperationIsContract ==
  ASSUME TruthInv, TruthInv',
         (\E late : PollOperation(late)) \/ CancelOperation \/ BlockingOperationStalls
  PROVE  Contract!Next
<1>1. op.state = "ACTIVE" /\ EffectStep /\ PowerStep
  BY PollsAreOfActive, OperationWorks
     DEF CancelOperation, BlockingOperationStalls, OperationActive
<1>2. /\ Contract!PanelDuring(op.kind, op'.touched)
      /\ op'.touched \in BOOLEAN
      /\ op.touched => op'.touched
  BY <1>1, PanelOfWork
<1>3. /\ BusOwner = "OPERATION"
      /\ VisibleJob = [kind |-> op.kind, state |-> "ACTIVE", touched |-> op.touched,
                       effect |-> "NONE"]
  BY <1>1, Shown
<1>4. op'.kind = op.kind /\ op'.state \in {"ACTIVE"} \cup Terminal
  BY <1>1 DEF EffectStep
<1>5. /\ VisibleJob.kind = op.kind
      /\ VisibleJob.touched = op.touched
  BY <1>3
<1>6. CASE op'.state = "ACTIVE"
  <2>1. /\ BusOwner' = "OPERATION"
        /\ VisibleJob' = [VisibleJob EXCEPT !.touched = op'.touched]
    BY <1>3, <1>4, <1>6, ShownNext
  <2>2. Contract!Work
    BY <1>2, <1>3, <1>5, <2>1 DEF Contract!Work
  <2>. QED BY <2>2 DEF Contract!Next
<1>7. CASE op'.state \in Terminal
  <2>1. BusOwner' = "NOBODY" /\ VisiblePower' = panel'.power
    BY <1>7, ShownNext DEF Terminal
  <2>2. VisibleJob' = [kind |-> op.kind, state |-> op'.state, touched |-> op'.touched,
                       effect |-> op'.effect]
    BY <1>4, <1>7, ShownNext
  <2>3. HonestResult(op') /\ op'.effect \in Effects
    BY <1>1, <1>7
       DEF EffectStep, EffectSafe, TruthInv, JobInv, PowerInv, TypeOK, OpType
  <2>4. CASE op'.state = "SUCCEEDED"
    <3>1. op'.effect = "CONFIRMED"
      BY <2>3, <2>4 DEF HonestResult
    <3>2. VisibleJob' = [kind |-> VisibleJob.kind, state |-> "SUCCEEDED",
                         touched |-> op'.touched, effect |-> "CONFIRMED"]
      BY <1>5, <2>2, <2>4, <3>1
    <3>3. /\ op'.touched \/ op.kind = "FLUSH"
          /\ op.kind \in Contract!Lights => VisiblePower' = "ON"
          /\ op.kind \in Contract!Darkens => VisiblePower' = "OFF"
      BY <1>1, <2>1, <2>4 DEF EffectStep, PowerStep, Contract!Lights, Contract!Darkens
    <3>4. Contract!Succeed
      BY <1>2, <1>3, <1>5, <2>1, <3>2, <3>3 DEF Contract!Succeed, Contract!Ended
    <3>. QED BY <3>4 DEF Contract!Next
  <2>5. CASE op'.state # "SUCCEEDED"
    <3>1. op'.state \in Contract!Failures
      BY <1>7, <2>5 DEF Terminal, Contract!Failures
    <3>2. /\ op'.effect \in {"NONE", "PARTIAL", "INDETERMINATE"}
          /\ Contract!HonestEffect(op'.effect, op'.touched)
      BY <2>3, <2>5 DEF HonestResult, Effects, Contract!HonestEffect
    <3>3. VisibleJob' = [kind |-> VisibleJob.kind, state |-> op'.state,
                         touched |-> op'.touched, effect |-> op'.effect]
      BY <1>5, <2>2
    <3>4. Contract!Fail(op'.state)
      BY <1>2, <1>3, <1>5, <2>1, <3>2, <3>3 DEF Contract!Fail, Contract!Ended
    <3>. QED BY <3>1, <3>4 DEF Contract!Next
  <2>. QED BY <2>4, <2>5
<1>. QED BY <1>4, <1>6, <1>7

\* An owner between operations.
LEMMA FreeOwner ==
  ASSUME TruthInv, op.state \notin {"ACTIVE"} \cup Terminal
  PROVE  /\ op.state = "IDLE" /\ VisibleJob = Contract!NoJob
         /\ ~Running(flush) => Contract!Free
         /\ Running(flush) => BusOwner = "FLUSH"
         /\ VisiblePower = panel.power
<1>1. op.state = "IDLE"
  BY DEF TruthInv, JobInv, PowerInv, TypeOK, OpType
<1>. QED BY <1>1, Shown DEF Contract!Free

LEMMA StartIsContract ==
  ASSUME TruthInv, TruthInv', NEW kind \in Kinds, NEW deadline \in BOOLEAN,
         StartOperation(kind, deadline)
  PROVE  Contract!Next \/ UNCHANGED Contract!vars
<1>1. /\ panel' = panel /\ device' = device /\ ~Running(flush)
      /\ op.state \notin {"ACTIVE"} \cup Terminal
      /\ kind = "WAKE" => panel.power = "OFF"
  BY DEF StartOperation, OperationAdmitted, LegacyOwner, OperationActive,
         OperationResultReady, IsFlushing, Running
<1>2. Contract!Free /\ VisiblePower = panel.power /\ op.state = "IDLE"
  BY <1>1, FreeOwner
<1>3. CASE op' = NewOperation(kind, deadline)
  <2>1. op'.kind = kind /\ op'.state = "ACTIVE" /\ op'.touched = FALSE /\ op'.tx = 0
    BY <1>3 DEF NewOperation, NoOperation
  <2>2. /\ VisibleJob' = [kind |-> kind, state |-> "ACTIVE", touched |-> FALSE,
                          effect |-> "NONE"]
        /\ BusOwner' = "OPERATION"
        /\ VisiblePower' = panel'.power
    BY <2>1, ShownNext DEF ShownPower, Begun
  <2>3. VisibleJob' = Contract!Admitted(kind)
    BY <2>2 DEF Contract!Admitted
  <2>4. Contract!Admit(kind)
    BY <1>1, <1>2, <2>2, <2>3 DEF Contract!Admit
  <2>. QED BY <2>4 DEF Contract!Next, Kinds, Contract!Kinds
<1>4. CASE op' = op /\ flush' = ConsumedFlush
  <2>1. ~Running(flush')
    BY <1>1, <1>4, JobStates, DuringOperation
  <2>2. /\ VisibleJob' = VisibleJob /\ BusOwner' = BusOwner /\ VisiblePower' = VisiblePower
    BY <1>1, <1>2, <1>4, <2>1, Shown, ShownNext
  <2>. QED BY <1>1, <2>2 DEF Contract!vars
<1>. QED BY <1>3, <1>4 DEF StartOperation

LEMMA TakeIsContract ==
  ASSUME TruthInv, TruthInv', TakeOperationResult
  PROVE  Contract!Next
<1>1. /\ op.state \in Terminal /\ op' = NoOperation /\ UNCHANGED <<panel, flush, device>>
      /\ op'.state = "IDLE"
  BY DEF TakeOperationResult, OperationResultReady, NoOperation
<1>2. op.state # "ACTIVE" /\ op.state # "IDLE"
  BY <1>1 DEF Terminal
<1>3. ~Running(flush) /\ ~Running(flush')
  BY <1>1, Shown
<1>4. /\ BusOwner = "NOBODY" /\ VisiblePower = panel.power /\ VisibleJob # Contract!NoJob
      /\ BusOwner' = "NOBODY" /\ VisiblePower' = panel'.power /\ VisibleJob' = Contract!NoJob
  BY <1>1, <1>2, <1>3, Shown, ShownNext
<1>5. Contract!Take
  BY <1>1, <1>4 DEF Contract!Take
<1>. QED BY <1>5 DEF Contract!Next

LEMMA OperationCallIsContract ==
  ASSUME TruthInv, TruthInv', OperationCall
  PROVE  Contract!Next \/ UNCHANGED Contract!vars
BY OperationIsContract, StartIsContract, TakeIsContract DEF OperationCall

\* A step between operations that keeps the operation and the display: a flush
\* that starts, runs or ends, a guard that ends, or nothing the owner sees.
LEMMA QuietIsContract ==
  ASSUME TruthInv, TruthInv', FlushCall \/ FrameCall \/ \E late : TickPanelGuard(late),
         Running(flush') /\ ~Running(flush) =>
           op.state \notin {"ACTIVE"} \cup Terminal /\ panel' = panel,
         Running(flush) /\ ~Running(flush') => op.state \notin {"ACTIVE"} \cup Terminal
  PROVE  Contract!Next \/ UNCHANGED Contract!vars
<1>1. /\ op' = op /\ device'.lit = device.lit
      /\ PowerKept(panel.power, panel'.power)
  BY QuietCalls
<1>2. VisibleJob' = VisibleJob
  BY <1>1 DEF VisibleJob
<1>3. /\ VisiblePower = ShownPower(panel, op)
      /\ VisiblePower' = ShownPower(panel', op)
  BY <1>1, Shown, ShownNext
<1>4. PowerKept(VisiblePower, VisiblePower')
  BY <1>1, <1>3 DEF ShownPower, PowerKept
<1>5. CASE Running(flush) <=> Running(flush')
  <2>1. BusOwner' = BusOwner
    BY <1>1, <1>5 DEF BusOwner, OperationActive, IsFlushing, Running
  <2>2. CASE VisiblePower' = VisiblePower
    BY <1>1, <1>2, <2>1, <2>2 DEF Contract!vars
  <2>3. CASE VisiblePower = "STARTING" /\ VisiblePower' = "ON"
    BY <1>1, <1>2, <2>1, <2>3 DEF Contract!GuardEnds, Contract!Next
  <2>. QED BY <1>4, <2>2, <2>3 DEF PowerKept
<1>6. CASE Running(flush') /\ ~Running(flush)
  <2>1. Contract!Free /\ VisiblePower = panel.power /\ op.state = "IDLE"
    BY <1>6, FreeOwner
  <2>2. BusOwner' = "FLUSH" /\ VisiblePower' = panel'.power
    BY <1>1, <1>6, <2>1, ShownNext
  <2>3. Contract!StartFlush
    BY <1>1, <1>2, <1>6, <2>1, <2>2 DEF Contract!StartFlush
  <2>. QED BY <2>3 DEF Contract!Next
<1>7. CASE Running(flush) /\ ~Running(flush')
  <2>1. BusOwner = "FLUSH" /\ op.state = "IDLE"
    BY <1>7, FreeOwner
  <2>2. BusOwner' = "NOBODY"
    BY <1>1, <1>7, <2>1, ShownNext
  <2>3. Contract!PollFlush
    BY <1>1, <1>2, <1>4, <2>1, <2>2 DEF Contract!PollFlush, Contract!PanelKept, PowerKept
  <2>. QED BY <2>3 DEF Contract!Next
<1>. QED BY <1>5, <1>6, <1>7

\* Which of these calls start and end a job.
LEMMA JobsOfQuietCalls ==
  ASSUME TruthInv, FlushCall \/ FrameCall \/ \E late : TickPanelGuard(late)
  PROVE  /\ Running(flush') /\ ~Running(flush) =>
              op.state \notin {"ACTIVE"} \cup Terminal /\ panel' = panel
         /\ Running(flush) /\ ~Running(flush') => op.state \notin {"ACTIVE"} \cup Terminal
<1>1. TypeOK
  BY DuringOperation
<1>2. CASE FlushCall
  <2>1. op.state \notin {"ACTIVE"} \cup Terminal
    BY <1>2 DEF FlushCall, RequestFlush, PollFlush, PollFlushTimeout, PollFlushWaits,
       PollFlushEnded, PollFlushSends, LegacyPoll, WaitFlushGivesUp, LegacyOwner,
       OperationActive, OperationResultReady
  <2>2. RequestFlush => panel' = panel
    BY DEF RequestFlush
  <2>3. ASSUME ~Running(flush), ~RequestFlush PROVE ~Running(flush')
    <3>1. PICK late : PollFlushEnded(late)
      BY <1>2, <2>3 DEF FlushCall, PollFlush, PollFlushTimeout, PollFlushWaits,
         PollFlushSends, LegacyPoll, WaitFlushGivesUp, IsFlushing, Running
    <3>. QED BY <1>1, <2>3, <3>1, JobStates DEF PollFlushEnded, ConsumeTerminalFlush
  <2>. QED BY <2>1, <2>2, <2>3
<1>3. CASE FrameCall
  <2>1. panel' = panel
    BY <1>3, QuietCalls
  <2>2. FirstPage \/ NextPageReportsFailure \/ NextPageAfterWindow \/ NextPageSendsWindow
          => op.state \notin {"ACTIVE"} \cup Terminal
    BY DEF FirstPage, FirstPageAdmitted, DirectI2cAdmitted, NextPageReportsFailure,
           NextPageAfterWindow, NextPageSendsWindow, NextPageAdmitted, LegacyOwner,
           OperationActive, OperationResultReady
  <2>3. DrawAll \/ ClearDirty \/ (\E p, S : Draw(p, S)) => (Running(flush') <=> Running(flush))
    BY <1>1, JobStates DEF DrawAll, ClearDirty, Draw
  <2>. QED BY <1>3, <2>1, <2>2, <2>3 DEF FrameCall, ClearDirtyIfIdle
<1>4. CASE \E late : TickPanelGuard(late)
  BY <1>4 DEF TickPanelGuard
<1>. QED BY <1>2, <1>3, <1>4

LEMMA DirectCommandIsContract ==
  ASSUME TruthInv, TruthInv', NEW o \in Outcomes,
         \/ SetRegister(o)
         \/ \E changed \in BOOLEAN : SetFlipX(o, changed)
         \/ StopScroll(o) \/ SleepNow(o) \/ WakeNow(o) \/ SendRawCommand(o)
  PROVE  Contract!Next
<1>1. op' = op /\ op.state = "IDLE" /\ Honest(panel'.power, device')
  BY DirectCommandIsTrue
<1>2. ~Running(flush) /\ flush' = SettledFlush
  BY DEF SetRegister, SetFlipX, StopScroll, SleepNow, WakeNow, SendRawCommand, TrackedWrite,
         DirectI2cAdmitted, IsFlushing, Running
<1>3. ~Running(flush')
  BY <1>2, JobStates, DuringOperation
<1>4. "IDLE" \notin {"ACTIVE"} \cup Terminal
  BY DEF Terminal
<1>5. /\ Contract!Free /\ BusOwner = "NOBODY" /\ BusOwner' = "NOBODY"
      /\ VisibleJob' = VisibleJob /\ VisiblePower' = panel'.power
  BY <1>1, <1>2, <1>3, <1>4, FreeOwner, Shown, ShownNext
<1>6. /\ panel'.power \in Contract!Powers /\ device'.lit \in BOOLEAN
      /\ Contract!Honest(panel'.power, device'.lit)
  BY <1>1 DEF TruthInv, JobInv, PowerInv, TypeOK, PanelType, DeviceType, Powers,
     Contract!Powers, Honest, Contract!Honest
<1>7. Contract!Command
  BY <1>5, <1>6 DEF Contract!Command
<1>. QED BY <1>7 DEF Contract!Next

LEMMA PanelResetIsContract ==
  ASSUME TruthInv, TruthInv', NEW really \in BOOLEAN, PanelReset(really)
  PROVE  Contract!Next
<1>. DEFINE effect == IF op.tx = 0 THEN "NONE" ELSE "PARTIAL"
            dropped == [EndJob("ERROR") EXCEPT !.accounted = TRUE]
<1>1. panel'.power = "UNKNOWN" /\ device'.lit \in BOOLEAN
  BY ForgettingIsTrue DEF TruthInv, JobInv, PowerInv, TypeOK, DeviceType
<1>2. ~Running(dropped)
  BY FlushTypes, DuringOperation DEF Running, FlushPhases, FlushType
<1>3. \/ /\ op.state = "ACTIVE"
         /\ op' = EndOperation("CANCELLED", effect, op.touched)
      \/ /\ op.state # "ACTIVE" /\ op' = op
         /\ flush' = IF Running(flush) THEN dropped ELSE SettledFlush
  BY DEF PanelReset, InvalidatePanelState, OperationActive, IsFlushing, Running
<1>4. CASE /\ op.state = "ACTIVE"
           /\ op' = EndOperation("CANCELLED", effect, op.touched)
  <2>1. /\ op'.kind = op.kind /\ op'.state = "CANCELLED" /\ op'.touched = op.touched
        /\ op'.effect = effect
    BY <1>4 DEF EndOperation, NoOperation
  <2>2. effect = IF op.touched THEN "PARTIAL" ELSE "NONE"
    BY <1>4 DEF TruthInv, EffectSafe
  <2>. HIDE DEF effect
  <2>3. /\ BusOwner = "OPERATION"
        /\ VisibleJob.kind = op.kind /\ VisibleJob.touched = op.touched
    BY <1>4, Shown
  <2>4. /\ VisibleJob' = [kind |-> op.kind, state |-> "CANCELLED", touched |-> op.touched,
                          effect |-> effect]
        /\ BusOwner' = "NOBODY" /\ VisiblePower' = "UNKNOWN"
    BY <1>1, <2>1, ShownNext DEF Terminal
  <2>5. Contract!Invalidate
    BY <1>1, <2>2, <2>3, <2>4 DEF Contract!Invalidate, Contract!Ended
  <2>. QED BY <2>5 DEF Contract!Next
<1>5. CASE /\ op.state # "ACTIVE" /\ op' = op
           /\ flush' = IF Running(flush) THEN dropped ELSE SettledFlush
  <2>1. ~Running(flush')
    BY <1>2, <1>5, JobStates, DuringOperation
  <2>2. BusOwner # "OPERATION" /\ VisibleJob' = VisibleJob
    BY <1>5, Shown DEF VisibleJob
  <2>3. BusOwner' = "NOBODY" /\ VisiblePower' = "UNKNOWN"
    BY <1>1, <1>5, <2>1, ShownNext
  <2>4. Contract!Invalidate
    BY <1>1, <2>2, <2>3 DEF Contract!Invalidate
  <2>. QED BY <2>4 DEF Contract!Next
<1>. QED BY <1>3, <1>4, <1>5

LEMMA LifecycleIsContract ==
  ASSUME TruthInv, TruthInv', Lifecycle
  PROVE  Contract!Next
<1>1. panel'.power = "UNKNOWN"
  BY ForgettingIsTrue
<1>2. device'.lit = device.lit
  BY Lit, DuringOperation DEF Lifecycle, Attach, Detach
<1>3. op'.state = "IDLE"
  <2>1. Detach => op'.state = "IDLE"
    BY DEF Detach, NoOperation
  <2>2. Attach => op'.state = "IDLE"
    BY FreeOwner DEF Attach, DirectI2cAdmitted, OperationActive, OperationResultReady
  <2>. QED BY <2>1, <2>2 DEF Lifecycle
<1>4. ~Running(flush')
  BY DEF Lifecycle, Attach, Detach, IdleFlush, Running, FlushPhases
<1>5. VisibleJob' = Contract!NoJob /\ BusOwner' = "NOBODY" /\ VisiblePower' = "UNKNOWN"
  BY <1>1, <1>3, <1>4, ShownNext
<1>6. Contract!Drop
  BY <1>2, <1>5 DEF Contract!Drop
<1>. QED BY <1>6 DEF Contract!Next

LEMMA StepIsContract ==
  ASSUME TruthInv, TruthInv', [Next]_vars
  PROVE  Contract!Next \/ UNCHANGED Contract!vars
<1>1. FlushCall \/ FrameCall \/ (\E late : TickPanelGuard(late)) =>
        Contract!Next \/ UNCHANGED Contract!vars
  BY JobsOfQuietCalls, QuietIsContract
<1>2. CASE ControlCall
  BY <1>1, <1>2, DirectCommandIsContract, PanelResetIsContract DEF ControlCall
<1>3. CASE UNCHANGED vars
  BY <1>3 DEF vars, Contract!vars, VisibleJob, BusOwner, VisiblePower, OperationActive,
              IsFlushing, InitSequenceBegun
<1>. QED BY <1>1, <1>2, <1>3, OperationCallIsContract, LifecycleIsContract DEF Next

LEMMA InitIsContract ==
  ASSUME Init
  PROVE  Contract!Init
<1>1. /\ op.state = "IDLE" /\ op.kind = "NO_OP" /\ op.touched = FALSE /\ op.phase = "IDLE"
      /\ flush.state = "IDLE" /\ panel.power = "UNKNOWN" /\ device.lit \in BOOLEAN
  BY DEF Init, NoOperation, IdleFlush, DetachedPanel
<1>2. VisibleJob = Contract!NoJob
  BY <1>1 DEF VisibleJob, Contract!NoJob, Terminal
<1>3. BusOwner = "NOBODY" /\ VisiblePower = "UNKNOWN"
  BY <1>1 DEF BusOwner, VisiblePower, OperationActive, IsFlushing, FlushPhases,
              InitSequenceBegun
<1>. QED BY <1>1, <1>2, <1>3 DEF Contract!Init

\* The driver implements its contract: one owner of the bus, one result per
\* operation, an honest effect, and a power report that is never wrong.
THEOREM DriverKeepsContract == Spec => ContractKept
<1>1. Init => Contract!Init
  BY InitIsContract
<1>2. TruthInv /\ TruthInv' /\ [Next]_vars => [Contract!Next]_(Contract!vars)
  BY StepIsContract
<1>. QED BY <1>1, <1>2, TruthInvHolds, PTL DEF Spec, ContractKept, Contract!Spec

-----------------------------------------------------------------------------
\* Health

\* The invariant behind publication.  Between operations only the window of an
\* iteration may owe its outcome; during an operation only a resync whose frame
\* is sent and whose DISPLAY_ON is not over.  pending counts what is owed
\* between operations.
PublicationSafe(f, fr, o, owed) ==
  /\ o.state = "ACTIVE" /\ OutcomeUnpublished(f) =>
       /\ o.kind = "RESYNC" /\ f.state = "DONE"
       /\ o.phase \in {"DISPLAY_ON", "DISPLAY_ON_DELAY"}
  /\ o.state # "ACTIVE" /\ OutcomeUnpublished(f) => fr.iterating
  /\ owed = IF OutcomeUnpublished(f) /\ o.state # "ACTIVE" THEN 1 ELSE 0

\* HealthMatchesCounter of a health h.
HealthSafe(h, initialized) ==
  /\ h.state = "READY" => initialized /\ h.fails = 0
  /\ h.state = "DEGRADED" => h.fails \in 1..(OfflineThreshold - 1)
  /\ h.state = "OFFLINE" => h.fails >= OfflineThreshold
  /\ ~initialized => h.state = "UNINIT"

HealthInv ==
  /\ JobInv
  /\ PublicationSafe(flush, frame, op, pending)
  /\ HealthSafe(health, panel.initialized)

HealthSafeNext ==
  /\ PublicationSafe(flush', frame', op', pending')
  /\ HealthSafe(health', panel'.initialized)

LEMMA HealthInvImplies ==
  HealthInv => OutcomePublishedOnce /\ HealthMatchesCounter
BY DEF HealthInv, PublicationSafe, HealthSafe, OutcomePublishedOnce,
       HealthMatchesCounter, OperationActive

\* What the invariant says, conjunct by conjunct.
LEMMA Parts ==
  ASSUME HealthInv
  PROVE  /\ TypeOK /\ JobInv
         /\ panel \in PanelType /\ flush \in FlushType /\ op \in OpType
         /\ health \in HealthType /\ panel.initialized \in BOOLEAN
         /\ HealthSafe(health, panel.initialized)
         /\ PublicationSafe(flush, frame, op, pending)
BY DEF HealthInv, JobInv, PowerInv, TypeOK, PanelType

-----------------------------------------------------------------------------
\* What the helpers publish.

LEMMA CountedHealth ==
  ASSUME NEW h \in HealthType, NEW ok \in BOOLEAN
  PROVE  /\ HealthSafe(HealthAfter(h, ok, TRUE), TRUE)
         /\ h.state = "UNINIT" => HealthSafe(HealthAfter(h, ok, FALSE), FALSE)
         /\ \A i \in BOOLEAN : HealthSafe(h, i) => HealthSafe(HealthAfter(h, ok, i), i)
         /\ \A i : HealthSafe([h EXCEPT !.state = "UNINIT"], i)
         /\ HealthSafe(h, FALSE) => HealthSafe(h, TRUE)
<1>1. OfflineThreshold \in Nat /\ OfflineThreshold # 0
  BY ConfigAssumption DEF ConfigAssumption
<1>2. HealthSafe(HealthAfter(h, ok, TRUE), TRUE)
  BY <1>1 DEF HealthSafe, HealthAfter, HealthType
<1>3. h.state = "UNINIT" => HealthSafe(HealthAfter(h, ok, FALSE), FALSE)
  BY <1>1 DEF HealthSafe, HealthAfter, HealthType
<1>4. ASSUME NEW i \in BOOLEAN, HealthSafe(h, i)
      PROVE  HealthSafe(HealthAfter(h, ok, i), i)
  BY <1>2, <1>3, <1>4 DEF HealthSafe
<1>5. \A i : HealthSafe([h EXCEPT !.state = "UNINIT"], i)
  BY DEF HealthSafe, HealthType
<1>6. HealthSafe(h, FALSE) => HealthSafe(h, TRUE)
  BY DEF HealthSafe
<1>. QED BY <1>2, <1>3, <1>4, <1>5, <1>6

LEMMA PublishedJobs ==
  ASSUME TypeOK
  PROVE  /\ ~OutcomeUnpublished(IdleFlush)
         /\ \A failed : ~OutcomeUnpublished([IdleFlush EXCEPT !.failed = failed])
         /\ \A f \in FlushType : ~OutcomeUnpublished([f EXCEPT !.accounted = TRUE])
         /\ \A f : Running(f) => ~OutcomeUnpublished(f)
         /\ ~OutcomeUnpublished(ConsumedFlush)
         /\ \A marked : OutcomeUnpublished(RacedBy(marked)) <=> OutcomeUnpublished(flush)
         /\ \A s \in {"DONE", "ERROR"} :
              EndJob(s).state = s /\ EndJob(s).accounted = OutcomeAccounted(s)
<1>1. flush \in FlushType
  BY DEF TypeOK
<1>2. \A failed : ~OutcomeUnpublished([IdleFlush EXCEPT !.failed = failed])
  BY DEF IdleFlush, OutcomeUnpublished
<1>3. ~OutcomeUnpublished(IdleFlush)
  BY DEF IdleFlush, OutcomeUnpublished
<1>4. \A f \in FlushType : ~OutcomeUnpublished([f EXCEPT !.accounted = TRUE])
  BY DEF FlushType, OutcomeUnpublished
<1>5. \A f : Running(f) => ~OutcomeUnpublished(f)
  BY DEF Running, FlushPhases, OutcomeUnpublished
<1>6. ~OutcomeUnpublished(ConsumedFlush)
  <2>1. CASE flush.state \in {"DONE", "ERROR"}
    <3>. DEFINE failed == flush.state = "ERROR"
    <3>1. ConsumedFlush = [IdleFlush EXCEPT !.failed = failed]
      BY <2>1 DEF ConsumedFlush
    <3>. HIDE DEF failed
    <3>. QED BY <1>2, <3>1
  <2>2. CASE flush.state \notin {"DONE", "ERROR"}
    BY <2>2 DEF ConsumedFlush, OutcomeUnpublished
  <2>. QED BY <2>1, <2>2
<1>7. \A marked : OutcomeUnpublished(RacedBy(marked)) <=> OutcomeUnpublished(flush)
  BY <1>1 DEF RacedBy, FlushType, OutcomeUnpublished
<1>8. \A s \in {"DONE", "ERROR"} :
        EndJob(s).state = s /\ EndJob(s).accounted = OutcomeAccounted(s)
  BY DEF EndJob, IdleFlush
<1>. QED BY <1>2, <1>3, <1>4, <1>5, <1>6, <1>7, <1>8

\* A call that takes over between operations settles what an iteration owed.
LEMMA BetweenOperations ==
  ASSUME HealthInv, ~OperationActive
  PROVE  /\ SettledPending = 0 /\ PendingWithOutcome(flush) = 0
         /\ ~OutcomeUnpublished(SettledFlush)
         /\ \A h \in {SettledHealth, HealthWithOutcome(flush)} :
              h \in HealthType /\ HealthSafe(h, panel.initialized)
         /\ Running(flush) => pending = 0
         /\ pending = IF OutcomeUnpublished(flush) THEN 1 ELSE 0
         /\ OutcomeUnpublished(flush) => frame.iterating
<1>1. /\ TypeOK /\ flush \in FlushType /\ health \in HealthType
      /\ panel.initialized \in BOOLEAN /\ HealthSafe(health, panel.initialized)
      /\ PublicationSafe(flush, frame, op, pending) /\ op.state # "ACTIVE"
  BY Parts DEF OperationActive
<1>2. /\ OutcomeUnpublished(flush) => frame.iterating
      /\ pending = IF OutcomeUnpublished(flush) THEN 1 ELSE 0
  BY <1>1 DEF PublicationSafe
<1>3. SettlesIteration <=> OutcomeUnpublished(flush)
  BY <1>2 DEF SettlesIteration, PageIterationOwnsFlushResult, OutcomeUnpublished
<1>4. PendingWithOutcome(flush) = 0 /\ SettledPending = 0
  BY <1>2, <1>3 DEF PendingWithOutcome, SettledPending
<1>5. ~OutcomeUnpublished(SettledFlush)
  BY <1>1, <1>3, PublishedJobs DEF SettledFlush
<1>6. HealthWithOutcome(flush) \in HealthType
      /\ HealthSafe(HealthWithOutcome(flush), panel.initialized)
  <2>. DEFINE ok == flush.state = "DONE"
  <2>1. ok \in BOOLEAN
    OBVIOUS
  <2>2. \/ HealthWithOutcome(flush) = health
        \/ HealthWithOutcome(flush) = HealthAfter(health, ok, panel.initialized)
    BY DEF HealthWithOutcome
  <2>. HIDE DEF ok
  <2>. QED BY <1>1, <2>1, <2>2, CountedHealth, HealthTypes
<1>7. SettledHealth \in {health, HealthWithOutcome(flush)}
  BY DEF SettledHealth
<1>8. Running(flush) => pending = 0
  BY <1>1, <1>2, PublishedJobs
<1>. QED BY <1>1, <1>2, <1>4, <1>5, <1>6, <1>7, <1>8

\* Nothing is owed, or what was owed still is.
LEMMA NothingOwed ==
  ASSUME ~OutcomeUnpublished(flush'), pending' = 0
  PROVE  PublicationSafe(flush', frame', op', pending')
BY DEF PublicationSafe

LEMMA OwedAsBefore ==
  ASSUME HealthInv, OutcomeUnpublished(flush') <=> OutcomeUnpublished(flush),
         flush'.state = flush.state, op' = op, pending' = pending,
         frame'.iterating = frame.iterating
  PROVE  PublicationSafe(flush', frame', op', pending')
BY Parts DEF PublicationSafe

\* initialized changes at the end of an init sequence or a shutdown only.
LEMMA InitializedKept ==
  ASSUME NEW p \in PanelType, NEW late
  PROVE  /\ MarkControlDirty(p).initialized = p.initialized
         /\ MarkControlDirty(InvalidatePower(p)).initialized = p.initialized
         /\ DisplayIsOff(p).initialized = p.initialized
         /\ TickPowerOn(p, late).initialized = p.initialized
         /\ TerminatedPanel(p).initialized = p.initialized
         /\ Invalidated(p).initialized = p.initialized
<1>1. \A q \in PanelType : /\ MarkControlDirty(q).initialized = q.initialized
                           /\ InvalidatePower(q).initialized = q.initialized
                           /\ InvalidatePower(q) \in PanelType
  BY PanelTypes DEF MarkControlDirty, InvalidatePower, PanelType
<1>2. DisplayIsOff(p).initialized = p.initialized
  BY DEF DisplayIsOff, PanelType
<1>3. TickPowerOn(p, late).initialized = p.initialized
  BY DEF TickPowerOn, PanelType
<1>4. TerminatedPanel(p).initialized = p.initialized
  BY <1>1 DEF TerminatedPanel
<1>. QED BY <1>1, <1>2, <1>3, <1>4 DEF Invalidated

\* The health after a call that leaves initialized alone: it keeps its safety if
\* nothing or one outcome was counted.
LEMMA HealthStep ==
  ASSUME HealthInv, panel'.initialized = panel.initialized,
         \/ health' = health
         \/ \E ok \in BOOLEAN : health' = HealthAfter(health, ok, panel.initialized)
  PROVE  HealthSafe(health', panel'.initialized)
BY Parts, CountedHealth

-----------------------------------------------------------------------------
\* Steps of an active operation.

\* What the invariant says of the job while an operation is active.
LEMMA JobDuringOperation ==
  ASSUME HealthInv, OperationActive
  PROVE  /\ pending = 0
         /\ OutcomeUnpublished(flush) =>
              /\ op.kind = "RESYNC" /\ flush.state = "DONE"
              /\ op.phase \in {"DISPLAY_ON", "DISPLAY_ON_DELAY"}
BY Parts DEF PublicationSafe, OperationActive

\* However an operation ends, its job's outcome is accounted for.
LEMMA EndedJobIsPublished ==
  ASSUME HealthInv, OperationActive
  PROVE  /\ ~OutcomeUnpublished(JobAfterFailure(flush))
         /\ op.kind \in {"FLUSH", "RESYNC"} =>
              ~OutcomeUnpublished([flush EXCEPT !.accounted = TRUE])
         /\ op.kind \notin {"FLUSH", "RESYNC"} => ~OutcomeUnpublished(flush)
<1>1. flush \in FlushType /\ TypeOK
  BY Parts
<1>2. EndJob("ERROR") \in FlushType
  BY <1>1, FlushTypes
<1>3. ~OutcomeUnpublished([EndJob("ERROR") EXCEPT !.accounted = TRUE])
  BY <1>1, <1>2, PublishedJobs
<1>4. ~OutcomeUnpublished([flush EXCEPT !.accounted = TRUE])
  BY <1>1, PublishedJobs
<1>. QED BY <1>3, <1>4, JobDuringOperation DEF JobAfterFailure

LEMMA TerminateIsSafe ==
  ASSUME HealthInv, OperationActive, NEW state, NEW p \in PanelType, Terminate(state, p),
         p.initialized = panel.initialized
  PROVE  HealthSafeNext
<1>1. ~OutcomeUnpublished(flush') /\ pending' = 0
  BY EndedJobIsPublished, JobDuringOperation DEF Terminate
<1>2. panel'.initialized = panel.initialized
  BY InitializedKept DEF Terminate
<1>3. health' = health \/ health' = HealthAfter(health, FALSE, panel.initialized)
  BY DEF Terminate
<1>. QED BY <1>1, <1>2, <1>3, NothingOwed, HealthStep DEF HealthSafeNext

\* A command of an operation fails, leads to the next phase, or ends it.
LEMMA CommandIsSafe ==
  ASSUME HealthInv, OperationActive, pending' = pending
  PROVE  /\ \A o, prefix :
              CommandFails(o, prefix) /\ panel'.initialized = panel.initialized
              => HealthSafeNext
         /\ \A next :
              /\ CommandSucceeds(next) /\ panel'.initialized = panel.initialized
              /\ op.phase = "DISPLAY_ON" => next = "DISPLAY_ON_DELAY"
              /\ op.phase # "DISPLAY_ON_DELAY"
              => HealthSafeNext
         /\ \A touched, tx :
              FinishOperation(health, flush, touched, tx)
                /\ panel'.initialized = panel.initialized
              => HealthSafeNext
         /\ \A touched :
              FinishOperation(health, flush, touched, 1) /\ panel'.initialized = TRUE
              => HealthSafeNext
         /\ \A touched :
              FinishOperation([health EXCEPT !.state = "UNINIT"], flush, touched, 1)
                /\ panel'.initialized = FALSE
              => HealthSafeNext
<1>1. /\ pending' = 0 /\ flush \in FlushType /\ op \in OpType /\ health \in HealthType
      /\ panel.initialized \in BOOLEAN
  BY Parts, JobDuringOperation
<1>2. ASSUME NEW o, NEW prefix, CommandFails(o, prefix), panel'.initialized = panel.initialized
      PROVE  HealthSafeNext
  <2>1. health' = HealthAfter(health, FALSE, panel.initialized)
        /\ ~OutcomeUnpublished(flush')
    BY <1>2, EndedJobIsPublished DEF CommandFails
  <2>. QED BY <1>1, <1>2, <2>1, NothingOwed, HealthStep DEF HealthSafeNext
<1>3. ASSUME NEW next, CommandSucceeds(next), panel'.initialized = panel.initialized,
             op.phase = "DISPLAY_ON" => next = "DISPLAY_ON_DELAY",
             op.phase # "DISPLAY_ON_DELAY"
      PROVE  HealthSafeNext
  <2>1. /\ health' = health /\ flush' = flush
        /\ op'.state = op.state /\ op'.kind = op.kind /\ op'.phase = next
    BY <1>1, <1>3 DEF CommandSucceeds, OpType
  <2>2. PublicationSafe(flush', frame', op', pending')
    BY <1>1, <1>3, <2>1, JobDuringOperation DEF PublicationSafe, OperationActive
  <2>. QED BY <1>3, <2>1, <2>2, HealthStep DEF HealthSafeNext
<1>4. ASSUME NEW h, NEW touched, NEW tx, FinishOperation(h, flush, touched, tx)
      PROVE  PublicationSafe(flush', frame', op', pending')
  <2>1. ~OutcomeUnpublished(flush')
    BY <1>4, EndedJobIsPublished DEF FinishOperation
  <2>. QED BY <1>1, <2>1, NothingOwed
<1>5. ASSUME NEW touched, NEW tx, FinishOperation(health, flush, touched, tx),
             panel'.initialized = panel.initialized
      PROVE  HealthSafeNext
  <2>1. health' = health \/ health' = HealthAfter(health, TRUE, panel.initialized)
    BY <1>5 DEF FinishOperation
  <2>. QED BY <1>4, <1>5, <2>1, HealthStep DEF HealthSafeNext
<1>6. ASSUME NEW touched, FinishOperation(health, flush, touched, 1),
             panel'.initialized = TRUE
      PROVE  HealthSafeNext
  <2>0. health' = HealthAfter(health, TRUE, panel'.initialized)
    BY <1>6 DEF FinishOperation
  <2>1. health' = HealthAfter(health, TRUE, TRUE)
    BY <1>6, <2>0
  <2>. QED BY <1>1, <1>4, <1>6, <2>1, CountedHealth DEF HealthSafeNext
<1>7. ASSUME NEW touched,
             FinishOperation([health EXCEPT !.state = "UNINIT"], flush, touched, 1),
             panel'.initialized = FALSE
      PROVE  HealthSafeNext
  <2>. DEFINE unborn == [health EXCEPT !.state = "UNINIT"]
  <2>1. unborn \in HealthType /\ unborn.state = "UNINIT"
    BY <1>1, HealthTypes DEF HealthType
  <2>0. health' = HealthAfter(unborn, TRUE, panel'.initialized)
    BY <1>7 DEF FinishOperation
  <2>2. health' = HealthAfter(unborn, TRUE, FALSE)
    BY <1>7, <2>0
  <2>. HIDE DEF unborn
  <2>. QED BY <1>4, <1>7, <2>1, <2>2, CountedHealth DEF HealthSafeNext
<1>. QED BY <1>2, <1>3, <1>5, <1>6, <1>7

\* Each phase of pollOperation(), with every outcome of its transaction.
LEMMA PollInitializeIsSafe ==
  ASSUME HealthInv, NEW late, NEW o \in Outcomes, PollInitialize(late, o)
  PROVE  HealthSafeNext
<1>. DEFINE prefix == op.tx # 0
            all == MarkAllDirty(frame.dirty, frame.window)
            done == [Ticked(late) EXCEPT !.initialized = TRUE, !.sleeping = TRUE,
                       !.scrolling = FALSE, !.power = "OFF", !.guard = "OFF",
                       !.controlDirty = FALSE]
<1>1. /\ OperationActive /\ op.phase = "INITIALIZE_COMMAND" /\ pending' = pending
      /\ panel \in PanelType /\ op \in OpType /\ health \in HealthType
      /\ frame.dirty \in [Pages -> SUBSET Cols]
  <2>1. frame \in FrameType
    BY Parts DEF TypeOK
  <2>. QED BY <2>1, Parts DEF PollInitialize, Polls, FrameType
<1>2. /\ Ticked(late).initialized = panel.initialized
      /\ MarkControlDirty(InvalidatePower(panel)).initialized = panel.initialized
      /\ Ticked(late) \in PanelType
  BY <1>1, InitializedKept, PanelTypes DEF Ticked
<1>3. done.initialized = TRUE
  BY <1>2 DEF PanelType
<1>4. all \in [Pages -> SUBSET Cols]
  BY <1>1, DirtyTypes
<1>5. \/ /\ panel' = MarkControlDirty(InvalidatePower(panel))
         /\ CommandFails(o, prefix)
      \/ /\ panel' = Ticked(late)
         /\ op' = [op EXCEPT !.step = @ + 1, !.effect = "PARTIAL", !.tx = CountTx,
                             !.touched = TRUE]
         /\ UNCHANGED <<health, flush>>
      \/ /\ panel' = done /\ FinishOperation(health, flush, TRUE, 1)
      \/ panel' = done /\ flush' \in Job(all) /\ UNCHANGED health
  BY DEF PollInitialize
<1>. HIDE DEF prefix, done, all
<1>6. CASE panel' = MarkControlDirty(InvalidatePower(panel)) /\ CommandFails(o, prefix)
  BY <1>1, <1>2, <1>6, CommandIsSafe
<1>7. CASE /\ panel' = Ticked(late)
           /\ op' = [op EXCEPT !.step = @ + 1, !.effect = "PARTIAL", !.tx = CountTx,
                               !.touched = TRUE]
           /\ UNCHANGED <<health, flush>>
  <2>1. ~OutcomeUnpublished(flush') /\ pending' = 0
    BY <1>1, <1>7, JobDuringOperation
  <2>. QED BY <1>2, <1>7, <2>1, NothingOwed, HealthStep DEF HealthSafeNext
<1>8. CASE panel' = done /\ FinishOperation(health, flush, TRUE, 1)
  BY <1>1, <1>3, <1>8, CommandIsSafe
<1>9. CASE panel' = done /\ flush' \in Job(all) /\ UNCHANGED health
  <2>1. ~OutcomeUnpublished(flush') /\ pending' = 0
    BY <1>1, <1>4, <1>9, JobTypes, JobDuringOperation DEF OutcomeUnpublished
  <2>2. HealthSafe(health, TRUE)
    BY <1>1, Parts, CountedHealth
  <2>. QED BY <1>3, <1>9, <2>1, <2>2, NothingOwed DEF HealthSafeNext
<1>. QED BY <1>5, <1>6, <1>7, <1>8, <1>9

\* What a transaction of the running job makes of it.
LEMMA JobAfterTransaction ==
  ASSUME TypeOK, NEW o \in Outcomes, NEW k \in Cols, FlushTransaction(o, k), Running(flush)
  PROVE  /\ \/ Running(flush')
            \/ flush'.state \in {"DONE", "ERROR"}
               /\ flush'.accounted = OutcomeAccounted(flush'.state)
         /\ frame'.iterating = frame.iterating
<1>1. flush \in FlushType /\ frame \in FrameType
  BY DEF TypeOK
<1>2. Started \in FlushType /\ Running(Started)
  BY JobStates, FlushTypes
<1>3. \A f \in FrameType : AbandonedRewrite(f).iterating = f.iterating
  BY DEF AbandonedRewrite, FrameType
<1>4. ASSUME NEW attempted, FailFlush(attempted)
      PROVE  /\ flush'.state = "ERROR" /\ flush'.accounted = OutcomeAccounted("ERROR")
             /\ frame'.iterating = frame.iterating
  BY <1>1, <1>3, <1>4, PublishedJobs DEF FailFlush, EndJob, IdleFlush
<1>5. CASE SendAddress(o)
  <2>1. CASE o = "OK"
    <3>1. \A s \in {"SET_PAGE", "SEND_DATA"} :
            Running([Started EXCEPT !.tx = TRUE, !.state = s])
      BY <1>2 DEF Running, FlushPhases, FlushType
    <3>2. frame' = frame /\ \E s \in {"SET_PAGE", "SEND_DATA"} :
            flush' = [Started EXCEPT !.tx = TRUE, !.state = s]
      BY <1>2, <1>5, <2>1 DEF SendAddress
    <3>. QED BY <3>1, <3>2
  <2>. QED BY <1>4, <1>5, <2>1 DEF SendAddress
<1>6. ASSUME NEW sent, FinishPage(sent)
      PROVE  /\ \/ Running(flush')
                \/ flush'.state = "DONE" /\ flush'.accounted = OutcomeAccounted("DONE")
             /\ frame'.iterating = frame.iterating
  <2>1. CASE /\ flush' = [EndJob("DONE") EXCEPT !.tx = TRUE]
             /\ frame' = [frame EXCEPT !.dirty = AfterPage,
                                       !.synced = @ \/ (~PageMode /\ sent = Cells)]
    <3>1. flush'.state = "DONE" /\ flush'.accounted = OutcomeAccounted("DONE")
      BY <2>1 DEF EndJob, IdleFlush
    <3>2. frame'.iterating = frame.iterating
      BY <1>1, <2>1 DEF FrameType
    <3>. QED BY <3>1, <3>2
  <2>2. ASSUME NEW p, flush' = [Started EXCEPT !.state = "SET_COL", !.page = p, !.raced = FALSE,
                                  !.left = AfterPage[p], !.sent = sent],
               frame' = [frame EXCEPT !.dirty = AfterPage]
        PROVE  Running(flush') /\ frame'.iterating = frame.iterating
    BY <1>1, <1>2, <2>2 DEF Running, FlushPhases, FlushType, FrameType
  <2>. QED BY <1>6, <2>1, <2>2 DEF FinishPage
<1>7. CASE SendData(o, k)
  <2>. DEFINE chunk == {c \in flush.left : c <= k}
              sent == flush.sent \cup ({flush.page} \X chunk)
              goesOn == [Started EXCEPT !.left = @ \ chunk, !.sent = sent]
  <2>1. \/ FailFlush(TRUE)
        \/ FinishPage(sent)
        \/ flush' = goesOn /\ frame' = frame
    BY <1>7 DEF SendData
  <2>2. Running(goesOn)
    BY <1>2 DEF Running, FlushType
  <2>. HIDE DEF chunk, sent, goesOn
  <2>. QED BY <1>4, <1>6, <2>1, <2>2
<1>. QED BY <1>5, <1>7 DEF FlushTransaction

LEMMA PollFlushPhaseIsSafe ==
  ASSUME HealthInv, NEW late, NEW o \in Outcomes, NEW k \in Cols,
         PollFlushPhase(late, o, k) \/ PollFlushPhaseTimeout(late)
  PROVE  HealthSafeNext
<1>. DEFINE touched == op.touched \/ TookEffect(o)
            prefix == op.tx # 0
<1>1. /\ TypeOK /\ OperationActive /\ InFlushPhase /\ pending' = 0 /\ op \in OpType
      /\ panel \in PanelType /\ panel' = Ticked(late) /\ Running(flush)
  <2>1. OperationActive /\ InFlushPhase /\ pending' = pending /\ panel' = Ticked(late)
    BY DEF PollFlushPhase, PollFlushPhaseTimeout, Polls
  <2>2. Running(flush)
    BY <2>1, Parts DEF JobInv, JobSafe, OperationActive, InFlushPhase
  <2>. QED BY <2>1, <2>2, Parts, JobDuringOperation
<1>2. panel'.initialized = panel.initialized
  BY <1>1, InitializedKept DEF Ticked
<1>3. \/ health' = health
      \/ health' = HealthAfter(health, FALSE, panel.initialized)
      \/ health' = HealthAfter(health, TRUE, panel.initialized)
  BY DEF PollFlushPhase, PollFlushPhaseTimeout
<1>4. CASE PollFlushPhaseTimeout(late)
  <2>1. flush'.accounted
    BY <1>1, <1>4 DEF PollFlushPhaseTimeout, FailFlush, EndJob, IdleFlush, OutcomeAccounted
  <2>. QED BY <1>1, <1>2, <1>3, <2>1, NothingOwed, HealthStep
           DEF HealthSafeNext, OutcomeUnpublished
<1>5. CASE PollFlushPhase(late, o, k)
  <2>1. /\ \/ Running(flush')
           \/ flush'.state \in {"DONE", "ERROR"}
              /\ flush'.accounted = OutcomeAccounted(flush'.state)
    BY <1>1, <1>5, JobAfterTransaction DEF PollFlushPhase
  <2>2. CASE ~OutcomeUnpublished(flush')
    BY <1>1, <1>2, <1>3, <2>2, NothingOwed, HealthStep DEF HealthSafeNext
  <2>3. CASE OutcomeUnpublished(flush')
    <3>1. flush'.state = "DONE" /\ op.kind # "FLUSH"
      BY <1>1, <2>1, <2>3, PublishedJobs DEF OutcomeUnpublished, OutcomeAccounted
    <3>2. /\ op' = [op EXCEPT !.effect = "PARTIAL", !.tx = CountTx, !.touched = touched,
                              !.phase = IF flush'.state = "DONE" THEN "DISPLAY_ON" ELSE @]
          /\ op.kind = "RESYNC"
      BY <1>5, <3>1 DEF PollFlushPhase, FlushPhases
    <3>. HIDE DEF touched
    <3>3. op'.state = "ACTIVE" /\ op'.kind = "RESYNC" /\ op'.phase = "DISPLAY_ON"
      BY <1>1, <3>1, <3>2 DEF OpType, OperationActive
    <3>4. PublicationSafe(flush', frame', op', pending')
      BY <1>1, <3>1, <3>3 DEF PublicationSafe
    <3>. QED BY <1>2, <1>3, <3>4, HealthStep DEF HealthSafeNext
  <2>. QED BY <2>2, <2>3
<1>. QED BY <1>4, <1>5

LEMMA PollCommandIsSafe ==
  ASSUME HealthInv, NEW late, NEW o \in Outcomes,
         \/ PollDisplayOff(late, o)
         \/ PollChargePumpOff(late, o)
         \/ PollDisplayOn(late, o)
         \/ PollScrollDeactivate(late, o)
         \/ PollScrollConfigure(late, o)
         \/ PollScrollActivate(late, o)
  PROVE  HealthSafeNext
<1>. DEFINE prefix == op.tx # 0
            unborn == [health EXCEPT !.state = "UNINIT"]
            p == Ticked(late)
<1>1. OperationActive /\ pending' = pending /\ op.phase # "DISPLAY_ON_DELAY"
  BY DEF Polls, PollDisplayOff, PollChargePumpOff, PollDisplayOn, PollScrollDeactivate,
         PollScrollConfigure, PollScrollActivate
<1>2. p \in PanelType /\ panel \in PanelType
  BY Parts, PanelTypes DEF Ticked
<1>3. /\ p.initialized = panel.initialized
      /\ MarkControlDirty(InvalidatePower(panel)).initialized = panel.initialized
      /\ MarkControlDirty(p).initialized = panel.initialized
      /\ DisplayIsOff(p).initialized = panel.initialized
      /\ DisplayIsOff(p) \in PanelType
  BY <1>2, InitializedKept, PanelTypes DEF Ticked
<1>4. /\ [p EXCEPT !.sleeping = FALSE, !.power = "STARTING"].initialized = panel.initialized
      /\ [p EXCEPT !.sleeping = FALSE, !.power = "ON", !.guard = "READY"].initialized
           = panel.initialized
      /\ [p EXCEPT !.scrolling = FALSE].initialized = panel.initialized
      /\ [p EXCEPT !.scrolling = TRUE].initialized = panel.initialized
      /\ [p EXCEPT !.initialized = FALSE, !.power = "OFF"].initialized = FALSE
      /\ [DisplayIsOff(p) EXCEPT !.initialized = FALSE].initialized = FALSE
  BY <1>2, <1>3 DEF PanelType
<1>5. PollDisplayOff(late, o) =>
        \/ panel' = MarkControlDirty(InvalidatePower(panel)) /\ CommandFails(o, prefix)
        \/ /\ op.phase # "DISPLAY_ON"
           /\ panel' = DisplayIsOff(p) /\ CommandSucceeds("CHARGE_PUMP_OFF")
        \/ panel' = [DisplayIsOff(p) EXCEPT !.initialized = FALSE]
           /\ FinishOperation(unborn, flush, TRUE, 1)
        \/ panel' = DisplayIsOff(p) /\ FinishOperation(health, flush, TRUE, 1)
  BY DEF PollDisplayOff
<1>6. PollChargePumpOff(late, o) =>
        \/ panel' = [p EXCEPT !.initialized = FALSE, !.power = "OFF"]
           /\ FinishOperation(unborn, flush, TRUE, 1)
        \/ panel' = MarkControlDirty(p) /\ CommandFails(o, TRUE)
  BY DEF PollChargePumpOff
<1>7. PollDisplayOn(late, o) =>
        \/ panel' = MarkControlDirty(InvalidatePower(panel)) /\ CommandFails(o, prefix)
        \/ panel' = [p EXCEPT !.sleeping = FALSE, !.power = "STARTING"]
           /\ CommandSucceeds("DISPLAY_ON_DELAY")
        \/ panel' = [p EXCEPT !.sleeping = FALSE, !.power = "ON", !.guard = "READY"]
           /\ FinishOperation(health, flush, TRUE, 1)
  BY DEF PollDisplayOn
<1>8. PollScrollDeactivate(late, o) =>
        \/ /\ op.phase # "DISPLAY_ON"
           /\ panel' = [p EXCEPT !.scrolling = FALSE] /\ CommandSucceeds("SCROLL_CONFIGURE")
        \/ panel' = MarkControlDirty(p) /\ CommandFails(o, prefix)
  BY DEF PollScrollDeactivate
<1>9. PollScrollConfigure(late, o) =>
        \/ op.phase # "DISPLAY_ON" /\ panel' = p /\ CommandSucceeds("SCROLL_ACTIVATE")
        \/ panel' = MarkControlDirty(p) /\ CommandFails(o, TRUE)
  BY DEF PollScrollConfigure
<1>10. PollScrollActivate(late, o) =>
         \/ panel' = [p EXCEPT !.scrolling = TRUE] /\ FinishOperation(health, flush, TRUE, 1)
         \/ panel' = MarkControlDirty(p) /\ CommandFails(o, TRUE)
  BY DEF PollScrollActivate
<1>. HIDE DEF prefix, p
<1>11. \A x : CommandFails(o, x) /\ panel'.initialized = panel.initialized => HealthSafeNext
  BY <1>1, CommandIsSafe
<1>12. \A next :
         /\ CommandSucceeds(next) /\ panel'.initialized = panel.initialized
         /\ op.phase = "DISPLAY_ON" => next = "DISPLAY_ON_DELAY"
         => HealthSafeNext
  BY <1>1, CommandIsSafe
<1>13. FinishOperation(health, flush, TRUE, 1) /\ panel'.initialized = panel.initialized
         => HealthSafeNext
  BY <1>1, CommandIsSafe
<1>14. FinishOperation(unborn, flush, TRUE, 1) /\ panel'.initialized = FALSE
         => HealthSafeNext
  BY <1>1, CommandIsSafe
<1>. HIDE DEF unborn
<1>15. CASE PollDisplayOff(late, o)
  BY <1>3, <1>4, <1>5, <1>11, <1>12, <1>13, <1>14, <1>15
<1>16. CASE PollChargePumpOff(late, o)
  BY <1>3, <1>4, <1>6, <1>11, <1>14, <1>16
<1>17. CASE PollDisplayOn(late, o)
  BY <1>3, <1>4, <1>7, <1>11, <1>12, <1>13, <1>17
<1>18. CASE PollScrollDeactivate(late, o)
  BY <1>3, <1>4, <1>8, <1>11, <1>12, <1>18
<1>19. CASE PollScrollConfigure(late, o)
  BY <1>3, <1>9, <1>11, <1>12, <1>19
<1>20. CASE PollScrollActivate(late, o)
  BY <1>3, <1>4, <1>10, <1>11, <1>13, <1>20
<1>. QED BY <1>15, <1>16, <1>17, <1>18, <1>19, <1>20

\* _startOperation() settles what an iteration owed, whatever it then does.
LEMMA StartIsSafe ==
  ASSUME HealthInv, NEW kind \in Kinds, NEW deadline \in BOOLEAN,
         StartOperation(kind, deadline)
  PROVE  HealthSafeNext
<1>1. /\ ~OperationActive /\ panel' = panel /\ TypeOK
      /\ frame.dirty \in [Pages -> SUBSET Cols]
  <2>1. frame \in FrameType
    BY Parts DEF TypeOK
  <2>. QED BY <2>1, Parts DEF StartOperation, OperationAdmitted, LegacyOwner, FrameType
<1>2. health' = SettledHealth /\ pending' = SettledPending
  BY DEF StartOperation
<1>3. HealthSafe(health', panel'.initialized) /\ pending' = 0
  BY <1>1, <1>2, BetweenOperations
<1>4. flush' \in {SettledFlush, ConsumedFlush} \/ flush' \in Job(frame.dirty)
  BY DEF StartOperation
<1>5. ~OutcomeUnpublished(flush')
  BY <1>1, <1>4, BetweenOperations, PublishedJobs, JobTypes DEF OutcomeUnpublished
<1>. QED BY <1>3, <1>5, NothingOwed DEF HealthSafeNext

LEMMA OperationCallIsSafe ==
  ASSUME HealthInv, OperationCall
  PROVE  HealthSafeNext
<1>1. panel \in PanelType /\ op \in OpType /\ TypeOK
  BY Parts
<1>2. \A late : /\ Ticked(late) \in PanelType
                /\ Ticked(late).initialized = panel.initialized
  BY <1>1, PanelTypes, InitializedKept DEF Ticked
<1>3. ASSUME NEW late, PollDeadline(late) PROVE HealthSafeNext
  BY <1>2, <1>3, TerminateIsSafe DEF PollDeadline
<1>4. CancelOperation \/ BlockingOperationStalls => HealthSafeNext
  BY <1>1, TerminateIsSafe DEF CancelOperation, BlockingOperationStalls
<1>5. ASSUME TakeOperationResult PROVE HealthSafeNext
  <2>1. /\ op.state # "ACTIVE" /\ op'.state # "ACTIVE" /\ flush' = flush /\ frame' = frame
        /\ panel' = panel /\ health' = health /\ pending' = pending
    BY <1>5 DEF TakeOperationResult, OperationResultReady, Terminal, NoOperation
  <2>2. PublicationSafe(flush', frame', op', pending')
    BY <2>1, Parts DEF PublicationSafe
  <2>. QED BY <2>1, <2>2, Parts DEF HealthSafeNext
<1>6. ASSUME NEW late, PollEmptyFlush(late) PROVE HealthSafeNext
  <2>1. /\ OperationActive /\ pending' = pending /\ panel' = Ticked(late)
        /\ FinishOperation(health, flush, FALSE, 0)
    BY <1>6 DEF PollEmptyFlush, Polls
  <2>. QED BY <1>2, <2>1, CommandIsSafe
<1>7. ASSUME NEW late, PollDisplayOnRejected(late) PROVE HealthSafeNext
  <2>1. /\ OperationActive /\ pending' = pending /\ panel' = Ticked(late)
        /\ health' = health /\ flush' = JobAfterFailure(flush)
    BY <1>7 DEF PollDisplayOnRejected, Polls
  <2>2. pending' = 0 /\ ~OutcomeUnpublished(flush')
    BY <2>1, JobDuringOperation, EndedJobIsPublished
  <2>. QED BY <1>2, <2>1, <2>2, NothingOwed, HealthStep DEF HealthSafeNext
<1>8. ASSUME NEW late, PollDelayStarts(late) PROVE HealthSafeNext
  <2>1. /\ OperationActive /\ pending' = pending /\ panel' = Ticked(late) /\ flush' = flush
        /\ health' = health
        /\ op'.state = op.state /\ op'.kind = op.kind /\ op'.phase = op.phase
    BY <1>1, <1>8 DEF PollDelayStarts, OpType
  <2>2. PublicationSafe(flush', frame', op', pending')
    BY <2>1, Parts DEF PublicationSafe, OperationActive
  <2>. QED BY <1>2, <2>1, <2>2, HealthStep DEF HealthSafeNext
<1>9. ASSUME NEW late, PollDelayEnds(late) PROVE HealthSafeNext
  <2>1. /\ OperationActive /\ pending' = pending /\ FinishOperation(health, flush, TRUE, 1)
        /\ panel' = [Ticked(late) EXCEPT !.power = "ON", !.guard = "READY"]
    BY <1>9 DEF PollDelayEnds
  <2>2. panel'.initialized = panel.initialized
    BY <1>2, <2>1 DEF PanelType
  <2>. QED BY <2>1, <2>2, CommandIsSafe
<1>10. ASSUME NEW late, PollFlushPhaseTimeout(late) PROVE HealthSafeNext
  <2>1. "OK" \in Outcomes /\ 0 \in Cols
    BY ConfigAssumption DEF Outcomes, Cols, ConfigAssumption
  <2>. QED BY <1>10, <2>1, PollFlushPhaseIsSafe
<1>11. ASSUME NEW late, PollOperation(late) PROVE HealthSafeNext
  BY <1>3, <1>6, <1>7, <1>8, <1>9, <1>10, <1>11, PollInitializeIsSafe, PollFlushPhaseIsSafe,
     PollCommandIsSafe
     DEF PollOperation
<1>. QED BY <1>4, <1>5, <1>11, StartIsSafe DEF OperationCall

-----------------------------------------------------------------------------
\* The legacy calls.

LEMMA FlushCallIsSafe ==
  ASSUME HealthInv, FlushCall
  PROVE  HealthSafeNext
<1>1. /\ TypeOK /\ flush \in FlushType /\ panel \in PanelType /\ frame \in FrameType
      /\ frame.dirty \in [Pages -> SUBSET Cols]
  <2>1. frame \in FrameType
    BY Parts DEF TypeOK
  <2>. QED BY <2>1, Parts DEF FrameType
<1>2. \A late : Ticked(late).initialized = panel.initialized
  BY <1>1, InitializedKept DEF Ticked
<1>3. \A f \in FrameType : AbandonedRewrite(f).iterating = f.iterating
  BY DEF AbandonedRewrite, FrameType
<1>4. CASE RequestFlush
  <2>1. /\ ~OperationActive /\ panel' = panel /\ health' = HealthWithOutcome(flush)
        /\ pending' = PendingWithOutcome(flush)
        /\ flush' = ConsumedFlush \/ flush' \in Job(frame.dirty)
    BY <1>4 DEF RequestFlush, LegacyOwner
  <2>2. ~OutcomeUnpublished(flush')
    BY <1>1, <2>1, PublishedJobs, JobTypes DEF OutcomeUnpublished
  <2>. QED BY <2>1, <2>2, BetweenOperations, NothingOwed DEF HealthSafeNext
\* A legacy job that ends publishes its outcome, unless an iteration will.
<1>5. ASSUME NEW late, LegacyPoll(late), PublishJob, frame'.iterating = frame.iterating,
             \/ Running(flush')
             \/ flush'.state \in {"DONE", "ERROR"}
                /\ flush'.accounted = OutcomeAccounted(flush'.state)
      PROVE  HealthSafeNext
  <2>1. /\ ~OperationActive /\ op' = op /\ pending = 0
        /\ panel'.initialized = panel.initialized
    BY <1>2, <1>5, BetweenOperations
       DEF LegacyPoll, LegacyOwner, IsFlushing, Running, Ticked
  <2>. DEFINE ok == flush'.state = "DONE"
              ended == flush'.state \in {"DONE", "ERROR"}
              published == ended /\ flush'.accounted
  <2>2. ok \in BOOLEAN
    OBVIOUS
  <2>3. \/ health' = health
        \/ health' = HealthAfter(health, ok, panel.initialized)
    BY <1>5 DEF PublishJob
  <2>4. pending' = pending + (IF ended THEN 1 ELSE 0) - (IF published THEN 1 ELSE 0)
    BY <1>5 DEF PublishJob
  <2>5. pending' = IF OutcomeUnpublished(flush') THEN 1 ELSE 0
    BY <2>1, <2>4 DEF OutcomeUnpublished
  <2>. HIDE DEF ok
  <2>6. HealthSafe(health', panel'.initialized)
    BY <2>1, <2>2, <2>3, HealthStep
  <2>7. OutcomeUnpublished(flush') => frame'.iterating
    <3>1. ASSUME OutcomeUnpublished(flush') PROVE frame.iterating
      <4>1. OutcomeAccounted(flush'.state) = ~frame.iterating
        BY <2>1 DEF OutcomeAccounted
      <4>2. ~Running(flush')
        BY <1>1, <3>1, PublishedJobs
      <4>3. flush'.accounted = ~frame.iterating
        BY <1>5, <4>1, <4>2
      <4>4. ~flush'.accounted
        BY <3>1 DEF OutcomeUnpublished
      <4>. QED BY <4>3, <4>4
    <3>. QED BY <1>5, <3>1
  <2>. QED BY <2>1, <2>5, <2>6, <2>7 DEF HealthSafeNext, PublicationSafe, OperationActive
<1>6. ASSUME NEW late, PollFlushTimeout(late) PROVE HealthSafeNext
  <2>1. /\ flush'.state = "ERROR" /\ flush'.accounted = OutcomeAccounted("ERROR")
        /\ frame'.iterating = frame.iterating
    BY <1>1, <1>3, <1>6 DEF PollFlushTimeout, FailFlush, EndJob, IdleFlush
  <2>. QED BY <1>5, <1>6, <2>1 DEF PollFlushTimeout
<1>7. ASSUME NEW late, PollFlushWaits(late) PROVE HealthSafeNext
  <2>1. /\ ~OperationActive /\ Running(flush) /\ flush' = Started /\ health' = health
        /\ pending' = pending /\ panel'.initialized = panel.initialized
    BY <1>2, <1>7 DEF PollFlushWaits, LegacyPoll, LegacyOwner, IsFlushing, Running, Ticked
  <2>2. pending' = 0 /\ ~OutcomeUnpublished(flush')
    BY <1>1, <2>1, BetweenOperations, JobStates, PublishedJobs
  <2>. QED BY <2>1, <2>2, NothingOwed, HealthStep DEF HealthSafeNext
<1>8. ASSUME NEW late, NEW o \in Outcomes, NEW k \in Cols, PollFlushSends(late, o, k)
      PROVE  HealthSafeNext
  <2>1. LegacyPoll(late) /\ PublishJob /\ FlushTransaction(o, k) /\ Running(flush)
    BY <1>8 DEF PollFlushSends, LegacyPoll, IsFlushing, Running
  <2>. QED BY <1>1, <1>5, <2>1, JobAfterTransaction
<1>9. ASSUME NEW late, PollFlushEnded(late) PROVE HealthSafeNext
  <2>1. /\ ~OperationActive /\ panel'.initialized = panel.initialized
        /\ op' = op /\ frame' = frame
    BY <1>2, <1>9 DEF PollFlushEnded, LegacyOwner, Ticked
  <2>2. CASE UNCHANGED <<flush, health, pending>>
    BY <2>1, <2>2, OwedAsBefore, HealthStep DEF HealthSafeNext
  <2>3. CASE ConsumeTerminalFlush
    BY <1>1, <2>1, <2>3, BetweenOperations, PublishedJobs, NothingOwed
       DEF ConsumeTerminalFlush, HealthSafeNext
  <2>. QED BY <1>9, <2>2, <2>3 DEF PollFlushEnded
<1>10. CASE WaitFlushGivesUp
  <2>. DEFINE failed == [EndJob("ERROR") EXCEPT !.tx = flush.tx]
  <2>1. /\ ~OperationActive /\ Running(flush) /\ panel' = panel /\ op' = op
        /\ frame'.iterating = frame.iterating
    BY <1>1, <1>3, <1>10 DEF WaitFlushGivesUp, LegacyOwner, IsFlushing, Running
  <2>2. pending = 0
    BY <2>1, BetweenOperations
  <2>3. failed.state = "ERROR" /\ failed.accounted = OutcomeAccounted("ERROR")
    BY DEF EndJob, IdleFlush
  <2>4. CASE frame.iterating
    <3>1. flush' = failed /\ pending' = 1 /\ health' = health
      BY <1>10, <2>2, <2>4 DEF WaitFlushGivesUp
    <3>2. OutcomeUnpublished(flush')
      BY <2>1, <2>3, <2>4, <3>1 DEF OutcomeAccounted, OutcomeUnpublished
    <3>. HIDE DEF failed
    <3>3. PublicationSafe(flush', frame', op', pending')
      BY <2>1, <2>4, <3>1, <3>2 DEF PublicationSafe, OperationActive
    <3>. QED BY <2>1, <3>1, <3>3, HealthStep DEF HealthSafeNext
  <2>5. CASE ~frame.iterating
    <3>1. /\ flush' = [IdleFlush EXCEPT !.failed = TRUE] /\ pending' = 0
          /\ health' = HealthAfter(health, FALSE, panel.initialized)
      BY <1>10, <2>2, <2>5 DEF WaitFlushGivesUp
    <3>. QED BY <1>1, <2>1, <3>1, PublishedJobs, NothingOwed, HealthStep DEF HealthSafeNext
  <2>. QED BY <2>4, <2>5
<1>. QED BY <1>4, <1>6, <1>7, <1>8, <1>9, <1>10 DEF FlushCall, PollFlush

LEMMA FrameCallIsSafe ==
  ASSUME HealthInv, FrameCall
  PROVE  HealthSafeNext
<1>1. TypeOK /\ flush \in FlushType /\ frame \in FrameType
  BY Parts DEF TypeOK
<1>2. ASSUME NEW p, NEW S, Draw(p, S) PROVE HealthSafeNext
  <2>1. /\ panel' = panel /\ op' = op /\ health' = health /\ pending' = pending
        /\ flush' = RacedBy({p}) /\ frame'.iterating = frame.iterating
    BY <1>1, <1>2 DEF Draw, FrameType
  <2>2. flush'.state = flush.state
    BY <1>1, <2>1 DEF RacedBy, FlushType
  <2>. QED BY <1>1, <2>1, <2>2, PublishedJobs, OwedAsBefore, HealthStep DEF HealthSafeNext
<1>3. ASSUME DrawAll PROVE HealthSafeNext
  <2>1. /\ panel' = panel /\ op' = op /\ health' = health /\ pending' = pending
        /\ flush' = RacedBy(WindowPages(frame.window))
        /\ frame'.iterating = frame.iterating
    BY <1>1, <1>3 DEF DrawAll, FrameType
  <2>2. flush'.state = flush.state
    BY <1>1, <2>1 DEF RacedBy, FlushType
  <2>. QED BY <1>1, <2>1, <2>2, PublishedJobs, OwedAsBefore, HealthStep DEF HealthSafeNext
\* clearDirty() is legal during an operation, where there is nothing to publish.
<1>4. ASSUME ClearDirty PROVE HealthSafeNext
  <2>1. /\ panel' = panel /\ op' = op /\ health' = SettledHealth
        /\ pending' = SettledPending /\ flush' = SettledFlush
    BY <1>4 DEF ClearDirty
  <2>2. CASE ~OperationActive
    BY <2>1, <2>2, BetweenOperations, NothingOwed DEF HealthSafeNext
  <2>3. CASE OperationActive
    <3>1. health' = health /\ pending' = 0
      BY <2>1, <2>3, JobDuringOperation
         DEF SettledHealth, SettledPending, HealthWithOutcome, PendingWithOutcome
    <3>2. CASE flush' = flush
      <4>1. PublicationSafe(flush', frame', op', pending')
        BY <2>1, <2>3, <3>1, <3>2, JobDuringOperation DEF PublicationSafe, OperationActive
      <4>. QED BY <2>1, <3>1, <4>1, HealthStep DEF HealthSafeNext
    <3>3. CASE flush' = [flush EXCEPT !.accounted = TRUE]
      BY <1>1, <2>1, <3>1, <3>3, PublishedJobs, NothingOwed, HealthStep DEF HealthSafeNext
    <3>. QED BY <2>1, <3>2, <3>3 DEF SettledFlush
  <2>. QED BY <2>2, <2>3
<1>5. ASSUME FirstPage PROVE HealthSafeNext
  <2>1. /\ ~OperationActive /\ panel' = panel /\ health' = HealthWithOutcome(flush)
        /\ pending' = PendingWithOutcome(flush)
        /\ flush' = IF flush.state \in {"DONE", "ERROR"} THEN IdleFlush ELSE flush
    BY <1>5 DEF FirstPage, FirstPageAdmitted, DirectI2cAdmitted
  <2>2. ~OutcomeUnpublished(flush')
    BY <1>1, <2>1, PublishedJobs DEF OutcomeUnpublished
  <2>. QED BY <2>1, <2>2, BetweenOperations, NothingOwed DEF HealthSafeNext
<1>6. ASSUME NextPageReportsFailure \/ NextPageAfterWindow PROVE HealthSafeNext
  <2>1. /\ ~OperationActive /\ panel' = panel /\ health' = HealthWithOutcome(flush)
        /\ pending' = PendingWithOutcome(flush)
        /\ \E failed : flush' = [IdleFlush EXCEPT !.failed = failed]
    BY <1>6 DEF NextPageReportsFailure, NextPageAfterWindow, NextPageAdmitted, LegacyOwner
  <2>2. ~OutcomeUnpublished(flush')
    BY <1>1, <2>1, PublishedJobs
  <2>. QED BY <2>1, <2>2, BetweenOperations, NothingOwed DEF HealthSafeNext
<1>7. ASSUME NextPageSendsWindow PROVE HealthSafeNext
  <2>. DEFINE d == MarkAllDirty(frame.dirty, frame.window)
  <2>1. /\ ~OperationActive /\ panel' = panel /\ health' = health /\ pending' = pending
        /\ flush' = flush \/ flush' \in Job(d)
        /\ flush.state = "IDLE"
    BY <1>7 DEF NextPageSendsWindow, NextPageAdmitted, LegacyOwner
  <2>2. d \in [Pages -> SUBSET Cols]
    BY <1>1, DirtyTypes DEF FrameType
  <2>. HIDE DEF d
  <2>3. ~OutcomeUnpublished(flush') /\ ~OutcomeUnpublished(flush)
    BY <2>1, <2>2, JobTypes DEF OutcomeUnpublished
  <2>4. pending' = 0
    BY <2>1, <2>3, BetweenOperations
  <2>. QED BY <2>1, <2>3, <2>4, NothingOwed, HealthStep DEF HealthSafeNext
<1>. QED BY <1>2, <1>3, <1>4, <1>5, <1>6, <1>7 DEF FrameCall, ClearDirtyIfIdle

LEMMA ControlCallIsSafe ==
  ASSUME HealthInv, ControlCall
  PROVE  HealthSafeNext
<1>1. TypeOK /\ panel \in PanelType /\ flush \in FlushType
  BY Parts
<1>2. /\ MarkControlDirty(panel).initialized = panel.initialized
      /\ MarkControlDirty(InvalidatePower(panel)).initialized = panel.initialized
      /\ DisplayIsOff(panel).initialized = panel.initialized
      /\ Invalidated(panel).initialized = panel.initialized
      /\ \A late : Ticked(late).initialized = panel.initialized
      /\ AwokenPanel.initialized = panel.initialized
      /\ [panel EXCEPT !.scrolling = FALSE].initialized = panel.initialized
  BY <1>1, InitializedKept DEF Ticked, AwokenPanel, PanelType
\* The older outcome is published first, the write's own after it.
<1>3. ASSUME NEW o \in Outcomes, TrackedWrite(o), panel'.initialized = panel.initialized
      PROVE  HealthSafeNext
  <2>. DEFINE ok == o = "OK"
  <2>1. ok \in BOOLEAN /\ panel.initialized \in BOOLEAN
    BY <1>1 DEF PanelType
  <2>2. /\ ~OperationActive /\ pending' = SettledPending /\ flush' = SettledFlush
        /\ health' = HealthAfter(SettledHealth, ok, panel.initialized)
    BY <1>3 DEF TrackedWrite, DirectI2cAdmitted
  <2>. HIDE DEF ok
  <2>3. HealthSafe(health', panel'.initialized)
    BY <1>3, <2>1, <2>2, BetweenOperations, CountedHealth
  <2>. QED BY <2>2, <2>3, BetweenOperations, NothingOwed DEF HealthSafeNext
<1>4. ASSUME NEW o \in Outcomes,
             \/ SetRegister(o) \/ StopScroll(o) \/ SleepNow(o) \/ WakeNow(o)
             \/ SendRawCommand(o) \/ \E changed \in BOOLEAN : SetFlipX(o, changed)
      PROVE  HealthSafeNext
  <2>1. TrackedWrite(o)
    BY <1>4 DEF SetRegister, StopScroll, SleepNow, WakeNow, SendRawCommand, SetFlipX
  <2>2. panel' \in {panel, MarkControlDirty(panel), MarkControlDirty(InvalidatePower(panel)),
                    DisplayIsOff(panel), Invalidated(panel), AwokenPanel,
                    [panel EXCEPT !.scrolling = FALSE]}
    BY <1>4 DEF SetRegister, StopScroll, SleepNow, WakeNow, SendRawCommand, SetFlipX,
                AfterSetter, AfterRawFailure
  <2>. QED BY <1>2, <1>3, <2>1, <2>2
<1>5. ASSUME NEW late, TickPanelGuard(late) PROVE HealthSafeNext
  BY <1>2, <1>5, OwedAsBefore, HealthStep DEF TickPanelGuard, HealthSafeNext
<1>6. ASSUME NEW really, PanelReset(really) PROVE HealthSafeNext
  <2>. DEFINE dropped == [EndJob("ERROR") EXCEPT !.accounted = TRUE]
  <2>1. ~OutcomeUnpublished(dropped)
    BY <1>1, FlushTypes, PublishedJobs
  <2>2. /\ panel' = Invalidated(panel)
        /\ \/ /\ OperationActive /\ flush' = JobAfterFailure(flush)
              /\ health' = health /\ pending' = pending
           \/ /\ ~OperationActive /\ flush' \in {dropped, SettledFlush}
              /\ health' = SettledHealth /\ pending' = SettledPending
    BY <1>6 DEF PanelReset, InvalidatePanelState
  <2>. HIDE DEF dropped
  <2>3. CASE /\ OperationActive /\ flush' = JobAfterFailure(flush)
             /\ health' = health /\ pending' = pending
    BY <1>2, <2>2, <2>3, JobDuringOperation, EndedJobIsPublished, NothingOwed, HealthStep
       DEF HealthSafeNext
  <2>4. CASE /\ ~OperationActive /\ flush' \in {dropped, SettledFlush}
             /\ health' = SettledHealth /\ pending' = SettledPending
    BY <1>2, <2>1, <2>2, <2>4, BetweenOperations, NothingOwed DEF HealthSafeNext
  <2>. QED BY <2>2, <2>3, <2>4
<1>. QED BY <1>4, <1>5, <1>6 DEF ControlCall

LEMMA LifecycleIsSafe ==
  ASSUME HealthInv, Lifecycle
  PROVE  HealthSafeNext
<1>1. /\ ~OutcomeUnpublished(flush') /\ pending' = 0 /\ health' = NewHealth
  BY Parts, PublishedJobs DEF Lifecycle, Attach, Detach
<1>2. HealthSafe(NewHealth, FALSE)
  BY DEF HealthSafe, NewHealth
<1>3. panel'.initialized = FALSE
  BY DEF Lifecycle, Attach, Detach, DetachedPanel
<1>. QED BY <1>1, <1>2, <1>3, NothingOwed DEF HealthSafeNext

-----------------------------------------------------------------------------
LEMMA HealthInvHolds == Spec => []HealthInv
<1>1. Init => PublicationSafe(flush, frame, op, pending) /\ HealthSafe(health, panel.initialized)
  BY DEF Init, IdleFlush, NoOperation, NewHealth, DetachedPanel, PublicationSafe, HealthSafe,
         OutcomeUnpublished
<1>2. HealthInv /\ [Next]_vars => HealthSafeNext
  <2>1. ASSUME HealthInv, Next PROVE HealthSafeNext
    BY <2>1, OperationCallIsSafe, FlushCallIsSafe, FrameCallIsSafe, ControlCallIsSafe,
       LifecycleIsSafe DEF Next
  <2>2. ASSUME HealthInv, UNCHANGED vars PROVE HealthSafeNext
    BY <2>2, Parts DEF vars, HealthSafeNext
  <2>. QED BY <2>1, <2>2
<1>3. Init /\ JobInv => HealthInv
  BY <1>1 DEF HealthInv
<1>4. HealthInv /\ [Next]_vars /\ JobInv' => HealthInv'
  BY <1>2 DEF HealthInv, HealthSafeNext
<1>. QED BY <1>3, <1>4, JobInvHolds, PTL DEF Spec

\* Every flush outcome is published to health exactly once, whichever call takes over
\* after it (pollFlush(), waitFlush(), nextPage(), a direct command, a new operation,
\* an invalidation or a force-clear); only an iteration's window may owe its outcome.
THEOREM OutcomesArePublishedOnce == Spec => []OutcomePublishedOnce
BY HealthInvHolds, HealthInvImplies, PTL

\* DriverState is the classification of the failure counter for every threshold
\* (_updateHealth()), through shutdowns, reinitializations and cancelled operations.
THEOREM HealthIsClassified == Spec => []HealthMatchesCounter
BY HealthInvHolds, HealthInvImplies, PTL
=============================================================================
