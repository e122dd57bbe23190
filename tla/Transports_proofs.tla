------------------------- MODULE Transports_proofs -------------------------
(***************************************************************************)
(* Proofs about the two transports, for any number of tasks and users, any *)
(* timeouts and any resolution of the timers: what they tell their caller  *)
(* is true, and what they take they give back.                             *)
(***************************************************************************)
EXTENDS MCTransports, TLAPS

-----------------------------------------------------------------------------
\* ESP-IDF

Places == {"OUT", "BLOCKED", "SENDING", "RETURNED"}
CallKinds == {"NONE", "WRITE", "PROBE"}
Fates == {"NO", "TRIED", "NONE", "PART", "WHOLE"}
Results == {"NONE", "OK", "TIMEOUT", "BUS_ERROR"}
CallType ==
  [at : Places, kind : CallKinds, timeout : Nat, elapsed : Nat, left : Int,
   contended : BOOLEAN, sent : Fates, result : Results]

IdfTyped ==
  /\ handles \subseteq Handles /\ phase \in Nat
  /\ holder \in Tasks \cup {Nobody}
  /\ call \in [Tasks -> CallType]

\* Only a call that found the mutex taken waits.
WaitersContend == \A t \in Tasks : call[t].at = "BLOCKED" => call[t].contended

IdfInv ==
  /\ IdfTyped /\ WaitersContend
  /\ MutexIsGivenBack /\ NothingIsLeaked /\ DefiniteResultsAreTrue

LEMMA IdfConstants ==
  /\ Timeouts \subseteq Nat /\ Nobody \notin Tasks
  /\ PerMs \in Nat /\ PerMs > 0 /\ TickMs \in Nat /\ TickMs > 0
BY IdfAssumption DEF Nobody

\* What the steps of a call make of it.
LEMMA EndedTyped ==
  ASSUME NEW c \in CallType, NEW result \in Results, NEW sent \in Fates
  PROVE  LET e == Ended(c, result, sent)
         IN  /\ e \in CallType /\ e.at = "RETURNED" /\ e.result = result /\ e.sent = sent
             /\ e.contended = c.contended
<1> DEFINE e == Ended(c, result, sent)
<1>1. "RETURNED" \in Places BY DEF Places
<1>2. e = [c EXCEPT !.at = "RETURNED", !.left = 0, !.result = result, !.sent = sent]
  BY DEF Ended
<1> HIDE DEF e
<1>3. e \in CallType
  <2> DEFINE none == 0
             f == [c EXCEPT !.at = "RETURNED", !.left = none]
  <2>1. e = [f EXCEPT !.result = result, !.sent = sent] BY <1>2
  <2>2. none \in Int OBVIOUS
  <2> HIDE DEF none
  <2>3. f \in CallType BY <1>1, <2>2 DEF CallType
  <2> HIDE DEF f
  <2> QED BY <2>1, <2>3 DEF CallType
<1>4. e.at = "RETURNED" /\ e.result = result /\ e.sent = sent /\ e.contended = c.contended
  BY <1>2 DEF CallType
<1> QED BY <1>3, <1>4 DEF e

LEMMA AttemptingTyped ==
  ASSUME NEW c \in CallType, NEW ms \in Int
  PROVE  Attempting(c, ms) \in CallType /\ Attempting(c, ms).at = "SENDING"
<1>1. "SENDING" \in Places /\ "TRIED" \in Fates BY DEF Places, Fates
<1>2. ms * PerMs \in Int BY IdfConstants
<1> DEFINE left == ms * PerMs
<1>3. Attempting(c, ms) = [c EXCEPT !.at = "SENDING", !.left = left, !.sent = "TRIED"]
  BY DEF Attempting
<1> HIDE DEF left
<1> QED BY <1>1, <1>2, <1>3 DEF CallType, left

LEMMA NewCallTyped ==
  ASSUME NEW kind \in {"WRITE", "PROBE"}, NEW ms \in Nat
  PROVE  LET c == [NoCall EXCEPT !.kind = kind, !.timeout = ms]
         IN  c \in CallType /\ c.timeout = ms /\ NoCall \in CallType
<1>1. kind \in CallKinds /\ "NONE" \in CallKinds BY DEF CallKinds
<1>2. "OUT" \in Places /\ "NO" \in Fates /\ "NONE" \in Results BY DEF Places, Fates, Results
<1>3. NoCall \in CallType BY <1>1, <1>2 DEF NoCall, CallType
<1> QED BY <1>1, <1>3 DEF CallType

LEMMA BlockedTyped ==
  ASSUME NEW c \in CallType, phase \in Nat
  PROVE  Blocked(c) \in CallType /\ Blocked(c).at = "BLOCKED" /\ Blocked(c).contended
<1> DEFINE ticks == c.timeout \div TickMs
           left == IF ticks = 0 THEN 0 ELSE (ticks * TickMs * PerMs) - phase
<1>1. ticks \in Int
  <2>1. c.timeout \in Nat BY DEF CallType
  <2> QED BY <2>1, IdfConstants
<1> HIDE DEF ticks
<1>2. left \in Int BY <1>1, IdfConstants
<1>3. Blocked(c) = [c EXCEPT !.at = "BLOCKED", !.contended = TRUE, !.left = left]
  BY DEF Blocked, ticks
<1>4. "BLOCKED" \in Places BY DEF Places
<1> HIDE DEF left
<1> QED BY <1>2, <1>3, <1>4 DEF CallType

LEMMA IdfInit == Init => IdfInv
<1> SUFFICES ASSUME Init PROVE IdfInv OBVIOUS
<1>1. NoCall \in CallType BY NewCallTyped
<1>2. IdfTyped BY <1>1 DEF Init, IdfTyped
<1>3. \A t \in Tasks : call[t] = NoCall BY DEF Init
<1> QED
  BY <1>2, <1>3, IdfConstants DEF Init, NoCall, IdfInv, WaitersContend, MutexIsGivenBack,
        NothingIsLeaked, DefiniteResultsAreTrue

\* Setting up and tearing down leave nothing behind that has no handle.
LEMMA SetUpLeaksNothing ==
  ASSUME NothingIsLeaked, handles \subseteq Handles
  PROVE  Teardown = {} /\ \A step \in Handles : Undone(Teardown, step) = {}
<1> USE DEF NothingIsLeaked, Handles
<1>1. Teardown = {}
  <2> DEFINE a == Release(live, "DEV")
             b == Release(a, "BUS")
  <2>1. a = live \ {"DEV"} BY DEF Release, Freed
  <2>2. b = live \ {"DEV", "BUS"} BY <2>1 DEF Release, Freed
  <2>3. Release(b, "MUTEX") = live \ {"DEV", "BUS", "MUTEX"} BY <2>2 DEF Release, Freed
  <2>4. Teardown = Release(b, "MUTEX") BY DEF Teardown
  <2> QED BY <2>3, <2>4
<1>2. Undone({}, "MUTEX") = {} BY DEF Undone
<1>3. Undone({}, "BUS") = {} BY DEF Undone, Freed
<1>4. Undone({}, "DEV") = {}
  <2>1. Freed({} \cup {"MUTEX", "BUS"}, "BUS") = {"MUTEX"} BY DEF Freed
  <2>2. Freed({"MUTEX"}, "MUTEX") = {} BY DEF Freed
  <2> QED BY <2>1, <2>2 DEF Undone
<1> QED BY <1>1, <1>2, <1>3, <1>4

LEMMA IdfStep == IdfInv /\ [Next]_vars => IdfInv'
<1> SUFFICES ASSUME IdfInv, [Next]_vars PROVE IdfInv' OBVIOUS
<1> USE IdfConstants
<1>0. IdfTyped /\ WaitersContend /\ MutexIsGivenBack /\ NothingIsLeaked
      /\ DefiniteResultsAreTrue
  BY DEF IdfInv
<1>1. CASE InitIdfI2c \/ DeinitWire
  <2>1. live' = handles' /\ handles' \subseteq Handles /\ phase' = phase /\ holder' = holder
        /\ call' = call
    BY <1>0, <1>1, SetUpLeaksNothing DEF InitIdfI2c, DeinitWire, IdfTyped
  <2> QED BY <1>0, <2>1 DEF IdfInv, IdfTyped, WaitersContend, MutexIsGivenBack,
        NothingIsLeaked, DefiniteResultsAreTrue
\* A step of one task t, after which its call is c.
<1>2. ASSUME NEW t \in Tasks, NEW c \in CallType, call' = [call EXCEPT ![t] = c], Resources,
             holder' = (IF c.at = "SENDING" THEN t
                        ELSE IF call[t].at = "SENDING" THEN Nobody ELSE holder),
             c.at = "SENDING" => holder \in {t, Nobody},
             c.at = "BLOCKED" => c.contended,
             c.at = "RETURNED" =>
               /\ c.result = "OK" => c.sent = "WHOLE"
               /\ c.result = "NACK" => c.sent = "NONE"
               /\ c.result = "TIMEOUT" /\ ~c.contended => c.sent # "NO"
      PROVE  IdfInv'
  <2>1. /\ \A u \in Tasks : call'[u] = IF u = t THEN c ELSE call[u]
        /\ handles' = handles /\ live' = live /\ phase' = phase
    BY <1>0, <1>2 DEF IdfTyped, Resources
  <2>2. IdfTyped' BY <1>0, <1>2, <2>1 DEF IdfTyped
  <2>3. WaitersContend' BY <1>0, <1>2, <2>1 DEF WaitersContend
  <2>4. MutexIsGivenBack' BY <1>0, <1>2, <2>1 DEF MutexIsGivenBack
  <2>5. NothingIsLeaked' BY <1>0, <2>1 DEF NothingIsLeaked
  <2>6. DefiniteResultsAreTrue' BY <1>0, <1>2, <2>1 DEF DefiniteResultsAreTrue
  <2> QED BY <2>2, <2>3, <2>4, <2>5, <2>6 DEF IdfInv
<1>3. ASSUME NEW t \in Tasks, NEW kind \in {"WRITE", "PROBE"}, NEW ms \in Timeouts,
             NEW known \in BOOLEAN, Enter(t, kind, ms, known)
      PROVE  IdfInv'
  <2> DEFINE c == [NoCall EXCEPT !.kind = kind, !.timeout = ms]
  <2>1. call[t].at = "OUT" /\ Resources BY <1>3 DEF Enter
  <2>2. c \in CallType /\ ms \in Nat BY NewCallTyped
  <2>3. CASE handles = {} \/ ~known
    <3>1. call' = [call EXCEPT ![t] = Ended(c, "BUS_ERROR", "NO")] /\ holder' = holder
      BY <1>3, <2>3 DEF Enter
    <3>2. "BUS_ERROR" \in Results /\ "NO" \in Fates BY DEF Results, Fates
    <3> DEFINE e == Ended(c, "BUS_ERROR", "NO")
    <3> HIDE DEF c
    <3>3. e \in CallType /\ e.at = "RETURNED" /\ e.result = "BUS_ERROR"
      BY <2>2, <3>2, EndedTyped
    <3>4. call' = [call EXCEPT ![t] = e] BY <3>1
    <3> HIDE DEF e
    <3> QED BY <1>2, <2>1, <3>1, <3>3, <3>4
  <2>4. CASE ~(handles = {} \/ ~known) /\ holder = Nobody
    <3>1. call' = [call EXCEPT ![t] = Attempting(c, ms)] /\ holder' = t
      BY <1>3, <2>4 DEF Enter
    <3> HIDE DEF c
    <3>2. Attempting(c, ms) \in CallType /\ Attempting(c, ms).at = "SENDING"
      BY <2>2, AttemptingTyped
    <3> QED BY <1>2, <2>1, <2>4, <3>1, <3>2
  <2>5. CASE ~(handles = {} \/ ~known) /\ holder # Nobody
    <3>1. call' = [call EXCEPT ![t] = Blocked(c)] /\ holder' = holder
      BY <1>3, <2>5 DEF Enter
    <3> HIDE DEF c
    <3>2. Blocked(c) \in CallType /\ Blocked(c).at = "BLOCKED" /\ Blocked(c).contended
      BY <1>0, <2>2, BlockedTyped DEF IdfTyped
    <3> QED BY <1>2, <2>1, <3>1, <3>2
  <2> QED BY <2>3, <2>4, <2>5
\* A task that gives up behind another one.
<1>t. ASSUME NEW t \in Tasks, call[t].at = "BLOCKED", Resources, holder' = holder,
             call' = [call EXCEPT ![t] = Ended(call[t], "TIMEOUT", "NO")]
      PROVE  IdfInv'
  <2>1. call[t] \in CallType /\ call[t].contended
    BY <1>0, <1>t DEF IdfTyped, WaitersContend
  <2>2. "TIMEOUT" \in Results /\ "NO" \in Fates BY DEF Results, Fates
  <2> DEFINE e == Ended(call[t], "TIMEOUT", "NO")
  <2>3. e \in CallType /\ e.at = "RETURNED" /\ e.result = "TIMEOUT" /\ e.contended
    BY <2>1, <2>2, EndedTyped
  <2>4. call' = [call EXCEPT ![t] = e] BY <1>t
  <2> HIDE DEF e
  <2> QED BY <1>2, <1>t, <2>3, <2>4
<1>4. ASSUME NEW t \in Tasks, WaitExpires(t) PROVE IdfInv'
  BY <1>4, <1>t DEF WaitExpires
<1>5. ASSUME NEW t \in Tasks, Granted(t) PROVE IdfInv'
  <2> DEFINE c == call[t]
  <2>1. c \in CallType /\ c.at = "BLOCKED" /\ holder = Nobody /\ Resources
    BY <1>0, <1>5 DEF Granted, IdfTyped
  <2>2. CASE c.kind = "WRITE" /\ ElapsedMs(c) >= c.timeout
    BY <1>5, <1>t, <2>1, <2>2 DEF Granted
  <2>3. CASE ~(c.kind = "WRITE" /\ ElapsedMs(c) >= c.timeout)
    <3>1. call' = [call EXCEPT ![t] = Attempting(c, Budget(c))] /\ holder' = t
      BY <1>5, <2>3 DEF Granted
    <3>2. Budget(c) \in Int
      <4>1. c.timeout \in Nat /\ c.elapsed \in Nat BY <2>1 DEF CallType
      <4>2. ElapsedMs(c) \in Int BY <4>1 DEF ElapsedMs
      <4> QED BY <4>1, <4>2 DEF Budget
    <3>3. Attempting(c, Budget(c)) \in CallType /\ Attempting(c, Budget(c)).at = "SENDING"
      BY <2>1, <3>2, AttemptingTyped
    <3> QED BY <1>2, <2>1, <3>1, <3>3
  <2> QED BY <2>2, <2>3
<1>6. ASSUME NEW t \in Tasks, TransmitReturns(t) PROVE IdfInv'
  <2>1. call[t] \in CallType /\ call[t].at = "SENDING" /\ holder' = Nobody /\ Resources
    BY <1>0, <1>6 DEF TransmitReturns, IdfTyped
  <2>2. PICK err \in {"OK", "TIMEOUT", "INVALID_RESPONSE", "INVALID_STATE"} :
          \E sent \in Reached(err) :
            call' = [call EXCEPT ![t] = Ended(@, MapEspError(err), sent)]
    BY <1>6 DEF TransmitReturns
  <2>3. PICK sent \in Reached(err) :
          call' = [call EXCEPT ![t] = Ended(@, MapEspError(err), sent)]
    BY <2>2
  <2>4. sent \in {"NONE", "PART", "WHOLE"} /\ (err = "OK" => sent = "WHOLE")
    BY <2>2 DEF Reached
  <2>5. sent \in Fates /\ sent # "NO" BY <2>4 DEF Fates
  <2>6. MapEspError(err) \in Results /\ MapEspError(err) # "NACK"
        /\ (MapEspError(err) = "OK" => err = "OK")
    BY <2>2 DEF MapEspError, Results
  <2> DEFINE c == Ended(call[t], MapEspError(err), sent)
  <2>7. c \in CallType /\ c.at = "RETURNED" /\ c.result = MapEspError(err) /\ c.sent = sent
    BY <2>1, <2>5, <2>6, EndedTyped
  <2>8. call' = [call EXCEPT ![t] = c] BY <2>3
  <2> HIDE DEF c
  <2> QED BY <1>2, <2>1, <2>4, <2>5, <2>6, <2>7, <2>8
<1>7. ASSUME NEW t \in Tasks, Return(t) PROVE IdfInv'
  <2>1. NoCall \in CallType /\ NoCall.at = "OUT" BY NewCallTyped DEF NoCall
  <2> QED BY <1>2, <1>7, <2>1 DEF Return
<1>8. CASE Tick
  <2>1. handles' = handles /\ live' = live /\ holder' = holder BY <1>8 DEF Tick
  <2>2. phase' \in Nat
    <3> DEFINE width == TickMs * PerMs
    <3>1. width \in Nat /\ width > 0 OBVIOUS
    <3>2. phase' = (phase + 1) % width /\ phase \in Nat BY <1>0, <1>8 DEF Tick, IdfTyped
    <3> HIDE DEF width
    <3> QED BY <3>1, <3>2
  <2>3. \A t \in Tasks : /\ call'[t] \in CallType /\ call'[t].at = call[t].at
                         /\ call'[t].contended = call[t].contended
                         /\ call'[t].result = call[t].result /\ call'[t].sent = call[t].sent
    <3> SUFFICES ASSUME NEW t \in Tasks
                 PROVE  /\ call'[t] \in CallType /\ call'[t].at = call[t].at
                        /\ call'[t].contended = call[t].contended
                        /\ call'[t].result = call[t].result /\ call'[t].sent = call[t].sent
      OBVIOUS
    <3>1. call[t] \in CallType BY <1>0 DEF IdfTyped
    <3>2. call'[t] = IF call[t].at = "OUT" THEN call[t]
                     ELSE [call[t] EXCEPT !.elapsed = @ + 1, !.left = @ - 1]
      BY <1>8 DEF Tick
    <3>3. CASE call[t].at = "OUT" BY <3>1, <3>2, <3>3
    <3>4. CASE call[t].at # "OUT"
      <4> DEFINE c == call[t]
      <4>1. call'[t] = [c EXCEPT !.elapsed = @ + 1, !.left = @ - 1] BY <3>2, <3>4
      <4>2. c \in CallType BY <3>1
      <4> HIDE DEF c
      <4>3. call'[t] \in CallType
        <5> DEFINE d == [c EXCEPT !.elapsed = @ + 1]
        <5>1. d \in CallType BY <4>2 DEF CallType
        <5>2. call'[t] = [d EXCEPT !.left = @ - 1] BY <4>1, <4>2 DEF CallType
        <5> HIDE DEF d
        <5> QED BY <5>1, <5>2 DEF CallType
      <4>4. /\ call'[t].at = c.at /\ call'[t].contended = c.contended
            /\ call'[t].result = c.result /\ call'[t].sent = c.sent
        BY <4>1, <4>2 DEF CallType
      <4> QED BY <4>3, <4>4 DEF c
    <3> QED BY <3>3, <3>4
  <2>4. call' \in [Tasks -> CallType]
    <3>1. call' = [t \in Tasks |-> IF call[t].at = "OUT" THEN call[t]
                     ELSE [call[t] EXCEPT !.elapsed = @ + 1, !.left = @ - 1]]
      BY <1>8 DEF Tick
    <3>2. call' = [t \in Tasks |-> call'[t]] BY <3>1
    <3> QED BY <2>3, <3>2
  <2> QED
    BY <1>0, <2>1, <2>2, <2>3, <2>4 DEF IdfInv, IdfTyped, WaitersContend, MutexIsGivenBack,
        NothingIsLeaked, DefiniteResultsAreTrue
<1>9. CASE UNCHANGED vars
  BY <1>0, <1>9 DEF vars, IdfInv, IdfTyped, WaitersContend, MutexIsGivenBack,
        NothingIsLeaked, DefiniteResultsAreTrue
<1> QED BY <1>1, <1>3, <1>4, <1>5, <1>6, <1>7, <1>8, <1>9 DEF Next, Progress

-----------------------------------------------------------------------------
\* Wire

WriteType ==
  [at : {"OUT", "FULL", "SHORT", "DONE"},
   result : {"NONE", "OK", "NACK_ADDRESS", "NACK_DATA", "TIMEOUT", "BUS_ERROR"},
   reached : {"NO", "NONE", "PART", "WHOLE"}]

Statements ==
  {"START", "RELEASE", "PULSE", "UP", "PREPARE", "STOP", "CHECK", "READY", "NO_WIRE", "FAILED"}
Targets == {Wire!Idle} \cup Wire!Reading \cup Wire!Written

WireTyped ==
  /\ at \in Statements /\ clocks \in 0..Wire!Pulses /\ elapsed \in Nat
  /\ {scl, sda, stretch} \subseteq BOOLEAN
  /\ target \in Targets /\ found \in Targets
  /\ lock \in Users \cup {"NOBODY"} /\ write \in [Users -> WriteType]

\* Which lines the recovery holds, and how many pulses it has given, where it is.
LinesOfStatement ==
  /\ scl => at = "UP"
  /\ sda => at \in {"UP", "RELEASE", "STOP"} /\ clocks = Wire!Pulses
  /\ at = "PULSE" => clocks < Wire!Pulses
  /\ at = "PREPARE" => clocks = Wire!Pulses
  /\ at = "STOP" => sda
  /\ at \in {"STOP", "CHECK", "READY", "NO_WIRE"} => ~stretch

\* The falling clocks that the target has seen: the pulses and the STOP condition's.
Falls == clocks + (IF sda THEN 1 ELSE 0)

\* Where the target is in the transfer that it was found in.
TargetFollows ==
  at \in {"START", "RELEASE", "PULSE", "UP", "PREPARE", "STOP"} =>
    \/ found = Wire!Idle /\ target = Wire!Idle
    \/ /\ found \in Wire!Reading
       /\ IF Falls >= found.count THEN target = Wire!Idle
          ELSE target \in Wire!Reading /\ target.count = found.count - Falls
    \/ /\ found \in Wire!Written /\ target \in Wire!Written
       /\ \E turns \in {0, 1, 2} : target.count = found.count + Falls - 9 * turns

\* After the STOP condition a target is idle, unless it held the data line.
TargetIsFree ==
  at \in {"CHECK", "READY"} =>
    \/ target = Wire!Idle
    \/ at = "CHECK" /\ Wire!HoldsSda(target) /\ ~Wire!HoldsSda(found)

RecoveryInv ==
  /\ LinesOfStatement /\ TargetFollows /\ TargetIsFree
  /\ Wire!LinesAreReleased /\ Wire!StuckTargetLetsGo

WriteInv == Wire!LockIsGivenBack /\ Wire!DefiniteResultsAreTrue

WireInv == WireTyped /\ RecoveryInv /\ WriteInv

LEMMA TargetFields ==
  /\ Wire!Idle = [mode |-> "IDLE", count |-> 0, bit |-> 1] /\ ~Wire!HoldsSda(Wire!Idle)
  /\ \A s \in Wire!Reading : s.mode = "READ" /\ s.count \in 1..8 /\ s.bit \in {0, 1}
  /\ \A s \in Wire!Written : s.mode = "WRITE" /\ s.count \in 0..8 /\ s.bit = 1
BY DEF Wire!Idle, Wire!Reading, Wire!Written, Wire!HoldsSda

LEMMA WireInit == Wire!WireAssumption /\ Wire!Init => WireInv
<1> SUFFICES ASSUME Wire!WireAssumption, Wire!Init PROVE WireInv OBVIOUS
<1>1. Wire!NoWrite \in WriteType /\ Wire!NoWrite.at = "OUT" BY DEF Wire!NoWrite, WriteType
<1>2. \A u \in Users : write[u] = Wire!NoWrite BY DEF Wire!Init
<1>3. WireTyped
  <2>1. at \in Statements /\ clocks \in 0..Wire!Pulses /\ elapsed \in Nat
        /\ {scl, sda, stretch} \subseteq BOOLEAN
    <3>1. at = "START" /\ clocks = 0 /\ elapsed = 0 /\ scl = FALSE /\ sda = FALSE
          /\ stretch \in BOOLEAN
      BY DEF Wire!Init
    <3>2. at \in Statements BY <3>1 DEF Statements
    <3>3. clocks \in 0..Wire!Pulses BY <3>1 DEF Wire!Pulses
    <3> QED BY <3>1, <3>2, <3>3
  <2>2. target \in Targets /\ found \in Targets BY DEF Wire!Init, Targets
  <2>3. lock \in Users \cup {"NOBODY"} /\ write \in [Users -> WriteType]
    BY <1>1 DEF Wire!Init
  <2> QED BY <2>1, <2>2, <2>3 DEF WireTyped
<1>4. LinesOfStatement /\ TargetIsFree /\ Wire!LinesAreReleased /\ Wire!StuckTargetLetsGo
  BY DEF Wire!Init, LinesOfStatement, TargetIsFree, Wire!LinesAreReleased,
     Wire!StuckTargetLetsGo
<1>5. TargetFollows
  <2>1. Falls = 0 BY DEF Wire!Init, Falls
  <2>2. target = found BY DEF Wire!Init
  <2>3. CASE found = Wire!Idle BY <2>2, <2>3 DEF TargetFollows
  <2>4. CASE found \in Wire!Reading
    <3>1. found.count \in 1..8 BY <2>4, TargetFields
    <3> QED BY <2>1, <2>2, <2>4, <3>1 DEF TargetFollows
  <2>5. CASE found \in Wire!Written
    <3>1. found.count \in 0..8 BY <2>5, TargetFields
    <3>2. target.count = found.count + Falls - 9 * 0 BY <2>1, <2>2, <3>1
    <3> QED BY <2>2, <2>5, <3>2 DEF TargetFollows
  <2> QED BY <1>3, <2>3, <2>4, <2>5 DEF WireTyped, Targets
<1>6. Wire!LockIsGivenBack /\ Wire!DefiniteResultsAreTrue
  BY <1>1, <1>2
  DEF Wire!Init, Wire!WireAssumption, Wire!LockIsGivenBack, Wire!DefiniteResultsAreTrue
<1> QED BY <1>3, <1>4, <1>5, <1>6 DEF WireInv, RecoveryInv, WriteInv

\* A falling clock takes the target on by one.
LEMMA ClockedFollows ==
  ASSUME WireTyped, TargetFollows, at \in {"PULSE", "PREPARE"},
         target' \in Wire!Clocked(target),
         found' = found, Falls' = Falls + 1, at' = "UP"
  PROVE  TargetFollows' /\ target' \in Targets
<1>0. Falls \in 0..10 /\ found \in Targets /\ target \in Targets
  BY DEF WireTyped, Falls, Wire!Pulses
<1>1. CASE target = Wire!Idle
  <2>1. target' = Wire!Idle BY <1>1, TargetFields DEF Wire!Clocked
  <2>2. found = Wire!Idle \/ (found \in Wire!Reading /\ Falls >= found.count)
    BY <1>0, <1>1, TargetFields DEF TargetFollows
  <2>3. found \in Wire!Reading => found.count \in 1..8 BY TargetFields
  <2> QED BY <1>0, <2>1, <2>2, <2>3 DEF TargetFollows, Targets
<1>2. CASE target \in Wire!Reading
  <2>1. target.mode = "READ" /\ target.count \in 1..8 BY <1>2, TargetFields
  <2>2. found \in Wire!Reading /\ target.count = found.count - Falls
        /\ ~(Falls >= found.count)
    BY <1>0, <1>2, TargetFields DEF TargetFollows
  <2>3. found.count \in 1..8 BY <2>2, TargetFields
  <2>4. CASE target.count = 1
    <3>1. target' = Wire!Idle BY <2>1, <2>4 DEF Wire!Clocked
    <3> QED BY <1>0, <2>2, <2>3, <2>4, <3>1 DEF TargetFollows, Targets
  <2>5. CASE target.count > 1
    <3>1. PICK b \in {0, 1} : target' = [target EXCEPT !.count = @ - 1, !.bit = b]
      BY <2>1, <2>5 DEF Wire!Clocked
    <3>2. target' \in Wire!Reading /\ target'.count = target.count - 1
      <4>1. target.count - 1 \in 1..8 BY <2>1, <2>5
      <4>2. target'.count = target.count - 1 BY <1>2, <3>1 DEF Wire!Reading
      <4>3. target' \in Wire!Reading
        <5> DEFINE n == target.count - 1
        <5>1. target' = [target EXCEPT !.count = n, !.bit = b] /\ n \in 1..8 BY <3>1, <4>1
        <5> HIDE DEF n
        <5> QED BY <1>2, <5>1 DEF Wire!Reading
      <4> QED BY <4>2, <4>3
    <3> QED BY <1>0, <2>2, <2>3, <2>5, <3>2 DEF TargetFollows, Targets
  <2> QED BY <2>1, <2>4, <2>5
<1>3. CASE target \in Wire!Written
  <2>1. target.mode = "WRITE" /\ target.count \in 0..8 BY <1>3, TargetFields
  <2>2. found \in Wire!Written BY <1>0, <1>3, TargetFields DEF TargetFollows
  <2>3. found.count \in 0..8 BY <2>2, TargetFields
  <2>4. PICK turns \in {0, 1, 2} : target.count = found.count + Falls - 9 * turns
    BY <1>0, <1>3, <2>2, TargetFields DEF TargetFollows
  <2>5. target' = [target EXCEPT !.count = (@ + 1) % 9] BY <2>1 DEF Wire!Clocked
  <2>6. target' \in Wire!Written /\ target'.count = (target.count + 1) % 9
    BY <1>3, <2>1, <2>5 DEF Wire!Written
  <2>7. target'.count = IF target.count = 8 THEN 0 ELSE target.count + 1 BY <2>1, <2>6
  <2>8. \E n \in {0, 1, 2} : target'.count = found.count + (Falls + 1) - 9 * n
    BY <1>0, <2>1, <2>3, <2>4, <2>7
  <2> QED BY <2>2, <2>6, <2>8 DEF TargetFollows, Targets
<1> QED BY <1>0, <1>1, <1>2, <1>3 DEF Targets

LEMMA RecoveryStep ==
  ASSUME WireTyped, RecoveryInv, Wire!Recover \/ Wire!Unstretch
  PROVE  WireTyped' /\ RecoveryInv'
<1> USE DEF Wire!Pulses
<1>0. /\ at \in Statements /\ clocks \in 0..9 /\ elapsed \in Nat
      /\ scl \in BOOLEAN /\ sda \in BOOLEAN /\ stretch \in BOOLEAN
      /\ target \in Targets /\ found \in Targets
      /\ LinesOfStatement /\ TargetFollows /\ TargetIsFree
      /\ Wire!LinesAreReleased /\ Wire!StuckTargetLetsGo
  BY DEF WireTyped, RecoveryInv
<1>1. found' = found /\ lock' = lock /\ write' = write
  BY DEF Wire!Recover, Wire!Unstretch, Wire!Unused, Wire!Begin, Wire!ReleaseClock,
     Wire!ClockIsUp,
         Wire!Pulse, Wire!PrepareStop, Wire!LetGo, Wire!Stop, Wire!Check
\* The parts that do not depend on the action.
<1>2. ASSUME at' \in Statements, clocks' \in 0..9, elapsed' \in Nat, scl' \in BOOLEAN,
             sda' \in BOOLEAN, stretch' \in BOOLEAN, target' \in Targets
      PROVE  WireTyped'
  BY <1>1, <1>2 DEF WireTyped
<1>3. ASSUME target' = target, Falls' = Falls,
             at \in {"START", "RELEASE", "PULSE", "UP", "PREPARE", "STOP"} \/ at' = at
      PROVE  TargetFollows'
  BY <1>0, <1>1, <1>3 DEF TargetFollows
<1>4. ASSUME at' \notin {"CHECK", "READY", "NO_WIRE", "FAILED"}
      PROVE  TargetIsFree' /\ Wire!LinesAreReleased' /\ Wire!StuckTargetLetsGo'
  BY <1>4 DEF TargetIsFree, Wire!LinesAreReleased, Wire!StuckTargetLetsGo
<1>5. CASE Wire!Begin
  <2>1. /\ at = "START" /\ at' = "RELEASE" /\ scl' = FALSE /\ sda' = FALSE
        /\ clocks' = clocks /\ elapsed' = elapsed /\ target' = target /\ stretch' = stretch
    BY <1>5 DEF Wire!Begin
  <2>2. ~sda BY <1>0, <2>1 DEF LinesOfStatement
  <2>3. WireTyped' BY <1>0, <1>2, <2>1 DEF Statements
  <2>4. LinesOfStatement' BY <1>0, <2>1 DEF LinesOfStatement
  <2>5. TargetFollows' BY <1>0, <1>3, <2>1, <2>2 DEF Falls
  <2> QED BY <1>4, <2>1, <2>3, <2>4, <2>5 DEF RecoveryInv
\* The deadline, found over in one of two places.
<1>6. ASSUME at = "RELEASE", at' = "FAILED", sda' = FALSE, elapsed >= Timeout,
             UNCHANGED <<clocks, elapsed, scl, target, stretch>>
      PROVE  WireTyped' /\ RecoveryInv'
  <2>1. ~scl BY <1>0, <1>6 DEF LinesOfStatement
  <2>2. WireTyped' BY <1>0, <1>2, <1>6 DEF Statements
  <2>3. LinesOfStatement' BY <1>6, <2>1 DEF LinesOfStatement
  <2>4. TargetFollows' /\ TargetIsFree' BY <1>6 DEF TargetFollows, TargetIsFree
  <2>5. Wire!LinesAreReleased' /\ Wire!StuckTargetLetsGo'
    BY <1>6, <2>1 DEF Wire!LinesAreReleased, Wire!StuckTargetLetsGo
  <2> QED BY <2>2, <2>3, <2>4, <2>5 DEF RecoveryInv
<1>7. CASE Wire!ReleaseClock
  <2>1. CASE elapsed >= Timeout
    BY <1>6, <1>7, <2>1 DEF Wire!ReleaseClock
  <2>2. CASE ~(elapsed >= Timeout)
    <3>1. /\ at = "RELEASE" /\ at' = at /\ elapsed' = elapsed + 1 /\ sda' = sda
             /\ clocks' = clocks
          /\ scl' = scl /\ target' = target /\ stretch' = stretch
      BY <1>7, <2>2 DEF Wire!ReleaseClock
    <3>2. WireTyped' BY <1>0, <1>2, <3>1
    <3>3. LinesOfStatement' BY <1>0, <3>1 DEF LinesOfStatement
    <3>4. TargetFollows' BY <1>3, <3>1 DEF Falls
    <3> QED BY <1>4, <3>1, <3>2, <3>3, <3>4 DEF RecoveryInv
  <2> QED BY <2>1, <2>2
<1>8. CASE Wire!ClockIsUp
  <2>1. CASE elapsed >= Timeout
    BY <1>6, <1>8, <2>1 DEF Wire!ClockIsUp
  <2>2. CASE ~(elapsed >= Timeout)
    <3>1. /\ at = "RELEASE" /\ ~scl /\ ~stretch
          /\ at' = (IF sda THEN "STOP" ELSE IF clocks < 9 THEN "PULSE" ELSE "PREPARE")
          /\ elapsed' = elapsed /\ sda' = sda /\ clocks' = clocks
          /\ scl' = scl /\ target' = target /\ stretch' = stretch
      BY <1>8, <2>2 DEF Wire!ClockIsUp, Wire!SclIsLow
    <3>2. WireTyped' BY <1>0, <1>2, <3>1 DEF Statements
    <3>3. LinesOfStatement' BY <1>0, <3>1 DEF LinesOfStatement
    <3>4. TargetFollows' BY <1>3, <3>1 DEF Falls
    <3> QED BY <1>4, <3>1, <3>2, <3>3, <3>4 DEF RecoveryInv
  <2> QED BY <2>1, <2>2
<1>9. CASE Wire!Pulse
  <2>1. /\ at = "PULSE" /\ at' = "UP" /\ clocks' = clocks + 1 /\ elapsed' = elapsed
           /\ sda' = sda
        /\ scl' = TRUE /\ target' \in Wire!Clocked(target) /\ stretch' \in BOOLEAN
    BY <1>9 DEF Wire!Pulse, Wire!ClockFalls
  <2>2. clocks < 9 /\ ~sda BY <1>0, <2>1 DEF LinesOfStatement
  <2>3. Falls' = Falls + 1 BY <1>0, <2>1, <2>2 DEF Falls
  <2>4. TargetFollows' /\ target' \in Targets BY <1>0, <1>1, <2>1, <2>3, ClockedFollows
  <2>5. WireTyped' BY <1>0, <1>2, <2>1, <2>2, <2>4 DEF Statements
  <2>6. LinesOfStatement' BY <2>1, <2>2 DEF LinesOfStatement
  <2> QED BY <1>4, <2>1, <2>4, <2>5, <2>6 DEF RecoveryInv
<1>10. CASE Wire!PrepareStop
  <2>1. /\ at = "PREPARE" /\ at' = "UP" /\ clocks' = clocks /\ elapsed' = elapsed
           /\ sda' = TRUE
        /\ scl' = TRUE /\ target' \in Wire!Clocked(target) /\ stretch' \in BOOLEAN
    BY <1>10 DEF Wire!PrepareStop, Wire!ClockFalls
  <2>2. clocks = 9 /\ ~sda BY <1>0, <2>1 DEF LinesOfStatement
  <2>3. Falls' = Falls + 1 BY <1>0, <2>1, <2>2 DEF Falls
  <2>4. TargetFollows' /\ target' \in Targets BY <1>0, <1>1, <2>1, <2>3, ClockedFollows
  <2>5. WireTyped' BY <1>0, <1>2, <2>1, <2>2, <2>4 DEF Statements
  <2>6. LinesOfStatement' BY <2>1, <2>2 DEF LinesOfStatement
  <2> QED BY <1>4, <2>1, <2>4, <2>5, <2>6 DEF RecoveryInv
<1>11. CASE Wire!LetGo
  <2>1. /\ at = "UP" /\ at' = "RELEASE" /\ scl' = FALSE /\ clocks' = clocks
           /\ elapsed' = elapsed
        /\ sda' = sda /\ target' = target /\ stretch' = stretch
    BY <1>11 DEF Wire!LetGo
  <2>2. WireTyped' BY <1>0, <1>2, <2>1 DEF Statements
  <2>3. LinesOfStatement' BY <1>0, <2>1 DEF LinesOfStatement
  <2>4. TargetFollows' BY <1>3, <2>1 DEF Falls
  <2> QED BY <1>4, <2>1, <2>2, <2>3, <2>4 DEF RecoveryInv
<1>12. CASE Wire!Stop
  <2>1. /\ at = "STOP" /\ at' = "CHECK" /\ sda' = FALSE /\ clocks' = clocks
           /\ elapsed' = elapsed
        /\ scl' = scl /\ stretch' = stretch
        /\ target' = IF sda /\ ~Wire!SclIsLow /\ ~Wire!HoldsSda(target)
                     THEN Wire!Idle ELSE target
    BY <1>12 DEF Wire!Stop
  <2>2. sda /\ ~scl /\ ~stretch /\ clocks = 9 BY <1>0, <2>1 DEF LinesOfStatement
  <2>3. target' = IF Wire!HoldsSda(target) THEN target ELSE Wire!Idle
    BY <2>1, <2>2 DEF Wire!SclIsLow
  <2>4. target' \in Targets BY <1>0, <2>3 DEF Targets
  <2>5. WireTyped' BY <1>0, <1>2, <2>1, <2>4 DEF Statements
  <2>6. LinesOfStatement' BY <2>1, <2>2 DEF LinesOfStatement
  <2>7. TargetFollows' BY <2>1 DEF TargetFollows
  <2>8. ASSUME Wire!HoldsSda(target) PROVE ~Wire!HoldsSda(found)
    <3>1. Falls = 10 BY <2>2 DEF Falls
    <3>2. target # Wire!Idle BY <2>8, TargetFields
    <3>3. CASE found \in Wire!Reading
      <4>1. found.count \in 1..8 /\ found.mode = "READ" BY <3>3, TargetFields
      <4>2. found # Wire!Idle /\ found \notin Wire!Written BY <4>1, TargetFields
      <4> QED BY <1>0, <2>1, <3>1, <3>2, <3>3, <4>1, <4>2 DEF TargetFollows
    <3>4. CASE found \in Wire!Written
      <4>1. found.mode = "WRITE" /\ found.count \in 0..8 /\ found.bit = 1
        BY <3>4, TargetFields
      <4>2. found # Wire!Idle /\ found \notin Wire!Reading BY <4>1, TargetFields
      <4>3. target \in Wire!Written
            /\ \E turns \in {0, 1, 2} : target.count = found.count + 10 - 9 * turns
        BY <1>0, <2>1, <3>1, <4>2 DEF TargetFollows
      <4>4. target.bit = 1 BY <4>3, TargetFields
      <4>5. target.count = 8 BY <2>8, <4>4 DEF Wire!HoldsSda
      <4>6. found.count # 8 BY <4>1, <4>3, <4>5
      <4> QED BY <4>1, <4>6 DEF Wire!HoldsSda
    <3> QED BY <1>0, <3>3, <3>4, TargetFields DEF Targets
  <2>9. TargetIsFree'
    <3>1. CASE Wire!HoldsSda(target)
      <4>1. target' = target /\ ~Wire!HoldsSda(found) BY <2>3, <2>8, <3>1
      <4>2. Wire!HoldsSda(target)' /\ ~Wire!HoldsSda(found)' BY <1>1, <3>1, <4>1
      <4> QED BY <2>1, <4>2 DEF TargetIsFree
    <3>2. CASE ~Wire!HoldsSda(target)
      BY <2>3, <3>2 DEF TargetIsFree, Wire!Idle
    <3> QED BY <3>1, <3>2
  <2>10. Wire!LinesAreReleased' /\ Wire!StuckTargetLetsGo'
    BY <2>1 DEF Wire!LinesAreReleased, Wire!StuckTargetLetsGo
  <2> QED BY <2>5, <2>6, <2>7, <2>9, <2>10 DEF RecoveryInv
<1>13. CASE Wire!Check
  <2>1. /\ at = "CHECK" /\ UNCHANGED <<clocks, elapsed, scl, sda, target, stretch>>
        /\ at' \in IF Wire!SdaIsLow \/ Wire!SclIsLow
                   THEN {"FAILED"} ELSE {"READY", "NO_WIRE"}
    BY <1>13 DEF Wire!Check
  <2>2. ~sda /\ ~scl /\ ~stretch BY <1>0, <2>1 DEF LinesOfStatement
  <2>3. at' \in IF Wire!HoldsSda(target) THEN {"FAILED"} ELSE {"READY", "NO_WIRE"}
    BY <2>1, <2>2 DEF Wire!SdaIsLow, Wire!SclIsLow
  <2>4. WireTyped' BY <1>0, <1>2, <2>1, <2>3 DEF Statements
  <2>5. LinesOfStatement' BY <2>1, <2>2, <2>3 DEF LinesOfStatement
  <2>6. TargetFollows' /\ Wire!LinesAreReleased'
    BY <2>1, <2>2, <2>3 DEF TargetFollows, Wire!LinesAreReleased
  <2>7. CASE Wire!HoldsSda(target)
    <3>1. ~Wire!HoldsSda(found) BY <1>0, <2>1, <2>7, TargetFields DEF TargetIsFree
    <3>2. ~Wire!HoldsSda(found)' BY <1>1, <3>1
    <3>3. TargetIsFree' /\ Wire!StuckTargetLetsGo'
      BY <2>3, <2>7, <3>2 DEF TargetIsFree, Wire!StuckTargetLetsGo
    <3> QED BY <2>4, <2>5, <2>6, <3>3 DEF RecoveryInv
  <2>8. CASE ~Wire!HoldsSda(target)
    <3>1. target' = Wire!Idle BY <1>0, <2>1, <2>8 DEF TargetIsFree
    <3>2. Wire!Idle' = Wire!Idle BY DEF Wire!Idle
    <3>3. TargetIsFree' /\ Wire!StuckTargetLetsGo'
      BY <2>3, <2>8, <3>1, <3>2 DEF TargetIsFree, Wire!StuckTargetLetsGo
    <3> QED BY <2>4, <2>5, <2>6, <3>3 DEF RecoveryInv
  <2> QED BY <2>7, <2>8
<1>14. CASE Wire!Unstretch
  <2>1. /\ stretch' = FALSE /\ UNCHANGED <<at, clocks, elapsed, scl, sda, target>>
        /\ at \notin {"READY", "NO_WIRE", "FAILED"}
    BY <1>14 DEF Wire!Unstretch
  <2>2. WireTyped' BY <1>0, <1>2, <2>1
  <2>3. LinesOfStatement' BY <1>0, <2>1 DEF LinesOfStatement
  <2>4. TargetFollows' BY <1>3, <2>1 DEF Falls
  <2>5. TargetIsFree' /\ Wire!LinesAreReleased' /\ Wire!StuckTargetLetsGo'
    BY <1>0, <1>1, <2>1
    DEF TargetIsFree, Wire!LinesAreReleased, Wire!StuckTargetLetsGo, Wire!HoldsSda,
        Wire!Idle
  <2> QED BY <2>2, <2>3, <2>4, <2>5 DEF RecoveryInv
<1> QED BY <1>5, <1>7, <1>8, <1>9, <1>10, <1>11, <1>12, <1>13, <1>14 DEF Wire!Recover

\* A write of user u goes from one stage to the next, and the lock with it.
LEMMA WriteChanges ==
  ASSUME WireTyped, WriteInv, NEW u \in Users, NEW w \in WriteType,
         write' = [write EXCEPT ![u] = w], lock' \in Users \cup {"NOBODY"},
         UNCHANGED Wire!wires,
         \A v \in Users :
           (lock' = v) <=> (IF v = u THEN w.at \in {"FULL", "SHORT"} ELSE lock = v),
         w.at = "DONE" => /\ w.result = "OK" => w.reached = "WHOLE"
                          /\ w.result = "NACK_ADDRESS" => w.reached = "NONE"
  PROVE  WireTyped' /\ WriteInv'
<1>1. \A v \in Users : write'[v] = IF v = u THEN w ELSE write[v] BY DEF WireTyped
<1>2. write' \in [Users -> WriteType] BY DEF WireTyped
<1>3. WireTyped' BY <1>2 DEF WireTyped, Wire!wires
<1>4. Wire!LockIsGivenBack' BY <1>1 DEF WriteInv, Wire!LockIsGivenBack
<1>5. Wire!DefiniteResultsAreTrue' BY <1>1 DEF WriteInv, Wire!DefiniteResultsAreTrue
<1> QED BY <1>3, <1>4, <1>5 DEF WriteInv

\* What the callback makes of the answer of the library.
LEMMA WireResultsAreTrue ==
  ASSUME NEW code \in 0..5, NEW queued \in {"FULL", "SHORT"},
         NEW reached \in Wire!Arrives(queued, code)
  PROVE  LET result == IF queued = "SHORT" THEN "BUS_ERROR" ELSE Wire!MapWireResult(code)
         IN  /\ result \in {"NONE", "OK", "NACK_ADDRESS", "NACK_DATA", "TIMEOUT", "BUS_ERROR"}
             /\ reached \in {"NO", "NONE", "PART", "WHOLE"}
             /\ result = "OK" => reached = "WHOLE"
             /\ result = "NACK_ADDRESS" => reached = "NONE"
<1>1. code = 0 \/ code = 1 \/ code = 2 \/ code = 3 \/ code = 4 \/ code = 5 OBVIOUS
<1>2. reached \in {"NONE", "PART", "WHOLE"} BY <1>1 DEF Wire!Arrives
<1>3. code = 0 /\ queued = "FULL" => reached = "WHOLE" BY DEF Wire!Arrives
<1>4. code = 2 => reached = "NONE" BY DEF Wire!Arrives
<1>5. /\ Wire!MapWireResult(code) \in {"OK", "NACK_ADDRESS", "NACK_DATA", "TIMEOUT", "BUS_ERROR"}
      /\ Wire!MapWireResult(code) = "OK" => code = 0
      /\ Wire!MapWireResult(code) = "NACK_ADDRESS" => code = 2
  BY <1>1 DEF Wire!MapWireResult
<1> QED BY <1>2, <1>3, <1>4, <1>5

\* The recovery does not touch the writes, and they do not touch it.
LEMMA WireStep ==
  Wire!WireAssumption /\ WireInv /\ (Wire!Next \/ UNCHANGED wireVars) => WireInv'
<1> SUFFICES ASSUME Wire!WireAssumption, WireInv, Wire!Next \/ UNCHANGED wireVars
             PROVE  WireInv'
  OBVIOUS
<1>0. WireTyped /\ RecoveryInv /\ WriteInv /\ "NOBODY" \notin Users
  BY DEF WireInv, Wire!WireAssumption
<1>1. ASSUME Wire!Recover \/ Wire!Unstretch PROVE WireInv'
  <2>1. lock' = lock /\ write' = write
    BY <1>1 DEF Wire!Recover, Wire!Unstretch, Wire!Unused, Wire!Begin, Wire!ReleaseClock,
       Wire!ClockIsUp, Wire!Pulse, Wire!PrepareStop, Wire!LetGo, Wire!Stop, Wire!Check
  <2>2. WriteInv'
    BY <1>0, <2>1 DEF WriteInv, Wire!LockIsGivenBack, Wire!DefiniteResultsAreTrue
  <2>3. WireTyped' /\ RecoveryInv' BY <1>0, <1>1, RecoveryStep
  <2> QED BY <2>2, <2>3 DEF WireInv
<1>2. ASSUME UNCHANGED Wire!wires PROVE RecoveryInv'
  BY <1>0, <1>2
  DEF Wire!wires, RecoveryInv, LinesOfStatement, TargetFollows, Falls, TargetIsFree,
     Wire!LinesAreReleased, Wire!StuckTargetLetsGo, Wire!HoldsSda, Wire!Reading,
     Wire!Written,
     Wire!Idle, Wire!Pulses
<1>3. ASSUME NEW u \in Users, Wire!BeginTransmission(u) PROVE WireInv'
  <2>1. PICK queued \in {"FULL", "SHORT"} : write' = [write EXCEPT ![u].at = queued]
    BY <1>3 DEF Wire!BeginTransmission
  <2>2. lock = "NOBODY" /\ lock' = u /\ UNCHANGED Wire!wires /\ write[u].at = "OUT"
    BY <1>3 DEF Wire!BeginTransmission
  <2> DEFINE w == [write[u] EXCEPT !.at = queued]
  <2>3. write[u] \in WriteType BY <1>0 DEF WireTyped
  <2>4. w \in WriteType /\ w.at = queued BY <2>3 DEF WriteType
  <2>5. write' = [write EXCEPT ![u] = w] BY <2>1
  <2> HIDE DEF w
  <2>6. WireTyped' /\ WriteInv' BY <1>0, <2>2, <2>4, <2>5, WriteChanges
  <2> QED BY <1>2, <2>2, <2>6 DEF WireInv
<1>4. ASSUME NEW u \in Users, Wire!EndTransmission(u) PROVE WireInv'
  <2>1. lock' = "NOBODY" /\ UNCHANGED Wire!wires /\ write[u].at \in {"FULL", "SHORT"}
    BY <1>4 DEF Wire!EndTransmission
  <2> DEFINE result(code) ==
               IF write[u].at = "SHORT" THEN "BUS_ERROR" ELSE Wire!MapWireResult(code)
             w(code, reached) == [at |-> "DONE", reached |-> reached, result |-> result(code)]
  <2>2. PICK code \in 0..5 : \E reached \in Wire!Arrives(write[u].at, code) :
           write' = [write EXCEPT ![u] = w(code, reached)]
    BY <1>4 DEF Wire!EndTransmission
  <2>3. PICK reached \in Wire!Arrives(write[u].at, code) :
           write' = [write EXCEPT ![u] = w(code, reached)]
    BY <2>2
  <2>4. /\ result(code) \in {"NONE", "OK", "NACK_ADDRESS", "NACK_DATA", "TIMEOUT", "BUS_ERROR"}
        /\ reached \in {"NO", "NONE", "PART", "WHOLE"}
        /\ result(code) = "OK" => reached = "WHOLE"
        /\ result(code) = "NACK_ADDRESS" => reached = "NONE"
    BY <2>1, WireResultsAreTrue
  <2> HIDE DEF result
  <2>5. w(code, reached) \in WriteType BY <2>4 DEF WriteType
  <2>6. /\ w(code, reached).at = "DONE" /\ w(code, reached).result = result(code)
        /\ w(code, reached).reached = reached
    OBVIOUS
  <2> HIDE DEF w
  <2>7. lock = u BY <1>0, <2>1 DEF WriteInv, Wire!LockIsGivenBack
  <2>8. WireTyped' /\ WriteInv' BY <1>0, <2>1, <2>3, <2>4, <2>5, <2>6, <2>7, WriteChanges
  <2> QED BY <1>2, <2>1, <2>8 DEF WireInv
<1>5. ASSUME NEW u \in Users, Wire!Return(u) PROVE WireInv'
  <2>1. /\ write' = [write EXCEPT ![u] = Wire!NoWrite] /\ lock' = lock
           /\ UNCHANGED Wire!wires
        /\ write[u].at = "DONE"
    BY <1>5 DEF Wire!Return
  <2>2. Wire!NoWrite \in WriteType /\ Wire!NoWrite.at = "OUT" BY DEF Wire!NoWrite, WriteType
  <2>3. lock # u BY <1>0, <2>1 DEF WriteInv, Wire!LockIsGivenBack
  <2>4. lock \in Users \cup {"NOBODY"} BY <1>0 DEF WireTyped
  <2>5. WireTyped' /\ WriteInv' BY <1>0, <2>1, <2>2, <2>3, <2>4, WriteChanges
  <2> QED BY <1>2, <2>1, <2>5 DEF WireInv
<1>6. CASE UNCHANGED wireVars
  <2>1. UNCHANGED Wire!wires /\ lock' = lock /\ write' = write
    BY <1>6 DEF wireVars, Wire!wires
  <2>2. WireTyped' BY <1>0, <2>1 DEF WireTyped, Wire!wires
  <2>3. WriteInv'
    BY <1>0, <2>1 DEF WriteInv, Wire!LockIsGivenBack, Wire!DefiniteResultsAreTrue
  <2> QED BY <1>2, <2>1, <2>2, <2>3 DEF WireInv
<1> QED BY <1>1, <1>3, <1>4, <1>5, <1>6 DEF Wire!Next, Wire!Progress

-----------------------------------------------------------------------------
\* Both platforms

TransportsInv == IdfInv /\ WireInv

LEMMA TransportsAreSound == LiveSpec => []TransportsInv
<1>1. InitTransports => TransportsInv
  BY TransportsAssumption, IdfInit, WireInit DEF InitTransports, TransportsInv
<1>2. TransportsInv /\ [NextTransports]_all => TransportsInv'
  <2> SUFFICES ASSUME TransportsInv, [NextTransports]_all PROVE TransportsInv' OBVIOUS
  <2>0. IdfInv /\ WireInv BY DEF TransportsInv
  <2>1. CASE OnIdf(Next)
    <3>1. Next /\ UNCHANGED wireVars BY <2>1 DEF OnIdf
    <3>2. IdfInv' BY <2>0, <3>1, IdfStep
    <3>3. WireInv' BY <2>0, <3>1, WireStep, TransportsAssumption
    <3> QED BY <3>2, <3>3 DEF TransportsInv
  <2>2. CASE OnWire(Wire!Next)
    <3>1. Wire!Next /\ UNCHANGED vars BY <2>2 DEF OnWire
    <3>2. IdfInv' BY <2>0, <3>1, IdfStep
    <3>3. WireInv' BY <2>0, <3>1, WireStep, TransportsAssumption
    <3> QED BY <3>2, <3>3 DEF TransportsInv
  <2>3. CASE UNCHANGED all
    <3>1. UNCHANGED vars /\ UNCHANGED wireVars BY <2>3 DEF all
    <3>2. IdfInv' BY <2>0, <3>1, IdfStep
    <3>3. WireInv' BY <2>0, <3>1, WireStep, TransportsAssumption
    <3> QED BY <3>2, <3>3 DEF TransportsInv
  <2> QED BY <2>1, <2>2, <2>3 DEF NextTransports
<1> QED BY <1>1, <1>2, PTL DEF LiveSpec

\* A caller may trust what a transport tells it.
THEOREM TransportsTellTheTruth == LiveSpec => []ResultsAreTrue
<1>1. TransportsInv => ResultsAreTrue
  <2> SUFFICES ASSUME TransportsInv PROVE ResultsAreTrue OBVIOUS
  <2>1. DefiniteResultsAreTrue /\ WireTyped /\ RecoveryInv /\ WriteInv
    BY DEF TransportsInv, IdfInv, WireInv
  <2>2. Wire!ReadyMeansFree
    <3> SUFFICES ASSUME at = "READY"
                 PROVE  ~Wire!SclIsLow /\ ~Wire!SdaIsLow /\ target = Wire!Idle
      BY DEF Wire!ReadyMeansFree
    <3>1. ~scl /\ ~sda /\ ~stretch BY <2>1 DEF RecoveryInv, LinesOfStatement
    <3>2. target = Wire!Idle BY <2>1 DEF RecoveryInv, TargetIsFree
    <3> QED BY <3>1, <3>2, TargetFields DEF Wire!SclIsLow, Wire!SdaIsLow
  <2> QED BY <2>1, <2>2 DEF ResultsAreTrue, RecoveryInv, WriteInv
<1> QED BY <1>1, TransportsAreSound, PTL

\* Every path of a transport gives back what it took.
THEOREM TransportsGiveBack == LiveSpec => []BusIsGivenBack
<1>1. TransportsInv => BusIsGivenBack
  BY DEF TransportsInv, IdfInv, WireInv, RecoveryInv, WriteInv, BusIsGivenBack
<1> QED BY <1>1, TransportsAreSound, PTL

====
