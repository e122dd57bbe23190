------------------------- MODULE Bookkeeping_proofs -------------------------
(***************************************************************************)
(* The health counters, the binding and the settings, each with the        *)
(* inductive invariant its properties need.  They share no state: a step   *)
(* of one changes nothing that the invariants of the others speak of.      *)
(***************************************************************************)
EXTENDS Bookkeeping, Sequences, TLAPS

-----------------------------------------------------------------------------
\* Health: the counters and the state read off them, for every threshold and every
\* width of the counters.

\* The driver's counters follow the exact numbers up to their limit, and an outcome
\* that was counted after an initialization belongs to an initialized driver.
Follows(c, s) ==
  /\ c.run = (IF s.run < RunLimit THEN s.run ELSE RunLimit)
  /\ c.failures = (IF s.failures < TotalLimit THEN s.failures ELSE TotalLimit)
  /\ c.successes = (IF s.successes < TotalLimit THEN s.successes ELSE TotalLimit)

CounterInv ==
  /\ TypeOK
  /\ Follows(counters, seen)
  /\ seen.judged => initialized
  /\ StateIsEarned

\* Facts of the constants: two limits that are at least one, and a threshold that
\* the run counter can reach.
LEMMA Limits ==
  /\ OfflineThreshold \in Nat /\ RunLimit \in Nat /\ TotalLimit \in Nat
  /\ OfflineThreshold > 0 /\ RunLimit > 0 /\ TotalLimit > 0
  /\ OfflineThreshold <= RunLimit
BY HealthAssumption

\* A counter that follows its exact number does so after the next outcome.
LEMMA CountedFollows ==
  ASSUME NEW limit \in Nat, limit > 0, NEW n \in Nat, NEW c,
         c = (IF n < limit THEN n ELSE limit)
  PROVE  /\ Counted(c, limit) = (IF n + 1 < limit THEN n + 1 ELSE limit)
         /\ Counted(c, limit) \in 0..limit
BY DEF Counted

\* What an outcome that is published once does to the counters, the exact numbers
\* and the state: one step of every action that reaches the bus.
LEMMA OutcomeKeeps ==
  ASSUME CounterInv, NEW ok \in BOOLEAN,
         initialized' \in BOOLEAN,
         op' \in [kind : Kinds, sent : BOOLEAN, ready : BOOLEAN] \cup {NoOperation},
         UpdateHealth(ok, FALSE, initialized'), Exactly(ok, initialized')
  PROVE  CounterInv'
<1> USE Limits
<1>1. /\ counters \in [run : 0..RunLimit, failures : 0..TotalLimit, successes : 0..TotalLimit]
      /\ seen \in [run : Nat, failures : Nat, successes : Nat, judged : BOOLEAN]
      /\ initialized \in BOOLEAN
      /\ state \in {"UNINIT", "READY", "DEGRADED", "OFFLINE"}
  BY DEF CounterInv, TypeOK
<1>2. /\ Counted(counters.run, RunLimit) =
           (IF seen.run + 1 < RunLimit THEN seen.run + 1 ELSE RunLimit)
      /\ Counted(counters.run, RunLimit) \in 0..RunLimit
  BY <1>1, CountedFollows DEF CounterInv, Follows
<1>3. /\ Counted(counters.failures, TotalLimit) =
           (IF seen.failures + 1 < TotalLimit THEN seen.failures + 1 ELSE TotalLimit)
      /\ Counted(counters.failures, TotalLimit) \in 0..TotalLimit
  BY <1>1, CountedFollows DEF CounterInv, Follows
<1>4. /\ Counted(counters.successes, TotalLimit) =
           (IF seen.successes + 1 < TotalLimit THEN seen.successes + 1 ELSE TotalLimit)
      /\ Counted(counters.successes, TotalLimit) \in 0..TotalLimit
  BY <1>1, CountedFollows DEF CounterInv, Follows
<1>5. CASE ok
  <2>1. /\ seen' = [seen EXCEPT !.run = 0, !.successes = @ + 1, !.judged = initialized']
        /\ counters' = [run |-> 0, failures |-> counters.failures,
                        successes |-> Counted(counters.successes, TotalLimit)]
        /\ state' = IF ~initialized' THEN IF initialized THEN "UNINIT" ELSE state ELSE "READY"
    BY <1>5 DEF UpdateHealth, Exactly
  <2>2. TypeOK'
    <3>1. counters' \in [run : 0..RunLimit, failures : 0..TotalLimit,
                         successes : 0..TotalLimit]
      BY <2>1, <1>1, <1>4
    <3>2. seen' \in [run : Nat, failures : Nat, successes : Nat, judged : BOOLEAN]
      <4>1. seen.run + 1 \in Nat /\ seen.successes + 1 \in Nat /\ 0 \in Nat
        BY <1>1
      <4> QED BY <4>1, <2>1, <1>1, Zenon
    <3>3. state' \in {"UNINIT", "READY", "DEGRADED", "OFFLINE"}
      BY <2>1, <1>1
    <3> QED BY <3>1, <3>2, <3>3 DEF TypeOK
  <2>3. Follows(counters, seen)'
    BY <2>1, <1>1, <1>4 DEF Follows, CounterInv
  <2>4. (seen.judged => initialized)' /\ StateIsEarned'
    BY <2>1, <1>1 DEF StateIsEarned
  <2> QED BY <2>2, <2>3, <2>4 DEF CounterInv
<1>6. CASE ~ok
  <2>1. /\ seen' = [seen EXCEPT !.run = @ + 1, !.failures = @ + 1, !.judged = initialized']
        /\ counters' = [run |-> Counted(counters.run, RunLimit),
                        failures |-> Counted(counters.failures, TotalLimit),
                        successes |-> counters.successes]
        /\ state' = IF ~initialized' THEN IF initialized THEN "UNINIT" ELSE state
                    ELSE IF Counted(counters.run, RunLimit) >= OfflineThreshold
                         THEN "OFFLINE" ELSE "DEGRADED"
    BY <1>6 DEF UpdateHealth, Exactly
  <2>2. TypeOK'
    <3>1. counters' \in [run : 0..RunLimit, failures : 0..TotalLimit,
                         successes : 0..TotalLimit]
      BY <2>1, <1>1, <1>2, <1>3
    <3>2. seen' \in [run : Nat, failures : Nat, successes : Nat, judged : BOOLEAN]
      <4>1. seen.run + 1 \in Nat /\ seen.failures + 1 \in Nat /\ 0 \in Nat
        BY <1>1
      <4> QED BY <4>1, <2>1, <1>1, Zenon
    <3>3. state' \in {"UNINIT", "READY", "DEGRADED", "OFFLINE"}
      BY <2>1, <1>1
    <3> QED BY <3>1, <3>2, <3>3 DEF TypeOK
  <2>3. Follows(counters, seen)'
    BY <2>1, <1>1, <1>2, <1>3 DEF Follows, CounterInv
  <2>4. (seen.judged => initialized)' /\ StateIsEarned'
    BY <2>1, <1>1, <1>2 DEF StateIsEarned
  <2> QED BY <2>2, <2>3, <2>4 DEF CounterInv
<1> QED BY <1>5, <1>6

\* An action that publishes nothing and leaves the driver as initialized as it was,
\* or initializes it before its first counted outcome.
LEMMA SilenceKeeps ==
  ASSUME CounterInv, UNCHANGED <<counters, seen, state>>,
         initialized' \in BOOLEAN, initialized => initialized',
         op' \in [kind : Kinds, sent : BOOLEAN, ready : BOOLEAN] \cup {NoOperation}
  PROVE  CounterInv'
BY DEF CounterInv, TypeOK, Follows, StateIsEarned

LEMMA CounterInvHolds == Spec => []CounterInv
<1>0. /\ Zero \in [run : 0..RunLimit, failures : 0..TotalLimit, successes : 0..TotalLimit]
      /\ Unseen \in [run : Nat, failures : Nat, successes : Nat, judged : BOOLEAN]
      /\ Follows(Zero, Unseen) /\ ~Unseen.judged
  BY Limits DEF Zero, Unseen, Follows
<1>1. Init => CounterInv
  BY <1>0 DEF Init, CounterInv, TypeOK, StateIsEarned
<1>2. CounterInv /\ [Next]_vars => CounterInv'
  <2> SUFFICES ASSUME CounterInv, [Next]_vars PROVE CounterInv'
    OBVIOUS
  <2> USE DEF Kinds, NoOperation
  <2>0. /\ op \in [kind : Kinds, sent : BOOLEAN, ready : BOOLEAN] \cup {NoOperation}
        /\ initialized \in BOOLEAN
    BY DEF CounterInv, TypeOK
  <2>1. ASSUME NEW ok \in BOOLEAN, Direct(ok) PROVE CounterInv'
    <3>1. UpdateHealth(ok, FALSE, initialized') /\ Exactly(ok, initialized')
      BY <2>1 DEF Direct
    <3> QED BY <3>1, <2>0, <2>1, OutcomeKeeps DEF Direct
  <2>2. ASSUME NEW k \in Kinds, StartOperation(k) PROVE CounterInv'
    BY <2>0, <2>2, SilenceKeeps DEF StartOperation
  <2>3. CASE Transact
    BY <2>0, <2>3, SilenceKeeps DEF Transact, Underway, OperationActive, UpdateHealth
  <2>4. CASE Initialized
    BY <2>0, <2>4, SilenceKeeps DEF Initialized
  <2>5. CASE Finish
    <3>1. CASE op.sent
      <4>1. UpdateHealth(TRUE, FALSE, initialized') /\ Exactly(TRUE, initialized')
        BY <2>5, <3>1 DEF Finish
      <4>2. initialized' \in BOOLEAN /\ op' = NoOperation
        BY <2>0, <2>5 DEF Finish
      <4> QED BY <4>1, <4>2, OutcomeKeeps
    <3>2. CASE ~op.sent
      <4>1. op.kind = "OTHER" /\ initialized' = initialized /\ op' = NoOperation
            /\ UNCHANGED <<counters, seen, state>>
        BY <2>0, <2>5, <3>2 DEF Finish, OperationActive
      <4> QED BY <4>1, <2>0, SilenceKeeps
    <3> QED BY <3>1, <3>2
  <2>6. CASE Fail
    <3>1. CASE op.sent
      <4>1. /\ UpdateHealth(FALSE, FALSE, initialized') /\ Exactly(FALSE, initialized')
            /\ initialized' = initialized /\ op' = NoOperation
        BY <2>6, <3>1 DEF Fail
      <4> QED BY <4>1, <2>0, OutcomeKeeps
    <3>2. CASE ~op.sent
      BY <2>0, <2>6, <3>2, SilenceKeeps DEF Fail
    <3> QED BY <3>1, <3>2
  <2>7. CASE CancelOperation
    BY <2>0, <2>7, SilenceKeeps DEF CancelOperation
  <2>8. CASE Detach
    BY <2>8, <1>0 DEF Detach, CounterInv, TypeOK, StateIsEarned
  <2>9. CASE UNCHANGED vars
    BY <2>0, <2>9, SilenceKeeps DEF vars
  <2> QED
    BY <2>1, <2>2, <2>3, <2>4, <2>5, <2>6, <2>7, <2>8, <2>9 DEF Next
<1> QED BY <1>1, <1>2, PTL DEF Spec

\* The state follows from the number of consecutive failures, for every threshold
\* up to the limit of the counter: _updateHealth() never loses it.
THEOREM StateAlwaysEarned == Spec => []StateIsEarned
<1>1. CounterInv => StateIsEarned
  BY DEF CounterInv
<1> QED BY <1>1, CounterInvHolds, PTL

\* The lifetime counters are exact up to their width, and every counter stays within
\* its own.
THEOREM CountersAreExact == Spec => [](TypeOK /\ TotalsAreExact)
<1>1. CounterInv => TypeOK /\ TotalsAreExact
  BY DEF CounterInv, Follows, TotalsAreExact
<1> QED BY <1>1, CounterInvHolds, PTL

\* The health counters of the composition take no other steps than their own.
LEMMA HealthIsPart == SpecBookkeeping => Spec
<1>1. InitBookkeeping => Init BY DEF InitBookkeeping
<1>2. [NextBookkeeping]_all => [Next]_vars
  BY DEF NextBookkeeping, OnHealth, OnBinding, OnSettings, all, health
<1> QED BY <1>1, <1>2, PTL DEF SpecBookkeeping, Spec

-----------------------------------------------------------------------------
\* The binding

BindingTyped ==
  /\ prepared \in Binding!ConfigType /\ held \in Binding!ConfigType
  /\ buffer \in [at : Nat, size : Nat]
  /\ {attached, owned, busy} \subseteq BOOLEAN

\* An object without a binding has no framebuffer.
UnboundHasNone == ~attached => ~owned /\ buffer = Binding!NoBlock

BindingInv == BindingTyped /\ UnboundHasNone /\ FramebufferIsSound

\* What a configuration is; the record type is opened here and nowhere else.
LEMMA ConfigFields ==
  ASSUME NEW c \in Binding!ConfigType
  PROVE  /\ c.width \in Nat /\ c.height \in Nat /\ c.pageBufferPages \in Nat
         /\ c.maxWriteBytes \in Nat /\ c.byteBudgetPerTick \in Nat
         /\ c.displayOnDelayMs \in Nat /\ c.startLine \in Nat
         /\ c.externalBuffer \in Nat \cup {NoBuffer}
         /\ c.externalBufferSizeBytes \in Nat /\ c.offlineThreshold \in Nat
BY DEF Binding!ConfigType

LEMMA DefaultsAreTyped == Binding!Defaults \in Binding!ConfigType
<1>1. /\ Binding!Defaults.controllerProfile \in Binding!Enumerators("controllerProfile")
      /\ Binding!Defaults.comPins \in Binding!Enumerators("comPins")
      /\ Binding!Defaults.chargePumpVoltage \in Binding!Enumerators("chargePumpVoltage")
      /\ Binding!Defaults.iref \in Binding!Enumerators("iref")
      /\ Binding!Defaults.vcomh \in Binding!Enumerators("vcomh")
  BY DEF Binding!Defaults, Binding!Enumerators, Binding!FieldRange
<1> QED BY <1>1 DEF Binding!Defaults, Binding!ConfigType

\* attach() stores the configuration with a threshold of at least one.
LEMMA StoredConfig ==
  ASSUME NEW c \in Binding!ConfigType, NEW n \in Nat,
         NEW h, h = [c EXCEPT !.offlineThreshold = n]
  PROVE  /\ h \in Binding!ConfigType /\ h.offlineThreshold = n
         /\ h.width = c.width /\ h.height = c.height
         /\ h.pageBufferPages = c.pageBufferPages
         /\ h.maxWriteBytes = c.maxWriteBytes
         /\ h.byteBudgetPerTick = c.byteBudgetPerTick
         /\ h.startLine = c.startLine
         /\ h.externalBuffer = c.externalBuffer
         /\ h.externalBufferSizeBytes = c.externalBufferSizeBytes
BY DEF Binding!ConfigType

\* What _validateConfig() leaves of the numbers.
LEMMA ValidFacts ==
  ASSUME NEW c \in Binding!ConfigType, Binding!ValidConfig(c)
  PROVE  /\ c.width >= 1 /\ c.pageBufferPages >= 1
         /\ c.pageBufferPages \in 1..Binding!TotalPagesOf(c)
         /\ c.height \in 16..64 /\ c.startLine < c.height
         /\ c.maxWriteBytes >= 4 /\ c.byteBudgetPerTick > 0
         /\ c.externalBuffer # NoBuffer =>
              c.externalBufferSizeBytes >= Binding!RequiredFramebufferBytes(c)
<1>1. /\ "width" \in DOMAIN Binding!FieldRange
      /\ "height" \in DOMAIN Binding!FieldRange
      /\ "maxWriteBytes" \in DOMAIN Binding!FieldRange
  BY DEF Binding!FieldRange
<1>2. /\ c["width"] \in Binding!FieldRange["width"]
      /\ c["height"] \in Binding!FieldRange["height"]
      /\ c["maxWriteBytes"] \in Binding!FieldRange["maxWriteBytes"]
  BY <1>1 DEF Binding!ValidConfig
<1>3. c.width \in 1..128
  BY <1>2 DEF Binding!FieldRange, Binding!MAX_WIDTH
<1>4. c.height \in 16..64
  <2>1. PICK n \in 2..8 : c.height = 8 * n
    BY <1>2 DEF Binding!FieldRange, Binding!MAX_HEIGHT, Binding!PAGE_ROWS
  <2> QED BY <2>1
<1>5. c.maxWriteBytes \in 4..129
  BY <1>2 DEF Binding!FieldRange, Binding!MAX_WIDTH
<1> QED BY <1>3, <1>4, <1>5, ConfigFields DEF Binding!ValidConfig

\* A framebuffer has at least one byte.
LEMMA RequiredIsPositive ==
  ASSUME NEW c \in Binding!ConfigType, Binding!ValidConfig(c)
  PROVE  Binding!RequiredFramebufferBytes(c) \in Nat
         /\ Binding!RequiredFramebufferBytes(c) > 0
<1> DEFINE w == c.width
           p == c.pageBufferPages
<1>1. w \in Nat /\ p \in Nat /\ w >= 1 /\ p >= 1 BY ConfigFields, ValidFacts
<1>2. Binding!RequiredFramebufferBytes(c) = w * p
  BY DEF Binding!RequiredFramebufferBytes
<1> HIDE DEF w, p
<1>3. w * p \in Nat BY <1>1
<1>4. w * p = w * (p - 1) + w /\ p - 1 \in Nat BY <1>1
<1>5. w * (p - 1) >= 0 BY <1>1, <1>4
<1> QED BY <1>1, <1>2, <1>3, <1>4, <1>5

\* byteRangesOverlap() finds every common byte.
LEMMA OverlapIsExact ==
  ASSUME NEW x \in [at : Nat, size : Nat], NEW y \in [at : Nat, size : Nat],
         ~Binding!ByteRangesOverlap(x, y)
  PROVE  Binding!Bytes(x) \cap Binding!Bytes(y) = {}
<1> SUFFICES ASSUME NEW b, b \in Binding!Bytes(x), b \in Binding!Bytes(y) PROVE FALSE
  OBVIOUS
<1>1. /\ x.at \in Nat /\ x.size \in Nat /\ y.at \in Nat /\ y.size \in Nat OBVIOUS
<1>2. /\ b \in x.at .. (x.at + x.size - 1) /\ b \in y.at .. (y.at + y.size - 1)
  BY DEF Binding!Bytes
<1> QED BY <1>1, <1>2 DEF Binding!ByteRangesOverlap

\* A bound object has a configuration it can work with, whatever was accepted.
LEMMA StoredIsUsable ==
  ASSUME NEW c \in Binding!ConfigType, Binding!ValidConfig(c), NEW n \in Nat, n >= 1,
         held' = [c EXCEPT !.offlineThreshold = n]
  PROVE  /\ held' \in Binding!ConfigType /\ Binding!AdmittedIsUsable'
         /\ Binding!RequiredFramebufferBytes(held') = Binding!RequiredFramebufferBytes(c)
         /\ held'.externalBuffer = c.externalBuffer
         /\ held'.externalBufferSizeBytes = c.externalBufferSizeBytes
<1>1. PICK h : h = held' OBVIOUS
<1>2. /\ h \in Binding!ConfigType /\ h.offlineThreshold = n
      /\ h.width = c.width /\ h.height = c.height
      /\ h.pageBufferPages = c.pageBufferPages
      /\ h.maxWriteBytes = c.maxWriteBytes
      /\ h.byteBudgetPerTick = c.byteBudgetPerTick
      /\ h.startLine = c.startLine
      /\ h.externalBuffer = c.externalBuffer
      /\ h.externalBufferSizeBytes = c.externalBufferSizeBytes
  BY <1>1, StoredConfig
<1>3. Binding!TotalPagesOf(h) = Binding!TotalPagesOf(c)
      /\ Binding!RequiredFramebufferBytes(h) = Binding!RequiredFramebufferBytes(c)
  BY <1>2 DEF Binding!TotalPagesOf, Binding!RequiredFramebufferBytes
<1>4. /\ Binding!LongestCommand <= h.maxWriteBytes
      /\ Binding!MaxDataBytes(h) >= 1 /\ h.byteBudgetPerTick >= 1
      /\ h.pageBufferPages \in 1..Binding!TotalPagesOf(h)
      /\ h.height - 1 \in 15..63
      /\ h.startLine < h.height
      /\ h.offlineThreshold >= 1
  BY <1>2, <1>3, ValidFacts, ConfigFields
     DEF Binding!LongestCommand, Binding!MaxDataBytes
<1>5. Binding!AdmittedIsUsable' BY <1>1, <1>4 DEF Binding!AdmittedIsUsable
<1> QED BY <1>1, <1>2, <1>3, <1>5

\* attach() on any bound or unbound object: the new buffer is live and of the right
\* size, and the old one is given back.
LEMMA AcceptedIsSound ==
  ASSUME BindingInv, prepared' = prepared,
         Binding!Usable(prepared), ~Binding!Refused(prepared),
         Binding!AttachAccepted(prepared)
  PROVE  BindingInv'
<1> DEFINE c == prepared
           required == Binding!RequiredFramebufferBytes(c)
<1>1. c \in Binding!ConfigType /\ Binding!ValidConfig(c)
  BY DEF BindingInv, BindingTyped, Binding!Refused, Binding!Accepts
<1>2. required \in Nat /\ required > 0 BY <1>1, RequiredIsPositive
<1>3. PICK n \in Nat : n >= 1 /\ n = IF c.offlineThreshold = 0 THEN 1 ELSE c.offlineThreshold
  BY <1>1, ConfigFields
<1>4. /\ attached' = TRUE /\ busy' = FALSE
      /\ held' = [c EXCEPT !.offlineThreshold = n]
  BY <1>3 DEF Binding!AttachAccepted, Binding!Bind
<1>5. /\ held' \in Binding!ConfigType /\ Binding!AdmittedIsUsable'
      /\ Binding!RequiredFramebufferBytes(held') = required
      /\ held'.externalBuffer = c.externalBuffer
      /\ held'.externalBufferSizeBytes = c.externalBufferSizeBytes
  BY <1>1, <1>3, <1>4, StoredIsUsable
<1>6. buffer \in [at : Nat, size : Nat] /\ owned \in BOOLEAN
      /\ (owned => attached)
  BY DEF BindingInv, BindingTyped, UnboundHasNone
<1>7. heap = IF owned THEN {buffer} ELSE {}
  BY DEF BindingInv, FramebufferIsSound, Binding!BufferIsLive
<1>8. Binding!Freed = {} BY <1>7 DEF Binding!Freed
<1>9. CASE c.externalBuffer # NoBuffer /\ Binding!Bind(c, Binding!External(c), FALSE)
  <2> DEFINE e == c.externalBuffer
             given == c.externalBufferSizeBytes
             x == [at |-> e, size |-> required]
  <2>1. e \in Nat /\ given \in Nat /\ required <= given
    BY <1>1, <1>9, ConfigFields, ValidFacts
  <2>2. buffer' = x /\ owned' = FALSE /\ heap' = {}
    BY <1>8, <1>9 DEF Binding!Bind, Binding!External, Binding!Block
  <2>3. x \in [at : Nat, size : Nat] /\ x.at = e /\ x.size = required BY <2>1, <1>2
  <2>4. Binding!Bytes(x) \subseteq e .. (e + given - 1)
    BY <2>1, <1>2 DEF Binding!Bytes
  <2>5. e .. (e + given - 1) \subseteq CallerMemory \cup Binding!Bytes(buffer)
    BY <1>9 DEF Binding!Usable
  <2>6. Binding!Bytes(x) \subseteq CallerMemory
    <3>1. CASE owned
      <4>1. ~Binding!ByteRangesOverlap(x, buffer)
        BY <1>9, <3>1 DEF Binding!Refused, Binding!Accepts, Binding!External, Binding!Block
      <4>2. Binding!Bytes(x) \cap Binding!Bytes(buffer) = {}
        BY <4>1, <2>3, <1>6, OverlapIsExact
      <4> QED BY <4>2, <2>4, <2>5
    <3>2. CASE ~owned /\ attached
      <4>1. Binding!Bytes(buffer) \subseteq CallerMemory
        BY <3>2 DEF BindingInv, FramebufferIsSound, Binding!BufferIsLive
      <4> QED BY <4>1, <2>4, <2>5
    <3>3. CASE ~attached
      <4>1. buffer.at = 0 /\ buffer.size = 0
        BY <3>3 DEF BindingInv, UnboundHasNone, Binding!NoBlock, Binding!Block
      <4>2. Binding!Bytes(buffer) = {} BY <4>1 DEF Binding!Bytes
      <4> QED BY <4>2, <2>4, <2>5
    <3> QED BY <3>1, <3>2, <3>3
  <2> HIDE DEF x
  <2>7. PICK b : b = buffer' OBVIOUS
  <2>8. Binding!Bytes(b) \subseteq CallerMemory
        /\ Binding!Bytes(b) \subseteq e .. (e + given - 1) /\ b.size = required
    BY <2>2, <2>3, <2>4, <2>6, <2>7
  <2>9. Binding!BufferIsLive'
    BY <2>2, <2>7, <2>8, <1>2, <1>4, <1>5 DEF Binding!BufferIsLive, Binding!Bytes
  <2>10. Binding!BorrowsWhatWasGiven'
    BY <2>2, <2>7, <2>8, <1>5 DEF Binding!BorrowsWhatWasGiven, Binding!Bytes
  <2>11. BindingTyped' /\ UnboundHasNone'
    BY <2>2, <2>3, <1>1, <1>4, <1>5 DEF BindingTyped, UnboundHasNone
  <2> QED BY <2>9, <2>10, <2>11, <1>5 DEF BindingInv, FramebufferIsSound
<1>10. ASSUME NEW at \in HeapMemory, Binding!Bind(c, Binding!Block(at, required), TRUE)
       PROVE  BindingInv'
  <2>1. at \in Nat BY BookkeepingAssumption DEF Binding!MemoryAssumption
  <2> DEFINE x == [at |-> at, size |-> required]
  <2>2. buffer' = x /\ owned' = TRUE /\ heap' = {x}
    BY <1>8, <1>10 DEF Binding!Bind, Binding!Block
  <2>3. x \in [at : Nat, size : Nat] /\ x.size = required BY <2>1, <1>2
  <2> HIDE DEF x
  <2>4. Binding!BufferIsLive' /\ Binding!BorrowsWhatWasGiven'
    BY <2>2, <2>3, <1>2, <1>4, <1>5 DEF Binding!BufferIsLive, Binding!BorrowsWhatWasGiven
  <2>5. BindingTyped' /\ UnboundHasNone'
    BY <2>2, <2>3, <1>1, <1>4, <1>5 DEF BindingTyped, UnboundHasNone
  <2> QED BY <2>4, <2>5, <1>5 DEF BindingInv, FramebufferIsSound
<1> QED BY <1>9, <1>10 DEF Binding!AttachAccepted

\* A preset replaces fields and adds none.
LEMMA OverlayFields ==
  ASSUME NEW c, NEW changes, NEW o, o = Binding!Overlay(c, changes)
  PROVE  /\ o = [f \in DOMAIN c |-> o[f]] /\ DOMAIN o = DOMAIN c
         /\ \A f \in DOMAIN c :
              o[f] = IF f \in DOMAIN changes THEN changes[f] ELSE c[f]
BY DEF Binding!Overlay

\* The fields that a preset leaves alone, and those that it sets.
LEMMA CommonFields ==
  ASSUME NEW c \in Binding!ConfigType, NEW o, o = Binding!Overlay(c, Binding!CommonPreset)
  PROVE  /\ o \in Binding!ConfigType
         /\ o.width = 128 /\ o.height = 64 /\ o.startLine = 0 /\ o.displayOffset = 0
         /\ o.prechargePhase1 = 2 /\ o.prechargePhase2 = 2 /\ o.clockDivide = 1
         /\ o.controllerProfile = "SSD1315" /\ o.comPins = "ALTERNATIVE_NO_REMAP"
         /\ o.i2cWrite = c.i2cWrite /\ o.i2cAddress = c.i2cAddress
         /\ o.maxWriteBytes = c.maxWriteBytes /\ o.i2cTimeoutMs = c.i2cTimeoutMs
         /\ o.byteBudgetPerTick = c.byteBudgetPerTick
         /\ o.pageBufferPages = c.pageBufferPages
         /\ o.externalBuffer = c.externalBuffer
         /\ o.externalBufferSizeBytes = c.externalBufferSizeBytes
<1>1. /\ o = [f \in DOMAIN c |-> o[f]] /\ DOMAIN o = DOMAIN c
      /\ \A f \in DOMAIN c :
           o[f] = IF f \in DOMAIN Binding!CommonPreset THEN Binding!CommonPreset[f] ELSE c[f]
  BY OverlayFields
<1>2. "SSD1315" \in Binding!Enumerators("controllerProfile")
      /\ "ALTERNATIVE_NO_REMAP" \in Binding!Enumerators("comPins")
  BY DEF Binding!Enumerators, Binding!FieldRange
<1>3. o \in Binding!ConfigType
  BY <1>1, <1>2 DEF Binding!ConfigType, Binding!CommonPreset
<1> QED
  BY <1>1, <1>3 DEF Binding!ConfigType, Binding!CommonPreset

\* What a supported preset sets besides: values that _validateConfig() accepts.
LEMMA PresetFields ==
  ASSUME NEW profile \in DOMAIN Binding!Preset, NEW s, s = Binding!Preset[profile]
  PROVE  /\ DOMAIN s = {"flipX", "flipY", "contrast", "oscFrequency", "vcomh",
                        "chargePumpVoltage", "iref"}
         /\ s.flipX \in BOOLEAN /\ s.flipY \in BOOLEAN
         /\ s.contrast \in 1..255 /\ s.oscFrequency \in 0..15
         /\ s.vcomh \in Binding!FieldRange["vcomh"]
         /\ s.chargePumpVoltage \in Binding!FieldRange["chargePumpVoltage"]
         /\ s.iref \in Binding!FieldRange["iref"]
<1>1. /\ {"V_077_VCC", "V_083_VCC"} \subseteq Binding!FieldRange["vcomh"]
      /\ {"V7_5", "OFF"} \subseteq Binding!FieldRange["chargePumpVoltage"]
      /\ {"INTERNAL_19UA", "IREF_EXTERNAL"} \subseteq Binding!FieldRange["iref"]
  BY DEF Binding!FieldRange
<1>2. DOMAIN Binding!Preset = {"GENERIC_128X64_INTERNAL_CHARGE_PUMP",
                               "WISEVISION_INTERNAL_DC_DC", "WISEVISION_EXTERNAL_VCC"}
  BY DEF Binding!Preset
<1>3. DOMAIN s = {"flipX", "flipY", "contrast", "oscFrequency", "vcomh",
                  "chargePumpVoltage", "iref"}
  BY <1>2 DEF Binding!Preset
<1>4. s.flipX \in BOOLEAN /\ s.flipY \in BOOLEAN
  <2>1. CASE profile = "GENERIC_128X64_INTERNAL_CHARGE_PUMP"
    BY <2>1, Zenon DEF Binding!Preset
  <2>2. CASE profile = "WISEVISION_INTERNAL_DC_DC"
    BY <2>2, Zenon DEF Binding!Preset
  <2>3. CASE profile = "WISEVISION_EXTERNAL_VCC"
    BY <2>3, Zenon DEF Binding!Preset
  <2> QED BY <1>2, <2>1, <2>2, <2>3
<1>5. s.contrast \in {127, 176} /\ s.oscFrequency \in {8, 9}
  BY <1>2 DEF Binding!Preset
<1>6. /\ s.vcomh \in {"V_077_VCC", "V_083_VCC"}
      /\ s.chargePumpVoltage \in {"V7_5", "OFF"}
      /\ s.iref \in {"INTERNAL_19UA", "IREF_EXTERNAL"}
  BY <1>2 DEF Binding!Preset
<1> QED BY <1>1, <1>3, <1>4, <1>5, <1>6

LEMMA OwnFields ==
  ASSUME NEW c \in Binding!ConfigType, NEW profile \in DOMAIN Binding!Preset,
         NEW o, o = Binding!Overlay(c, Binding!Preset[profile])
  PROVE  /\ o \in Binding!ConfigType
         /\ o.contrast \in 1..255 /\ o.oscFrequency \in 0..15
         /\ o.vcomh \in Binding!FieldRange["vcomh"]
         /\ o.chargePumpVoltage \in Binding!FieldRange["chargePumpVoltage"]
         /\ o.iref \in Binding!FieldRange["iref"]
         /\ o.width = c.width /\ o.height = c.height /\ o.startLine = c.startLine
         /\ o.displayOffset = c.displayOffset /\ o.prechargePhase1 = c.prechargePhase1
         /\ o.prechargePhase2 = c.prechargePhase2 /\ o.clockDivide = c.clockDivide
         /\ o.controllerProfile = c.controllerProfile /\ o.comPins = c.comPins
         /\ o.i2cWrite = c.i2cWrite /\ o.i2cAddress = c.i2cAddress
         /\ o.maxWriteBytes = c.maxWriteBytes /\ o.i2cTimeoutMs = c.i2cTimeoutMs
         /\ o.byteBudgetPerTick = c.byteBudgetPerTick
         /\ o.pageBufferPages = c.pageBufferPages
         /\ o.externalBuffer = c.externalBuffer
         /\ o.externalBufferSizeBytes = c.externalBufferSizeBytes
<1> DEFINE s == Binding!Preset[profile]
<1>1. /\ o = [f \in DOMAIN c |-> o[f]] /\ DOMAIN o = DOMAIN c
      /\ \A f \in DOMAIN c : o[f] = IF f \in DOMAIN s THEN s[f] ELSE c[f]
  BY OverlayFields
<1>2. /\ DOMAIN s = {"flipX", "flipY", "contrast", "oscFrequency", "vcomh",
                     "chargePumpVoltage", "iref"}
      /\ s.flipX \in BOOLEAN /\ s.flipY \in BOOLEAN
      /\ s.contrast \in 1..255 /\ s.oscFrequency \in 0..15
      /\ s.vcomh \in Binding!FieldRange["vcomh"]
      /\ s.chargePumpVoltage \in Binding!FieldRange["chargePumpVoltage"]
      /\ s.iref \in Binding!FieldRange["iref"]
  BY PresetFields
<1>3. /\ s.vcomh \in Binding!Enumerators("vcomh")
      /\ s.chargePumpVoltage \in Binding!Enumerators("chargePumpVoltage")
      /\ s.iref \in Binding!Enumerators("iref")
  BY <1>2 DEF Binding!Enumerators
<1> HIDE DEF s
<1>4. o \in Binding!ConfigType
  BY <1>1, <1>2, <1>3 DEF Binding!ConfigType
<1> QED
  BY <1>1, <1>2, <1>4 DEF Binding!ConfigType

LEMMA ProfileIsTyped ==
  ASSUME NEW c \in Binding!ConfigType, NEW profile
  PROVE  Binding!ApplyPanelProfile(c, profile) \in Binding!ConfigType
<1> DEFINE o == Binding!Overlay(c, Binding!CommonPreset)
<1>1. o \in Binding!ConfigType BY CommonFields
<1> HIDE DEF o
<1>2. profile \in DOMAIN Binding!Preset =>
        Binding!Overlay(o, Binding!Preset[profile]) \in Binding!ConfigType
  BY <1>1, OwnFields
<1> QED BY <1>2 DEF Binding!ApplyPanelProfile, o

\* The ranges that do not depend on another field, each field by its name.
LEMMA FieldByField ==
  ASSUME NEW c,
         /\ c.i2cWrite \in {TRUE} /\ c.controllerProfile \in {"SSD1315"}
         /\ c.width \in 1..128 /\ c.height \in Binding!FieldRange["height"]
         /\ c.i2cAddress \in {60, 61} /\ c.clockDivide \in 1..16
         /\ c.oscFrequency \in 0..15 /\ c.prechargePhase1 \in 1..15
         /\ c.prechargePhase2 \in 1..15 /\ c.contrast \in 1..255
         /\ c.displayOffset \in 0..63 /\ c.startLine \in 0..63
         /\ c.maxWriteBytes \in 4..129
         /\ c.comPins \in Binding!FieldRange["comPins"]
         /\ c.chargePumpVoltage \in Binding!FieldRange["chargePumpVoltage"]
         /\ c.iref \in Binding!FieldRange["iref"]
         /\ c.vcomh \in Binding!FieldRange["vcomh"]
  PROVE  \A f \in DOMAIN Binding!FieldRange : c[f] \in Binding!FieldRange[f]
<1>1. /\ DOMAIN Binding!FieldRange =
           {"i2cWrite", "controllerProfile", "width", "height", "i2cAddress",
            "clockDivide", "oscFrequency", "prechargePhase1", "prechargePhase2",
            "contrast", "displayOffset", "startLine", "maxWriteBytes", "comPins",
            "chargePumpVoltage", "iref", "vcomh"}
      /\ Binding!FieldRange["i2cWrite"] = {TRUE}
      /\ Binding!FieldRange["controllerProfile"] = {"SSD1315"}
      /\ Binding!FieldRange["width"] = 1..128
      /\ Binding!FieldRange["i2cAddress"] = {60, 61}
      /\ Binding!FieldRange["clockDivide"] = 1..16
      /\ Binding!FieldRange["oscFrequency"] = 0..15
      /\ Binding!FieldRange["prechargePhase1"] = 1..15
      /\ Binding!FieldRange["prechargePhase2"] = 1..15
      /\ Binding!FieldRange["contrast"] = 1..255
      /\ Binding!FieldRange["displayOffset"] = 0..63
      /\ Binding!FieldRange["startLine"] = 0..63
      /\ Binding!FieldRange["maxWriteBytes"] = 4..129
  BY DEF Binding!FieldRange, Binding!MAX_WIDTH
<1>2. ASSUME NEW f \in DOMAIN Binding!FieldRange PROVE c[f] \in Binding!FieldRange[f]
  <2>1. CASE f \in {"controllerProfile", "width", "height", "i2cAddress", "clockDivide"}
    BY <1>1, <2>1
  <2>2. CASE f \in {"oscFrequency", "prechargePhase1", "prechargePhase2", "contrast",
                   "displayOffset", "startLine"}
    BY <1>1, <2>2
  <2>3. CASE f \in {"maxWriteBytes", "comPins", "chargePumpVoltage", "iref", "vcomh"}
    BY <1>1, <2>3
  <2>4. CASE f = "i2cWrite"
    BY <1>1, <2>4, Zenon
  <2> QED BY <1>1, <2>1, <2>2, <2>3, <2>4
<1> QED BY <1>2

\* A preset overlays an admissible configuration with an admissible one: the
\* geometry it sets is the largest, so that the RAM window still fits.
LEMMA ProfileIsValid ==
  ASSUME NEW c \in Binding!ConfigType, Binding!ValidConfig(c),
         c.externalBuffer = NoBuffer, NEW profile
  PROVE  Binding!ValidConfig(Binding!ApplyPanelProfile(c, profile))
<1>1. CASE profile \notin DOMAIN Binding!Preset
  BY <1>1 DEF Binding!ApplyPanelProfile
<1>2. CASE profile \in DOMAIN Binding!Preset
  <2>1. PICK o : o = Binding!Overlay(c, Binding!CommonPreset) OBVIOUS
  <2>2. PICK r : r = Binding!Overlay(o, Binding!Preset[profile]) OBVIOUS
  <2>3. r = Binding!ApplyPanelProfile(c, profile)
    BY <1>2, <2>1, <2>2 DEF Binding!ApplyPanelProfile
  <2>4. /\ o \in Binding!ConfigType
        /\ o.width = 128 /\ o.height = 64 /\ o.startLine = 0 /\ o.displayOffset = 0
        /\ o.prechargePhase1 = 2 /\ o.prechargePhase2 = 2 /\ o.clockDivide = 1
        /\ o.controllerProfile = "SSD1315" /\ o.comPins = "ALTERNATIVE_NO_REMAP"
        /\ o.i2cWrite = c.i2cWrite /\ o.i2cAddress = c.i2cAddress
        /\ o.maxWriteBytes = c.maxWriteBytes /\ o.i2cTimeoutMs = c.i2cTimeoutMs
        /\ o.byteBudgetPerTick = c.byteBudgetPerTick
        /\ o.pageBufferPages = c.pageBufferPages
        /\ o.externalBuffer = c.externalBuffer
        /\ o.externalBufferSizeBytes = c.externalBufferSizeBytes
    BY <2>1, CommonFields
  <2>5. /\ r \in Binding!ConfigType
        /\ r.contrast \in 1..255 /\ r.oscFrequency \in 0..15
        /\ r.vcomh \in Binding!FieldRange["vcomh"]
        /\ r.chargePumpVoltage \in Binding!FieldRange["chargePumpVoltage"]
        /\ r.iref \in Binding!FieldRange["iref"]
        /\ r.width = 128 /\ r.height = 64 /\ r.startLine = 0 /\ r.displayOffset = 0
        /\ r.prechargePhase1 = 2 /\ r.prechargePhase2 = 2 /\ r.clockDivide = 1
        /\ r.controllerProfile = "SSD1315" /\ r.comPins = "ALTERNATIVE_NO_REMAP"
        /\ r.i2cWrite = c.i2cWrite /\ r.i2cAddress = c.i2cAddress
        /\ r.maxWriteBytes = c.maxWriteBytes /\ r.i2cTimeoutMs = c.i2cTimeoutMs
        /\ r.byteBudgetPerTick = c.byteBudgetPerTick
        /\ r.pageBufferPages = c.pageBufferPages
        /\ r.externalBuffer = c.externalBuffer
        /\ r.externalBufferSizeBytes = c.externalBufferSizeBytes
    BY <1>2, <2>2, <2>4, OwnFields
  <2>6. /\ {"i2cWrite", "i2cAddress", "maxWriteBytes"} \subseteq DOMAIN Binding!FieldRange
        /\ Binding!FieldRange["i2cWrite"] = {TRUE}
        /\ Binding!FieldRange["i2cAddress"] = {60, 61}
        /\ Binding!FieldRange["maxWriteBytes"] = 4..129
        /\ "ALTERNATIVE_NO_REMAP" \in Binding!FieldRange["comPins"]
    BY DEF Binding!FieldRange, Binding!MAX_WIDTH
  <2>7. c["i2cWrite"] \in {TRUE} /\ c["i2cAddress"] \in {60, 61}
        /\ c["maxWriteBytes"] \in 4..129
    BY <2>6 DEF Binding!ValidConfig
  <2>8. 64 \in Binding!FieldRange["height"]
    <3>1. Binding!FieldRange["height"] = {8 * n : n \in 2..8}
      BY DEF Binding!FieldRange, Binding!PAGE_ROWS, Binding!MAX_HEIGHT
    <3>2. 64 = 8 * 8 /\ 8 \in 2..8 OBVIOUS
    <3> QED BY <3>1, <3>2
  <2>9. \A f \in DOMAIN Binding!FieldRange : r[f] \in Binding!FieldRange[f]
    <3>1. r.i2cWrite \in {TRUE} BY <2>5, <2>7, Zenon
    <3>2. /\ r.controllerProfile \in {"SSD1315"} /\ r.width \in 1..128
          /\ r.height \in Binding!FieldRange["height"] /\ r.i2cAddress \in {60, 61}
          /\ r.clockDivide \in 1..16 /\ r.prechargePhase1 \in 1..15
          /\ r.prechargePhase2 \in 1..15 /\ r.displayOffset \in 0..63
          /\ r.startLine \in 0..63 /\ r.maxWriteBytes \in 4..129
          /\ r.comPins \in Binding!FieldRange["comPins"]
      BY <2>5, <2>6, <2>7, <2>8
    <3> QED BY <2>5, <3>1, <3>2, FieldByField
  <2>10. /\ Binding!TotalPagesOf(r) = 8
         /\ c.pageBufferPages \in 1..8
    BY <2>5, ValidFacts, ConfigFields DEF Binding!TotalPagesOf, Binding!PAGE_ROWS
  <2>11. /\ c.i2cTimeoutMs > 0 /\ c.byteBudgetPerTick > 0
         /\ c.externalBufferSizeBytes = 0
    BY DEF Binding!ValidConfig
  <2>12. Binding!ValidConfig(r)
    BY <2>5, <2>9, <2>10, <2>11 DEF Binding!ValidConfig
  <2> QED BY <2>3, <2>12
<1> QED BY <1>1, <1>2

-----------------------------------------------------------------------------
\* Steps of the binding

\* A call that does not bind leaves the invariant as it is.
LEMMA UnboundKeeps ==
  ASSUME BindingInv, Binding!Unbound, prepared' \in Binding!ConfigType
  PROVE  BindingInv'
BY DEF BindingInv, BindingTyped, UnboundHasNone, FramebufferIsSound, Binding!Unbound,
       Binding!BufferIsLive, Binding!BorrowsWhatWasGiven, Binding!AdmittedIsUsable

LEMMA PreparedTyped == BindingInv => prepared \in Binding!ConfigType
BY DEF BindingInv, BindingTyped

LEMMA AttachKeeps == ASSUME BindingInv, Binding!Attach PROVE BindingInv'
<1>1. prepared' = prepared BY DEF Binding!Attach
<1>2. CASE ~Binding!Refused(prepared) /\ Binding!AttachAccepted(prepared)
  BY <1>1, <1>2, AcceptedIsSound DEF Binding!Attach
<1>3. CASE Binding!Unbound BY <1>1, <1>3, PreparedTyped, UnboundKeeps
<1> QED BY <1>2, <1>3 DEF Binding!Attach

LEMMA BeginKeeps == ASSUME BindingInv, Binding!Begin PROVE BindingInv'
<1>1. prepared' = prepared /\ Binding!Usable(prepared) BY DEF Binding!Begin
<1>2. CASE ~Binding!Refused(prepared) /\ Binding!AttachAccepted(prepared)
  BY <1>1, <1>2, AcceptedIsSound
<1>3. CASE Binding!Unbound BY <1>1, <1>3, PreparedTyped, UnboundKeeps
<1> QED BY <1>2, <1>3 DEF Binding!Begin

LEMMA DetachKeeps == ASSUME BindingInv, Binding!Detach PROVE BindingInv'
<1>1. heap = IF owned THEN {buffer} ELSE {}
  BY DEF BindingInv, FramebufferIsSound, Binding!BufferIsLive
<1>2. /\ attached' = FALSE /\ owned' = FALSE /\ busy' = FALSE
      /\ held' = Binding!Defaults /\ buffer' = Binding!NoBlock /\ prepared' = prepared
      /\ heap' = {}
  BY <1>1 DEF Binding!Detach, Binding!Freed
<1>3. Binding!NoBlock \in [at : Nat, size : Nat]
  BY DEF Binding!NoBlock, Binding!Block
<1>4. BindingTyped' BY <1>2, <1>3, PreparedTyped, DefaultsAreTyped DEF BindingTyped
<1> QED
  BY <1>2, <1>4 DEF BindingInv, UnboundHasNone, FramebufferIsSound, Binding!BufferIsLive,
     Binding!BorrowsWhatWasGiven, Binding!AdmittedIsUsable

LEMMA BindingStepKeeps == ASSUME BindingInv, Binding!Next PROVE BindingInv'
<1>1. CASE Binding!Prepare
  <2>1. prepared' \in Binding!ConfigType
    BY <1>1, BookkeepingAssumption DEF Binding!Prepare, Binding!MemoryAssumption
  <2> QED BY <1>1, <2>1, UnboundKeeps DEF Binding!Prepare
<1>2. ASSUME NEW profile \in Profiles, Binding!ApplyProfile(profile) PROVE BindingInv'
  <2>1. prepared' \in Binding!ConfigType
    BY <1>2, PreparedTyped, ProfileIsTyped DEF Binding!ApplyProfile
  <2> QED BY <1>2, <2>1, UnboundKeeps DEF Binding!ApplyProfile
<1>3. CASE Binding!Work
  BY <1>3 DEF Binding!Work, BindingInv, BindingTyped, UnboundHasNone, FramebufferIsSound,
     Binding!BufferIsLive, Binding!BorrowsWhatWasGiven, Binding!AdmittedIsUsable
<1> QED BY <1>1, <1>2, <1>3, AttachKeeps, BeginKeeps, DetachKeeps DEF Binding!Next

LEMMA BindingIsSound == SpecBookkeeping => []BindingInv
<1>1. InitBookkeeping => BindingInv
  <2> SUFFICES ASSUME Binding!Init PROVE BindingInv BY DEF InitBookkeeping
  <2>1. prepared \in Binding!ConfigType
    BY BookkeepingAssumption DEF Binding!Init, Binding!MemoryAssumption
  <2>2. Binding!NoBlock \in [at : Nat, size : Nat]
    BY DEF Binding!NoBlock, Binding!Block
  <2> QED
    BY <2>1, <2>2, DefaultsAreTyped DEF Binding!Init, BindingInv, BindingTyped,
       UnboundHasNone, FramebufferIsSound, Binding!BufferIsLive,
       Binding!BorrowsWhatWasGiven, Binding!AdmittedIsUsable
<1>2. BindingInv /\ [NextBookkeeping]_all => BindingInv'
  <2> SUFFICES ASSUME BindingInv, [NextBookkeeping]_all PROVE BindingInv'
    OBVIOUS
  <2>1. CASE UNCHANGED binding
    BY <2>1 DEF binding, BindingInv, BindingTyped, UnboundHasNone, FramebufferIsSound,
       Binding!BufferIsLive, Binding!BorrowsWhatWasGiven, Binding!AdmittedIsUsable
  <2>2. CASE Binding!Next BY <2>2, BindingStepKeeps
  <2> QED
    BY <2>1, <2>2 DEF NextBookkeeping, OnHealth, OnBinding, OnSettings, all
<1> QED BY <1>1, <1>2, PTL DEF SpecBookkeeping

\* Through any sequence of attach(), begin(), presets and detach(), and wherever new
\* finds memory, the framebuffer is live, of the right size, nobody else's, and the
\* configuration in force one that the driver can work with.
THEOREM FramebufferStaysSound == SpecBookkeeping => []FramebufferIsSound
<1>1. BindingInv => FramebufferIsSound BY DEF BindingInv
<1> QED BY <1>1, BindingIsSound, PTL

-----------------------------------------------------------------------------
\* What works is kept

\* begin() tests before attach() everything for which the blocking operation that
\* follows could be refused.
LEMMA AcceptedBeginRuns ==
  ASSUME NEW c, ~(Binding!NeedsClock(c) /\ ~c.nowMs)
  PROVE  ~Binding!BlockingRefused(c, IF Binding!WillResync(c) THEN "RESYNC" ELSE "INITIALIZE")
BY DEF Binding!BlockingRefused, Binding!WillResync, Binding!NeedsClock

LEMMA FailureKeeps ==
  ASSUME Binding!Next
  PROVE  call'.done \/ UNCHANGED <<attached, held, buffer, owned, heap>>
<1>1. CASE Binding!Begin
  <2> DEFINE kind == IF Binding!WillResync(prepared) THEN "RESYNC" ELSE "INITIALIZE"
             refused == (Binding!NeedsClock(prepared) /\ ~prepared.nowMs)
                          \/ Binding!Refused(prepared)
  <2>1. CASE ~refused /\ call' = [kind |-> "begin",
                                  done |-> ~Binding!BlockingRefused(prepared, kind)]
    <3>1. ~Binding!BlockingRefused(prepared, kind) BY <2>1, AcceptedBeginRuns
    <3> HIDE DEF kind
    <3> QED BY <2>1, <3>1
  <2>2. CASE Binding!Unbound BY <2>2 DEF Binding!Unbound
  <2> QED BY <1>1, <2>1, <2>2 DEF Binding!Begin
<1>2. CASE Binding!Attach BY <1>2 DEF Binding!Attach, Binding!Unbound
<1>3. CASE Binding!Detach \/ Binding!Work \/ Binding!Prepare
  BY <1>3 DEF Binding!Detach, Binding!Work, Binding!Prepare, Binding!Unbound
<1>4. ASSUME NEW profile \in Profiles, Binding!ApplyProfile(profile)
      PROVE  UNCHANGED <<attached, held, buffer, owned, heap>>
  BY <1>4 DEF Binding!ApplyProfile, Binding!Unbound
<1> QED BY <1>1, <1>2, <1>3, <1>4 DEF Binding!Next

LEMMA BusyKeeps ==
  ASSUME Binding!Next, busy
  PROVE  UNCHANGED <<held, buffer>> \/ call'.kind = "detach"
<1>1. CASE Binding!Attach \/ Binding!Begin
  BY <1>1 DEF Binding!Attach, Binding!Begin, Binding!Refused, Binding!Unbound
<1>2. CASE Binding!Detach
  BY <1>2, Zenon DEF Binding!Detach
<1>3. CASE Binding!Work \/ Binding!Prepare
  BY <1>3 DEF Binding!Work, Binding!Prepare, Binding!Unbound
<1>4. ASSUME NEW profile \in Profiles, Binding!ApplyProfile(profile)
      PROVE  UNCHANGED <<held, buffer>>
  BY <1>4 DEF Binding!ApplyProfile, Binding!Unbound
<1> QED BY <1>1, <1>2, <1>3, <1>4 DEF Binding!Next

LEMMA PresetKeeps ==
  ASSUME BindingInv, Binding!Next, call'.kind = "profile",
         prepared.externalBuffer = NoBuffer, Binding!ValidConfig(prepared)
  PROVE  Binding!ValidConfig(prepared')
<1>1. ASSUME NEW profile \in Profiles, Binding!ApplyProfile(profile)
      PROVE  Binding!ValidConfig(prepared')
  BY <1>1, PreparedTyped, ProfileIsValid DEF Binding!ApplyProfile
<1>2. CASE Binding!Attach \/ Binding!Begin
  BY <1>2 DEF Binding!Attach, Binding!Begin
<1>3. CASE Binding!Detach \/ Binding!Work \/ Binding!Prepare
  BY <1>3 DEF Binding!Detach, Binding!Work, Binding!Prepare
<1> QED BY <1>1, <1>2, <1>3 DEF Binding!Next

\* A call that fails keeps the binding, work in progress keeps its framebuffer until
\* the owner detaches, and no preset makes an admissible configuration inadmissible.
THEOREM WorkingIsKept == SpecBookkeeping => WhatWorksIsKept
<1>1. [NextBookkeeping]_all => [Binding!Next]_(Binding!vars)
  BY DEF NextBookkeeping, OnHealth, OnBinding, OnSettings, all, binding, Binding!vars
<1>2. BindingInv /\ [Binding!Next]_(Binding!vars) =>
        /\ [call'.done \/ UNCHANGED <<attached, held, buffer, owned, heap>>]_(Binding!vars)
        /\ [busy => UNCHANGED <<held, buffer>> \/ call'.kind = "detach"]_(Binding!vars)
        /\ [call'.kind = "profile" /\ prepared.externalBuffer = NoBuffer
              /\ Binding!ValidConfig(prepared)
              => Binding!ValidConfig(prepared')]_(Binding!vars)
  BY FailureKeeps, BusyKeeps, PresetKeeps
<1> QED
  BY <1>1, <1>2, BindingIsSound, PTL
     DEF SpecBookkeeping, WhatWorksIsKept, Binding!FailedCallKeepsBinding,
         Binding!BufferStableWhileBusy, Binding!PresetKeepsValid

-----------------------------------------------------------------------------
\* The settings: what a transaction does to the registers

LEMMA RegistersNamed ==
  /\ DOMAIN PowerOnReset = Set!Registers
  /\ \A c : DOMAIN Set!Programmed(c) = Set!Registers
BY BookkeepingAssumption DEF Set!SettingsAssumption, Set!Registers, Set!Programmed

\* Whatever part of a transaction arrives, only its registers change.
LEMMA ExecutedElsewhere ==
  ASSUME NEW d, NEW t, NEW n, NEW e, e = Set!Executed(d, t, n)
  PROVE  /\ e = [r \in DOMAIN d |-> e[r]] /\ DOMAIN e = DOMAIN d
         /\ \A r \in DOMAIN d : (\A i \in 1..n : t[i].reg # r) => e[r] = d[r]
<1>1. e = [r \in DOMAIN d |->
             LET hits == {i \in 1..n : t[i].reg = r}
             IN  IF hits = {} THEN d[r] ELSE Set!Decoded(t[CHOOSE i \in hits : TRUE])]
  BY DEF Set!Executed
<1> QED BY <1>1

LEMMA ExecutedOne ==
  ASSUME NEW d, NEW g, NEW v, NEW e, e = Set!Executed(d, <<Set!Send(g, v)>>, 1)
  PROVE  e = [r \in DOMAIN d |-> IF r = g THEN Set!Decoded(Set!Send(g, v)) ELSE d[r]]
<1> DEFINE t == <<Set!Send(g, v)>>
<1>1. t[1] = Set!Send(g, v) /\ Set!Send(g, v).reg = g BY DEF Set!Send
<1> HIDE DEF t
<1>2. e = [r \in DOMAIN d |->
             IF {i \in 1..1 : t[i].reg = r} = {} THEN d[r]
             ELSE Set!Decoded(t[CHOOSE i \in {i \in 1..1 : t[i].reg = r} : TRUE])]
  BY DEF Set!Executed, t
<1>3. ASSUME NEW r \in DOMAIN d
      PROVE  e[r] = IF r = g THEN Set!Decoded(Set!Send(g, v)) ELSE d[r]
  <2> DEFINE hits == {i \in 1..1 : t[i].reg = r}
  <2>1. e[r] = IF hits = {} THEN d[r] ELSE Set!Decoded(t[CHOOSE i \in hits : TRUE])
    BY <1>2
  <2>2. CASE r = g
    <3>1. hits = {1} BY <1>1, <2>2
    <3> HIDE DEF hits
    <3>2. (CHOOSE i \in hits : TRUE) = 1 BY <3>1
    <3> QED BY <1>1, <2>1, <2>2, <3>1, <3>2
  <2>3. CASE r # g
    <3>1. hits = {} BY <1>1, <2>3
    <3> QED BY <2>1, <2>3, <3>1
  <2> QED BY <2>2, <2>3
<1> QED BY <1>2, <1>3

LEMMA ExecutedTwo ==
  ASSUME NEW d, NEW g, NEW v, NEW h, NEW w, g # h,
         NEW e, e = Set!Executed(d, <<Set!Send(g, v), Set!Send(h, w)>>, 2)
  PROVE  e = [r \in DOMAIN d |-> IF r = g THEN Set!Decoded(Set!Send(g, v))
                                 ELSE IF r = h THEN Set!Decoded(Set!Send(h, w)) ELSE d[r]]
<1> DEFINE t == <<Set!Send(g, v), Set!Send(h, w)>>
<1>1. /\ t[1] = Set!Send(g, v) /\ Set!Send(g, v).reg = g
      /\ t[2] = Set!Send(h, w) /\ Set!Send(h, w).reg = h
  BY DEF Set!Send
<1> HIDE DEF t
<1>2. e = [r \in DOMAIN d |->
             IF {i \in 1..2 : t[i].reg = r} = {} THEN d[r]
             ELSE Set!Decoded(t[CHOOSE i \in {i \in 1..2 : t[i].reg = r} : TRUE])]
  BY DEF Set!Executed, t
<1>3. ASSUME NEW r \in DOMAIN d
      PROVE  e[r] = IF r = g THEN Set!Decoded(Set!Send(g, v))
                    ELSE IF r = h THEN Set!Decoded(Set!Send(h, w)) ELSE d[r]
  <2> DEFINE hits == {i \in 1..2 : t[i].reg = r}
  <2>1. e[r] = IF hits = {} THEN d[r] ELSE Set!Decoded(t[CHOOSE i \in hits : TRUE])
    BY <1>2
  <2>2. CASE r = g
    <3>1. hits = {1} BY <1>1, <2>2
    <3> HIDE DEF hits
    <3>2. (CHOOSE i \in hits : TRUE) = 1 BY <3>1
    <3> QED BY <1>1, <2>1, <2>2, <3>1, <3>2
  <2>3. CASE r = h
    <3>1. hits = {2} BY <1>1, <2>3
    <3> HIDE DEF hits
    <3>2. (CHOOSE i \in hits : TRUE) = 2 BY <3>1
    <3> QED BY <1>1, <2>1, <2>3, <3>1, <3>2
  <2>4. CASE r # g /\ r # h
    <3>1. hits = {} BY <1>1, <2>4
    <3> QED BY <2>1, <2>4, <3>1
  <2> QED BY <2>2, <2>3, <2>4
<1> QED BY <1>2, <1>3

\* Most registers take the argument as it is.
LEMMA DecodedPlain ==
  ASSUME NEW g, NEW v,
         g \notin {"clock", "precharge", "startLine", "displayOffset", "fade"}
  PROVE  Set!Decoded(Set!Send(g, v)) = v
BY DEF Set!Decoded, Set!Send

\* The codes of an admissible configuration decode to what it says.
LEMMA DecodedFields ==
  ASSUME NEW c, c.startLine \in 0..63, c.displayOffset \in 0..63,
         c.clockDivide \in 1..16, c.oscFrequency \in 0..15,
         c.prechargePhase1 \in 1..15, c.prechargePhase2 \in 1..15
  PROVE  /\ Set!Decoded(Set!Send("startLine", c.startLine % 64)) = c.startLine
         /\ Set!Decoded(Set!Send("displayOffset", c.displayOffset)) = c.displayOffset
         /\ Set!Decoded(Set!Send("clock", Set!ClockCode(c)))
              = [oscFrequency |-> c.oscFrequency, clockDivide |-> c.clockDivide]
         /\ Set!Decoded(Set!Send("precharge", Set!PrechargeCode(c)))
              = [phase1 |-> c.prechargePhase1, phase2 |-> c.prechargePhase2]
         /\ Set!Decoded(Set!Send("fade", Set!FadeCode("OFF", 0)))
              = [mode |-> 0, interval |-> 0]
<1>1. Set!Decoded(Set!Send("startLine", c.startLine % 64)) = c.startLine
  BY DEF Set!Decoded, Set!Send
<1>2. Set!Decoded(Set!Send("displayOffset", c.displayOffset)) = c.displayOffset
  BY DEF Set!Decoded, Set!Send
<1>3. Set!Decoded(Set!Send("clock", Set!ClockCode(c)))
        = [oscFrequency |-> c.oscFrequency, clockDivide |-> c.clockDivide]
  <2>1. PICK v : v = Set!ClockCode(c) OBVIOUS
  <2>2. v = 16 * c.oscFrequency + (c.clockDivide - 1) BY <2>1 DEF Set!ClockCode
  <2>3. v \div 16 = c.oscFrequency /\ (v % 16) + 1 = c.clockDivide BY <2>2
  <2>4. Set!Decoded(Set!Send("clock", v))
          = [oscFrequency |-> v \div 16, clockDivide |-> (v % 16) + 1]
    BY DEF Set!Decoded, Set!Send
  <2> QED BY <2>1, <2>3, <2>4
<1>4. Set!Decoded(Set!Send("precharge", Set!PrechargeCode(c)))
        = [phase1 |-> c.prechargePhase1, phase2 |-> c.prechargePhase2]
  <2>1. PICK v : v = Set!PrechargeCode(c) OBVIOUS
  <2>2. v = 16 * c.prechargePhase2 + c.prechargePhase1 BY <2>1 DEF Set!PrechargeCode
  <2>3. v \div 16 = c.prechargePhase2 /\ v % 16 = c.prechargePhase1 BY <2>2
  <2>4. Set!Decoded(Set!Send("precharge", v)) = [phase1 |-> v % 16, phase2 |-> v \div 16]
    BY DEF Set!Decoded, Set!Send
  <2> QED BY <2>1, <2>3, <2>4
<1>5. Set!Decoded(Set!Send("fade", Set!FadeCode("OFF", 0))) = [mode |-> 0, interval |-> 0]
  <2>1. PICK v : v = Set!FadeCode("OFF", 0) OBVIOUS
  <2>2. v = 0 BY <2>1 DEF Set!FadeCode, Set!Code
  <2>3. Set!Decoded(Set!Send("fade", v)) = [mode |-> (v \div 16) * 16, interval |-> v % 16]
    BY DEF Set!Decoded, Set!Send
  <2>4. (v \div 16) * 16 = 0 /\ v % 16 = 0 BY <2>2
  <2> QED BY <2>1, <2>3, <2>4
<1> QED BY <1>1, <1>2, <1>3, <1>4, <1>5

\* The step of initialization that programs a register; none programs the setup of a
\* scroll.
StepOf ==
  [display |-> 1, addressing |-> 2, startLine |-> 3, flipX |-> 4, multiplex |-> 5,
   flipY |-> 6, displayOffset |-> 7, comPins |-> 8, clock |-> 9, precharge |-> 10,
   vcomh |-> 11, contrast |-> 12, iref |-> 13, chargePump |-> 14, scroll |-> 14,
   allOn |-> 15, fade |-> 15, invert |-> 16, zoom |-> 16, area |-> 17, setup |-> 18]

\* What of a configuration the codes need; a setter changes none of it.
Encodable(c) ==
  /\ c.startLine \in 0..63 /\ c.displayOffset \in 0..63
  /\ c.clockDivide \in 1..16 /\ c.oscFrequency \in 0..15
  /\ c.prechargePhase1 \in 1..15 /\ c.prechargePhase2 \in 1..15
  /\ c.height \in 16..64 /\ c.startLine < c.height

\* Step i programs the registers g and h and no others; what it makes of the registers d
\* if they are to become p.
Programs(i, g, h) == \A r \in Set!Registers : StepOf[r] = i <=> r \in {g, h}
AfterStep(d, p, i) == [r \in Set!Registers |-> IF StepOf[r] = i THEN p[r] ELSE d[r]]

\* Each register holds what the configuration says of it.
IsProgrammed(p, c) ==
  /\ p["display"] = FALSE /\ p["addressing"] = "HORIZONTAL"
  /\ p["startLine"] = c.startLine /\ p["flipX"] = c.flipX
  /\ p["multiplex"] = c.height - 1 /\ p["flipY"] = c.flipY
  /\ p["displayOffset"] = c.displayOffset
  /\ p["comPins"] = Set!Code.comPins[c.comPins]
  /\ p["clock"] = [oscFrequency |-> c.oscFrequency, clockDivide |-> c.clockDivide]
  /\ p["precharge"] = [phase1 |-> c.prechargePhase1, phase2 |-> c.prechargePhase2]
  /\ p["vcomh"] = c.vcomh /\ p["contrast"] = c.contrast /\ p["iref"] = c.iref
  /\ p["chargePump"] = c.chargePumpVoltage /\ p["scroll"] = FALSE
  /\ p["allOn"] = FALSE /\ p["fade"] = [mode |-> 0, interval |-> 0]
  /\ p["invert"] = c.invert /\ p["zoom"] = FALSE
  /\ p["area"] = [top |-> 0, rows |-> c.height]
  /\ p["setup"] = [kind |-> "NONE", offset |-> 0]

LEMMA ProgrammedFields ==
  ASSUME NEW c, NEW p, p = Set!Programmed(c)
  PROVE  /\ p = [r \in Set!Registers |-> p[r]] /\ DOMAIN p = Set!Registers
         /\ IsProgrammed(p, c)
<1>1. p = [r \in Set!Registers |-> p[r]] /\ DOMAIN p = Set!Registers
  BY DEF Set!Programmed, Set!Registers
<1>2. /\ p["display"] = FALSE /\ p["scroll"] = FALSE /\ p["allOn"] = FALSE
      /\ p["zoom"] = FALSE
  BY DEF Set!Programmed
<1>3. p["comPins"] = Set!Code.comPins[c.comPins]
  BY DEF Set!Programmed
<1>4. /\ p["addressing"] = "HORIZONTAL"
      /\ p["startLine"] = c.startLine /\ p["flipX"] = c.flipX
      /\ p["multiplex"] = c.height - 1 /\ p["flipY"] = c.flipY
      /\ p["displayOffset"] = c.displayOffset
      /\ p["vcomh"] = c.vcomh /\ p["contrast"] = c.contrast /\ p["iref"] = c.iref
      /\ p["chargePump"] = c.chargePumpVoltage /\ p["invert"] = c.invert
  BY DEF Set!Programmed
<1>5. /\ p["clock"] = [oscFrequency |-> c.oscFrequency, clockDivide |-> c.clockDivide]
      /\ p["precharge"] = [phase1 |-> c.prechargePhase1, phase2 |-> c.prechargePhase2]
      /\ p["fade"] = [mode |-> 0, interval |-> 0]
      /\ p["area"] = [top |-> 0, rows |-> c.height]
      /\ p["setup"] = [kind |-> "NONE", offset |-> 0]
  BY DEF Set!Programmed
<1> QED BY <1>1, <1>2, <1>3, <1>4, <1>5 DEF IsProgrammed

\* One step, of one command or two, programs its registers and leaves the others.
LEMMA StepOfOne ==
  ASSUME NEW p, NEW i, NEW d, DOMAIN d = Set!Registers,
         NEW t, NEW g \in Set!Registers, NEW v, t = <<Set!Send(g, v)>>,
         Set!Decoded(Set!Send(g, v)) = p[g],
         Programs(i, g, g)
  PROVE  Set!Executed(d, t, Len(t)) = AfterStep(d, p, i)
<1>1. Len(t) = 1 OBVIOUS
<1>2. Set!Executed(d, t, 1)
        = [r \in Set!Registers |-> IF r = g THEN Set!Decoded(Set!Send(g, v)) ELSE d[r]]
  BY ExecutedOne
<1> QED BY <1>1, <1>2 DEF Programs, AfterStep

\* A transaction of two commands that set g and h as p says.
Sends(t, p, g, h) ==
  g # h /\ \E v, w : /\ t = <<Set!Send(g, v), Set!Send(h, w)>>
                    /\ Set!Decoded(Set!Send(g, v)) = p[g]
                    /\ Set!Decoded(Set!Send(h, w)) = p[h]

LEMMA StepOfTwo ==
  ASSUME NEW p, NEW i, NEW d, DOMAIN d = Set!Registers, NEW t,
         NEW g \in Set!Registers, NEW h \in Set!Registers,
         Sends(t, p, g, h), Programs(i, g, h)
  PROVE  Set!Executed(d, t, Len(t)) = AfterStep(d, p, i)
<1>1. PICK v, w : /\ t = <<Set!Send(g, v), Set!Send(h, w)>>
                  /\ Set!Decoded(Set!Send(g, v)) = p[g]
                  /\ Set!Decoded(Set!Send(h, w)) = p[h]
  BY DEF Sends
<1>2. Len(t) = 2 /\ g # h BY <1>1 DEF Sends
<1>3. Set!Executed(d, t, 2)
        = [r \in Set!Registers |-> IF r = g THEN Set!Decoded(Set!Send(g, v))
                                   ELSE IF r = h THEN Set!Decoded(Set!Send(h, w)) ELSE d[r]]
  BY <1>1, <1>2, ExecutedTwo
<1> QED BY <1>1, <1>2, <1>3 DEF Programs, AfterStep

\* A step of initialization that arrives programs its registers with what the
\* configuration says.
LEMMA InitStepPrograms ==
  ASSUME NEW c, Encodable(c), NEW i \in 1..17, NEW d, DOMAIN d = Set!Registers,
         NEW t, t = Set!InitSteps(c)[i], NEW p, p = Set!Programmed(c)
  PROVE  Set!Executed(d, t, Len(t)) = AfterStep(d, p, i)
<1>0. IsProgrammed(p, c) BY ProgrammedFields
<1>1. CASE i = 1
  <2>1. PICK v : v = FALSE OBVIOUS
  <2>2. t = <<Set!Send("display", v)>> BY <1>1, <2>1 DEF Set!InitSteps
  <2>3. Set!Decoded(Set!Send("display", v)) = p["display"]
    <3>1. Set!Decoded(Set!Send("display", v)) = v BY DecodedPlain
    <3>2. p["display"] = v BY <1>0, <2>1, Zenon DEF IsProgrammed
    <3> QED BY <3>1, <3>2
  <2>4. "display" \in Set!Registers /\ Programs(i, "display", "display")
    BY <1>1 DEF Programs, StepOf, Set!Registers
  <2> QED BY <2>2, <2>3, <2>4, StepOfOne
<1>2. CASE i = 2
  <2>1. PICK v : v = "HORIZONTAL" OBVIOUS
  <2>2. t = <<Set!Send("addressing", v)>> BY <1>2, <2>1 DEF Set!InitSteps
  <2>3. Set!Decoded(Set!Send("addressing", v)) = p["addressing"]
    BY <1>0, <2>1, DecodedPlain DEF IsProgrammed
  <2>4. "addressing" \in Set!Registers /\ Programs(i, "addressing", "addressing")
    BY <1>2 DEF Programs, StepOf, Set!Registers
  <2> QED BY <2>2, <2>3, <2>4, StepOfOne
<1>3. CASE i = 3
  <2>1. PICK v : v = c.startLine % 64 OBVIOUS
  <2>2. t = <<Set!Send("startLine", v)>> BY <1>3, <2>1 DEF Set!InitSteps
  <2>3. Set!Decoded(Set!Send("startLine", v)) = p["startLine"]
    BY <1>0, <2>1, DecodedFields DEF Encodable, IsProgrammed
  <2>4. "startLine" \in Set!Registers /\ Programs(i, "startLine", "startLine")
    BY <1>3 DEF Programs, StepOf, Set!Registers
  <2> QED BY <2>2, <2>3, <2>4, StepOfOne
<1>4. CASE i = 4
  <2>1. PICK v : v = c.flipX OBVIOUS
  <2>2. t = <<Set!Send("flipX", v)>> BY <1>4, <2>1 DEF Set!InitSteps
  <2>3. Set!Decoded(Set!Send("flipX", v)) = p["flipX"]
    BY <1>0, <2>1, DecodedPlain DEF IsProgrammed
  <2>4. "flipX" \in Set!Registers /\ Programs(i, "flipX", "flipX")
    BY <1>4 DEF Programs, StepOf, Set!Registers
  <2> QED BY <2>2, <2>3, <2>4, StepOfOne
<1>5. CASE i = 5
  <2>1. PICK v : v = c.height - 1 OBVIOUS
  <2>2. t = <<Set!Send("multiplex", v)>> BY <1>5, <2>1 DEF Set!InitSteps
  <2>3. Set!Decoded(Set!Send("multiplex", v)) = p["multiplex"]
    BY <1>0, <2>1, DecodedPlain DEF IsProgrammed
  <2>4. "multiplex" \in Set!Registers /\ Programs(i, "multiplex", "multiplex")
    BY <1>5 DEF Programs, StepOf, Set!Registers
  <2> QED BY <2>2, <2>3, <2>4, StepOfOne
<1>6. CASE i = 6
  <2>1. PICK v : v = c.flipY OBVIOUS
  <2>2. t = <<Set!Send("flipY", v)>> BY <1>6, <2>1 DEF Set!InitSteps
  <2>3. Set!Decoded(Set!Send("flipY", v)) = p["flipY"]
    BY <1>0, <2>1, DecodedPlain DEF IsProgrammed
  <2>4. "flipY" \in Set!Registers /\ Programs(i, "flipY", "flipY")
    BY <1>6 DEF Programs, StepOf, Set!Registers
  <2> QED BY <2>2, <2>3, <2>4, StepOfOne
<1>7. CASE i = 7
  <2>1. PICK v : v = c.displayOffset OBVIOUS
  <2>2. t = <<Set!Send("displayOffset", v)>> BY <1>7, <2>1 DEF Set!InitSteps
  <2>3. Set!Decoded(Set!Send("displayOffset", v)) = p["displayOffset"]
    BY <1>0, <2>1, DecodedFields DEF Encodable, IsProgrammed
  <2>4. "displayOffset" \in Set!Registers /\ Programs(i, "displayOffset", "displayOffset")
    BY <1>7 DEF Programs, StepOf, Set!Registers
  <2> QED BY <2>2, <2>3, <2>4, StepOfOne
<1>8. CASE i = 8
  <2>1. PICK v : v = Set!Code.comPins[c.comPins] OBVIOUS
  <2>2. t = <<Set!Send("comPins", v)>> BY <1>8, <2>1 DEF Set!InitSteps
  <2>3. Set!Decoded(Set!Send("comPins", v)) = p["comPins"]
    BY <1>0, <2>1, DecodedPlain DEF IsProgrammed
  <2>4. "comPins" \in Set!Registers /\ Programs(i, "comPins", "comPins")
    BY <1>8 DEF Programs, StepOf, Set!Registers
  <2> QED BY <2>2, <2>3, <2>4, StepOfOne
<1>9. CASE i = 9
  <2>1. PICK v : v = Set!ClockCode(c) OBVIOUS
  <2>2. t = <<Set!Send("clock", v)>> BY <1>9, <2>1 DEF Set!InitSteps
  <2>3. Set!Decoded(Set!Send("clock", v)) = p["clock"]
    BY <1>0, <2>1, DecodedFields DEF Encodable, IsProgrammed
  <2>4. "clock" \in Set!Registers /\ Programs(i, "clock", "clock")
    BY <1>9 DEF Programs, StepOf, Set!Registers
  <2> QED BY <2>2, <2>3, <2>4, StepOfOne
<1>10. CASE i = 10
  <2>1. PICK v : v = Set!PrechargeCode(c) OBVIOUS
  <2>2. t = <<Set!Send("precharge", v)>> BY <1>10, <2>1 DEF Set!InitSteps
  <2>3. Set!Decoded(Set!Send("precharge", v)) = p["precharge"]
    BY <1>0, <2>1, DecodedFields DEF Encodable, IsProgrammed
  <2>4. "precharge" \in Set!Registers /\ Programs(i, "precharge", "precharge")
    BY <1>10 DEF Programs, StepOf, Set!Registers
  <2> QED BY <2>2, <2>3, <2>4, StepOfOne
<1>11. CASE i = 11
  <2>1. PICK v : v = c.vcomh OBVIOUS
  <2>2. t = <<Set!Send("vcomh", v)>> BY <1>11, <2>1 DEF Set!InitSteps
  <2>3. Set!Decoded(Set!Send("vcomh", v)) = p["vcomh"]
    BY <1>0, <2>1, DecodedPlain DEF IsProgrammed
  <2>4. "vcomh" \in Set!Registers /\ Programs(i, "vcomh", "vcomh")
    BY <1>11 DEF Programs, StepOf, Set!Registers
  <2> QED BY <2>2, <2>3, <2>4, StepOfOne
<1>12. CASE i = 12
  <2>1. PICK v : v = c.contrast OBVIOUS
  <2>2. t = <<Set!Send("contrast", v)>> BY <1>12, <2>1 DEF Set!InitSteps
  <2>3. Set!Decoded(Set!Send("contrast", v)) = p["contrast"]
    BY <1>0, <2>1, DecodedPlain DEF IsProgrammed
  <2>4. "contrast" \in Set!Registers /\ Programs(i, "contrast", "contrast")
    BY <1>12 DEF Programs, StepOf, Set!Registers
  <2> QED BY <2>2, <2>3, <2>4, StepOfOne
<1>13. CASE i = 13
  <2>1. PICK v : v = c.iref OBVIOUS
  <2>2. t = <<Set!Send("iref", v)>> BY <1>13, <2>1 DEF Set!InitSteps
  <2>3. Set!Decoded(Set!Send("iref", v)) = p["iref"]
    BY <1>0, <2>1, DecodedPlain DEF IsProgrammed
  <2>4. "iref" \in Set!Registers /\ Programs(i, "iref", "iref")
    BY <1>13 DEF Programs, StepOf, Set!Registers
  <2> QED BY <2>2, <2>3, <2>4, StepOfOne
<1>14. CASE i = 14
  <2>1. PICK v, w : v = c.chargePumpVoltage /\ w = FALSE OBVIOUS
  <2>2. t = <<Set!Send("chargePump", v), Set!Send("scroll", w)>>
    BY <1>14, <2>1 DEF Set!InitSteps
  <2>3. Set!Decoded(Set!Send("chargePump", v)) = p["chargePump"]
    BY <1>0, <2>1, DecodedPlain DEF IsProgrammed
  <2>4. Set!Decoded(Set!Send("scroll", w)) = p["scroll"]
    <3>1. Set!Decoded(Set!Send("scroll", w)) = w BY DecodedPlain
    <3>2. p["scroll"] = w BY <1>0, <2>1, Zenon DEF IsProgrammed
    <3> QED BY <3>1, <3>2
  <2>5. /\ "chargePump" \in Set!Registers /\ "scroll" \in Set!Registers
        /\ "chargePump" # "scroll"
        /\ Programs(i, "chargePump", "scroll")
    BY <1>14 DEF Programs, StepOf, Set!Registers
  <2>6. Sends(t, p, "chargePump", "scroll") BY <2>2, <2>3, <2>4, <2>5 DEF Sends
  <2> QED BY <2>5, <2>6, StepOfTwo
<1>15. CASE i = 15
  <2>1. PICK v, w : v = FALSE /\ w = Set!FadeCode("OFF", 0) OBVIOUS
  <2>2. t = <<Set!Send("allOn", v), Set!Send("fade", w)>>
    BY <1>15, <2>1 DEF Set!InitSteps
  <2>3. Set!Decoded(Set!Send("allOn", v)) = p["allOn"]
    <3>1. Set!Decoded(Set!Send("allOn", v)) = v BY DecodedPlain
    <3>2. p["allOn"] = v BY <1>0, <2>1, Zenon DEF IsProgrammed
    <3> QED BY <3>1, <3>2
  <2>4. Set!Decoded(Set!Send("fade", w)) = p["fade"]
    BY <1>0, <2>1, DecodedFields DEF Encodable, IsProgrammed
  <2>5. /\ "allOn" \in Set!Registers /\ "fade" \in Set!Registers /\ "allOn" # "fade"
        /\ Programs(i, "allOn", "fade")
    BY <1>15 DEF Programs, StepOf, Set!Registers
  <2>6. Sends(t, p, "allOn", "fade") BY <2>2, <2>3, <2>4, <2>5 DEF Sends
  <2> QED BY <2>5, <2>6, StepOfTwo
<1>16. CASE i = 16
  <2>1. PICK v, w : v = c.invert /\ w = FALSE OBVIOUS
  <2>2. t = <<Set!Send("invert", v), Set!Send("zoom", w)>>
    BY <1>16, <2>1 DEF Set!InitSteps
  <2>3. Set!Decoded(Set!Send("invert", v)) = p["invert"]
    BY <1>0, <2>1, DecodedPlain DEF IsProgrammed
  <2>4. Set!Decoded(Set!Send("zoom", w)) = p["zoom"]
    <3>1. Set!Decoded(Set!Send("zoom", w)) = w BY DecodedPlain
    <3>2. p["zoom"] = w BY <1>0, <2>1, Zenon DEF IsProgrammed
    <3> QED BY <3>1, <3>2
  <2>5. /\ "invert" \in Set!Registers /\ "zoom" \in Set!Registers /\ "invert" # "zoom"
        /\ Programs(i, "invert", "zoom")
    BY <1>16 DEF Programs, StepOf, Set!Registers
  <2>6. Sends(t, p, "invert", "zoom") BY <2>2, <2>3, <2>4, <2>5 DEF Sends
  <2> QED BY <2>5, <2>6, StepOfTwo
<1>17. CASE i = 17
  <2>1. PICK v : v = [top |-> 0, rows |-> c.height] OBVIOUS
  <2>2. t = <<Set!Send("area", v)>> BY <1>17, <2>1 DEF Set!InitSteps
  <2>3. Set!Decoded(Set!Send("area", v)) = p["area"]
    BY <1>0, <2>1, DecodedPlain DEF IsProgrammed
  <2>4. "area" \in Set!Registers /\ Programs(i, "area", "area")
    BY <1>17 DEF Programs, StepOf, Set!Registers
  <2> QED BY <2>2, <2>3, <2>4, StepOfOne
<1> QED
  BY <1>1, <1>2, <1>3, <1>4, <1>5, <1>6, <1>7, <1>8, <1>9, <1>10, <1>11, <1>12, <1>13,
     <1>14, <1>15, <1>16, <1>17

-----------------------------------------------------------------------------
\* Settings: the invariant

\* The registers that an initialization resets or, the setup, leaves as they are; of
\* the others the driver remembers what it programmed.
Effects == {"allOn", "scroll", "fade", "zoom", "area", "setup"}

OperationKinds == {"NONE", "INITIALIZE", "HORIZONTAL_SCROLL", "VERTICAL_SCROLL"}
SequenceType == [kind : OperationKinds, step : Nat, sent : Nat, offset : Nat]

SettingsTyped ==
  /\ config \in Set!ConfigType /\ Encodable(config)
  /\ {ready, doubt} \subseteq BOOLEAN
  /\ DOMAIN device = Set!Registers
  /\ asked = [r \in Set!Registers |-> asked[r]]
  /\ sequence \in SequenceType /\ sequence.sent = sequence.step
  /\ sequence.kind = "NONE" => sequence = Set!Idle
  /\ sequence.kind = "INITIALIZE" => sequence.step <= 16
  /\ sequence.kind \in {"HORIZONTAL_SCROLL", "VERTICAL_SCROLL"} => sequence.step <= 2

\* What the owner was told is what the driver remembers.
Told ==
  /\ \A r \in Set!Registers \ Effects : asked[r] = Set!Programmed(config)[r]
  /\ ready => /\ asked["allOn"] = allPixelsOn /\ asked["scroll"] = scrollActive
              /\ asked["area"].rows = scrollRows
              /\ asked["area"].top + scrollRows <= config.height
              /\ config.startLine < scrollRows

\* Until an initialization has sent something the controller holds what was told,
\* also inside a scroll operation, if there is no doubt.
Held ==
  ready /\ ~doubt /\ (sequence.kind = "INITIALIZE" => sequence.step = 0) => device = asked

\* An initialization has programmed the registers of the steps behind it.
Programming ==
  sequence.kind = "INITIALIZE" =>
    \A r \in Set!Registers :
      StepOf[r] <= sequence.step => device[r] = Set!Programmed(config)[r]

SettingsInv == SettingsTyped /\ Told /\ Held /\ Programming /\ Set!ScrollStartsInArea

LEMMA StepsOfRegisters ==
  \A r \in Set!Registers : StepOf[r] \in 1..18 /\ (StepOf[r] = 18 <=> r = "setup")
BY DEF StepOf, Set!Registers

LEMMA IdleIsTyped ==
  Set!Idle \in SequenceType /\ Set!Idle.kind = "NONE"
    /\ Set!Idle.step = 0 /\ Set!Idle.sent = 0
BY DEF Set!Idle, SequenceType, OperationKinds

\* What an admissible configuration gives the codes.
LEMMA ValidIsEncodable ==
  ASSUME NEW c \in Set!ConfigType, Set!ValidConfig(c)
  PROVE  Encodable(c)
<1>1. {"startLine", "displayOffset", "clockDivide", "oscFrequency", "prechargePhase1",
       "prechargePhase2", "height"} \subseteq DOMAIN Set!FieldRange
  BY DEF Set!FieldRange
<1>2. /\ c["startLine"] \in Set!FieldRange["startLine"]
      /\ c["displayOffset"] \in Set!FieldRange["displayOffset"]
      /\ c["clockDivide"] \in Set!FieldRange["clockDivide"]
      /\ c["oscFrequency"] \in Set!FieldRange["oscFrequency"]
      /\ c["prechargePhase1"] \in Set!FieldRange["prechargePhase1"]
      /\ c["prechargePhase2"] \in Set!FieldRange["prechargePhase2"]
      /\ c["height"] \in Set!FieldRange["height"]
      /\ c.startLine < c.height
  BY <1>1 DEF Set!ValidConfig
<1>3. c.height \in 16..64
  <2>1. PICK n \in 2..8 : c.height = 8 * n
    BY <1>2 DEF Set!FieldRange, Set!MAX_HEIGHT, Set!PAGE_ROWS
  <2> QED BY <2>1
<1> QED BY <1>2, <1>3 DEF Encodable, Set!FieldRange

\* A setting that the driver remembers is a field of the configuration and the
\* register of the same name, and nothing else.
RememberedFields == {"contrast", "invert", "flipX", "flipY"}

IsSetting(field, v) == IF field = "contrast" THEN v \in Nat ELSE v \in BOOLEAN
With(c, field, v) == [c EXCEPT ![field] = v]

LEMMA SettingOfConfig ==
  ASSUME NEW c \in Set!ConfigType, Encodable(c), NEW field \in RememberedFields, NEW v,
         IsSetting(field, v), NEW b, b = With(c, field, v)
  PROVE  /\ b \in Set!ConfigType /\ Encodable(b)
         /\ b.height = c.height /\ b.startLine = c.startLine
         /\ field \in Set!Registers \ Effects
         /\ \A r \in Set!Registers :
              Set!Programmed(b)[r] = IF r = field THEN v ELSE Set!Programmed(c)[r]
<1>1. b \in Set!ConfigType
  BY DEF RememberedFields, Set!ConfigType, With, IsSetting
<1>2. \A f \in DOMAIN c : b[f] = IF f = field THEN v ELSE c[f]
  BY DEF RememberedFields, With
<1>3. /\ b.startLine = c.startLine /\ b.displayOffset = c.displayOffset
      /\ b.clockDivide = c.clockDivide /\ b.oscFrequency = c.oscFrequency
      /\ b.prechargePhase1 = c.prechargePhase1 /\ b.prechargePhase2 = c.prechargePhase2
      /\ b.height = c.height /\ b.comPins = c.comPins /\ b.vcomh = c.vcomh
      /\ b.iref = c.iref /\ b.chargePumpVoltage = c.chargePumpVoltage
      /\ b.contrast = IF field = "contrast" THEN v ELSE c.contrast
      /\ b.invert = IF field = "invert" THEN v ELSE c.invert
      /\ b.flipX = IF field = "flipX" THEN v ELSE c.flipX
      /\ b.flipY = IF field = "flipY" THEN v ELSE c.flipY
  BY <1>2 DEF RememberedFields, Set!ConfigType
<1>4. Encodable(b) BY <1>3 DEF Encodable
<1>5. field \in Set!Registers \ Effects
  BY DEF RememberedFields, Set!Registers, Effects
<1>6. ASSUME NEW r \in Set!Registers
      PROVE  Set!Programmed(b)[r] = IF r = field THEN v ELSE Set!Programmed(c)[r]
  <2>1. PICK p, q : p = Set!Programmed(c) /\ q = Set!Programmed(b) OBVIOUS
  <2>2. IsProgrammed(p, c) /\ IsProgrammed(q, b) BY <2>1, ProgrammedFields
  <2>3. /\ q["display"] = p["display"] /\ q["scroll"] = p["scroll"]
        /\ q["allOn"] = p["allOn"] /\ q["zoom"] = p["zoom"]
    BY <2>2, Zenon DEF IsProgrammed
  <2>4. /\ q["addressing"] = p["addressing"] /\ q["startLine"] = p["startLine"]
        /\ q["multiplex"] = p["multiplex"] /\ q["displayOffset"] = p["displayOffset"]
        /\ q["vcomh"] = p["vcomh"] /\ q["iref"] = p["iref"]
        /\ q["chargePump"] = p["chargePump"]
    BY <1>3, <2>2 DEF IsProgrammed
  <2>5. /\ q["comPins"] = p["comPins"] /\ q["clock"] = p["clock"]
        /\ q["precharge"] = p["precharge"] /\ q["fade"] = p["fade"]
        /\ q["area"] = p["area"] /\ q["setup"] = p["setup"]
    BY <1>3, <2>2 DEF IsProgrammed
  <2>6. /\ q["contrast"] = IF field = "contrast" THEN v ELSE p["contrast"]
        /\ q["invert"] = IF field = "invert" THEN v ELSE p["invert"]
        /\ q["flipX"] = IF field = "flipX" THEN v ELSE p["flipX"]
        /\ q["flipY"] = IF field = "flipY" THEN v ELSE p["flipY"]
    BY <1>3, <2>2 DEF IsProgrammed
  <2>7. q[r] = IF r = field THEN v ELSE p[r]
    BY <2>3, <2>4, <2>5, <2>6 DEF Set!Registers, RememberedFields
  <2> QED BY <2>1, <2>7
<1> QED BY <1>1, <1>3, <1>4, <1>5, <1>6

-----------------------------------------------------------------------------
\* Settings: the transactions

LEMMA Transferred ==
  ASSUME DOMAIN device = Set!Registers, NEW t, NEW outcome, Set!Transfer(t, outcome)
  PROVE  /\ DOMAIN device' = Set!Registers
         /\ outcome = "OK" => device' = Set!Executed(device, t, Len(t))
         /\ outcome = "NACK_ADDRESS" => device' = Set!Executed(device, t, 0)
<1>1. PICK n \in Set!Arrives(t, outcome) : device' = Set!Executed(device, t, n)
  BY DEF Set!Transfer
<1>2. /\ outcome = "OK" => n = Len(t)
      /\ outcome = "NACK_ADDRESS" => n = 0
  BY <1>1 DEF Set!Arrives
<1>3. DOMAIN device' = DOMAIN device BY <1>1, ExecutedElsewhere
<1> QED BY <1>1, <1>2, <1>3

LEMMA ExecutedNothing ==
  ASSUME NEW d, d = [r \in Set!Registers |-> d[r]], NEW t
  PROVE  Set!Executed(d, t, 0) = d
<1> DEFINE e == Set!Executed(d, t, 0)
<1>1. e = [r \in DOMAIN d |-> e[r]]
      /\ \A r \in DOMAIN d : (\A i \in 1..0 : t[i].reg # r) => e[r] = d[r]
  BY ExecutedElsewhere
<1> HIDE DEF e
<1>2. \A r \in DOMAIN d : e[r] = d[r] BY <1>1
<1>3. DOMAIN d = Set!Registers OBVIOUS
<1>4. e = d BY <1>1, <1>2, <1>3
<1> QED BY <1>4 DEF e

\* A direct command that is acknowledged does to the controller what the owner is told;
\* one that is not leaves doubt.
LEMMA DirectHolds ==
  ASSUME SettingsInv, NEW g, NEW v, NEW outcome, Set!Direct(Set!Send(g, v), outcome)
  PROVE  /\ Held' /\ Programming' /\ Set!ScrollStartsInArea'
         /\ DOMAIN device' = Set!Registers
         /\ asked' = [r \in Set!Registers |-> asked'[r]]
         /\ ready' = ready /\ doubt' \in BOOLEAN /\ sequence' = sequence
         /\ outcome = "OK" => \A r \in Set!Registers :
              asked'[r] = IF r = g THEN Set!Decoded(Set!Send(g, v)) ELSE asked[r]
         /\ outcome # "OK" => asked' = asked
<1> DEFINE t == <<Set!Send(g, v)>>
<1>1. /\ sequence.kind = "NONE" /\ ready
      /\ Set!Transfer(t, outcome)
      /\ doubt' = (doubt \/ outcome # "OK")
      /\ asked' = IF outcome = "OK" THEN Set!Executed(asked, t, 1) ELSE asked
      /\ ready' = ready /\ sequence' = sequence
  BY DEF Set!Direct, Set!Active
<1>2. /\ DOMAIN device = Set!Registers /\ asked = [r \in Set!Registers |-> asked[r]]
      /\ DOMAIN asked = Set!Registers
  BY DEF SettingsInv, SettingsTyped
<1>3. Len(t) = 1 OBVIOUS
<1>4. /\ DOMAIN device' = Set!Registers
      /\ outcome = "OK" => device' = Set!Executed(device, t, 1)
  BY <1>1, <1>2, <1>3, Transferred
<1>5. Set!Executed(asked, t, 1)
        = [r \in Set!Registers |-> IF r = g THEN Set!Decoded(Set!Send(g, v)) ELSE asked[r]]
  BY <1>2, ExecutedOne
<1> HIDE DEF t
<1>6. Held'
  <2> SUFFICES ASSUME ~doubt' PROVE device' = asked' BY DEF Held
  <2>1. ~doubt /\ outcome = "OK" BY <1>1
  <2>2. device = asked BY <1>1, <2>1 DEF SettingsInv, Held
  <2> QED BY <1>1, <1>4, <2>1, <2>2
<1>7. Programming' /\ Set!ScrollStartsInArea'
  BY <1>1 DEF Programming, Set!ScrollStartsInArea
<1>8. asked' = [r \in Set!Registers |-> asked'[r]]
  BY <1>1, <1>2, <1>5
<1>9. outcome = "OK" => \A r \in Set!Registers :
        asked'[r] = IF r = g THEN Set!Decoded(Set!Send(g, v)) ELSE asked[r]
  BY <1>1, <1>5
<1>10. doubt' \in BOOLEAN BY <1>1
<1> QED BY <1>1, <1>4, <1>6, <1>7, <1>8, <1>9, <1>10

-----------------------------------------------------------------------------
\* Settings: the setters

\* What a direct command keeps if what the owner is told stays what the driver
\* remembers.
LEMMA DirectKeeps ==
  ASSUME SettingsInv, NEW g, NEW v, NEW outcome, Set!Direct(Set!Send(g, v), outcome),
         config' \in Set!ConfigType, Encodable(config'), Told'
  PROVE  SettingsInv'
<1>1. /\ Held' /\ Programming' /\ Set!ScrollStartsInArea'
      /\ DOMAIN device' = Set!Registers
      /\ asked' = [r \in Set!Registers |-> asked'[r]]
      /\ ready' = ready /\ doubt' \in BOOLEAN /\ sequence' = sequence
  BY DirectHolds
<1>2. SettingsTyped'
  BY <1>1 DEF SettingsInv, SettingsTyped
<1> QED BY <1>1, <1>2 DEF SettingsInv

\* A failed command changes nothing that was told or remembered.
LEMMA FailedDirectKeeps ==
  ASSUME SettingsInv, NEW g, NEW v, NEW outcome, Set!Direct(Set!Send(g, v), outcome),
         outcome # "OK", UNCHANGED <<config, allPixelsOn, scrollActive, scrollRows>>
  PROVE  SettingsInv'
<1>1. asked' = asked /\ ready' = ready BY DirectHolds
<1>2. Told' BY <1>1 DEF SettingsInv, Told
<1>3. config' \in Set!ConfigType /\ Encodable(config') BY DEF SettingsInv, SettingsTyped
<1> QED BY <1>2, <1>3, DirectKeeps

\* The names of registers, each where its proof needs it.
LEMMA EffectNames ==
  /\ Effects \subseteq Set!Registers /\ {"area", "scroll", "allOn"} \subseteq Effects
  /\ "fade" \in Effects /\ "zoom" \in Effects
BY DEF Effects, Set!Registers

LEMMA SetRegisterKeeps ==
  ASSUME SettingsInv, NEW field \in RememberedFields, NEW v,
         IsSetting(field, v),
         NEW outcome, Set!SetRegister(field, v, outcome)
  PROVE  SettingsInv'
<1>1. /\ Set!Direct(Set!Send(field, v), outcome)
      /\ config' = IF outcome = "OK" THEN [config EXCEPT ![field] = v] ELSE config
      /\ UNCHANGED <<allPixelsOn, scrollActive, scrollRows>>
  BY DEF Set!SetRegister, Set!Remember
<1>2. CASE outcome # "OK" BY <1>1, <1>2, FailedDirectKeeps
<1>3. CASE outcome = "OK"
  <2>1. config \in Set!ConfigType /\ Encodable(config) BY DEF SettingsInv, SettingsTyped
  <2>2. PICK b : b = With(config, field, v) OBVIOUS
  <2>3. /\ b \in Set!ConfigType /\ Encodable(b)
        /\ b.height = config.height /\ b.startLine = config.startLine
        /\ field \in Set!Registers \ Effects
        /\ \A r \in Set!Registers :
             Set!Programmed(b)[r] = IF r = field THEN v ELSE Set!Programmed(config)[r]
    BY <2>1, <2>2, SettingOfConfig
  <2>4. config' = b BY <1>1, <1>3, <2>2 DEF With
  <2>5. PICK a : a = asked' OBVIOUS
  <2>6. Set!Decoded(Set!Send(field, v)) = v
    BY DecodedPlain DEF RememberedFields
  <2>7. \A r \in Set!Registers : a[r] = IF r = field THEN v ELSE asked[r]
    BY <1>1, <1>3, <2>5, <2>6, DirectHolds
  <2>8. ready' = ready BY <1>1, DirectHolds
  <2>9. \A r \in Set!Registers \ Effects : a[r] = Set!Programmed(b)[r]
    BY <2>3, <2>7 DEF SettingsInv, Told
  <2>10. /\ a["area"] = asked["area"] /\ a["scroll"] = asked["scroll"]
         /\ a["allOn"] = asked["allOn"]
    BY <2>3, <2>7, EffectNames
  <2>11. ready => /\ a["allOn"] = allPixelsOn /\ a["scroll"] = scrollActive
                  /\ a["area"].rows = scrollRows
                  /\ a["area"].top + scrollRows <= b.height
                  /\ b.startLine < scrollRows
    BY <2>3, <2>10 DEF SettingsInv, Told
  <2>12. Told' BY <1>1, <2>4, <2>5, <2>8, <2>9, <2>11 DEF Told
  <2> QED BY <1>1, <2>3, <2>4, <2>12, DirectKeeps
<1> QED BY <1>2, <1>3

\* A command for an effect, of which the driver may remember the last that was
\* acknowledged.
LEMMA EffectKeeps ==
  ASSUME SettingsInv, NEW g \in Effects, NEW v, NEW outcome,
         Set!Direct(Set!Send(g, v), outcome), outcome = "OK", config' = config,
         NEW w, w = Set!Decoded(Set!Send(g, v)),
         allPixelsOn' = IF g = "allOn" THEN w ELSE allPixelsOn,
         scrollActive' = IF g = "scroll" THEN w ELSE scrollActive,
         IF g = "area" THEN /\ w.rows = scrollRows' /\ w.top + scrollRows' <= config.height
                            /\ config.startLine < scrollRows'
         ELSE scrollRows' = scrollRows
  PROVE  SettingsInv'
<1>1. PICK a : a = asked' OBVIOUS
<1>2. \A r \in Set!Registers : a[r] = IF r = g THEN w ELSE asked[r]
  BY <1>1, DirectHolds
<1>3. ready' = ready BY DirectHolds
<1>4. ready BY DEF Set!Direct
<1>5. \A r \in Set!Registers \ Effects : a[r] = Set!Programmed(config)[r]
  BY <1>2 DEF SettingsInv, Told
<1>6. /\ a["allOn"] = IF g = "allOn" THEN w ELSE asked["allOn"]
      /\ a["scroll"] = IF g = "scroll" THEN w ELSE asked["scroll"]
      /\ a["area"] = IF g = "area" THEN w ELSE asked["area"]
  BY <1>2, EffectNames
<1>7. /\ asked["allOn"] = allPixelsOn /\ asked["scroll"] = scrollActive
      /\ asked["area"].rows = scrollRows
      /\ asked["area"].top + scrollRows <= config.height
      /\ config.startLine < scrollRows
  BY <1>4 DEF SettingsInv, Told
<1>8. a["allOn"] = allPixelsOn' BY <1>6, <1>7
<1>9. a["scroll"] = scrollActive' BY <1>6, <1>7
<1>10. a["area"].rows = scrollRows' /\ a["area"].top + scrollRows' <= config.height
       /\ config.startLine < scrollRows'
  <2>1. CASE g = "area" BY <1>6, <2>1
  <2>2. CASE g # "area" BY <1>6, <1>7, <2>2
  <2> QED BY <2>1, <2>2
<1>11. Told' BY <1>1, <1>5, <1>8, <1>9, <1>10 DEF Told
<1>12. config' \in Set!ConfigType /\ Encodable(config') BY DEF SettingsInv, SettingsTyped
<1> QED BY <1>11, <1>12, DirectKeeps

LEMMA SetterKeeps ==
  ASSUME SettingsInv, NEW outcome, Set!Setter(outcome)
  PROVE  SettingsInv'
<1>1. ASSUME NEW v \in Contrasts, Set!SetContrast(v, outcome) PROVE SettingsInv'
  <2>1. v \in Nat BY BookkeepingAssumption DEF Set!SettingsAssumption
  <2>2. "contrast" \in RememberedFields BY DEF RememberedFields
  <2> QED BY <1>1, <2>1, <2>2, SetRegisterKeeps DEF Set!SetContrast, IsSetting
<1>2. ASSUME NEW on \in BOOLEAN, NEW f \in Toggles, Set!SetRegister(f, on, outcome)
      PROVE  SettingsInv'
  <2>1. f \in {"invert", "flipX", "flipY"}
    BY BookkeepingAssumption DEF Set!SettingsAssumption
  <2>2. f \in RememberedFields /\ f # "contrast" BY <2>1 DEF RememberedFields
  <2> QED BY <1>2, <2>2, SetRegisterKeeps DEF IsSetting
<1>3. ASSUME NEW on \in BOOLEAN, Set!SetAllPixelsOn(on, outcome) PROVE SettingsInv'
  <2>1. /\ Set!Direct(Set!Send("allOn", on), outcome)
        /\ allPixelsOn' = IF outcome = "OK" THEN on ELSE allPixelsOn
        /\ UNCHANGED <<config, scrollActive, scrollRows>>
    BY <1>3 DEF Set!SetAllPixelsOn
  <2>2. CASE outcome # "OK" BY <2>1, <2>2, FailedDirectKeeps
  <2>3. CASE outcome = "OK"
    <3>1. Set!Decoded(Set!Send("allOn", on)) = on BY DecodedPlain
    <3> QED BY <2>1, <2>3, <3>1, EffectNames, EffectKeeps
  <2> QED BY <2>2, <2>3
<1>4. ASSUME NEW on \in BOOLEAN, Set!SetZoom(on, outcome) PROVE SettingsInv'
  <2>1. /\ Set!Direct(Set!Send("zoom", on), outcome)
        /\ UNCHANGED <<config, allPixelsOn, scrollActive, scrollRows>>
    BY <1>4 DEF Set!SetZoom
  <2>2. CASE outcome # "OK" BY <2>1, <2>2, FailedDirectKeeps
  <2>3. CASE outcome = "OK" BY <2>1, <2>3, EffectNames, EffectKeeps
  <2> QED BY <2>2, <2>3
<1>5. ASSUME NEW f \in Fades, Set!SetFadeMode(f[1], f[2], outcome) PROVE SettingsInv'
  <2>1. PICK code : /\ Set!Direct(Set!Send("fade", code), outcome)
                    /\ UNCHANGED <<config, allPixelsOn, scrollActive, scrollRows>>
    BY <1>5 DEF Set!SetFadeMode
  <2>2. CASE outcome # "OK" BY <2>1, <2>2, FailedDirectKeeps
  <2>3. CASE outcome = "OK" BY <2>1, <2>3, EffectNames, EffectKeeps
  <2> QED BY <2>2, <2>3
<1>6. ASSUME NEW a \in Areas, Set!SetVerticalScrollArea(a[1], a[2], outcome)
      PROVE  SettingsInv'
  <2>1. PICK area : /\ area = [top |-> a[1], rows |-> a[2]]
                    /\ Set!Direct(Set!Send("area", area), outcome)
    BY <1>6 DEF Set!SetVerticalScrollArea
  <2>2. /\ config.startLine < a[2] /\ a[1] + a[2] <= config.height
        /\ scrollRows' = IF outcome = "OK" THEN a[2] ELSE scrollRows
        /\ UNCHANGED <<config, allPixelsOn, scrollActive>>
    BY <1>6 DEF Set!SetVerticalScrollArea, Set!AreaAccepted
  <2>3. CASE outcome # "OK" BY <2>1, <2>2, <2>3, FailedDirectKeeps
  <2>4. CASE outcome = "OK"
    <3>1. Set!Decoded(Set!Send("area", area)) = area BY DecodedPlain
    <3>2. area.rows = a[2] /\ area.top = a[1] BY <2>1
    <3> QED BY <2>1, <2>2, <2>4, <3>1, <3>2, EffectNames, EffectKeeps
  <2> QED BY <2>3, <2>4
<1>7. CASE Set!StopScroll(outcome)
  <2>1. PICK off : /\ off = FALSE
                   /\ Set!Direct(Set!Send("scroll", off), outcome)
                   /\ scrollActive' = IF outcome = "OK" THEN off ELSE scrollActive
                   /\ UNCHANGED <<config, allPixelsOn, scrollRows>>
    BY <1>7 DEF Set!StopScroll
  <2>2. CASE outcome # "OK" BY <2>1, <2>2, FailedDirectKeeps
  <2>3. CASE outcome = "OK"
    <3>1. Set!Decoded(Set!Send("scroll", off)) = off BY DecodedPlain
    <3> QED BY <2>1, <2>3, <3>1, EffectNames, EffectKeeps
  <2> QED BY <2>2, <2>3
<1> QED BY <1>1, <1>2, <1>3, <1>4, <1>5, <1>6, <1>7 DEF Set!Setter

-----------------------------------------------------------------------------
\* Settings: attachment and initialization

LEMMA AttachSettingsKeeps ==
  ASSUME SettingsInv, NEW c \in SetConfigs, Set!Attach(c)
  PROVE  SettingsInv'
<1>1. c \in Set!ConfigType /\ Encodable(c)
  BY BookkeepingAssumption, ValidIsEncodable DEF Set!SettingsAssumption
<1>2. /\ config' = c /\ asked' = Set!Programmed(c) /\ ready' = FALSE /\ doubt' = FALSE
      /\ sequence' = sequence /\ device' = device /\ sequence.kind = "NONE"
  BY DEF Set!Attach, Set!Active
<1>3. SettingsTyped'
  <2>1. asked' = [r \in Set!Registers |-> asked'[r]] BY <1>2, ProgrammedFields
  <2> QED BY <1>1, <1>2, <2>1 DEF SettingsInv, SettingsTyped
<1>4. Told' /\ Held' BY <1>2 DEF Told, Held
<1>5. Programming' /\ Set!ScrollStartsInArea'
  BY <1>2 DEF Programming, Set!ScrollStartsInArea
<1> QED BY <1>3, <1>4, <1>5 DEF SettingsInv

LEMMA StartInitializeKeeps ==
  ASSUME SettingsInv, Set!StartInitialize
  PROVE  SettingsInv'
<1>1. /\ UNCHANGED <<config, allPixelsOn, scrollActive, scrollRows, ready, doubt, device,
                      asked>>
      /\ sequence.kind = "NONE"
      /\ sequence' = [Set!Idle EXCEPT !.kind = "INITIALIZE"]
  BY DEF Set!StartInitialize, Set!Active
<1>2. /\ sequence' \in SequenceType /\ sequence'.kind = "INITIALIZE"
      /\ sequence'.step = 0 /\ sequence'.sent = 0
  BY <1>1 DEF Set!Idle, SequenceType, OperationKinds
<1>3. SettingsTyped' BY <1>1, <1>2 DEF SettingsInv, SettingsTyped
<1>4. Told' /\ Held' BY <1>1 DEF SettingsInv, Told, Held
<1>5. Programming' BY <1>2, StepsOfRegisters DEF Programming
<1>6. Set!ScrollStartsInArea' BY <1>2 DEF Set!ScrollStartsInArea
<1> QED BY <1>3, <1>4, <1>5, <1>6 DEF SettingsInv

\* An operation that is over and leaves doubt behind, or was over before it did
\* anything.
LEMMA IdleKeeps ==
  ASSUME SettingsInv, sequence' = Set!Idle, DOMAIN device' = Set!Registers,
         UNCHANGED <<config, allPixelsOn, scrollActive, scrollRows, ready, asked>>,
         doubt' \in BOOLEAN, ~doubt' => /\ device' = device /\ ~doubt
                                        /\ sequence.step = 0
  PROVE  SettingsInv'
<1>1. SettingsTyped' BY IdleIsTyped DEF SettingsInv, SettingsTyped
<1>2. Told' BY DEF SettingsInv, Told
<1>3. Held' BY DEF SettingsInv, Held
<1>4. Programming' /\ Set!ScrollStartsInArea'
  BY IdleIsTyped DEF Programming, Set!ScrollStartsInArea
<1> QED BY <1>1, <1>2, <1>3, <1>4 DEF SettingsInv

LEMMA CancelSettingsKeeps ==
  ASSUME SettingsInv, Set!Cancel
  PROVE  SettingsInv'
<1>1. /\ UNCHANGED <<config, allPixelsOn, scrollActive, scrollRows, ready, device, asked>>
      /\ sequence' = Set!Idle /\ doubt' = (doubt \/ sequence.sent > 0)
  BY DEF Set!Cancel, Set!DoubtAfterEnd
<1>2. /\ sequence.step \in Nat /\ sequence.sent = sequence.step
      /\ DOMAIN device = Set!Registers
  BY DEF SettingsInv, SettingsTyped, SequenceType
<1>3. doubt' \in BOOLEAN BY <1>1
<1>4. ASSUME ~doubt' PROVE ~doubt /\ sequence.step = 0
  <2>1. ~doubt /\ ~(sequence.sent > 0) BY <1>1, <1>4, Zenon
  <2> QED BY <1>2, <2>1
<1> QED BY <1>1, <1>2, <1>3, <1>4, IdleKeeps

\* What an initialization leaves of what was told: what it has programmed, but for the
\* setup of a scroll.
AreRegisters(a) == a = [r \in Set!Registers |-> a[r]]
Remembers(a, p) == \A r \in Set!Registers \ Effects : a[r] = p[r]
ButTheSetup(b, p, d) ==
  \A r \in Set!Registers : b[r] = IF r = "setup" THEN d.setup ELSE p[r]

LEMMA ReplayedIsProgrammed ==
  ASSUME NEW a, AreRegisters(a), NEW c, c.height \in Nat,
         NEW p, p = Set!Programmed(c), Remembers(a, p), NEW d,
         NEW b, b = Set!Replayed(a, d)
  PROVE  AreRegisters(b) /\ ButTheSetup(b, p, d)
<1>1. \A r \in Set!Registers \ Effects : a[r] = p[r] BY DEF Remembers
<1>2. IsProgrammed(p, c) BY ProgrammedFields
<1>3. DOMAIN a = Set!Registers BY DEF AreRegisters
<1>4. b = [r \in Set!Registers |-> b[r]]
  BY <1>3 DEF Set!Replayed
<1>5. PICK off : off = FALSE OBVIOUS
<1>6. PICK fade, area, setup : /\ fade = [mode |-> 0, interval |-> 0]
                               /\ area = [top |-> 0, rows |-> a.multiplex + 1]
                               /\ setup = d.setup
  OBVIOUS
<1>7. b = [a EXCEPT !.display = off, !.allOn = off, !.zoom = off, !.scroll = off,
                    !.fade = fade, !.area = area, !.setup = setup]
  BY <1>5, <1>6 DEF Set!Replayed
<1>8. \A r \in Set!Registers : b[r] =
        IF r \in {"display", "allOn", "zoom", "scroll"} THEN off
        ELSE IF r = "fade" THEN fade ELSE IF r = "area" THEN area
        ELSE IF r = "setup" THEN setup ELSE a[r]
  BY <1>3, <1>7 DEF Set!Registers
<1>9. p["display"] = off /\ p["allOn"] = off /\ p["zoom"] = off /\ p["scroll"] = off
  BY <1>2, <1>5, Zenon DEF IsProgrammed
<1>10. p["fade"] = fade BY <1>2, <1>6 DEF IsProgrammed
<1>11. p["area"] = area
  <2>1. "multiplex" \in Set!Registers \ Effects BY DEF Set!Registers, Effects
  <2>2. a.multiplex = c.height - 1 BY <1>1, <1>2, <2>1 DEF IsProgrammed
  <2>3. a.multiplex + 1 = c.height BY <2>2
  <2> QED BY <1>2, <1>6, <2>3 DEF IsProgrammed
<1>12. \A r \in Set!Registers : b[r] = IF r = "setup" THEN setup ELSE p[r]
  BY <1>1, <1>8, <1>9, <1>10, <1>11 DEF Effects
<1> QED BY <1>4, <1>6, <1>12 DEF AreRegisters, ButTheSetup

\* A step that is done.
Advance(s) == [s EXCEPT !.step = @ + 1, !.sent = @ + 1]

LEMMA Advanced ==
  ASSUME NEW s \in SequenceType, s.sent = s.step, NEW u, u = Advance(s)
  PROVE  /\ u \in SequenceType /\ u.kind = s.kind /\ u.offset = s.offset
         /\ u.step = s.step + 1 /\ u.sent = s.step + 1
<1> DEFINE m == [s EXCEPT !.step = s.step + 1]
<1>1. s.step \in Nat /\ s.sent \in Nat BY DEF SequenceType
<1>2. /\ m \in SequenceType /\ m.kind = s.kind /\ m.offset = s.offset
      /\ m.step = s.step + 1 /\ m.sent = s.sent
  BY <1>1 DEF SequenceType
<1>3. u = [m EXCEPT !.sent = m.sent + 1] BY <1>1, <1>2 DEF Advance, SequenceType
<1> HIDE DEF m
<1> QED BY <1>1, <1>2, <1>3 DEF SequenceType

LEMMA PollInitializeKeeps ==
  ASSUME SettingsInv, NEW outcome, Set!PollInitialize(outcome)
  PROVE  SettingsInv'
<1>1. PICK i : i = sequence.step + 1 OBVIOUS
<1>2. PICK t : t = Set!InitSteps(config)[i] OBVIOUS
<1>3. PICK p : p = Set!Programmed(config) OBVIOUS
<1>4. /\ sequence.kind = "INITIALIZE" /\ sequence.step \in Nat /\ sequence.step <= 16
      /\ sequence \in SequenceType /\ sequence.sent = sequence.step
      /\ DOMAIN device = Set!Registers /\ Encodable(config)
      /\ asked = [r \in Set!Registers |-> asked[r]]
      /\ {ready, doubt} \subseteq BOOLEAN
  BY DEF SettingsInv, SettingsTyped, SequenceType, Set!PollInitialize
<1>5. i \in 1..17 BY <1>1, <1>4
<1>6. Set!Transfer(t, outcome) /\ config' = config
  BY <1>1, <1>2 DEF Set!PollInitialize
<1>7. /\ DOMAIN device' = Set!Registers
      /\ outcome = "OK" => device' = AfterStep(device, p, i)
  BY <1>2, <1>3, <1>4, <1>5, <1>6, Transferred, InitStepPrograms
<1>8. Len(Set!InitSteps(config)) = 17 BY DEF Set!InitSteps
<1>9. outcome = "OK" =>
        \A r \in Set!Registers : StepOf[r] <= i => device'[r] = p[r]
  <2> SUFFICES ASSUME outcome = "OK", NEW r \in Set!Registers, StepOf[r] <= i
               PROVE  device'[r] = p[r]
    OBVIOUS
  <2>1. device'[r] = IF StepOf[r] = i THEN p[r] ELSE device[r]
    BY <1>7 DEF AfterStep
  <2>2. CASE StepOf[r] = i BY <2>1, <2>2
  <2>3. CASE StepOf[r] # i
    <3>1. StepOf[r] <= sequence.step BY <1>1, <1>4, <2>3, StepsOfRegisters
    <3>2. device[r] = p[r] BY <1>3, <1>4, <3>1 DEF SettingsInv, Programming
    <3> QED BY <2>1, <2>3, <3>2
  <2> QED BY <2>2, <2>3
<1>10. CASE outcome # "OK"
  <2>1. /\ sequence' = Set!Idle /\ doubt' = TRUE
        /\ UNCHANGED <<ready, allPixelsOn, scrollActive, scrollRows, asked>>
    BY <1>10 DEF Set!PollInitialize
  <2> QED BY <1>6, <1>7, <2>1, IdleKeeps
<1>11. CASE outcome = "OK" /\ i < 17
  <2>1. /\ sequence' = Advance(sequence)
        /\ UNCHANGED <<ready, doubt, allPixelsOn, scrollActive, scrollRows, asked>>
    BY <1>1, <1>8, <1>11 DEF Set!PollInitialize, Advance
  <2>2. /\ sequence' \in SequenceType /\ sequence'.kind = "INITIALIZE"
        /\ sequence'.step = i /\ sequence'.sent = i
    BY <1>1, <1>4, <2>1, Advanced
  <2>3. SettingsTyped'
    BY <1>5, <1>6, <1>7, <1>11, <2>1, <2>2 DEF SettingsInv, SettingsTyped
  <2>4. Told' BY <1>6, <2>1 DEF SettingsInv, Told
  <2>5. Held' BY <1>5, <2>2 DEF Held
  <2>6. Programming' BY <1>3, <1>6, <1>9, <1>11, <2>2 DEF Programming
  <2>7. Set!ScrollStartsInArea' BY <2>2 DEF Set!ScrollStartsInArea
  <2> QED BY <2>3, <2>4, <2>5, <2>6, <2>7 DEF SettingsInv
<1>12. CASE outcome = "OK" /\ i = 17
  <2>1. /\ ready' = TRUE /\ doubt' = FALSE /\ allPixelsOn' = FALSE /\ scrollActive' = FALSE
        /\ scrollRows' = config.height /\ asked' = Set!Replayed(asked, device)
        /\ sequence' = Set!Idle
    BY <1>1, <1>8, <1>12 DEF Set!PollInitialize, Set!Initialized
  <2>2. PICK a : a = asked' OBVIOUS
  <2>3. /\ config.height \in Nat /\ config.startLine < config.height
    BY <1>4 DEF Encodable
  <2>4. /\ a = [r \in Set!Registers |-> a[r]]
        /\ \A r \in Set!Registers : a[r] = IF r = "setup" THEN device.setup ELSE p[r]
    <3>1. PICK b : b = asked OBVIOUS
    <3>2. Remembers(b, p) BY <1>3, <3>1 DEF SettingsInv, Told, Remembers
    <3>3. AreRegisters(b) BY <1>4, <3>1 DEF AreRegisters
    <3>4. a = Set!Replayed(b, device) BY <2>1, <2>2, <3>1
    <3>5. AreRegisters(a) /\ ButTheSetup(a, p, device)
      BY <1>3, <2>3, <3>2, <3>3, <3>4, ReplayedIsProgrammed
    <3> QED BY <3>5 DEF AreRegisters, ButTheSetup
  <2>5. device' = a
    <3>1. PICK d : d = device' OBVIOUS
    <3>2. d = [r \in Set!Registers |-> d[r]]
      BY <1>7, <1>12, <3>1 DEF AfterStep
    <3>3. ASSUME NEW r \in Set!Registers PROVE d[r] = a[r]
      <4>1. CASE r = "setup"
        <5>1. d[r] = device[r]
          BY <1>7, <1>12, <3>1, <4>1, StepsOfRegisters DEF AfterStep
        <5> QED BY <2>4, <4>1, <5>1
      <4>2. CASE r # "setup"
        <5>1. StepOf[r] <= i BY <1>12, <4>2, StepsOfRegisters
        <5> QED BY <1>9, <1>12, <2>4, <3>1, <4>2, <5>1
      <4> QED BY <4>1, <4>2
    <3> QED BY <2>4, <3>1, <3>2, <3>3
  <2>6. SettingsTyped'
    BY <1>6, <1>7, <2>1, <2>2, <2>4, IdleIsTyped DEF SettingsInv, SettingsTyped
  <2>7. Told'
    <3>1. \A r \in Set!Registers \ Effects : a[r] = p[r] BY <2>4 DEF Effects
    <3>2. /\ a["allOn"] = p["allOn"] /\ a["scroll"] = p["scroll"] /\ a["area"] = p["area"]
      BY <2>4, EffectNames
    <3>3. IsProgrammed(p, config) BY <1>3, ProgrammedFields
    <3>4. a["allOn"] = allPixelsOn' /\ a["scroll"] = scrollActive'
      BY <2>1, <3>2, <3>3, Zenon DEF IsProgrammed
    <3>5. a["area"].rows = config.height /\ a["area"].top = 0
      BY <3>2, <3>3 DEF IsProgrammed
    <3> QED BY <1>3, <1>6, <2>1, <2>2, <2>3, <3>1, <3>4, <3>5 DEF Told
  <2>8. Held' BY <2>2, <2>5 DEF Held
  <2>9. Programming' /\ Set!ScrollStartsInArea'
    BY <2>1, IdleIsTyped DEF Programming, Set!ScrollStartsInArea
  <2> QED BY <2>6, <2>7, <2>8, <2>9 DEF SettingsInv
<1> QED BY <1>5, <1>10, <1>11, <1>12

-----------------------------------------------------------------------------
\* Settings: scroll, raw commands, reset of the panel

LEMMA StartScrollKeeps ==
  ASSUME SettingsInv, NEW kind \in {"HORIZONTAL_SCROLL", "VERTICAL_SCROLL"},
         NEW offset \in Nat, NEW bytes, Set!StartScroll(kind, offset, bytes),
         kind = "VERTICAL_SCROLL" => offset < scrollRows
  PROVE  SettingsInv'
<1>1. /\ sequence' = [Set!Idle EXCEPT !.kind = kind, !.offset = offset]
      /\ sequence.kind = "NONE" /\ ready /\ ~doubt
      /\ UNCHANGED <<config, allPixelsOn, scrollActive, scrollRows, ready, doubt, device,
                      asked>>
  BY DEF Set!StartScroll, Set!Active
<1>2. /\ sequence' \in SequenceType /\ sequence'.kind = kind /\ sequence'.offset = offset
      /\ sequence'.step = 0 /\ sequence'.sent = 0
  BY <1>1 DEF Set!Idle, SequenceType, OperationKinds
<1>3. device = asked BY <1>1 DEF SettingsInv, Held
<1>4. SettingsTyped' BY <1>1, <1>2 DEF SettingsInv, SettingsTyped
<1>5. Told' BY <1>1 DEF SettingsInv, Told
<1>6. Held' BY <1>1, <1>3 DEF Held
<1>7. Programming' BY <1>2 DEF Programming
<1>8. Set!ScrollStartsInArea'
  <2>1. device.area.rows = scrollRows BY <1>1, <1>3 DEF SettingsInv, Told
  <2> QED BY <1>1, <1>2, <2>1 DEF Set!ScrollStartsInArea
<1> QED BY <1>4, <1>5, <1>6, <1>7, <1>8 DEF SettingsInv

\* The transactions of a scroll: each one command, for the scroll itself or its setup.
LEMMA ScrollTransactions ==
  ASSUME NEW i \in 1..3
  PROVE  \E g, v :
           /\ g \in {"scroll", "setup"}
           /\ Set!ScrollSteps[i] = <<Set!Send(g, v)>>
           /\ i # 2 => g = "scroll" /\ v = (i = 3)
           /\ i = 2 => g = "setup"
<1>1. CASE i = 1
  <2>1. PICK off : off = FALSE OBVIOUS
  <2>2. Set!ScrollSteps[i] = <<Set!Send("scroll", off)>> BY <1>1, <2>1 DEF Set!ScrollSteps
  <2>3. i # 3 BY <1>1
  <2>4. off = (i = 3) BY <2>1, <2>3, Zenon
  <2> QED BY <1>1, <2>2, <2>4
<1>2. CASE i = 2
  <2>1. PICK s : s = [kind |-> sequence.kind, offset |-> sequence.offset] OBVIOUS
  <2>2. Set!ScrollSteps[i] = <<Set!Send("setup", s)>> BY <1>2, <2>1 DEF Set!ScrollSteps
  <2> QED BY <1>2, <2>2
<1>3. CASE i = 3
  <2>1. PICK on : on = TRUE OBVIOUS
  <2>2. Set!ScrollSteps[i] = <<Set!Send("scroll", on)>> BY <1>3, <2>1 DEF Set!ScrollSteps
  <2>3. on = (i = 3) BY <1>3, <2>1, Zenon
  <2> QED BY <1>3, <2>2, <2>3
<1> QED BY <1>1, <1>2, <1>3

\* Whatever arrives of a command for another register, the scroll area stays.
LEMMA AreaStays ==
  ASSUME DOMAIN device = Set!Registers, NEW g, g # "area", NEW v, NEW outcome,
         Set!Transfer(<<Set!Send(g, v)>>, outcome)
  PROVE  device'["area"] = device["area"]
<1> DEFINE t == <<Set!Send(g, v)>>
<1>1. PICK n \in Set!Arrives(t, outcome) : device' = Set!Executed(device, t, n)
  BY DEF Set!Transfer
<1>2. Len(t) = 1 /\ t[1].reg = g BY DEF Set!Send
<1> HIDE DEF t
<1>3. n \in 0..1 BY <1>2 DEF Set!Arrives
<1>4. \A i \in 1..n : t[i].reg # "area" BY <1>2, <1>3
<1>5. "area" \in DOMAIN device BY EffectNames
<1> QED BY <1>1, <1>4, <1>5, ExecutedElsewhere

LEMMA PollScrollKeeps ==
  ASSUME SettingsInv, NEW outcome, Set!PollScroll(outcome)
  PROVE  SettingsInv'
<1>1. PICK i : i = sequence.step + 1 OBVIOUS
<1>2. /\ sequence.kind \in {"HORIZONTAL_SCROLL", "VERTICAL_SCROLL"}
      /\ sequence.step \in 0..2 /\ i \in 1..3
      /\ sequence \in SequenceType /\ sequence.sent = sequence.step
      /\ DOMAIN device = Set!Registers
      /\ asked = [r \in Set!Registers |-> asked[r]] /\ DOMAIN asked = Set!Registers
      /\ {ready, doubt} \subseteq BOOLEAN
  BY <1>1 DEF SettingsInv, SettingsTyped, SequenceType, Set!PollScroll
<1>3. PICK g, v :
        /\ g \in {"scroll", "setup"}
        /\ Set!ScrollSteps[i] = <<Set!Send(g, v)>>
        /\ i # 2 => g = "scroll" /\ v = (i = 3)
        /\ i = 2 => g = "setup"
  BY <1>2, ScrollTransactions
<1> DEFINE t == <<Set!Send(g, v)>>
<1>4. /\ Set!Transfer(t, outcome)
      /\ doubt' = (doubt \/ outcome # "OK")
      /\ scrollActive' = IF outcome = "OK" /\ sequence.step # 1 THEN sequence.step = 2
                         ELSE scrollActive
      /\ asked' = IF outcome = "OK" THEN Set!Executed(asked, t, 1) ELSE asked
      /\ sequence' = IF outcome = "OK" /\ sequence.step < 2 THEN Advance(sequence)
                     ELSE Set!Idle
      /\ UNCHANGED <<config, allPixelsOn, scrollRows, ready>>
  BY <1>1, <1>3 DEF Set!PollScroll, Advance
<1>5. Len(t) = 1 OBVIOUS
<1>6. /\ DOMAIN device' = Set!Registers
      /\ outcome = "OK" => device' = Set!Executed(device, t, 1)
  BY <1>2, <1>4, <1>5, Transferred
<1>7. device'["area"] = device["area"] BY <1>2, <1>3, <1>4, AreaStays
<1>8. Set!Decoded(Set!Send(g, v)) = v BY <1>3, DecodedPlain
<1>9. Set!Executed(asked, t, 1) = [r \in Set!Registers |-> IF r = g THEN v ELSE asked[r]]
  BY <1>2, <1>8, ExecutedOne
<1> HIDE DEF t
<1>10. CASE outcome # "OK"
  <2>1. UNCHANGED <<scrollActive, asked>> /\ sequence' = Set!Idle BY <1>4, <1>10
  <2>2. doubt' BY <1>4, <1>10, Zenon
  <2>3. doubt' \in BOOLEAN BY <1>4
  <2> QED BY <1>4, <1>6, <2>1, <2>2, <2>3, IdleKeeps
<1>11. CASE outcome = "OK"
  <2>1. PICK a : a = asked' OBVIOUS
  <2>2. a = [r \in Set!Registers |-> IF r = g THEN v ELSE asked[r]]
    BY <1>4, <1>9, <1>11, <2>1
  <2>3. doubt' \in BOOLEAN BY <1>4
  <2>4. doubt' => doubt BY <1>4, <1>11, Zenon
  <2>5. /\ sequence' \in SequenceType /\ sequence'.sent = sequence'.step
        /\ sequence'.kind # "INITIALIZE"
        /\ sequence'.kind = "NONE" => sequence' = Set!Idle
        /\ sequence'.kind # "NONE" => /\ sequence'.kind = sequence.kind
                                      /\ sequence'.step <= 2
                                      /\ sequence'.offset = sequence.offset
    <3>1. CASE sequence.step < 2
      <4>1. PICK s : s = Advance(sequence) OBVIOUS
      <4>2. /\ s \in SequenceType /\ s.kind = sequence.kind /\ s.offset = sequence.offset
            /\ s.step = sequence.step + 1 /\ s.sent = sequence.step + 1
        BY <1>2, <4>1, Advanced
      <4>3. sequence' = s BY <1>4, <1>11, <3>1, <4>1
      <4> QED BY <1>2, <3>1, <4>2, <4>3
    <3>2. CASE ~(sequence.step < 2)
      <4>1. sequence' = Set!Idle BY <1>4, <3>2
      <4> QED BY <4>1, IdleIsTyped
    <3> QED BY <3>1, <3>2
  <2>6. a = [r \in Set!Registers |-> a[r]]
        /\ \A r \in Set!Registers : a[r] = IF r = g THEN v ELSE asked[r]
    BY <2>2
  <2>7. SettingsTyped'
    <3>1. config' \in Set!ConfigType /\ Encodable(config')
      BY <1>4 DEF SettingsInv, SettingsTyped
    <3>2. ready' \in BOOLEAN BY <1>2, <1>4
    <3> QED BY <1>2, <1>6, <2>1, <2>3, <2>5, <2>6, <3>1, <3>2 DEF SettingsTyped
  <2>8. Told'
    <3>1. g \in Effects /\ g # "area" /\ g # "allOn" BY <1>3 DEF Effects
    <3>2. \A r \in Set!Registers \ Effects : a[r] = Set!Programmed(config)[r]
      BY <2>6, <3>1 DEF SettingsInv, Told
    <3>3. /\ a["allOn"] = asked["allOn"] /\ a["area"] = asked["area"]
          /\ a["scroll"] = IF g = "scroll" THEN v ELSE asked["scroll"]
      BY <2>6, <3>1, EffectNames
    <3>4. ASSUME ready PROVE a["scroll"] = scrollActive'
      <4>1. asked["scroll"] = scrollActive BY <3>4 DEF SettingsInv, Told
      <4>2. CASE i = 2
        <5>1. sequence.step = 1 BY <1>1, <1>2, <4>2
        <5>2. g # "scroll" BY <1>3, <4>2
        <5> QED BY <1>4, <3>3, <4>1, <5>1, <5>2
      <4>3. CASE i # 2
        <5>1. sequence.step # 1 BY <1>1, <1>2, <4>3
        <5>2. (sequence.step = 2) <=> (i = 3) BY <1>1, <1>2
        <5>3. (sequence.step = 2) = (i = 3) BY <5>2, Zenon
        <5>4. scrollActive' = (sequence.step = 2) BY <1>4, <1>11, <5>1, Zenon
        <5>5. g = "scroll" /\ v = (i = 3) BY <1>3, <4>3, Zenon
        <5>6. a["scroll"] = v BY <3>3, <5>5, Zenon
        <5> QED BY <5>3, <5>4, <5>5, <5>6, Zenon
      <4> QED BY <4>2, <4>3
    <3>5. ready' = ready BY <1>4
    <3>6. ready' => /\ a["allOn"] = allPixelsOn' /\ a["area"].rows = scrollRows'
                    /\ a["area"].top + scrollRows' <= config'.height
                    /\ config'.startLine < scrollRows'
      BY <1>4, <3>3 DEF SettingsInv, Told
    <3> QED BY <1>4, <2>1, <3>2, <3>4, <3>5, <3>6 DEF Told
  <2>9. Held'
    <3> SUFFICES ASSUME ready', ~doubt' PROVE device' = asked' BY DEF Held
    <3>1. ready BY <1>4
    <3>2. ~doubt BY <1>4, Zenon
    <3>3. device = asked BY <1>2, <3>1, <3>2 DEF SettingsInv, Held
    <3> QED BY <1>4, <1>6, <1>11, <3>3
  <2>10. Programming' BY <2>5 DEF Programming
  <2>11. Set!ScrollStartsInArea'
    BY <1>7, <2>5 DEF SettingsInv, Set!ScrollStartsInArea
  <2> QED BY <2>7, <2>8, <2>9, <2>10, <2>11 DEF SettingsInv
<1> QED BY <1>10, <1>11

LEMMA SendRawCommandKeeps ==
  ASSUME SettingsInv, NEW command, NEW outcome, Set!SendRawCommand(command, outcome)
  PROVE  SettingsInv'
<1>1. /\ sequence.kind = "NONE"
      /\ Set!Transfer(<<command>>, outcome)
      /\ doubt' = (doubt \/ outcome # "NACK_ADDRESS")
      /\ UNCHANGED <<config, allPixelsOn, scrollActive, scrollRows, ready, sequence, asked>>
  BY DEF Set!SendRawCommand, Set!Active
<1>2. DOMAIN device = Set!Registers /\ asked = [r \in Set!Registers |-> asked[r]]
  BY DEF SettingsInv, SettingsTyped
<1>3. /\ DOMAIN device' = Set!Registers
      /\ outcome = "NACK_ADDRESS" => device' = Set!Executed(device, <<command>>, 0)
  BY <1>1, <1>2, Transferred
<1>4. doubt' \in BOOLEAN BY <1>1
<1>5. SettingsTyped' BY <1>1, <1>3, <1>4 DEF SettingsInv, SettingsTyped
<1>6. Told' BY <1>1 DEF SettingsInv, Told
<1>7. Held'
  <2> SUFFICES ASSUME ready', ~doubt' PROVE device' = asked' BY DEF Held
  <2>1. ready BY <1>1
  <2>2. ~doubt /\ outcome = "NACK_ADDRESS" BY <1>1, Zenon
  <2>3. device = asked BY <1>1, <2>1, <2>2 DEF SettingsInv, Held
  <2>4. Set!Executed(asked, <<command>>, 0) = asked BY <1>2, ExecutedNothing
  <2> QED BY <1>1, <1>3, <2>2, <2>3, <2>4
<1>8. Programming' /\ Set!ScrollStartsInArea'
  BY <1>1 DEF Programming, Set!ScrollStartsInArea
<1> QED BY <1>5, <1>6, <1>7, <1>8 DEF SettingsInv

LEMMA InvalidatePanelStateKeeps ==
  ASSUME SettingsInv, Set!InvalidatePanelState
  PROVE  SettingsInv'
<1>1. /\ device' = PowerOnReset /\ doubt' = TRUE /\ sequence' = Set!Idle
      /\ UNCHANGED <<config, allPixelsOn, scrollActive, scrollRows, ready, asked>>
  BY DEF Set!InvalidatePanelState
<1> QED BY <1>1, RegistersNamed, IdleKeeps

-----------------------------------------------------------------------------
\* Settings: every step, and what the invariant says

LEMMA SettingsStepKeeps == ASSUME SettingsInv, Set!Next PROVE SettingsInv'
<1>1. CASE Set!StartHorizontalScroll
  BY <1>1, StartScrollKeeps DEF Set!StartHorizontalScroll
<1>2. ASSUME NEW offset \in Offsets, Set!StartVerticalScroll(offset) PROVE SettingsInv'
  <2>1. offset \in Nat BY BookkeepingAssumption DEF Set!SettingsAssumption
  <2> QED BY <1>2, <2>1, StartScrollKeeps DEF Set!StartVerticalScroll, Set!OffsetAccepted
<1> QED
  BY <1>1, <1>2, AttachSettingsKeeps, StartInitializeKeeps, CancelSettingsKeeps,
     InvalidatePanelStateKeeps, PollInitializeKeeps, PollScrollKeeps, SetterKeeps,
     SendRawCommandKeeps DEF Set!Next

LEMMA SettingsInit == Set!Init => SettingsInv
<1> SUFFICES ASSUME Set!Init PROVE SettingsInv OBVIOUS
<1>1. /\ config \in SetConfigs /\ asked = Set!Programmed(config)
      /\ ready = FALSE /\ doubt = FALSE /\ sequence = Set!Idle /\ device = PowerOnReset
  BY DEF Set!Init
<1>2. config \in Set!ConfigType /\ Encodable(config)
  BY <1>1, BookkeepingAssumption, ValidIsEncodable DEF Set!SettingsAssumption
<1>3. asked = [r \in Set!Registers |-> asked[r]] BY <1>1, ProgrammedFields
<1>4. SettingsTyped BY <1>1, <1>2, <1>3, IdleIsTyped, RegistersNamed DEF SettingsTyped
<1>5. Told /\ Held BY <1>1 DEF Told, Held
<1>6. Programming /\ Set!ScrollStartsInArea
  BY <1>1, IdleIsTyped DEF Programming, Set!ScrollStartsInArea
<1> QED BY <1>4, <1>5, <1>6 DEF SettingsInv

LEMMA InvariantIsTrue == SettingsInv => SettingsAreTrue
<1> SUFFICES ASSUME SettingsInv PROVE SettingsAreTrue OBVIOUS
<1>1. Set!ScrollStartsInArea BY DEF SettingsInv
<1>2. ASSUME ready, sequence.kind = "NONE", ~doubt
      PROVE  /\ device = asked
             /\ device.contrast = config.contrast /\ device.invert = config.invert
             /\ device.flipX = config.flipX /\ device.flipY = config.flipY
             /\ device.allOn = allPixelsOn /\ device.scroll = scrollActive
             /\ device.area.rows = scrollRows
             /\ device.area.top + device.area.rows <= device.multiplex + 1
             /\ device.startLine < device.area.rows
  <2>1. device = asked BY <1>2 DEF SettingsInv, Held
  <2>2. PICK p : p = Set!Programmed(config) OBVIOUS
  <2>3. IsProgrammed(p, config) BY <2>2, ProgrammedFields
  <2>4. {"contrast", "invert", "flipX", "flipY", "multiplex", "startLine"}
          \subseteq Set!Registers \ Effects
    BY DEF Set!Registers, Effects
  <2>5. /\ asked["contrast"] = p["contrast"] /\ asked["invert"] = p["invert"]
        /\ asked["flipX"] = p["flipX"] /\ asked["flipY"] = p["flipY"]
        /\ asked["multiplex"] = p["multiplex"] /\ asked["startLine"] = p["startLine"]
    BY <2>2, <2>4 DEF SettingsInv, Told
  <2>6. /\ asked["contrast"] = config.contrast /\ asked["invert"] = config.invert
        /\ asked["flipX"] = config.flipX /\ asked["flipY"] = config.flipY
        /\ asked["multiplex"] = config.height - 1
        /\ asked["startLine"] = config.startLine
    BY <2>3, <2>5 DEF IsProgrammed
  <2>7. /\ asked["allOn"] = allPixelsOn /\ asked["scroll"] = scrollActive
        /\ asked["area"].rows = scrollRows
        /\ asked["area"].top + scrollRows <= config.height
        /\ config.startLine < scrollRows
    BY <1>2 DEF SettingsInv, Told
  <2>8. config.height \in Nat BY DEF SettingsInv, SettingsTyped, Encodable
  <2>9. config.height - 1 + 1 = config.height BY <2>8
  <2> QED BY <2>1, <2>6, <2>7, <2>9
<1> QED
  BY <1>1, <1>2 DEF SettingsAreTrue, Set!SettingsHeld, Set!MemoryTrue,
     Set!AreaHoldsStartLine, Set!Active

\* Whatever the owner calls, the bus answers and the panel loses, and however much of a
\* transaction that failed has arrived: between operations and without doubt the
\* controller holds what the owner was told, which is what the driver remembers, and a
\* scroll area that holds the start line; and a vertical scroll under way has an offset
\* inside the area that the controller holds.
THEOREM SettingsStayTrue == SpecBookkeeping => []SettingsAreTrue
<1>1. InitBookkeeping => SettingsInv BY SettingsInit DEF InitBookkeeping
<1>2. SettingsInv /\ [NextBookkeeping]_all => SettingsInv'
  <2> SUFFICES ASSUME SettingsInv, [NextBookkeeping]_all PROVE SettingsInv'
    OBVIOUS
  <2>1. CASE UNCHANGED settings
    <3>1. UNCHANGED <<config, allPixelsOn, scrollActive, scrollRows, ready, doubt,
                      sequence, device, asked>>
      BY <2>1 DEF settings
    <3> QED
      BY <3>1 DEF SettingsInv, SettingsTyped, Told, Held, Programming,
         Set!ScrollStartsInArea
  <2>2. CASE Set!Next BY <2>2, SettingsStepKeeps
  <2> QED
    BY <2>1, <2>2 DEF NextBookkeeping, OnHealth, OnBinding, OnSettings, all
<1> QED BY <1>1, <1>2, InvariantIsTrue, PTL DEF SpecBookkeeping
=============================================================================
