------------------------------- MODULE Settings -------------------------------
(***************************************************************************)
(* The settings of the controller: the registers that initialization       *)
(* programs and the setters change, and what the driver remembers of them. *)
(* The controller cannot be read back, so what the driver remembers is all *)
(* that its owner knows.  A result is taken as soon as it is ready.  Power *)
(* and framebuffer are the subject of SSD1315Driver.                       *)
(***************************************************************************)
EXTENDS Config, Sequences

CONSTANTS
  Configs,       \* configurations that the owner attaches
  Contrasts,     \* arguments of setContrast()
  Toggles,       \* which of setInvert(), setFlipX(), setFlipY() the owner calls
  Fades,         \* arguments <<mode, interval>> of setFadeMode()
  Areas,         \* arguments <<topFixedRows, scrollRows>> of setVerticalScrollArea()
  Offsets,       \* verticalOffset of a vertical scroll
  RawCommands,   \* what sendCommand...() sends
  PowerOnReset,  \* the registers after a reset of the controller
  MaxFailures,   \* bound: bus failures in a behaviour
  MaxCalls       \* bound: calls of the owner other than polls

\* The registers of the controller; setup is that of the scroll.
Registers ==
  {"display", "addressing", "startLine", "flipX", "multiplex", "flipY", "displayOffset",
   "comPins", "clock", "precharge", "vcomh", "contrast", "iref", "chargePump", "scroll",
   "allOn", "fade", "invert", "zoom", "area", "setup"}

\* What the constants are; the module that instantiates this one assumes it.
SettingsAssumption ==
  /\ Configs \subseteq ConfigType /\ \A c \in Configs : ValidConfig(c)
  /\ Toggles \subseteq {"invert", "flipX", "flipY"}
  /\ Contrasts \subseteq Nat /\ Offsets \subseteq Nat
  /\ Fades \subseteq {"OFF", "FADE_OUT", "BLINK"} \X (0..16)
  /\ Areas \subseteq Nat \X Nat
  /\ DOMAIN PowerOnReset = Registers
  /\ MaxFailures \in Nat /\ MaxCalls \in Nat

VARIABLES
  config,        \* _config
  allPixelsOn,   \* _allPixelsOn
  scrollActive,  \* _scrollActive
  scrollRows,    \* _verticalScrollRows
  initialized,   \* _initialized
  doubt,         \* _controlStateDirty
  op,            \* operation: kind, next step, transactions, offset to scroll by
  device,        \* registers of the controller
  asked,         \* register values that the owner was told are in force
  failures,      \* bus failures so far
  calls          \* calls so far

vars == <<config, allPixelsOn, scrollActive, scrollRows, initialized, doubt, op,
          device, asked, failures, calls>>

Idle == [kind |-> "NONE", step |-> 0, sent |-> 0, offset |-> 0]
Active == op.kind # "NONE"
Called == calls < MaxCalls /\ calls' = calls + 1

-----------------------------------------------------------------------------
\* Commands and the registers they set

Code ==
  [comPins |-> [SEQUENTIAL_NO_REMAP |-> 2, ALTERNATIVE_NO_REMAP |-> 18,
                SEQUENTIAL_REMAP |-> 34, ALTERNATIVE_REMAP |-> 50],
   fade |-> [OFF |-> 0, FADE_OUT |-> 32, BLINK |-> 48]]

Send(reg, value) == [reg |-> reg, value |-> value]

ClockCode(c) == 16 * (c.oscFrequency % 16) + ((c.clockDivide - 1) % 16)
PrechargeCode(c) == 16 * (c.prechargePhase2 % 16) + (c.prechargePhase1 % 16)
FadeCode(mode, interval) == Code.fade[mode] + (interval % 16)

\* What the controller makes of an argument byte.
Decoded(command) ==
  LET v == command.value
  IN  CASE command.reg = "clock" -> [oscFrequency |-> v \div 16, clockDivide |-> (v % 16) + 1]
        [] command.reg = "precharge" -> [phase1 |-> v % 16, phase2 |-> v \div 16]
        [] command.reg = "startLine" -> v % 64
        [] command.reg = "displayOffset" -> v % 64
        [] command.reg = "fade" -> [mode |-> (v \div 16) * 16, interval |-> v % 16]
        [] OTHER -> v

\* _sendInitStep(): the transactions of initialization.
InitSteps(c) ==
  << <<Send("display", FALSE)>>,
     <<Send("addressing", "HORIZONTAL")>>,
     <<Send("startLine", c.startLine % 64)>>,
     <<Send("flipX", c.flipX)>>,
     <<Send("multiplex", c.height - 1)>>,
     <<Send("flipY", c.flipY)>>,
     <<Send("displayOffset", c.displayOffset)>>,
     <<Send("comPins", Code.comPins[c.comPins])>>,
     <<Send("clock", ClockCode(c))>>,
     <<Send("precharge", PrechargeCode(c))>>,
     <<Send("vcomh", c.vcomh)>>,
     <<Send("contrast", c.contrast)>>,
     <<Send("iref", c.iref)>>,
     <<Send("chargePump", c.chargePumpVoltage), Send("scroll", FALSE)>>,
     <<Send("allOn", FALSE), Send("fade", FadeCode("OFF", 0))>>,
     <<Send("invert", c.invert), Send("zoom", FALSE)>>,
     <<Send("area", [top |-> 0, rows |-> c.height])>> >>

\* The registers after the first n commands of a transaction.
Executed(registers, transaction, n) ==
  [r \in DOMAIN registers |->
     LET hits == {i \in 1..n : transaction[i].reg = r}
     IN  IF hits = {} THEN registers[r] ELSE Decoded(transaction[CHOOSE i \in hits : TRUE])]

\* The bus outcomes, and how many commands of a transaction may have taken
\* effect: none when the address was not acknowledged, otherwise any prefix.
Outcomes == {"OK", "NACK_ADDRESS", "NACK_DATA", "TIMEOUT", "BUS_ERROR"}

Arrives(transaction, outcome) ==
  CASE outcome = "OK" -> {Len(transaction)}
    [] outcome = "NACK_ADDRESS" -> {0}
    [] OTHER -> 0..Len(transaction)

Transfer(transaction, outcome) ==
  /\ \E n \in Arrives(transaction, outcome) : device' = Executed(device, transaction, n)
  /\ failures' = failures + (IF outcome = "OK" THEN 0 ELSE 1)
  /\ failures' <= MaxFailures

\* What the owner expects of a fresh initialization with a configuration.
Programmed(c) ==
  [display |-> FALSE, addressing |-> "HORIZONTAL", startLine |-> c.startLine,
   flipX |-> c.flipX, multiplex |-> c.height - 1, flipY |-> c.flipY,
   displayOffset |-> c.displayOffset, comPins |-> Code.comPins[c.comPins],
   clock |-> [oscFrequency |-> c.oscFrequency, clockDivide |-> c.clockDivide],
   precharge |-> [phase1 |-> c.prechargePhase1, phase2 |-> c.prechargePhase2],
   vcomh |-> c.vcomh, contrast |-> c.contrast, iref |-> c.iref,
   chargePump |-> c.chargePumpVoltage, scroll |-> FALSE, allOn |-> FALSE,
   fade |-> [mode |-> 0, interval |-> 0], invert |-> c.invert, zoom |-> FALSE,
   area |-> [top |-> 0, rows |-> c.height], setup |-> [kind |-> "NONE", offset |-> 0]]

\* What a new initialization keeps of the settings: contrast, inversion, remaps
\* and electrical settings, while effects, scroll and scroll area are reset.  The
\* setup of a scroll that is off stays in the controller and has no effect.
Replayed(a, d) ==
  [a EXCEPT !.display = FALSE, !.allOn = FALSE, !.zoom = FALSE, !.scroll = FALSE,
            !.fade = [mode |-> 0, interval |-> 0],
            !.area = [top |-> 0, rows |-> a.multiplex + 1], !.setup = d.setup]

-----------------------------------------------------------------------------
\* Initialization

Attach(c) ==
  /\ ~Active /\ Called
  /\ config' = c /\ asked' = Programmed(c)
  /\ allPixelsOn' = FALSE /\ scrollActive' = FALSE /\ scrollRows' = MAX_HEIGHT
  /\ initialized' = FALSE /\ doubt' = FALSE
  /\ UNCHANGED <<op, device, failures>>

StartInitialize ==
  /\ ~Active /\ Called
  /\ op' = [Idle EXCEPT !.kind = "INITIALIZE"]
  /\ UNCHANGED <<config, allPixelsOn, scrollActive, scrollRows, initialized, doubt,
                 device, asked, failures>>

Initialized ==
  /\ initialized' = TRUE /\ doubt' = FALSE
  /\ allPixelsOn' = FALSE /\ scrollActive' = FALSE /\ scrollRows' = config.height
  /\ asked' = Replayed(asked, device)
  /\ op' = Idle

\* _pollInitializePhase(): one step; any failure ends the operation in doubt.
PollInitialize(outcome) ==
  LET steps == InitSteps(config)
  IN  /\ op.kind = "INITIALIZE"
      /\ Transfer(steps[op.step + 1], outcome)
      /\ \/ /\ outcome = "OK" /\ op.step + 1 = Len(steps)
            /\ Initialized
         \/ /\ outcome = "OK" /\ op.step + 1 < Len(steps)
            /\ op' = [op EXCEPT !.step = @ + 1, !.sent = @ + 1]
            /\ UNCHANGED <<initialized, doubt, allPixelsOn, scrollActive, scrollRows, asked>>
         \/ /\ outcome # "OK"
            /\ op' = Idle /\ doubt' = TRUE
            /\ UNCHANGED <<initialized, allPixelsOn, scrollActive, scrollRows, asked>>
      /\ UNCHANGED <<config, calls>>

\* Wrong: a sequence that was broken off is taken to have done nothing.
DoubtAfterEndMutant == doubt

\* A control sequence that ends half-way leaves the controller in doubt.
DoubtAfterEnd == doubt \/ op.sent > 0

\* cancelOperation(), or the deadline.
Cancel ==
  /\ Active
  /\ op' = Idle
  /\ doubt' = DoubtAfterEnd
  /\ UNCHANGED <<config, allPixelsOn, scrollActive, scrollRows, initialized, device,
                 asked, failures, calls>>

-----------------------------------------------------------------------------
\* Setters.  All are refused before initialization and during an operation; a
\* failure, whatever its kind, leaves the controller in doubt.

Direct(command, outcome) ==
  /\ ~Active /\ initialized /\ Called
  /\ Transfer(<<command>>, outcome)
  /\ doubt' = (doubt \/ outcome # "OK")
  /\ asked' = IF outcome = "OK" THEN Executed(asked, <<command>>, 1) ELSE asked
  /\ UNCHANGED <<initialized, op>>

Remember(field, value, outcome) ==
  config' = IF outcome = "OK" THEN [config EXCEPT ![field] = value] ELSE config

SetRegister(field, value, outcome) ==
  /\ Direct(Send(field, value), outcome)
  /\ Remember(field, value, outcome)
  /\ UNCHANGED <<allPixelsOn, scrollActive, scrollRows>>

SetContrast(value, outcome) ==
  /\ value >= 1
  /\ SetRegister("contrast", value, outcome)

SetAllPixelsOn(on, outcome) ==
  /\ Direct(Send("allOn", on), outcome)
  /\ allPixelsOn' = IF outcome = "OK" THEN on ELSE allPixelsOn
  /\ UNCHANGED <<config, scrollActive, scrollRows>>

SetFadeMode(mode, interval, outcome) ==
  /\ interval <= 15
  /\ Direct(Send("fade", FadeCode(mode, interval)), outcome)
  /\ UNCHANGED <<config, allPixelsOn, scrollActive, scrollRows>>

\* Zoom needs the alternative COM pin configuration, bit 4 of its code.
SetZoom(enable, outcome) ==
  /\ enable => (Code.comPins[config.comPins] \div 16) % 2 = 1
  /\ Direct(Send("zoom", enable), outcome)
  /\ UNCHANGED <<config, allPixelsOn, scrollActive, scrollRows>>

AreaAccepted(top, rows) ==
  rows > 0 /\ config.startLine < rows /\ top + rows <= config.height

SetVerticalScrollArea(top, rows, outcome) ==
  /\ AreaAccepted(top, rows)
  /\ Direct(Send("area", [top |-> top, rows |-> rows]), outcome)
  /\ scrollRows' = IF outcome = "OK" THEN rows ELSE scrollRows
  /\ UNCHANGED <<config, allPixelsOn, scrollActive>>

StopScroll(outcome) ==
  /\ Direct(Send("scroll", FALSE), outcome)
  /\ scrollActive' = IF outcome = "OK" THEN FALSE ELSE scrollActive
  /\ UNCHANGED <<config, allPixelsOn, scrollRows>>

-----------------------------------------------------------------------------
\* Scroll operations: deactivate, configure, activate

OffsetAccepted(offset) == offset <= 63 /\ offset < scrollRows

ScrollWidth == config.width = MAX_WIDTH

StartScroll(kind, offset, bytes) ==
  /\ ~Active /\ initialized /\ ~doubt /\ Called
  /\ ScrollWidth /\ config.maxWriteBytes >= bytes
  /\ op' = [Idle EXCEPT !.kind = kind, !.offset = offset]
  /\ UNCHANGED <<config, allPixelsOn, scrollActive, scrollRows, initialized, doubt,
                 device, asked, failures>>

StartHorizontalScroll == StartScroll("HORIZONTAL_SCROLL", 0, 8)

StartVerticalScroll(offset) ==
  /\ OffsetAccepted(offset)
  /\ StartScroll("VERTICAL_SCROLL", offset, 9)

ScrollSteps ==
  << <<Send("scroll", FALSE)>>,
     <<Send("setup", [kind |-> op.kind, offset |-> op.offset])>>,
     <<Send("scroll", TRUE)>> >>

PollScroll(outcome) ==
  /\ op.kind \in {"HORIZONTAL_SCROLL", "VERTICAL_SCROLL"}
  /\ Transfer(ScrollSteps[op.step + 1], outcome)
  /\ doubt' = (doubt \/ outcome # "OK")
  /\ scrollActive' = IF outcome = "OK" /\ op.step # 1 THEN op.step = 2 ELSE scrollActive
  /\ asked' = IF outcome = "OK" THEN Executed(asked, ScrollSteps[op.step + 1], 1) ELSE asked
  /\ op' = IF outcome = "OK" /\ op.step < 2 THEN [op EXCEPT !.step = @ + 1, !.sent = @ + 1]
           ELSE Idle
  /\ UNCHANGED <<config, allPixelsOn, scrollRows, initialized, calls>>

-----------------------------------------------------------------------------
\* Commands that the driver does not interpret

\* sendCommand...(): what arrived, or may have arrived, is not known.
SendRawCommand(command, outcome) ==
  /\ ~Active /\ initialized /\ Called
  /\ Transfer(<<command>>, outcome)
  /\ doubt' = (doubt \/ outcome # "NACK_ADDRESS")
  /\ UNCHANGED <<config, allPixelsOn, scrollActive, scrollRows, initialized, op, asked>>

\* The panel is reset and the owner reports it.
InvalidatePanelState ==
  /\ Called
  /\ device' = PowerOnReset
  /\ doubt' = TRUE /\ op' = Idle
  /\ UNCHANGED <<config, allPixelsOn, scrollActive, scrollRows, initialized, asked, failures>>

-----------------------------------------------------------------------------
Init ==
  /\ config \in Configs /\ asked = Programmed(config)
  /\ allPixelsOn = FALSE /\ scrollActive = FALSE /\ scrollRows = MAX_HEIGHT
  /\ initialized = FALSE /\ doubt = FALSE
  /\ op = Idle
  /\ device = PowerOnReset
  /\ failures = 0 /\ calls = 0

Setter(outcome) ==
  \/ \E v \in Contrasts : SetContrast(v, outcome)
  \/ \E on \in BOOLEAN, f \in Toggles : SetRegister(f, on, outcome)
  \/ \E on \in BOOLEAN : SetAllPixelsOn(on, outcome) \/ SetZoom(on, outcome)
  \/ \E f \in Fades : SetFadeMode(f[1], f[2], outcome)
  \/ \E a \in Areas : SetVerticalScrollArea(a[1], a[2], outcome)
  \/ StopScroll(outcome)

Next ==
  \/ \E c \in Configs : Attach(c)
  \/ StartInitialize \/ Cancel \/ InvalidatePanelState
  \/ StartHorizontalScroll
  \/ \E offset \in Offsets : StartVerticalScroll(offset)
  \/ \E outcome \in Outcomes :
       \/ PollInitialize(outcome) \/ PollScroll(outcome) \/ Setter(outcome)
       \/ \E command \in RawCommands : SendRawCommand(command, outcome)

Spec == Init /\ [][Next]_vars

-----------------------------------------------------------------------------
\* Without doubt and between operations the controller holds exactly what the
\* owner was told: every setting acknowledged since the last initialization, the
\* remembered ones replayed by it and the effects switched off by it, each byte
\* decoded to the value that was asked for.
SettingsHeld ==
  initialized /\ ~Active /\ ~doubt => device = asked

\* What the driver remembers, and reports in its snapshot, is what the controller
\* holds.
MemoryTrue ==
  initialized /\ ~Active /\ ~doubt =>
    /\ device.contrast = config.contrast /\ device.invert = config.invert
    /\ device.flipX = config.flipX /\ device.flipY = config.flipY
    /\ device.allOn = allPixelsOn /\ device.scroll = scrollActive
    /\ device.area.rows = scrollRows

\* The scroll area lies on the display and holds the start line.
AreaHoldsStartLine ==
  initialized /\ ~Active /\ ~doubt =>
    /\ device.area.top + device.area.rows <= device.multiplex + 1
    /\ device.startLine < device.area.rows

\* A vertical scroll that was admitted has an offset inside the scroll area that
\* the controller holds, whatever settings came before.  (The area may be changed
\* once the scroll runs; setVerticalScrollArea() does not look at it.)
ScrollStartsInArea == op.kind = "VERTICAL_SCROLL" => op.offset < device.area.rows
===============================================================================
