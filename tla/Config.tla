-------------------------------- MODULE Config --------------------------------
(***************************************************************************)
(* What the driver accepts as a configuration (_validateConfig) and the    *)
(* panel presets of include/ssd1315/Config.h.  A configuration is a record *)
(* of the fields that some decision depends on; callbacks are the Boolean  *)
(* "is set", enumerators are strings.                                      *)
(***************************************************************************)
EXTENDS Integers

CONSTANT NoBuffer   \* a null externalBuffer

MAX_WIDTH == 128
MAX_HEIGHT == 64
PAGE_ROWS == 8

\* The fields whose range does not depend on another field.
FieldRange ==
  [i2cWrite |-> {TRUE},
   controllerProfile |-> {"SSD1315"},
   width |-> 1..MAX_WIDTH,
   height |-> {PAGE_ROWS * n : n \in 2..(MAX_HEIGHT \div PAGE_ROWS)},
   i2cAddress |-> {60, 61},
   clockDivide |-> 1..16,
   oscFrequency |-> 0..15,
   prechargePhase1 |-> 1..15,
   prechargePhase2 |-> 1..15,
   contrast |-> 1..255,
   displayOffset |-> 0..63,
   startLine |-> 0..63,
   maxWriteBytes |-> 4..(MAX_WIDTH + 1),
   comPins |-> {"SEQUENTIAL_NO_REMAP", "ALTERNATIVE_NO_REMAP",
                "SEQUENTIAL_REMAP", "ALTERNATIVE_REMAP"},
   chargePumpVoltage |-> {"OFF", "V7_5", "V8_5", "V9_0"},
   iref |-> {"IREF_EXTERNAL", "INTERNAL_19UA", "INTERNAL_30UA"},
   vcomh |-> {"V_065_VCC", "V_071_VCC", "V_077_VCC", "V_083_VCC"}]

\* Config{}: the member initializers.
Defaults ==
  [i2cWrite |-> FALSE, controllerProfile |-> "SSD1315", width |-> 128, height |-> 64,
   i2cAddress |-> 60, maxWriteBytes |-> 65, nowMs |-> FALSE, pageBufferPages |-> 8,
   byteBudgetPerTick |-> 128, i2cTimeoutMs |-> 25, flushTimeoutMs |-> 1000,
   displayOnDelayMs |-> 100, clearOnBegin |-> TRUE,
   flipX |-> FALSE, flipY |-> FALSE, invert |-> FALSE, contrast |-> 127,
   comPins |-> "ALTERNATIVE_NO_REMAP", chargePumpVoltage |-> "V7_5",
   iref |-> "INTERNAL_19UA", vcomh |-> "V_077_VCC", clockDivide |-> 1,
   oscFrequency |-> 8, prechargePhase1 |-> 2, prechargePhase2 |-> 2,
   displayOffset |-> 0, startLine |-> 0,
   externalBuffer |-> NoBuffer, externalBufferSizeBytes |-> 0, offlineThreshold |-> 3]

\* A member of an enumeration type may also hold a value that is no enumerator.
Enumerators(f) == FieldRange[f] \cup {"INVALID"}

\* struct Config: the types of its members.
ConfigType ==
  [i2cWrite : BOOLEAN, controllerProfile : Enumerators("controllerProfile"), width : Nat,
   height : Nat, i2cAddress : Nat, maxWriteBytes : Nat, nowMs : BOOLEAN,
   pageBufferPages : Nat, byteBudgetPerTick : Nat, i2cTimeoutMs : Nat,
   flushTimeoutMs : Nat, displayOnDelayMs : Nat, clearOnBegin : BOOLEAN,
   flipX : BOOLEAN, flipY : BOOLEAN, invert : BOOLEAN, contrast : Nat,
   comPins : Enumerators("comPins"), chargePumpVoltage : Enumerators("chargePumpVoltage"),
   iref : Enumerators("iref"), vcomh : Enumerators("vcomh"), clockDivide : Nat,
   oscFrequency : Nat, prechargePhase1 : Nat, prechargePhase2 : Nat,
   displayOffset : Nat, startLine : Nat, externalBuffer : Nat \cup {NoBuffer},
   externalBufferSizeBytes : Nat, offlineThreshold : Nat]

TotalPagesOf(c) == c.height \div PAGE_ROWS
PageModeOf(c) == c.pageBufferPages < TotalPagesOf(c)
RequiredFramebufferBytes(c) == c.width * c.pageBufferPages
MaxDataBytes(c) == IF c.maxWriteBytes > 1 THEN c.maxWriteBytes - 1 ELSE 0

\* _validateConfig() returns Ok.
ValidConfig(c) ==
  /\ \A f \in DOMAIN FieldRange : c[f] \in FieldRange[f]
  /\ c.startLine < c.height
  /\ c.i2cTimeoutMs > 0 /\ c.byteBudgetPerTick > 0
  /\ c.pageBufferPages \in 1..TotalPagesOf(c)
  /\ IF c.externalBuffer = NoBuffer THEN c.externalBufferSizeBytes = 0
     ELSE c.externalBufferSizeBytes >= RequiredFramebufferBytes(c)

-----------------------------------------------------------------------------
\* Panel presets

\* What a preset sets besides the geometry and timing common to all of them.
Preset ==
  [GENERIC_128X64_INTERNAL_CHARGE_PUMP |->
     [flipX |-> FALSE, flipY |-> FALSE, contrast |-> 127, oscFrequency |-> 8,
      vcomh |-> "V_077_VCC", chargePumpVoltage |-> "V7_5", iref |-> "INTERNAL_19UA"],
   WISEVISION_INTERNAL_DC_DC |->
     [flipX |-> TRUE, flipY |-> TRUE, contrast |-> 176, oscFrequency |-> 9,
      vcomh |-> "V_083_VCC", chargePumpVoltage |-> "V7_5", iref |-> "IREF_EXTERNAL"],
   WISEVISION_EXTERNAL_VCC |->
     [flipX |-> TRUE, flipY |-> TRUE, contrast |-> 176, oscFrequency |-> 9,
      vcomh |-> "V_083_VCC", chargePumpVoltage |-> "OFF", iref |-> "IREF_EXTERNAL"]]

CommonPreset ==
  [controllerProfile |-> "SSD1315", width |-> 128, height |-> 64,
   displayOffset |-> 0, startLine |-> 0, comPins |-> "ALTERNATIVE_NO_REMAP",
   prechargePhase1 |-> 2, prechargePhase2 |-> 2, clockDivide |-> 1]

Overlay(c, changes) ==
  [f \in DOMAIN c |-> IF f \in DOMAIN changes THEN changes[f] ELSE c[f]]

\* applyPanelProfile(): an unsupported preset leaves the configuration alone,
\* although the common fields are set before the preset is looked at.
ApplyPanelProfile(c, profile) ==
  IF profile \in DOMAIN Preset
  THEN Overlay(Overlay(c, CommonPreset), Preset[profile])
  ELSE c
===============================================================================
