--------------------------- MODULE SSD1315Contract ---------------------------
(***************************************************************************)
(* The driver implements its contract.                                     *)
(***************************************************************************)
EXTENDS SSD1315Driver

\* Of the operation the owner sees its kind, state and, at the end, its effect.
VisibleJob ==
  [kind |-> op.kind, state |-> op.state, touched |-> op.touched,
   effect |-> IF op.state \in Terminal THEN op.effect ELSE "NONE"]

BusOwner ==
  IF OperationActive THEN "OPERATION" ELSE IF IsFlushing THEN "FLUSH" ELSE "NOBODY"

\* The modeled power is revised when an initialization ends: until then an owner
\* can rely on nothing, which is what the contract calls UNKNOWN.
VisiblePower == IF InitSequenceBegun THEN "UNKNOWN" ELSE panel.power

Contract ==
  INSTANCE OperationContract WITH
    job <- VisibleJob, owner <- BusOwner, power <- VisiblePower, glass <- device.lit

\* Every call of the driver, with every outcome of its transactions, is a step of
\* the contract or changes nothing that the owner relies on.
ContractKept == Contract!Spec
=============================================================================
