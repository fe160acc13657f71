--------------------------- MODULE StrategyTable ---------------------------
(***************************************************************************)
(* What editing the strategies promises: the global row and one override   *)
(* per commodity merged over it, changed by one whole edit at a time, and  *)
(* an edit is validated against the very rows it changes.                  *)
(*                                                                         *)
(* Pricing parameters are a lower and an upper bound of the rent; a        *)
(* template may override the lower one (0: it does not).                   *)
(***************************************************************************)
EXTENDS Naturals

CONSTANTS
  Bounds,      \* values of a bound, positive numbers
  Commodities  \* hash names

VARIABLES
  globalRow,   \* params and real_execution_enabled of the global row
  tplRow       \* per commodity: present, its override, its real flag

GlobalParams == [min : Bounds, max : Bounds]
Overrides    == Bounds \cup {0}
NoTpl        == [on |-> FALSE, min |-> 0, real |-> FALSE]
TplRows      == {NoTpl} \cup [on : {TRUE}, min : Overrides, real : BOOLEAN]

\* ParseParams: the override is merged over the global parameters; Validate.
Merged(g, t) == [g EXCEPT !.min = IF t = 0 THEN @ ELSE t]
Valid(p) == p.min <= p.max

\* validateGlobalStrategyParams: alone and under every template.
ValidWith(params) ==
  Valid(params) /\ \A h \in Commodities : tplRow[h].on => Valid(Merged(params, tplRow[h].min))

\* real_execution_enabled as a request may carry it ({}: left out).
Gates == {{}, {TRUE}, {FALSE}}
Gated(gate, old) == IF gate = {} THEN old ELSE TRUE \in gate

-----------------------------------------------------------------------------
\* Rows of earlier versions may hold parameters nobody validated.
TableInit ==
  /\ globalRow \in [params : GlobalParams, real : BOOLEAN]
  /\ tplRow = [h \in Commodities |-> NoTpl]

KeepGlobal(gate) ==
  /\ TRUE \in gate => ValidWith(globalRow.params)
  /\ globalRow' = [globalRow EXCEPT !.real = Gated(gate, @)]
  /\ UNCHANGED tplRow

SetGlobal(params, gate) ==
  /\ ValidWith(params)
  /\ globalRow' = [params |-> params, real |-> Gated(gate, globalRow.real)]
  /\ UNCHANGED tplRow

\* A new override starts without real execution, an old one keeps its flag.
SetOverride(h, min, gate) ==
  /\ Valid(Merged(globalRow.params, min))
  /\ tplRow' = [tplRow EXCEPT ![h] = [on |-> TRUE, min |-> min, real |-> Gated(gate, @.real)]]
  /\ UNCHANGED globalRow

DropOverride(h) ==
  /\ tplRow[h].on
  /\ tplRow' = [tplRow EXCEPT ![h] = NoTpl]
  /\ UNCHANGED globalRow

TableNext ==
  \/ \E gate \in Gates :
       \/ KeepGlobal(gate)
       \/ \E params \in GlobalParams : SetGlobal(params, gate)
       \/ \E h \in Commodities, min \in Overrides : SetOverride(h, min, gate)
  \/ \E h \in Commodities : DropOverride(h)

TableSpec == TableInit /\ [][TableNext]_<<globalRow, tplRow>>
=============================================================================
