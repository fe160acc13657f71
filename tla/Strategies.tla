----------------------------- MODULE Strategies -----------------------------
(***************************************************************************)
(* The strategies table and its panel edits: the transactions that         *)
(* validate an edit before they write it.  An edit first takes the global  *)
(* row's lock, reads what it validates against, and commits later.         *)
(***************************************************************************)
EXTENDS StrategyTable

CONSTANTS
  Editors,     \* panel requests that may overlap
  NoEditor

ASSUME StrategyAssumption == Bounds \subseteq Nat \ {0} /\ NoEditor \notin Editors

VARIABLES
  rowLock,     \* the request holding the global row FOR UPDATE
  edit,        \* the transactions in progress
  trusted      \* history: every combination has been validated

strategyVars == <<globalRow, tplRow, rowLock, edit, trusted>>

NoEdit == [kind |-> "none"]

StrategyTypeOK ==
  /\ globalRow \in [params : GlobalParams, real : BOOLEAN]
  /\ tplRow \in [Commodities -> TplRows]
  /\ rowLock \in Editors \cup {NoEditor} /\ trusted \in BOOLEAN
  /\ \A e \in Editors : edit[e].kind \in {"none", "global", "upsert", "delete"}

\* Rows of earlier versions may hold parameters nobody validated.
StrategyInit ==
  /\ \E p \in GlobalParams, r \in BOOLEAN :
       globalRow = [params |-> p, real |-> r] /\ trusted = Valid(p)
  /\ tplRow = [h \in Commodities |-> NoTpl]
  /\ rowLock = NoEditor /\ edit = [e \in Editors |-> NoEdit]

-----------------------------------------------------------------------------
\* Fault: the row is read without FOR UPDATE.
ReadGlobalRow(e) == edit[e] = NoEdit /\ UNCHANGED rowLock

LockGlobalStrategy(e) == edit[e] = NoEdit /\ rowLock = NoEditor /\ rowLock' = e

Open(e, request) ==
  /\ LockGlobalStrategy(e) /\ edit' = [edit EXCEPT ![e] = request]
  /\ UNCHANGED <<globalRow, tplRow, trusted>>

Closes(e) ==
  /\ rowLock' = (IF rowLock = e THEN NoEditor ELSE rowLock)
  /\ edit' = [edit EXCEPT ![e] = NoEdit]

\* handleStrategyUpdateGlobal: new parameters are valid on their own; a change
\* of parameters and a gate turned on are validated with every template.
\* `change` and `gate` are what the request carries ({}: left out).
BeginGlobal(e, change, gate) ==
  /\ \A p \in change : Valid(p)
  /\ LET params == IF change = {} THEN globalRow.params ELSE CHOOSE p \in change : TRUE
         checks == change # {} \/ TRUE \in gate
     IN  /\ checks => ValidWith(params)
         /\ Open(e, [kind |-> "global", params |-> params, gate |-> gate, checks |-> checks])

CommitGlobal(e) ==
  /\ edit[e].kind = "global"
  /\ globalRow' = [params |-> edit[e].params, real |-> Gated(edit[e].gate, globalRow.real)]
  /\ trusted' = (trusted \/ edit[e].checks)
  /\ Closes(e) /\ UNCHANGED tplRow

\* handleTemplateStrategyUpsert: the pair is always validated.
BeginUpsert(e, h, min, gate) ==
  /\ Valid(Merged(globalRow.params, min))
  /\ Open(e, [kind |-> "upsert", hash |-> h, min |-> min, gate |-> gate])

\* A new override starts without real execution, an old one keeps its flag.
CommitUpsert(e) ==
  /\ edit[e].kind = "upsert"
  /\ tplRow' = [tplRow EXCEPT ![edit[e].hash] =
       [on |-> TRUE, min |-> edit[e].min, real |-> Gated(edit[e].gate, @.real)]]
  /\ Closes(e) /\ UNCHANGED <<globalRow, trusted>>

BeginDelete(e, h) == tplRow[h].on /\ Open(e, [kind |-> "delete", hash |-> h])

CommitDelete(e) ==
  /\ edit[e].kind = "delete"
  /\ tplRow' = [tplRow EXCEPT ![edit[e].hash] = NoTpl]
  /\ Closes(e) /\ UNCHANGED <<globalRow, trusted>>

\* An error, a cancelled request or a crash before the commit.
Rollback(e) == edit[e] # NoEdit /\ Closes(e) /\ UNCHANGED <<globalRow, tplRow, trusted>>

StrategyNext ==
  \E e \in Editors :
    \/ \E change \in {{}} \cup {{p} : p \in GlobalParams}, gate \in Gates : BeginGlobal(e, change, gate)
    \/ \E h \in Commodities, min \in Overrides, gate \in Gates : BeginUpsert(e, h, min, gate)
    \/ \E h \in Commodities : BeginDelete(e, h)
    \/ CommitGlobal(e) \/ CommitUpsert(e) \/ CommitDelete(e) \/ Rollback(e)

StrategySpec == StrategyInit /\ [][StrategyNext]_strategyVars

-----------------------------------------------------------------------------
(* Properties *)

\* GetEffectiveStrategy reads both rows in one statement.
EffectiveParams(h) == Merged(globalRow.params, tplRow[h].min)

\* lockGlobalStrategy: "validation sees exactly the parameter combination that
\* the transaction will commit".  Once the parameters of an old installation have
\* been validated, no order of overlapping edits leaves a combination that fails
\* validation, so that no commodity is really repriced with one.
CheckedStaysValid ==
  trusted => Valid(globalRow.params) /\ \A h \in Commodities : Valid(EffectiveParams(h))

\* handleStrategyUpdateGlobal: "a partial update (e.g. new params but old real
\* flag) is worse than a rejected one".  The transactions implement the table of
\* whole, validated edits: none is lost, halved or based on rows that changed since
\* they were read.
EditsAreAtomic == TableSpec
=============================================================================
