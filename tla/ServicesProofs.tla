---------------------------- MODULE ServicesProofs -------------------------
(***************************************************************************)
(* The administrator's side of the system and all services together, for   *)
(* every value of the constants.  The panel's requests implement the       *)
(* administrator's sessions, overlapping edits implement the strategy      *)
(* table, validated parameters stay valid, and the first password always   *)
(* reaches the operator.  Run side by side, the nine services still        *)
(* implement the specification of each and keep every promise of each.     *)
(***************************************************************************)
EXTENDS MCServices, ChannelProofs, MoneyProofs, FiniteSetTheorems, TLAPS

-----------------------------------------------------------------------------
(* PanelAuth: the inductive invariant *)

\* What a request holds at each of its steps.
Logins  == [pc : {"epoch"}, pw : Passwords, ver : 0 .. MaxEpoch]
             \cup [pc : {"hash"}, pw : Passwords, ver : 0 .. MaxEpoch, hash : Hashes]
Changes == [pc : {"authorised"}] \cup [pc : {"change"}, hash : Hashes, pw : Passwords]

PanelTypes ==
  /\ adminHash \in Hashes /\ epoch \in 0 .. MaxEpoch /\ fails \in Nat
  /\ jwts \subseteq [ver : 0 .. MaxEpoch, hash : Hashes]
  /\ req \in [Requests -> {Ended} \cup Logins \cup Changes]

\* Nothing was signed or will be signed for an epoch that has not begun, and what
\* carries the present epoch carries the hash in force.
TokensOfThePast ==
  \A t \in jwts : t.ver <= epoch /\ (t.ver = epoch => t.hash = adminHash)
LoginsOfThePast ==
  \A r \in Requests :
    /\ req[r].pc \in {"epoch", "hash"} => req[r].ver <= epoch
    /\ req[r].pc = "hash" /\ req[r].ver = epoch => req[r].hash = adminHash

\* A hash carries the number of the epoch that its password began.
HashOfThePast == adminHash.serial <= epoch

PanelInv == PanelTypes /\ TokensOfThePast /\ LoginsOfThePast /\ HashOfThePast

\* The initial state satisfies the invariant.
LEMMA PanelInvInit == PanelInit => PanelInv
BY PanelAssumption
   DEF PanelInit, PanelInv, PanelTypes, TokensOfThePast, LoginsOfThePast, HashOfThePast, Hashes, Ended

\* Every step keeps the invariant.
LEMMA PanelInvStep == PanelInv /\ [PanelNext]_panelVars => PanelInv'
<1> SUFFICES ASSUME PanelInv, [PanelNext]_panelVars PROVE PanelInv'
  OBVIOUS
<1> USE PanelAssumption DEF PanelInv, PanelTypes, TokensOfThePast, LoginsOfThePast, HashOfThePast
<1>1. ASSUME NEW r \in Requests, NEW p \in Passwords, BeginLogin(r, p) PROVE PanelInv'
  BY <1>1 DEF BeginLogin, Logins, Changes, Ended
<1>2. ASSUME NEW r \in Requests, LoadHash(r) PROVE PanelInv'
  BY <1>2 DEF LoadHash, LoginFail, Logins, Changes, Ended
<1>3. ASSUME NEW r \in Requests, CheckLogin(r) PROVE PanelInv'
  BY <1>3 DEF CheckLogin, SignedEpoch, LoginReset, LoginFail, Logins, Changes, Ended
<1>4. ASSUME NEW r \in Requests, NEW old \in Passwords, NEW new \in Passwords, BeginChange(r, old, new)
      PROVE  PanelInv'
  BY <1>4 DEF BeginChange, LoginFail, Logins, Changes, Ended
<1>5. ASSUME NEW r \in Requests, ChangeAdminPassword(r) PROVE PanelInv'
  BY <1>5 DEF ChangeAdminPassword, LoginReset, Logins, Changes, Ended, Hashes
<1>6. ASSUME NEW r \in Requests, RequestRefused(r) PROVE PanelInv'
  BY <1>6 DEF RequestRefused, Logins, Changes, Ended
<1>7. ASSUME NEW r \in Requests, Logout(r) PROVE PanelInv'
  BY <1>7 DEF Logout, Logins, Changes, Ended, Hashes
<1>8. ASSUME NEW r \in Requests, RequireAuth(r) PROVE PanelInv'
  BY <1>8 DEF RequireAuth, Logins, Changes, Ended
<1>9. CASE FailWindowEnds
  BY <1>9 DEF FailWindowEnds, LoginReset
<1>10. CASE UNCHANGED panelVars
  BY <1>10 DEF panelVars
<1> QED
  BY <1>1, <1>2, <1>3, <1>4, <1>5, <1>6, <1>7, <1>8, <1>9, <1>10 DEF PanelNext

\* handleLogin, handlePasswordChange, handleLogout: a token the panel accepts was
\* earned with the password hash in force, however logins, changes and logouts
\* overlap.
THEOREM TokensFollowPassword == PanelSpec => []LiveTokenMatchesPassword
<1>1. PanelInv => LiveTokenMatchesPassword
  BY DEF PanelInv, TokensOfThePast, LiveTokenMatchesPassword, Live
<1> QED
  BY <1>1, PanelInvInit, PanelInvStep, PTL DEF PanelSpec

\* The tokens of the present epoch.
OpenSessions == {t \in jwts : Live(t)}

\* A token is accepted from the moment it is signed for the present epoch; when
\* the epoch moves nothing that was signed before is accepted.
LEMMA RequestsStepSessions ==
  PanelInv /\ [PanelNext]_panelVars => [Admin!Next]_<<adminHash, epoch, OpenSessions>>
<1> SUFFICES ASSUME PanelInv, [PanelNext]_panelVars
             PROVE  Admin!Next \/ UNCHANGED <<adminHash, epoch, OpenSessions>>
  BY DEF OpenSessions
<1>1. ASSUME NEW r \in Requests, CheckLogin(r)
      PROVE  Admin!Next \/ UNCHANGED <<adminHash, epoch, OpenSessions>>
  <2>1. UNCHANGED <<adminHash, epoch>> /\ req[r].pc = "hash"
    BY <1>1 DEF CheckLogin
  <2>2. \/ jwts' = jwts
        \/ jwts' = jwts \cup {[ver |-> req[r].ver, hash |-> req[r].hash]}
    BY <1>1 DEF CheckLogin, SignedEpoch
  <2>3. CASE jwts' = jwts \/ req[r].ver # epoch
    BY <2>1, <2>2, <2>3 DEF OpenSessions, Live
  <2>4. CASE jwts' = jwts \cup {[ver |-> req[r].ver, hash |-> req[r].hash]} /\ req[r].ver = epoch
    <3>1. req[r].hash = adminHash
      BY <2>1, <2>4 DEF PanelInv, LoginsOfThePast
    <3>2. OpenSessions' = OpenSessions \cup {[ver |-> epoch, hash |-> adminHash]}
      BY <2>1, <2>4, <3>1 DEF OpenSessions, Live
    <3> QED
      BY <2>1, <3>2 DEF Admin!Next, Admin!LogIn, OpenSessions
  <2> QED
    BY <2>2, <2>3, <2>4
<1>2. ASSUME epoch' = epoch + 1, jwts' = jwts PROVE OpenSessions' = {}
  BY <1>2, PanelAssumption DEF PanelInv, PanelTypes, TokensOfThePast, OpenSessions, Live
<1>3. ASSUME NEW r \in Requests, ChangeAdminPassword(r) PROVE Admin!Next
  <2>1. epoch' = epoch + 1 /\ jwts' = jwts /\ adminHash' = [pw |-> req[r].pw, serial |-> epoch + 1]
    BY <1>3 DEF ChangeAdminPassword
  <2>2. adminHash' \in Hashes
    BY <1>3, PanelInvStep DEF PanelInv, PanelTypes
  <2>3. adminHash' # adminHash
    BY <2>1 DEF PanelInv, PanelTypes, HashOfThePast, Hashes
  <2>4. OpenSessions' = {}
    BY <1>2, <2>1
  <2> QED
    BY <2>1, <2>2, <2>3, <2>4 DEF Admin!Next, Admin!ChangePassword, Admin!CloseAll, OpenSessions
<1>4. ASSUME NEW r \in Requests, Logout(r) PROVE Admin!Next
  <2>1. epoch' = epoch + 1 /\ jwts' = jwts /\ adminHash' = adminHash
    BY <1>4 DEF Logout
  <2>2. OpenSessions' = {}
    BY <1>2, <2>1
  <2> QED
    BY <2>1, <2>2 DEF Admin!Next, Admin!LogOut, Admin!CloseAll, OpenSessions
<1>5. CASE \/ \E r \in Requests : \/ \E p \in Passwords : BeginLogin(r, p)
                                 \/ LoadHash(r) \/ RequireAuth(r) \/ RequestRefused(r)
                                 \/ \E old, new \in Passwords : BeginChange(r, old, new)
           \/ FailWindowEnds \/ UNCHANGED panelVars
  BY <1>5 DEF BeginLogin, LoadHash, RequireAuth, RequestRefused, BeginChange, FailWindowEnds, panelVars,
              OpenSessions, Live
<1> QED
  BY <1>1, <1>3, <1>4, <1>5 DEF PanelNext

\* requireAuth, ChangeAdminPassword, handleLogout: the overlapping requests, each
\* let in by a check that may be out of date when its handler acts, implement
\* sessions that open in one step and close all at once, for good.
THEOREM RequestsImplementSessions == PanelSpec => SessionsAreAtomic
<1>1. PanelInit => Admin!Init
  BY PanelAssumption DEF PanelInit, Admin!Init, Hashes, Live
<1> QED
  BY <1>1, PanelInvInit, PanelInvStep, RequestsStepSessions, PTL
     DEF PanelSpec, SessionsAreAtomic, Admin!SessionsSpec, OpenSessions

-----------------------------------------------------------------------------
(* PanelAuth: the login limiter *)

\* Logins that were let through and have not been counted yet.
InLogin == {r \in Requests : req[r].pc \in {"epoch", "hash"}}

\* Each of them can add one failure after the limit was reached.
FailsBounded == fails + Cardinality(InLogin) <= LoginMaxFails + Cardinality(Requests)

\* The logins in flight are finitely many, at most one per request.
LEMMA InLoginFinite ==
  ASSUME NEW S \in SUBSET Requests
  PROVE  IsFiniteSet(S) /\ Cardinality(S) \in Nat /\ Cardinality(S) <= Cardinality(Requests)
BY PanelAssumption, FS_Subset, FS_CardinalityType

\* Every step keeps the bound: a failed login is counted when it leaves the
\* flight, and a new failure or login needs a count below the limit.
LEMMA FailsBoundedStep == PanelInv /\ FailsBounded /\ [PanelNext]_panelVars => FailsBounded'
<1> SUFFICES ASSUME PanelInv, FailsBounded, [PanelNext]_panelVars PROVE FailsBounded'
  OBVIOUS
<1> DEFINE B == LoginMaxFails + Cardinality(Requests)
<1>1. /\ Cardinality(InLogin) \in Nat /\ Cardinality(InLogin) <= Cardinality(Requests)
      /\ Cardinality(InLogin') \in Nat /\ Cardinality(InLogin') <= Cardinality(Requests)
      /\ Cardinality(Requests) \in Nat
  BY InLoginFinite DEF InLogin
<1>2. fails \in Nat /\ LoginMaxFails \in Nat /\ fails + Cardinality(InLogin) <= B
  BY PanelAssumption DEF PanelInv, PanelTypes, FailsBounded
<1>3. ASSUME fails < LoginMaxFails, fails' \in {fails, fails + 1} PROVE FailsBounded'
  BY <1>1, <1>2, <1>3 DEF FailsBounded
<1>4. ASSUME fails' = 0 PROVE FailsBounded'
  BY <1>1, <1>2, <1>4 DEF FailsBounded
<1>5. ASSUME NEW r \in Requests, req[r].pc \in {"epoch", "hash"}, fails' = fails + 1,
             req' = [req EXCEPT ![r] = Ended]
      PROVE  FailsBounded'
  <2>1. InLogin' = InLogin \ {r} /\ r \in InLogin
    BY <1>5 DEF InLogin, Ended, PanelInv, PanelTypes
  <2>2. Cardinality(InLogin') = Cardinality(InLogin) - 1
    BY <2>1, InLoginFinite, FS_RemoveElement DEF InLogin
  <2> QED
    BY <1>1, <1>2, <1>5, <2>2 DEF FailsBounded
<1>6. ASSUME fails' = fails, InLogin' \subseteq InLogin PROVE FailsBounded'
  <2>1. Cardinality(InLogin') <= Cardinality(InLogin)
    BY <1>6, InLoginFinite, FS_Subset DEF InLogin
  <2> QED
    BY <1>1, <1>2, <1>6, <2>1 DEF FailsBounded
<1>7. ASSUME NEW r \in Requests, NEW p \in Passwords, BeginLogin(r, p) PROVE FailsBounded'
  BY <1>3, <1>7 DEF BeginLogin, LoginAllowed
<1>8. ASSUME NEW r \in Requests, LoadHash(r) PROVE FailsBounded'
  <2>1. CASE req' = [req EXCEPT ![r] = Ended] /\ LoginFail
    BY <1>5, <1>8, <2>1 DEF LoadHash, LoginFail
  <2>2. CASE fails' = fails /\ \A q \in Requests : q = r \/ req'[q] = req[q]
    BY <1>6, <1>8, <2>2 DEF LoadHash, InLogin
  <2> QED
    BY <1>8, <2>1, <2>2 DEF LoadHash, PanelInv, PanelTypes
<1>9. ASSUME NEW r \in Requests, CheckLogin(r) PROVE FailsBounded'
  BY <1>4, <1>5, <1>9 DEF CheckLogin, LoginReset, LoginFail
<1>10. ASSUME NEW r \in Requests, NEW old \in Passwords, NEW new \in Passwords, BeginChange(r, old, new)
       PROVE  FailsBounded'
  BY <1>3, <1>10 DEF BeginChange, LoginAllowed, LoginFail
<1>11. ASSUME NEW r \in Requests, ChangeAdminPassword(r) PROVE FailsBounded'
  BY <1>4, <1>11 DEF ChangeAdminPassword, LoginReset
<1>12. ASSUME NEW r \in Requests, RequestRefused(r) PROVE FailsBounded'
  BY <1>6, <1>12 DEF RequestRefused, InLogin, Ended, PanelInv, PanelTypes
<1>13. ASSUME NEW r \in Requests, Logout(r) \/ RequireAuth(r) PROVE FailsBounded'
  BY <1>6, <1>13 DEF Logout, RequireAuth, InLogin, Ended, PanelInv, PanelTypes
<1>14. CASE FailWindowEnds
  BY <1>4, <1>14 DEF FailWindowEnds, LoginReset
<1>15. CASE UNCHANGED panelVars
  BY <1>6, <1>15 DEF panelVars, InLogin
<1> QED
  BY <1>7, <1>8, <1>9, <1>10, <1>11, <1>12, <1>13, <1>14, <1>15 DEF PanelNext

\* loginLimiter: the panel's state is well formed; in particular the failure
\* count passes its limit by at most the number of concurrent requests.
THEOREM PanelTypeCorrect == PanelSpec => []PanelTypeOK
<1>1. PanelInit => FailsBounded
  <2> SUFFICES ASSUME PanelInit PROVE FailsBounded
    OBVIOUS
  <2>1. InLogin = {} /\ fails = 0
    BY DEF PanelInit, InLogin, Ended
  <2>2. Cardinality({}) = 0 /\ Cardinality(Requests) \in Nat
    BY FS_EmptySet, InLoginFinite
  <2> QED
    BY <2>1, <2>2, PanelAssumption DEF FailsBounded
<1>2. PanelInv /\ FailsBounded => PanelTypeOK
  <2> SUFFICES ASSUME PanelInv, FailsBounded PROVE PanelTypeOK
    OBVIOUS
  <2>1. \A r \in Requests : req[r].pc \in {"none", "epoch", "hash", "authorised", "change"}
    BY DEF PanelInv, PanelTypes, Ended, Logins, Changes
  <2>2. fails \in 0 .. LoginMaxFails + Cardinality(Requests)
    BY InLoginFinite, PanelAssumption DEF FailsBounded, InLogin, PanelInv, PanelTypes
  <2> QED
    BY <2>1, <2>2 DEF PanelTypeOK, PanelInv, PanelTypes
<1> QED
  BY <1>1, <1>2, PanelInvInit, PanelInvStep, FailsBoundedStep, PTL DEF PanelSpec

-----------------------------------------------------------------------------
(* Strategies: the inductive invariant *)

\* What each kind of transaction carries.
GlobalEdits == [kind : {"global"}, params : GlobalParams, gate : Gates, checks : BOOLEAN]
UpsertEdits == [kind : {"upsert"}, hash : Commodities, min : Overrides, gate : Gates]
DeleteEdits == [kind : {"delete"}, hash : Commodities]

StrategyTypes ==
  /\ globalRow \in [params : GlobalParams, real : BOOLEAN]
  /\ tplRow \in [Commodities -> TplRows]
  /\ rowLock \in Editors \cup {NoEditor} /\ trusted \in BOOLEAN
  /\ edit \in [Editors -> {NoEdit} \cup GlobalEdits \cup UpsertEdits \cup DeleteEdits]

\* A transaction in progress holds the row lock.
OneEditor == \A e \in Editors : edit[e] # NoEdit => rowLock = e

\* What a transaction validated at its start is still true of the rows.
GlobalChecked ==
  \A e \in Editors : edit[e].kind = "global" =>
    IF edit[e].checks THEN ValidWith(edit[e].params)
    ELSE edit[e].params = globalRow.params /\ TRUE \notin edit[e].gate
UpsertChecked ==
  \A e \in Editors : edit[e].kind = "upsert" => Valid(Merged(globalRow.params, edit[e].min))
DeleteChecked ==
  \A e \in Editors : edit[e].kind = "delete" => tplRow[edit[e].hash].on

TrustedRows == trusted => ValidWith(globalRow.params)

EditsChecked == GlobalChecked /\ UpsertChecked /\ DeleteChecked

StrategyInv == StrategyTypes /\ OneEditor /\ EditsChecked /\ TrustedRows

\* Merging no override changes nothing.
LEMMA MergedWithNone == \A p \in GlobalParams : Merged(p, 0) = p
BY DEF Merged, GlobalParams

\* A template row has a flag, and one that is off overrides nothing.
LEMMA TplRowShape == \A t \in TplRows : t.real \in BOOLEAN /\ (t.on \/ t.min = 0)
<1> SUFFICES ASSUME NEW t \in TplRows PROVE t.real \in BOOLEAN /\ (t.on \/ t.min = 0)
  OBVIOUS
<1>1. CASE t = NoTpl
  BY <1>1 DEF NoTpl
<1>2. CASE t \in [on : {TRUE}, min : Overrides, real : BOOLEAN]
  <2>1. t.on = TRUE /\ t.real \in BOOLEAN
    BY <1>2
  <2> QED
    BY <2>1
<1> QED
  BY <1>1, <1>2 DEF TplRows

\* A gate that is left out keeps the flag, one that is given sets it.
LEMMA GateFlag ==
  ASSUME NEW gate, NEW old \in BOOLEAN
  PROVE  Gated(gate, old) \in BOOLEAN
<1>1. CASE gate = {}
  BY <1>1 DEF Gated
<1>2. CASE gate # {}
  <2>1. (TRUE \in gate) \in BOOLEAN
    OBVIOUS
  <2>2. Gated(gate, old) = (TRUE \in gate)
    BY <1>2, Zenon DEF Gated
  <2> QED
    BY <2>1, <2>2, Zenon
<1> QED
  BY <1>1, <1>2

\* The initial state satisfies the invariant.
LEMMA StrategyInvInit == StrategyInit => StrategyInv
<1> SUFFICES ASSUME StrategyInit PROVE StrategyInv
  OBVIOUS
<1>1. StrategyTypes
  <2>1. PICK p \in GlobalParams, r \in BOOLEAN :
          globalRow = [params |-> p, real |-> r] /\ trusted = Valid(p)
    BY DEF StrategyInit
  <2>2. Valid(p) \in BOOLEAN
    BY DEF Valid
  <2>3. trusted \in BOOLEAN
    BY <2>1, <2>2, Zenon
  <2> QED
    BY <2>1, <2>3 DEF StrategyInit, StrategyTypes, TplRows
<1>2. OneEditor /\ EditsChecked
  BY DEF StrategyInit, OneEditor, EditsChecked, GlobalChecked, UpsertChecked, DeleteChecked, NoEdit
<1>3. TrustedRows
  <2>1. PICK p \in GlobalParams, r \in BOOLEAN :
          globalRow = [params |-> p, real |-> r] /\ trusted = Valid(p)
    BY DEF StrategyInit
  <2>2. trusted => Valid(p)
    BY <2>1, Zenon
  <2>3. globalRow.params = p /\ \A h \in Commodities : ~tplRow[h].on
    BY <2>1 DEF StrategyInit, NoTpl
  <2> QED
    BY <2>2, <2>3 DEF TrustedRows, ValidWith
<1> QED
  BY <1>1, <1>2, <1>3 DEF StrategyInv

\* A transaction opens with what it has validated, under the row lock.
LEMMA OpenStep ==
  ASSUME StrategyInv, NEW e \in Editors, NEW request \in GlobalEdits \cup UpsertEdits \cup DeleteEdits,
         Open(e, request),
         request.kind = "global" =>
           IF request.checks THEN ValidWith(request.params)
           ELSE request.params = globalRow.params /\ TRUE \notin request.gate,
         request.kind = "upsert" => Valid(Merged(globalRow.params, request.min)),
         request.kind = "delete" => tplRow[request.hash].on
  PROVE  StrategyInv'
<1>0. /\ edit' = [edit EXCEPT ![e] = request] /\ rowLock = NoEditor /\ rowLock' = e
      /\ UNCHANGED <<globalRow, tplRow, trusted>>
  BY DEF Open, LockGlobalStrategy
<1>1. StrategyTypes'
  BY <1>0 DEF StrategyInv, StrategyTypes
<1>2. \A d \in Editors : edit[d] = NoEdit
  BY <1>0, StrategyAssumption DEF StrategyInv, OneEditor
<1>3. \A d \in Editors : IF d = e THEN edit'[d] = request ELSE edit'[d] = NoEdit
  BY <1>0, <1>2 DEF StrategyInv, StrategyTypes
<1>4. OneEditor'
  BY <1>0, <1>3 DEF OneEditor
<1>5. \A params : ValidWith(params)' <=> ValidWith(params)
  BY <1>0 DEF ValidWith
<1>6. EditsChecked'
  <2>1. GlobalChecked'
    <3> SUFFICES ASSUME NEW d \in Editors, edit'[d].kind = "global"
                 PROVE  (IF edit[d].checks THEN ValidWith(edit[d].params)
                         ELSE edit[d].params = globalRow.params /\ TRUE \notin edit[d].gate)'
      BY DEF GlobalChecked
    <3>1. edit'[d] = request
      BY <1>3 DEF NoEdit
    <3>2. CASE request.checks
      BY <1>5, <3>1, <3>2
    <3>3. CASE ~request.checks
      BY <1>0, <3>1, <3>3
    <3> QED
      BY <3>2, <3>3
  <2>2. UpsertChecked' /\ DeleteChecked'
    BY <1>0, <1>3 DEF UpsertChecked, DeleteChecked, NoEdit
  <2> QED
    BY <2>1, <2>2 DEF EditsChecked
<1>7. TrustedRows'
  BY <1>0, <1>5 DEF StrategyInv, TrustedRows
<1> QED
  BY <1>1, <1>4, <1>6, <1>7 DEF StrategyInv

\* When the lock holder ends, nobody else has validated anything.
LEMMA ClosesStep ==
  ASSUME StrategyInv, NEW e \in Editors, edit[e] # NoEdit, Closes(e)
  PROVE  /\ rowLock' = NoEditor /\ edit' = [d \in Editors |-> NoEdit]
         /\ OneEditor' /\ EditsChecked'
<1>1. rowLock = e /\ \A d \in Editors \ {e} : edit[d] = NoEdit
  BY DEF StrategyInv, OneEditor
<1>2. rowLock' = NoEditor /\ edit' = [d \in Editors |-> NoEdit]
  BY <1>1 DEF Closes, StrategyInv, StrategyTypes
<1> QED
  BY <1>2 DEF OneEditor, EditsChecked, GlobalChecked, UpsertChecked, DeleteChecked, NoEdit

\* Every step keeps the invariant.
LEMMA StrategyInvStep == StrategyInv /\ [StrategyNext]_strategyVars => StrategyInv'
<1> SUFFICES ASSUME StrategyInv, [StrategyNext]_strategyVars PROVE StrategyInv'
  OBVIOUS
<1>1. ASSUME NEW e \in Editors, NEW change \in {{}} \cup {{p} : p \in GlobalParams}, NEW gate \in Gates,
             BeginGlobal(e, change, gate)
      PROVE  StrategyInv'
  <2> DEFINE params == IF change = {} THEN globalRow.params ELSE CHOOSE p \in change : TRUE
             checks == change # {} \/ TRUE \in gate
             request == [kind |-> "global", params |-> params, gate |-> gate, checks |-> checks]
  <2>1. params \in GlobalParams
    BY DEF StrategyInv, StrategyTypes
  <2>2. request \in GlobalEdits
    BY <2>1 DEF GlobalEdits
  <2>3. Open(e, request) /\ (checks => ValidWith(params))
    BY <1>1 DEF BeginGlobal
  <2>4. ~checks => params = globalRow.params /\ TRUE \notin gate
    OBVIOUS
  <2>5. request.kind = "global" /\ request.checks = checks /\ request.params = params /\ request.gate = gate
    OBVIOUS
  <2> HIDE DEF params, checks, request
  <2> QED
    BY <2>2, <2>3, <2>4, <2>5, OpenStep
<1>2. ASSUME NEW e \in Editors, NEW h \in Commodities, NEW min \in Overrides, NEW gate \in Gates,
             BeginUpsert(e, h, min, gate)
      PROVE  StrategyInv'
  <2> DEFINE request == [kind |-> "upsert", hash |-> h, min |-> min, gate |-> gate]
  <2>1. request \in UpsertEdits /\ request.kind = "upsert" /\ request.min = min
    BY DEF UpsertEdits, Gates
  <2>2. Open(e, request) /\ Valid(Merged(globalRow.params, min))
    BY <1>2 DEF BeginUpsert
  <2> HIDE DEF request
  <2> QED
    BY <2>1, <2>2, OpenStep
<1>3. ASSUME NEW e \in Editors, NEW h \in Commodities, BeginDelete(e, h) PROVE StrategyInv'
  <2>1. Open(e, [kind |-> "delete", hash |-> h]) /\ tplRow[h].on
    BY <1>3 DEF BeginDelete
  <2> QED
    BY <2>1, OpenStep DEF DeleteEdits
<1>4. ASSUME NEW e \in Editors, CommitGlobal(e) PROVE StrategyInv'
  <2>1. edit[e] \in GlobalEdits /\ edit[e].kind = "global" /\ edit[e] # NoEdit
    BY <1>4 DEF CommitGlobal, StrategyInv, StrategyTypes, GlobalEdits, UpsertEdits, DeleteEdits, NoEdit
  <2>2. /\ rowLock' = NoEditor /\ edit' = [d \in Editors |-> NoEdit]
        /\ OneEditor' /\ EditsChecked'
    BY <1>4, <2>1, ClosesStep DEF CommitGlobal
  <2> DEFINE newReal == Gated(edit[e].gate, globalRow.real)
  <2>3. StrategyTypes'
    <3>1. globalRow' = [params |-> edit[e].params, real |-> newReal] /\ trusted' = (trusted \/ edit[e].checks)
          /\ tplRow' = tplRow
      BY <1>4 DEF CommitGlobal
    <3>2. globalRow.real \in BOOLEAN /\ edit[e].params \in GlobalParams
      BY <2>1 DEF StrategyInv, StrategyTypes, GlobalEdits
    <3>3. newReal \in BOOLEAN /\ trusted' \in BOOLEAN
      BY <3>1, <3>2, GateFlag, Zenon
    <3> HIDE DEF newReal
    <3>4. globalRow' \in [params : GlobalParams, real : BOOLEAN]
      BY <3>1, <3>2, <3>3
    <3> QED
      BY <2>2, <3>1, <3>3, <3>4 DEF StrategyInv, StrategyTypes
  <2>4. TrustedRows'
    <3>1. trusted' => ValidWith(edit[e].params)
      <4>1. CASE edit[e].checks
        BY <2>1, <4>1 DEF StrategyInv, EditsChecked, GlobalChecked
      <4>2. CASE ~edit[e].checks
        BY <1>4, <2>1, <4>2 DEF CommitGlobal, StrategyInv, EditsChecked, GlobalChecked, TrustedRows
      <4> QED
        BY <4>1, <4>2
    <3>2. globalRow'.params = edit[e].params /\ tplRow' = tplRow
      BY <1>4 DEF CommitGlobal
    <3> QED
      BY <3>1, <3>2 DEF TrustedRows, ValidWith
  <2> QED
    BY <2>2, <2>3, <2>4 DEF StrategyInv
<1>5. ASSUME NEW e \in Editors, CommitUpsert(e) PROVE StrategyInv'
  <2>1. edit[e] \in UpsertEdits /\ edit[e].kind = "upsert" /\ edit[e] # NoEdit
    BY <1>5 DEF CommitUpsert, StrategyInv, StrategyTypes, GlobalEdits, UpsertEdits, DeleteEdits, NoEdit
  <2>2. /\ rowLock' = NoEditor /\ edit' = [d \in Editors |-> NoEdit]
        /\ OneEditor' /\ EditsChecked'
    BY <1>5, <2>1, ClosesStep DEF CommitUpsert
  <2> DEFINE h == edit[e].hash
             new == [on |-> TRUE, min |-> edit[e].min,
                     real |-> Gated(edit[e].gate, tplRow[h].real)]
  <2>3. h \in Commodities /\ tplRow' = [tplRow EXCEPT ![h] = new] /\ globalRow' = globalRow /\ trusted' = trusted
    BY <1>5, <2>1 DEF CommitUpsert, UpsertEdits
  <2>4. new \in [on : {TRUE}, min : Overrides, real : BOOLEAN]
    <3> DEFINE newReal == Gated(edit[e].gate, tplRow[h].real)
    <3>1. tplRow[h].real \in BOOLEAN
      BY <2>3, TplRowShape DEF StrategyInv, StrategyTypes
    <3>2. newReal \in BOOLEAN
      BY <3>1, GateFlag
    <3>3. edit[e].min \in Overrides /\ new = [on |-> TRUE, min |-> edit[e].min, real |-> newReal]
      BY <2>1 DEF UpsertEdits
    <3> HIDE DEF newReal, new
    <3> QED
      BY <3>2, <3>3
  <2>5. StrategyTypes'
    BY <2>2, <2>3, <2>4 DEF StrategyInv, StrategyTypes, TplRows
  <2>6. TrustedRows'
    <3>1. Valid(Merged(globalRow.params, edit[e].min))
      BY <2>1 DEF StrategyInv, EditsChecked, UpsertChecked
    <3>2. new.min = edit[e].min
      OBVIOUS
    <3> HIDE DEF new
    <3> QED
      BY <2>3, <3>1, <3>2 DEF StrategyInv, StrategyTypes, TrustedRows, ValidWith
  <2> QED
    BY <2>2, <2>5, <2>6 DEF StrategyInv
<1>6. ASSUME NEW e \in Editors, CommitDelete(e) PROVE StrategyInv'
  <2>1. edit[e] \in DeleteEdits /\ edit[e] # NoEdit
    BY <1>6 DEF CommitDelete, StrategyInv, StrategyTypes, GlobalEdits, UpsertEdits, DeleteEdits, NoEdit
  <2>2. /\ rowLock' = NoEditor /\ edit' = [d \in Editors |-> NoEdit]
        /\ OneEditor' /\ EditsChecked'
    BY <1>6, <2>1, ClosesStep DEF CommitDelete
  <2>3. StrategyTypes'
    BY <1>6, <2>1, <2>2 DEF CommitDelete, StrategyInv, StrategyTypes, TplRows, DeleteEdits
  <2>4. TrustedRows'
    BY <1>6, <2>1 DEF CommitDelete, StrategyInv, StrategyTypes, TrustedRows, ValidWith, NoTpl, DeleteEdits
  <2> QED
    BY <2>2, <2>3, <2>4 DEF StrategyInv
<1>7. ASSUME NEW e \in Editors, Rollback(e) PROVE StrategyInv'
  <2>1. /\ rowLock' = NoEditor /\ edit' = [d \in Editors |-> NoEdit]
        /\ OneEditor' /\ EditsChecked'
    BY <1>7, ClosesStep DEF Rollback
  <2>2. StrategyTypes' /\ TrustedRows'
    BY <1>7, <2>1 DEF Rollback, StrategyInv, StrategyTypes, TrustedRows, ValidWith
  <2> QED
    BY <2>1, <2>2 DEF StrategyInv
<1>8. CASE UNCHANGED strategyVars
  BY <1>8 DEF strategyVars, StrategyInv, StrategyTypes, OneEditor, EditsChecked, GlobalChecked,
              UpsertChecked, DeleteChecked, TrustedRows, ValidWith
<1> QED
  BY <1>1, <1>2, <1>3, <1>4, <1>5, <1>6, <1>7, <1>8 DEF StrategyNext

\* lockGlobalStrategy: what an edit validates is what its transaction commits.
\* Once an installation's parameters have been validated, every commodity's
\* merged parameters stay valid through any overlapping edits.
THEOREM ParametersStayValid == StrategySpec => []CheckedStaysValid
<1>1. StrategyInv => CheckedStaysValid
  <2> SUFFICES ASSUME StrategyInv, trusted, NEW h \in Commodities
               PROVE  Valid(globalRow.params) /\ Valid(EffectiveParams(h))
    BY DEF CheckedStaysValid, StrategyInv, TrustedRows, ValidWith
  <2>1. ValidWith(globalRow.params) /\ globalRow.params \in GlobalParams
    BY DEF StrategyInv, StrategyTypes, TrustedRows
  <2>2. CASE tplRow[h].on
    BY <2>1, <2>2 DEF ValidWith, EffectiveParams
  <2>3. CASE tplRow[h].min = 0
    BY <2>1, <2>3, MergedWithNone DEF ValidWith, EffectiveParams
  <2> QED
    BY <2>2, <2>3, TplRowShape DEF StrategyInv, StrategyTypes
<1> QED
  BY <1>1, StrategyInvInit, StrategyInvStep, PTL DEF StrategySpec

\* The strategies table and the edits in progress keep their shape.
THEOREM StrategyTypeCorrect == StrategySpec => []StrategyTypeOK
<1>1. StrategyInv => StrategyTypeOK
  BY DEF StrategyInv, StrategyTypes, StrategyTypeOK, NoEdit, GlobalEdits, UpsertEdits, DeleteEdits
<1> QED
  BY <1>1, StrategyInvInit, StrategyInvStep, PTL DEF StrategySpec

\* A commit is the whole edit it validated; nothing else touches the rows.
LEMMA EditsStepTable ==
  StrategyInv /\ [StrategyNext]_strategyVars => [TableNext]_<<globalRow, tplRow>>
<1> SUFFICES ASSUME StrategyInv, [StrategyNext]_strategyVars
             PROVE  TableNext \/ UNCHANGED <<globalRow, tplRow>>
  OBVIOUS
<1>1. ASSUME NEW e \in Editors, CommitGlobal(e) PROVE TableNext
  <2>1. edit[e] \in GlobalEdits /\ edit[e].kind = "global"
    BY <1>1 DEF CommitGlobal, StrategyInv, StrategyTypes, GlobalEdits, UpsertEdits, DeleteEdits, NoEdit
  <2>2. edit[e].gate \in Gates /\ edit[e].params \in GlobalParams
    BY <2>1 DEF GlobalEdits
  <2>3. /\ globalRow' = [params |-> edit[e].params, real |-> Gated(edit[e].gate, globalRow.real)]
        /\ tplRow' = tplRow
    BY <1>1 DEF CommitGlobal
  <2>4. CASE edit[e].checks
    <3>1. SetGlobal(edit[e].params, edit[e].gate)
      BY <2>1, <2>3, <2>4 DEF SetGlobal, StrategyInv, EditsChecked, GlobalChecked
    <3> QED
      BY <2>2, <3>1 DEF TableNext
  <2>5. CASE ~edit[e].checks
    <3>1. edit[e].params = globalRow.params /\ TRUE \notin edit[e].gate
      BY <2>1, <2>5 DEF StrategyInv, EditsChecked, GlobalChecked
    <3>2. globalRow \in [params : GlobalParams, real : BOOLEAN]
      BY DEF StrategyInv, StrategyTypes
    <3>3. \A x : [params |-> globalRow.params, real |-> x] = [globalRow EXCEPT !.real = x]
      BY <3>2
    <3>4. KeepGlobal(edit[e].gate)
      BY <2>3, <3>1, <3>3, Zenon DEF KeepGlobal
    <3> QED
      BY <2>2, <3>4 DEF TableNext
  <2> QED
    BY <2>4, <2>5
<1>2. ASSUME NEW e \in Editors, CommitUpsert(e) PROVE TableNext
  <2>1. edit[e] \in UpsertEdits /\ edit[e].kind = "upsert"
    BY <1>2 DEF CommitUpsert, StrategyInv, StrategyTypes, GlobalEdits, UpsertEdits, DeleteEdits, NoEdit
  <2>2. edit[e].gate \in Gates /\ edit[e].min \in Overrides /\ edit[e].hash \in Commodities
    BY <2>1 DEF UpsertEdits
  <2>3. SetOverride(edit[e].hash, edit[e].min, edit[e].gate)
    BY <1>2, <2>1 DEF CommitUpsert, SetOverride, StrategyInv, EditsChecked, UpsertChecked
  <2> QED
    BY <2>2, <2>3 DEF TableNext
<1>3. ASSUME NEW e \in Editors, CommitDelete(e) PROVE TableNext
  <2>1. edit[e] \in DeleteEdits /\ edit[e].kind = "delete"
    BY <1>3 DEF CommitDelete, StrategyInv, StrategyTypes, GlobalEdits, UpsertEdits, DeleteEdits, NoEdit
  <2>2. edit[e].hash \in Commodities /\ DropOverride(edit[e].hash)
    BY <1>3, <2>1 DEF CommitDelete, DropOverride, StrategyInv, EditsChecked, DeleteChecked, DeleteEdits
  <2> QED
    BY <2>2 DEF TableNext
<1>4. ASSUME NEW e \in Editors,
             \/ \E change \in {{}} \cup {{p} : p \in GlobalParams}, gate \in Gates : BeginGlobal(e, change, gate)
             \/ \E h \in Commodities, min \in Overrides, gate \in Gates : BeginUpsert(e, h, min, gate)
             \/ \E h \in Commodities : BeginDelete(e, h)
             \/ Rollback(e)
      PROVE  UNCHANGED <<globalRow, tplRow>>
  BY <1>4 DEF BeginGlobal, BeginUpsert, BeginDelete, Open, Rollback
<1>5. CASE UNCHANGED strategyVars
  BY <1>5 DEF strategyVars
<1> QED
  BY <1>1, <1>2, <1>3, <1>4, <1>5 DEF StrategyNext

\* UpdateGlobalStrategyChecked, UpsertTemplateStrategyChecked, DeleteTemplateStrategy:
\* overlapping edits implement the table that is changed by one whole, validated
\* edit at a time.
THEOREM EditsImplementTable == StrategySpec => EditsAreAtomic
<1>1. StrategyInit => TableInit
  BY DEF StrategyInit, TableInit
<1> QED
  BY <1>1, StrategyInvInit, StrategyInvStep, EditsStepTable, PTL DEF StrategySpec, EditsAreAtomic, TableSpec

-----------------------------------------------------------------------------
(* Bootstrap: the inductive invariant *)

\* A start that will write or store has a password; the file it has created is
\* torn until it is written; what it will store is in the file or was read.
StartHoldsPassword ==
  /\ bootPc \in {"fresh", "created", "store"} => bootPw \in Generated
  /\ bootPc = "created" => bootFile = Torn
  /\ bootPc = "store" => bootPw = bootFile \/ bootPw \in known

BootInv == BootTypeOK /\ StartHoldsPassword /\ PasswordIsDelivered

\* The initial state satisfies the invariant.
LEMMA BootInvInit == BootInit => BootInv
BY DEF BootInit, BootInv, BootTypeOK, StartHoldsPassword, PasswordIsDelivered

\* Every step keeps the invariant.
LEMMA BootInvStep == BootInv /\ [BootNext]_bootVars => BootInv'
<1> SUFFICES ASSUME BootInv, [BootNext]_bootVars PROVE BootInv'
  OBVIOUS
<1> USE BootstrapAssumption DEF BootInv, BootTypeOK, StartHoldsPassword, PasswordIsDelivered
<1>1. CASE StartWithHash
  BY <1>1 DEF StartWithHash
<1>2. CASE StartFromFile
  BY <1>2 DEF StartFromFile
<1>3. ASSUME NEW p \in Generated, StartFresh(p) PROVE BootInv'
  BY <1>3 DEF StartFresh
<1>4. CASE CreateFile
  BY <1>4 DEF CreateFile, Exits
<1>5. CASE WriteFile
  BY <1>5 DEF WriteFile
<1>6. CASE WriteFails
  BY <1>6 DEF WriteFails, Exits
<1>7. CASE StoreHash
  BY <1>7 DEF StoreHash, Exits
<1>8. CASE BootCrash
  BY <1>8 DEF BootCrash, Exits
<1>9. CASE OperatorReads
  BY <1>9 DEF OperatorReads
<1>10. CASE OperatorRemoves
  BY <1>10 DEF OperatorRemoves
<1>11. CASE UNCHANGED bootVars
  BY <1>11 DEF bootVars
<1> QED
  BY <1>1, <1>2, <1>3, <1>4, <1>5, <1>6, <1>7, <1>8, <1>9, <1>10, <1>11 DEF BootNext

\* resolveAdminPassword: however often the first start is cut short, a stored
\* hash belongs to a password in the file or known to the operator.
THEOREM NobodyIsLockedOut == BootSpec => []PasswordIsDelivered
<1>1. BootInv => PasswordIsDelivered
  BY DEF BootInv
<1> QED
  BY <1>1, BootInvInit, BootInvStep, PTL DEF BootSpec

\* The start-up state keeps its shape.
THEOREM BootTypeCorrect == BootSpec => []BootTypeOK
<1>1. BootInv => BootTypeOK
  BY DEF BootInv
<1> QED
  BY <1>1, BootInvInit, BootInvStep, PTL DEF BootSpec

-----------------------------------------------------------------------------
(* The services side by side *)

\* A step of the services is a step of one of them and leaves every other alone.
LEMMA OneServiceSteps ==
  [ServicesNext]_servicesVars =>
    /\ [SteamNext]_steamVars /\ [RegistryNext]_registryVars /\ [DeliveryNext]_deliveryVars
    /\ [LedgerNext]_ledgerVars /\ [WindowNext]_windowVars /\ [RepriceNext]_repriceVars
    /\ [PanelNext]_panelVars /\ [StrategyNext]_strategyVars /\ [BootNext]_bootVars
<1>1. CASE UNCHANGED servicesVars
  BY <1>1 DEF servicesVars
<1>2. CASE ServicesNext
  BY <1>2 DEF ServicesNext, Only
<1> QED
  BY <1>1, <1>2

\* Each service begins in a state of its own specification.
LEMMA ServicesBegin ==
  ServicesInit => /\ SteamInit /\ RegistryInit /\ DeliveryInit /\ LedgerInit /\ WindowInit
                  /\ RepriceInit /\ PanelInit /\ StrategyInit /\ BootInit
BY DEF ServicesInit

\* Run side by side the services still behave as each is specified alone, so that
\* what is proved of one specification holds of the whole.
THEOREM ServicesImplementParts ==
  ServicesSpec => /\ SteamSpec /\ RegistrySpec /\ DeliverySpec /\ LedgerSpec /\ WindowSpec
                  /\ RepriceSpec /\ PanelSpec /\ StrategySpec /\ BootSpec
BY ServicesBegin, OneServiceSteps, PTL
   DEF ServicesSpec, SteamSpec, RegistrySpec, DeliverySpec, LedgerSpec, WindowSpec, RepriceSpec,
       PanelSpec, StrategySpec, BootSpec

\* Every service keeps its state well formed, whatever the others do.
THEOREM ServicesTypeCorrect == ServicesSpec => []ServicesTypeOK
<1>1. /\ SteamTypeOK /\ RegistryTypeOK /\ DeliveryTypeOK /\ LedgerTypeOK /\ WindowTypeOK
      /\ RepriceTypeOK /\ PanelTypeOK /\ StrategyTypeOK /\ BootTypeOK
      => ServicesTypeOK
  BY DEF ServicesTypeOK
<1> QED
  BY <1>1, ServicesImplementParts, SteamTypeCorrect, RegistryTypeCorrect, DeliveryTypeCorrect,
     LedgerTypeCorrect, WindowTypeCorrect, RepriceTypeCorrect, PanelTypeCorrect,
     StrategyTypeCorrect, BootTypeCorrect, PTL

\* What is proved of each service holds of all of them side by side: every safety
\* and action property of the services, on any instance.
THEOREM ServicesKeepPromises ==
  ServicesSpec =>
    /\ [](/\ MixedOnlyByTornSave /\ InstalledIsStored /\ OnlyAuthorisedGiven /\ MarkedIsDelivered
         /\ SubmittedTermsAreSafe /\ LiveTokenMatchesPassword /\ CheckedStaysValid /\ PasswordIsDelivered)
    /\ CooldownIsKept /\ RollupKeepsBook /\ AnchoredSyncCatchesUp /\ DecisionsApproachTarget
    /\ SessionsAreAtomic /\ EditsAreAtomic
BY ServicesImplementParts, AccountsMixOnlyByTornSave, ClientsAreStored, NothingGivenAway, DeliveryIsReal,
   GuardrailsHold, TokensFollowPassword, ParametersStayValid, NobodyIsLockedOut,
   CooldownNeverShortened, RollupImplementsBook, KnownOrdersCatchUp, RepriceApproachesTarget,
   RequestsImplementSessions, EditsImplementTable, PTL
=============================================================================
