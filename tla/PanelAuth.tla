----------------------------- MODULE PanelAuth -----------------------------
(***************************************************************************)
(* The panel's sessions: handleLogin, handlePasswordChange, handleLogout   *)
(* and requireAuth over the admin password hash and the session epoch in   *)
(* app_settings.  Reading the epoch, reading the hash and acting are       *)
(* separate steps of a request, and so are the check of its token and what *)
(* its handler does; a password change and its epoch bump are one          *)
(* transaction.  Every hashing gives another hash (bcrypt salts), named by *)
(* its password and a serial number.                                       *)
(***************************************************************************)
EXTENDS Naturals, FiniteSets

CONSTANTS
  Passwords,
  Requests,     \* concurrent requests
  LoginMaxFails,
  MaxEpoch      \* bound on epoch bumps

ASSUME PanelAssumption ==
  LoginMaxFails \in Nat \ {0} /\ MaxEpoch \in Nat /\ IsFiniteSet(Requests)

VARIABLES
  adminHash,   \* app_settings admin_password_hash
  epoch,       \* app_settings jwt_session_epoch
  jwts,        \* issued tokens: epoch claim and, as history, the hash that was checked
  req,         \* the requests in progress
  fails        \* failSlot.count of the one client and user

panelVars == <<adminHash, epoch, jwts, req, fails>>

Hashes == [pw : Passwords, serial : 0 .. MaxEpoch]
Ended  == [pc |-> "none"]

\* requireAuth: the token's epoch is the stored one.
Live(t) == t.ver = epoch

PanelTypeOK ==
  /\ adminHash \in Hashes /\ epoch \in 0 .. MaxEpoch
  /\ jwts \subseteq [ver : 0 .. MaxEpoch, hash : Hashes]
  /\ \A r \in Requests : req[r].pc \in {"none", "epoch", "hash", "authorised", "change"}
  /\ fails \in 0 .. LoginMaxFails + Cardinality(Requests)

PanelInit ==
  /\ \E p \in Passwords : adminHash = [pw |-> p, serial |-> 0]
  /\ epoch = 0 /\ jwts = {} /\ req = [r \in Requests |-> Ended] /\ fails = 0

-----------------------------------------------------------------------------
\* loginLimiter
LoginAllowed == fails < LoginMaxFails
LoginFail  == fails' = fails + 1
LoginReset == fails' = 0

\* handleLogin: the epoch is captured before the password snapshot.
BeginLogin(r, p) ==
  /\ req[r] = Ended /\ LoginAllowed
  /\ req' = [req EXCEPT ![r] = [pc |-> "epoch", pw |-> p, ver |-> epoch]]
  /\ UNCHANGED <<adminHash, epoch, jwts, fails>>

\* A failed load counts as a failed login.
LoadHash(r) ==
  /\ req[r].pc = "epoch"
  /\ \/ req' = [req EXCEPT ![r] = [pc |-> "hash", pw |-> @.pw, ver |-> @.ver, hash |-> adminHash]]
        /\ UNCHANGED fails
     \/ req' = [req EXCEPT ![r] = Ended] /\ LoginFail
  /\ UNCHANGED <<adminHash, epoch, jwts>>

\* Fault: the token is signed for the epoch of the moment.
PresentEpoch(r) == epoch

SignedEpoch(r) == req[r].ver

CheckLogin(r) ==
  /\ req[r].pc = "hash"
  /\ IF req[r].hash.pw = req[r].pw
     THEN LoginReset /\ jwts' = jwts \cup {[ver |-> SignedEpoch(r), hash |-> req[r].hash]}
     ELSE LoginFail /\ UNCHANGED jwts
  /\ req' = [req EXCEPT ![r] = Ended]
  /\ UNCHANGED <<adminHash, epoch>>

\* requireAuth lets a request through; it is not asked again.
RequireAuth(r) ==
  /\ req[r] = Ended /\ epoch < MaxEpoch /\ \E t \in jwts : Live(t)
  /\ req' = [req EXCEPT ![r] = [pc |-> "authorised"]]
  /\ UNCHANGED <<adminHash, epoch, jwts, fails>>

\* handlePasswordChange up to the check of the current password.
BeginChange(r, old, new) ==
  /\ req[r].pc = "authorised" /\ LoginAllowed
  /\ IF adminHash.pw = old
     THEN req' = [req EXCEPT ![r] = [pc |-> "change", hash |-> adminHash, pw |-> new]] /\ UNCHANGED fails
     ELSE req' = [req EXCEPT ![r] = Ended] /\ LoginFail
  /\ UNCHANGED <<adminHash, epoch, jwts>>

\* ChangeAdminPassword: compare, replace and bump in one transaction.
ChangeAdminPassword(r) ==
  /\ req[r].pc = "change" /\ epoch < MaxEpoch /\ adminHash = req[r].hash
  /\ adminHash' = [pw |-> req[r].pw, serial |-> epoch + 1] /\ epoch' = epoch + 1
  /\ LoginReset /\ req' = [req EXCEPT ![r] = Ended]
  /\ UNCHANGED jwts

\* A bad body, the limiter, a failed read, ErrPasswordChanged, or a failed
\* transaction or bump.
RequestRefused(r) ==
  /\ req[r].pc \in {"authorised", "change"} /\ req' = [req EXCEPT ![r] = Ended]
  /\ UNCHANGED <<adminHash, epoch, jwts, fails>>

\* handleLogout bumps the epoch, whatever it is by then.
Logout(r) ==
  /\ req[r].pc = "authorised" /\ epoch < MaxEpoch
  /\ epoch' = epoch + 1 /\ req' = [req EXCEPT ![r] = Ended]
  /\ UNCHANGED <<adminHash, jwts, fails>>

FailWindowEnds == fails > 0 /\ LoginReset /\ UNCHANGED <<adminHash, epoch, jwts, req>>

PanelNext ==
  \/ \E r \in Requests :
       \/ \E p \in Passwords : BeginLogin(r, p)
       \/ LoadHash(r) \/ CheckLogin(r) \/ RequireAuth(r)
       \/ \E old, new \in Passwords : BeginChange(r, old, new)
       \/ ChangeAdminPassword(r) \/ RequestRefused(r) \/ Logout(r)
  \/ FailWindowEnds

PanelSpec == PanelInit /\ [][PanelNext]_panelVars

-----------------------------------------------------------------------------
(* Properties *)

\* handleLogin: "A password change concurrent with bcrypt validation can only
\* produce an already revoked JWT": a token that is accepted was earned with the
\* hash in force, whatever logins, changes and logouts overlap.
LiveTokenMatchesPassword == \A t \in jwts : Live(t) => t.hash = adminHash

\* The sessions the panel accepts, against what it promises of them.
Admin == INSTANCE AdminSessions
  WITH hash <- adminHash, term <- epoch, open <- {t \in jwts : Live(t)}

\* requireAuth: "a bumped epoch (logout) invalidates every earlier token".  The
\* requests implement the sessions: a login counts in one step or not at all, a
\* change of password and a logout revoke whatever was or is being issued, and a
\* revoked session never comes back.
SessionsAreAtomic == Admin!SessionsSpec
=============================================================================
