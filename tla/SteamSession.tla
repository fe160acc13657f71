---------------------------- MODULE SteamSession ----------------------------
(***************************************************************************)
(* channels.SteamSession over steam.Session: credentials and tokens in     *)
(* app_settings, the session in memory, its refresh, relogin and restore.  *)
(*                                                                         *)
(* A session carries the account of its credentials, the account and the   *)
(* age of its tokens ("unknown": no readable exp claim), and whether its   *)
(* cookies carry those tokens (`whole`).  SteamSession.mu is held by every *)
(* operation from its first call to its last write, so an operation is one *)
(* step, except where a crash or a failed write can cut it in two.         *)
(***************************************************************************)
CONSTANTS
  Accounts,    \* Steam accounts an operator may enter
  NoAccount

ASSUME AccountAssumption == NoAccount \notin Accounts

VARIABLES
  steamUp,     \* the process is up (Restore has run)
  sess,        \* SteamSession.session
  dbCreds,     \* app_settings steam_creds: the account
  dbTokens,    \* app_settings steam_tokens: account and age
  saving,      \* SetCredentials between login and its last write (holds mu)
  handed,      \* history: the session EnsureSession returned last
  torn         \* history: credentials were saved without their tokens

steamVars == <<steamUp, sess, dbCreds, dbTokens, saving, handed, torn>>

Ages      == {"fresh", "stale", "unknown"}
Tokens    == [acct : Accounts \cup {NoAccount}, age : Ages]
Sessions  == [creds : Accounts \cup {NoAccount}, acct : Accounts \cup {NoAccount},
              age : Ages, whole : BOOLEAN]
NoTokens  == [acct |-> NoAccount, age |-> "unknown"]
NoSession == [creds |-> NoAccount, acct |-> NoAccount, age |-> "unknown", whole |-> FALSE]
NotSaving == [pc |-> "idle", sess |-> NoSession]

SteamTypeOK ==
  /\ steamUp \in BOOLEAN /\ torn \in BOOLEAN
  /\ sess \in Sessions /\ handed \in Sessions
  /\ dbCreds \in Accounts \cup {NoAccount} /\ dbTokens \in Tokens
  /\ saving \in [pc : {"idle", "creds", "tokens"}, sess : Sessions]

\* Nothing is stored yet, or what an earlier version left (exp not recorded).
SteamInit ==
  /\ steamUp = FALSE /\ sess = NoSession /\ handed = NoSession
  /\ saving = NotSaving /\ torn = FALSE
  /\ \/ dbCreds = NoAccount /\ dbTokens = NoTokens
     \/ \E a \in Accounts : dbCreds = a /\ dbTokens = [acct |-> a, age |-> "unknown"]

TokensOf(s) == [acct |-> s.acct, age |-> s.age]

-----------------------------------------------------------------------------
(* steam.Session *)

\* AttachTokens: the cookies are set from the tokens.
AttachTokens(a, t) == [creds |-> a, acct |-> t.acct, age |-> t.age, whole |-> TRUE]

\* RefreshAccessToken succeeds: new access token, cookies set.
Refreshed(s) == {[s EXCEPT !.age = a, !.whole = TRUE] : a \in {"fresh", "unknown"}}

\* Login up to the poll: the tokens are replaced, the cookies are not.  A
\* transfer request of finalize may set them before finalize fails.
PolledTokens(s) ==
  {[creds |-> s.creds, acct |-> s.creds, age |-> a, whole |-> w] :
     a \in {"fresh", "unknown"}, w \in BOOLEAN}

\* Login returns nil: finalize has set the cookies.
LoggedIn(s) == {p \in PolledTokens(s) : p.whole}

\* Login returns an error: before the poll, or in finalize.
LoginFailed(s) == {s} \cup PolledTokens(s)

-----------------------------------------------------------------------------
(* channels.SteamSession *)

Serving == steamUp /\ saving.pc = "idle"

\* Start-up: restored when credentials and tokens are stored and readable.
Restore ==
  /\ ~steamUp /\ steamUp' = TRUE
  /\ \/ dbCreds # NoAccount /\ dbTokens # NoTokens /\ sess' = AttachTokens(dbCreds, dbTokens)
     \/ sess' = NoSession
  /\ UNCHANGED <<dbCreds, dbTokens, saving, handed, torn>>

\* "Unknown expiry is treated as stale".
NeedsRefresh(s) == s.age # "fresh"

\* persistTokensLocked: best effort.
PersistTokens(s) == dbTokens' \in {dbTokens, TokensOf(s)}

\* EnsureSession, for a job or the panel; mu is free.
ReuseSession ==
  /\ Serving /\ sess # NoSession /\ ~NeedsRefresh(sess)
  /\ handed' = sess
  /\ UNCHANGED <<steamUp, sess, dbCreds, dbTokens, saving, torn>>

\* Refresh, or relogin when the refresh failed.
RenewSession ==
  /\ Serving /\ sess # NoSession /\ NeedsRefresh(sess)
  /\ sess' \in Refreshed(sess) \cup LoggedIn(sess)
  /\ handed' = sess' /\ PersistTokens(sess')
  /\ UNCHANGED <<steamUp, dbCreds, saving, torn>>

\* Both fail: EnsureSession returns the error; the Session keeps what Login left.
RenewFails ==
  /\ Serving /\ sess # NoSession /\ NeedsRefresh(sess)
  /\ sess' \in LoginFailed(sess)
  /\ UNCHANGED <<steamUp, dbCreds, dbTokens, saving, handed, torn>>

\* Fault: the new credentials are put on the session in use.
SetCredentialsInPlace(a) ==
  /\ Serving
  /\ \E s \in LoggedIn([NoSession EXCEPT !.creds = a]) : saving' = [pc |-> "creds", sess |-> s]
  /\ sess' = [sess EXCEPT !.creds = a]
  /\ UNCHANGED <<steamUp, dbCreds, dbTokens, handed, torn>>

\* SetCredentials: log in on a session of its own, then save (a failed login
\* changes nothing).
SetCredentials(a) ==
  /\ Serving
  /\ \E s \in LoggedIn([NoSession EXCEPT !.creds = a]) : saving' = [pc |-> "creds", sess |-> s]
  /\ UNCHANGED <<steamUp, sess, dbCreds, dbTokens, handed, torn>>

SaveCreds ==
  /\ saving.pc = "creds"
  /\ \/ dbCreds' = saving.sess.creds /\ saving' = [saving EXCEPT !.pc = "tokens"]
     \/ UNCHANGED dbCreds /\ saving' = NotSaving
  /\ UNCHANGED <<steamUp, sess, dbTokens, handed, torn>>

SaveTokens ==
  /\ saving.pc = "tokens" /\ saving' = NotSaving
  /\ \/ dbTokens' = TokensOf(saving.sess) /\ sess' = saving.sess /\ torn' = FALSE
     \/ UNCHANGED <<dbTokens, sess>> /\ torn' = TRUE
  /\ UNCHANGED <<steamUp, dbCreds, handed>>

\* The access token comes within an hour of its expiry; the stored one is the
\* same or an older one.
Aged(r) == IF r.age = "fresh" THEN [r EXCEPT !.age = "stale"] ELSE r
TokensAge ==
  /\ dbTokens' = Aged(dbTokens) /\ sess' \in {sess, Aged(sess)}
  /\ UNCHANGED <<steamUp, dbCreds, saving, handed, torn>>

SteamCrash ==
  /\ steamUp /\ steamUp' = FALSE
  /\ sess' = NoSession /\ handed' = NoSession /\ saving' = NotSaving
  /\ torn' = (torn \/ saving.pc = "tokens")
  /\ UNCHANGED <<dbCreds, dbTokens>>

SteamNext ==
  \/ Restore \/ ReuseSession \/ RenewSession \/ RenewFails
  \/ \E a \in Accounts : SetCredentials(a)
  \/ SaveCreds \/ SaveTokens \/ TokensAge \/ SteamCrash

SteamSpec == SteamInit /\ [][SteamNext]_steamVars

-----------------------------------------------------------------------------
(* Properties *)

\* A session acts with the credentials of one account and the tokens of another
\* only after a SetCredentials that saved the credentials and not the tokens:
\* no refresh, relogin or restart brings the two apart.
MixedOnlyByTornSave ==
  sess.acct # NoAccount /\ sess.creds # sess.acct => torn

\* EnsureSession's comment: it "returns a live session, refreshing or
\* relogging-in as needed"; Tokens' comment: callers "cannot mix authentication
\* state".  A returned session's cookies carry its tokens.
HandedSessionIsWhole == handed # NoSession => handed.whole
=============================================================================
