------------------------------ MODULE Registry ------------------------------
(***************************************************************************)
(* channels.Registry: the UU and ECO clients against the credentials in    *)
(* app_settings, with validation that may fail, UU's retry back-off and    *)
(* the panel's credential updates.                                         *)
(*                                                                         *)
(* updateMu is held over every refresh and every update, and readers only  *)
(* see the pointers installed at the end, so each is one step with all its *)
(* outcomes: a failed lookup, a write that fails, or one that commits      *)
(* although the request got an error (its context ended).                  *)
(***************************************************************************)
EXTENDS Naturals

CONSTANTS
  UUTokens, EcoCreds, SteamIds,  \* what an operator may enter
  Keys,                          \* master keys a process may be started with
  None,                          \* no row, no client, no key, no id
  RetryCap                       \* longest retry gap, in minutes (30 in the code)

ASSUME RegistryAssumption ==
  /\ None \notin UUTokens \cup EcoCreds \cup SteamIds \cup Keys \cup {"plain"}
  /\ "plain" \notin Keys
  /\ None \notin [secret : UUTokens \cup EcoCreds, seal : Keys \cup {"plain"}]
  /\ RetryCap \in Nat \ {0}

VARIABLES
  regUp, box,                    \* the process is up; its secrets.Box key
  dbUU, uuClient,                \* uu_token row; the token of the installed client
  retryLeft, retryGap,           \* minutes to uuRetryAt (None: zero time); uuRetryGap
  unacked,                       \* history: a token was stored by a failed SetUUToken
  dbEco, dbEcoSteam,             \* eco_creds and eco_steam_id rows
  ecoClient, ecoSteamID,         \* the installed ECO adapter
  ecoTorn,                       \* history: rows written by a SetECOCreds that failed
  sms                            \* the UU SMS login in progress

uuMem       == <<uuClient, retryLeft, retryGap>>
ecoMem      == <<ecoClient, ecoSteamID>>
uuAll       == <<dbUU, uuMem, unacked, sms>>
ecoAll      == <<dbEco, dbEcoSteam, ecoMem, ecoTorn>>
registryVars == <<regUp, box, dbUU, uuClient, retryLeft, retryGap, unacked, dbEco,
                  dbEcoSteam, ecoClient, ecoSteamID, ecoTorn, sms>>

Rows(Secrets) == [secret : Secrets, seal : Keys \cup {"plain"}] \cup {None}

RegistryTypeOK ==
  /\ regUp \in BOOLEAN /\ unacked \in BOOLEAN /\ ecoTorn \in BOOLEAN
  /\ box \in Keys \cup {None}
  /\ dbUU \in Rows(UUTokens) /\ dbEco \in Rows(EcoCreds)
  /\ dbEcoSteam \in SteamIds \cup {None} /\ ecoSteamID \in SteamIds \cup {None}
  /\ uuClient \in UUTokens \cup {None} /\ ecoClient \in EcoCreds \cup {None}
  /\ retryLeft \in 0 .. RetryCap \cup {None} /\ retryGap \in 0 .. RetryCap
  /\ sms \in {"idle", "captcha", "sent"}

\* Rows of earlier versions may hold the token in plain text.
RegistryInit ==
  /\ regUp = FALSE /\ box = None /\ sms = "idle"
  /\ dbUU = None \/ \E t \in UUTokens : dbUU = [secret |-> t, seal |-> "plain"]
  /\ uuClient = None /\ retryLeft = None /\ retryGap = 0 /\ unacked = FALSE
  /\ dbEco = None /\ dbEcoSteam = None /\ ecoClient = None /\ ecoSteamID = None
  /\ ecoTorn = FALSE

-----------------------------------------------------------------------------
(* UU *)

\* scheduleUURetry: one minute, then doubled up to the cap.
NextGap(g) == IF g = 0 THEN 1 ELSE IF 2 * g > RetryCap THEN RetryCap ELSE 2 * g

ScheduleUURetry == retryGap' = NextGap(retryGap) /\ retryLeft' = NextGap(retryGap)

ClearUURetry == retryGap' = 0 /\ retryLeft' = None

UURowFor(t)  == [secret |-> t, seal |-> box']
Readable(row) == box' # None /\ row.seal \in {"plain", box'}

LookupFails == ScheduleUURetry /\ UNCHANGED <<dbUU, uuClient>>

NoUURow == dbUU = None /\ uuClient' = None /\ ClearUURetry /\ UNCHANGED dbUU

UnreadableUURow ==
  /\ dbUU # None /\ ~Readable(dbUU)
  /\ uuClient' = None /\ ScheduleUURetry /\ UNCHANGED dbUU

\* sealLegacyUUToken: best effort.
SealLegacy ==
  \/ UNCHANGED dbUU
  \/ dbUU.seal = "plain" /\ dbUU' = UURowFor(dbUU.secret)

\* Fault: a rejected token is given up, not retried.
ValidationGivesUp ==
  /\ dbUU # None /\ Readable(dbUU) /\ SealLegacy
  /\ \/ uuClient' = None /\ ClearUURetry
     \/ uuClient = dbUU.secret /\ UNCHANGED uuClient /\ ScheduleUURetry

\* uu.NewClient fails: a rejected token, another token's client or none at all
\* leaves no client; a transient error keeps the one validated before.
ValidationFails ==
  /\ dbUU # None /\ Readable(dbUU) /\ SealLegacy /\ ScheduleUURetry
  /\ \/ uuClient' = None
     \/ uuClient = dbUU.secret /\ UNCHANGED uuClient

ValidationSucceeds ==
  /\ dbUU # None /\ Readable(dbUU) /\ SealLegacy
  /\ uuClient' = dbUU.secret /\ ClearUURetry

RefreshUU ==
  \/ LookupFails \/ NoUURow \/ UnreadableUURow
  \/ ValidationFails \/ ValidationSucceeds

-----------------------------------------------------------------------------
(* ECO *)

DropECO == ecoClient' = None /\ ecoSteamID' = None

\* loadECOSteamID: no id when the lookup fails.
InstallECO(c, sid) == ecoClient' = c /\ ecoSteamID' \in {None, sid}

\* refreshECO over the rows the step leaves; there is no retry of its own.
RefreshECOSucceeds ==
  \/ dbEco' = None /\ DropECO
  \/ dbEco' # None /\ dbEco'.seal = box' /\ InstallECO(dbEco'.secret, dbEcoSteam')

\* The lookup fails, or the row is not readable.
RefreshECOFails ==
  \/ UNCHANGED ecoMem
  \/ dbEco' # None /\ (box' = None \/ dbEco'.seal # box') /\ DropECO

RefreshECO == RefreshECOSucceeds \/ RefreshECOFails

-----------------------------------------------------------------------------
(* Operations *)

\* main: a process starts with the key of its environment, or none, and Refresh.
RegistryStart ==
  /\ ~regUp /\ regUp' = TRUE
  /\ box' \in Keys \cup {None}
  /\ RefreshUU
  /\ UNCHANGED <<dbEco, dbEcoSteam>> /\ RefreshECO
  /\ unacked' = FALSE /\ ecoTorn' = FALSE
  /\ UNCHANGED sms

\* The channel_recovery job, every minute.
RetryDue == regUp /\ retryLeft = 0

Recover ==
  /\ RetryDue /\ UNCHANGED <<regUp, box>>
  /\ RefreshUU
  /\ UNCHANGED <<unacked, sms>> /\ UNCHANGED ecoAll

Minute ==
  /\ regUp /\ retryLeft \notin {None, 0} /\ retryLeft' = retryLeft - 1
  /\ UNCHANGED <<regUp, box, dbUU, uuClient, retryGap, unacked, sms>> /\ UNCHANGED ecoAll

\* Fault: the client is installed before the token is stored.
SetUUTokenInstallsFirst(t) ==
  /\ regUp /\ box # None /\ uuClient' = t /\ ClearUURetry
  /\ \/ dbUU' = [secret |-> t, seal |-> box] /\ unacked' = FALSE
     \/ UNCHANGED <<dbUU, unacked>>
  /\ sms' = "idle"
  /\ UNCHANGED <<regUp, box>> /\ UNCHANGED ecoAll

\* handleUUToken, VerifyUUSms: validate, store, install.  A token that fails
\* validation or is not stored changes nothing.
SetUUToken(t) ==
  /\ regUp /\ box # None /\ dbUU' = [secret |-> t, seal |-> box]
  /\ \/ uuClient' = t /\ ClearUURetry /\ unacked' = FALSE
     \/ UNCHANGED uuMem /\ unacked' = TRUE
  /\ sms' = "idle"
  /\ UNCHANGED <<regUp, box>> /\ UNCHANGED ecoAll

\* handleUUSms: a code is sent (by SMS, or the uplink flow's instructions), or a
\* captcha is asked for; a retry carries the captcha and its session.
SendLoginSmsCode ==
  /\ regUp /\ sms \in {"idle", "captcha"}
  /\ sms' \in {"captcha", "sent"}
  /\ UNCHANGED <<regUp, box, dbUU, uuMem, unacked>> /\ UNCHANGED ecoAll

\* handleUUSmsVerify: sign in for a token of the account, then SetUUToken.
VerifyUUSms == sms = "sent" /\ \E t \in UUTokens : SetUUToken(t)

\* handleECOCreds: steam id, then credentials, then refreshECO; each may fail,
\* and a write that failed may be there all the same.
SetECOCreds(c, sid) ==
  /\ regUp /\ box # None /\ UNCHANGED <<regUp, box>> /\ UNCHANGED uuAll
  /\ dbEcoSteam' = IF sid = None THEN dbEcoSteam ELSE sid
  /\ \/ /\ dbEco' = [secret |-> c, seal |-> box]
        /\ \/ RefreshECOSucceeds /\ ecoTorn' = FALSE
           \/ RefreshECOFails /\ ecoTorn' = TRUE
     \/ dbEco' \in {dbEco, [secret |-> c, seal |-> box]} /\ UNCHANGED ecoMem /\ ecoTorn' = TRUE

RegistryCrash ==
  /\ regUp /\ regUp' = FALSE /\ box' = None
  /\ uuClient' = None /\ retryLeft' = None /\ retryGap' = 0
  /\ ecoClient' = None /\ ecoSteamID' = None /\ sms' = "idle"
  /\ UNCHANGED <<dbUU, unacked, dbEco, dbEcoSteam, ecoTorn>>

RegistryNext ==
  \/ RegistryStart \/ Recover \/ Minute
  \/ \E t \in UUTokens : SetUUToken(t)
  \/ SendLoginSmsCode \/ VerifyUUSms
  \/ \E c \in EcoCreds, sid \in SteamIds \cup {None} : SetECOCreds(c, sid)
  \/ RegistryCrash

RegistrySpec == RegistryInit /\ [][RegistryNext]_registryVars

\* A start or a retry whose lookup and validation succeed (strongly fair: UU
\* answers now and then).
InstallsUU == (RegistryStart \/ Recover) /\ dbUU # None /\ uuClient' = dbUU.secret

\* The channel_recovery job runs every minute.
RegistryFairness ==
  WF_registryVars(Minute) /\ WF_registryVars(Recover) /\ SF_registryVars(InstallsUU)

-----------------------------------------------------------------------------
(* Properties *)

\* No channel acts with credentials a restart would not restore: the installed
\* clients are built from the stored rows, except after an update that stored
\* something and reported an error.
InstalledIsStored ==
  /\ uuClient # None /\ ~unacked => dbUU # None /\ dbUU.secret = uuClient
  /\ ecoClient # None /\ ~ecoTorn => dbEco # None /\ dbEco.secret = ecoClient
  /\ ecoSteamID # None /\ ~ecoTorn => ecoSteamID = dbEcoSteam

\* Recover: a readable stored token is installed in the end, through failed
\* lookups, failed validations and restarts.
StoredTokenIsInstalled ==
  RegistryFairness =>
    []<>(regUp /\ box # None /\ dbUU # None /\ dbUU.seal \in {"plain", box}
           => unacked \/ uuClient = dbUU.secret)
=============================================================================
