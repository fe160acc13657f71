--------------------------- MODULE ChannelProofs ---------------------------
(***************************************************************************)
(* The channels' credentials, sessions and deliveries, for every set of    *)
(* accounts, tokens, keys, orders and offers: a Steam session mixes two    *)
(* accounts only after a torn save, an installed client is built from what *)
(* is stored, only authorised offers are accepted, and a cooldown is never *)
(* cut short.                                                              *)
(***************************************************************************)
EXTENDS SteamSession, Registry, Delivery, FiniteSetTheorems, TLAPS

-----------------------------------------------------------------------------
(* SteamSession: the inductive invariant *)

\* A save in progress holds mu in a running process, with the session it logged in.
SaveIsWhole ==
  /\ saving.pc # "idle" => steamUp /\ saving.sess.acct = saving.sess.creds
  /\ saving.pc = "tokens" => dbCreds = saving.sess.creds

\* Between saves, and unless one was torn, memory and database name one account.
OneAccount ==
  ~torn /\ saving.pc # "tokens" =>
    /\ sess # NoSession => sess.creds = dbCreds
    /\ dbTokens.acct # NoAccount => dbTokens.acct = dbCreds

SteamInv == SteamTypeOK /\ SaveIsWhole /\ OneAccount /\ MixedOnlyByTornSave

\* The values that stand for nothing have their types.
LEMMA NothingTypes ==
  /\ NoSession \in Sessions /\ NoSession.acct = NoAccount /\ NoSession.creds = NoAccount
  /\ NoTokens \in Tokens /\ NoTokens.acct = NoAccount
  /\ NotSaving \in [pc : {"idle", "creds", "tokens"}, sess : Sessions] /\ NotSaving.pc = "idle"
<1>1. NoSession \in Sessions /\ NoSession.acct = NoAccount /\ NoSession.creds = NoAccount
  BY DEF NoSession, Sessions, Ages
<1>2. NoTokens \in Tokens /\ NoTokens.acct = NoAccount
  BY DEF NoTokens, Tokens, Ages
<1> QED
  BY <1>1, <1>2 DEF NotSaving

\* The initial state satisfies the invariant.
LEMMA SteamInvInit == SteamInit => SteamInv
<1> SUFFICES ASSUME SteamInit PROVE SteamInv
  OBVIOUS
<1>1. /\ dbCreds \in Accounts \cup {NoAccount} /\ dbTokens \in Tokens
      /\ dbTokens.acct # NoAccount => dbTokens.acct = dbCreds
  BY NothingTypes DEF SteamInit, Tokens, Ages
<1>2. /\ steamUp = FALSE /\ torn = FALSE
      /\ sess = NoSession /\ handed = NoSession /\ saving = NotSaving
  BY DEF SteamInit
<1>3. SteamTypeOK
  BY <1>1, <1>2, NothingTypes DEF SteamTypeOK
<1>4. SaveIsWhole /\ OneAccount /\ MixedOnlyByTornSave
  BY <1>1, <1>2, NothingTypes DEF SaveIsWhole, OneAccount, MixedOnlyByTornSave
<1> QED
  BY <1>3, <1>4 DEF SteamInv

\* What a login on the session s may leave: the account of its credentials.
LEMMA PolledShape ==
  ASSUME NEW s \in Sessions, NEW p \in PolledTokens(s)
  PROVE  p \in Sessions /\ p.creds = s.creds /\ p.acct = s.creds
<1>1. PICK a \in {"fresh", "unknown"}, w \in BOOLEAN :
        p = [creds |-> s.creds, acct |-> s.creds, age |-> a, whole |-> w]
  BY DEF PolledTokens
<1> QED
  BY <1>1 DEF Sessions, Ages

\* A refresh keeps both accounts.
LEMMA RefreshedShape ==
  ASSUME NEW s \in Sessions, NEW p \in Refreshed(s)
  PROVE  p \in Sessions /\ p.creds = s.creds /\ p.acct = s.acct
BY DEF Refreshed, Sessions, Ages

\* Every step keeps the invariant.
LEMMA SteamInvStep == SteamInv /\ [SteamNext]_steamVars => SteamInv'
<1> SUFFICES ASSUME SteamInv, [SteamNext]_steamVars PROVE SteamInv'
  OBVIOUS
<1> USE AccountAssumption DEF SteamInv, SteamTypeOK, SaveIsWhole, OneAccount, MixedOnlyByTornSave
<1>1. CASE Restore
  <2>1. CASE sess' = NoSession
    BY <1>1, <2>1, NothingTypes DEF Restore
  <2>2. CASE sess' = AttachTokens(dbCreds, dbTokens)
    <3>1. sess' \in Sessions /\ sess'.creds = dbCreds /\ sess'.acct = dbTokens.acct
      BY <2>2 DEF AttachTokens, Sessions, Tokens
    <3> QED
      BY <1>1, <3>1 DEF Restore
  <2> QED
    BY <1>1, <2>1, <2>2 DEF Restore
<1>2. CASE ReuseSession
  BY <1>2 DEF ReuseSession, Serving
<1>3. CASE RenewSession
  <2>1. sess' \in Sessions /\ sess'.creds = sess.creds /\ sess'.acct \in {sess.acct, sess.creds}
    BY <1>3, PolledShape, RefreshedShape DEF RenewSession, LoggedIn
  <2>2. dbTokens' \in Tokens /\ (dbTokens' = dbTokens \/ dbTokens'.acct = sess'.acct)
    BY <1>3, <2>1 DEF RenewSession, PersistTokens, TokensOf, Tokens, Sessions
  <2>3. SteamTypeOK'
    BY <1>3, <2>1, <2>2 DEF RenewSession
  <2>4. SaveIsWhole' /\ MixedOnlyByTornSave'
    BY <1>3, <2>1 DEF RenewSession
  <2>5. OneAccount'
    BY <1>3, <2>1, <2>2 DEF RenewSession, Serving
  <2> QED
    BY <2>3, <2>4, <2>5
<1>4. CASE RenewFails
  <2>1. \/ sess' = sess
        \/ sess' \in Sessions /\ sess'.creds = sess.creds /\ sess'.acct = sess.creds
    BY <1>4, PolledShape DEF RenewFails, LoginFailed
  <2> QED
    BY <1>4, <2>1 DEF RenewFails
<1>5. ASSUME NEW a \in Accounts, SetCredentials(a) PROVE SteamInv'
  <2>1. [NoSession EXCEPT !.creds = a] \in Sessions /\ [NoSession EXCEPT !.creds = a].creds = a
    BY DEF NoSession, Sessions, Ages
  <2>2. PICK s \in LoggedIn([NoSession EXCEPT !.creds = a]) : saving' = [pc |-> "creds", sess |-> s]
    BY <1>5 DEF SetCredentials
  <2>3. s \in Sessions /\ s.creds = a /\ s.acct = a
    BY <2>1, PolledShape DEF LoggedIn
  <2> QED
    BY <1>5, <2>2, <2>3 DEF SetCredentials, Serving
<1>6. CASE SaveCreds
  <2>1. CASE dbCreds' = saving.sess.creds /\ saving' = [saving EXCEPT !.pc = "tokens"]
    <3>1. saving'.pc = "tokens" /\ saving'.sess = saving.sess /\ saving.sess.creds \in Accounts \cup {NoAccount}
          /\ saving' \in [pc : {"idle", "creds", "tokens"}, sess : Sessions]
      BY <2>1 DEF Sessions
    <3> QED
      BY <1>6, <2>1, <3>1 DEF SaveCreds
  <2>2. CASE UNCHANGED dbCreds /\ saving' = NotSaving
    BY <1>6, <2>2, NothingTypes DEF SaveCreds
  <2> QED
    BY <1>6, <2>1, <2>2 DEF SaveCreds
<1>7. CASE SaveTokens
  <2>1. TokensOf(saving.sess) \in Tokens /\ TokensOf(saving.sess).acct = saving.sess.acct
    BY DEF TokensOf, Tokens, Sessions
  <2> QED
    BY <1>7, <2>1, NothingTypes DEF SaveTokens
<1>8. CASE TokensAge
  <2>1. dbTokens' \in Tokens /\ dbTokens'.acct = dbTokens.acct
    BY <1>8 DEF TokensAge, Aged, Tokens, Ages
  <2>2. sess' = sess \/ sess' = Aged(sess)
    BY <1>8 DEF TokensAge
  <2>3. sess' \in Sessions /\ sess'.acct = sess.acct /\ sess'.creds = sess.creds
    BY <2>2 DEF Aged, Sessions, Ages
  <2>4. sess = NoSession => sess' = NoSession
    BY <2>2 DEF Aged, NoSession
  <2> QED
    BY <1>8, <2>1, <2>3, <2>4 DEF TokensAge
<1>9. CASE SteamCrash
  BY <1>9, NothingTypes DEF SteamCrash
<1>10. CASE UNCHANGED steamVars
  BY <1>10 DEF steamVars
<1> QED
  BY <1>1, <1>2, <1>3, <1>4, <1>5, <1>6, <1>7, <1>8, <1>9, <1>10 DEF SteamNext

\* channels.SteamSession: refreshes, relogins, restores and complete saves never
\* bring the credentials of one account together with the tokens of another.
THEOREM AccountsMixOnlyByTornSave == SteamSpec => []MixedOnlyByTornSave
<1>1. SteamInv => MixedOnlyByTornSave
  BY DEF SteamInv
<1> QED
  BY <1>1, SteamInvInit, SteamInvStep, PTL DEF SteamSpec

\* The session, the stored rows and the save in progress keep their shape.
THEOREM SteamTypeCorrect == SteamSpec => []SteamTypeOK
<1>1. SteamInv => SteamTypeOK
  BY DEF SteamInv
<1> QED
  BY <1>1, SteamInvInit, SteamInvStep, PTL DEF SteamSpec

-----------------------------------------------------------------------------
(* Registry: the inductive invariant *)

\* A process that is down has no client: a start that cannot look up its rows
\* begins with none.
DownIsEmpty == ~regUp => uuClient = None /\ ecoClient = None /\ ecoSteamID = None

RegistryInv == RegistryTypeOK /\ DownIsEmpty /\ InstalledIsStored

\* No gap is a gap.
LEMMA NoGap == 0 \in 0 .. RetryCap
BY RegistryAssumption

\* The initial state satisfies the invariant.
LEMMA RegistryInvInit == RegistryInit => RegistryInv
<1> SUFFICES ASSUME RegistryInit PROVE RegistryInv
  OBVIOUS
<1>1. dbUU \in Rows(UUTokens) /\ dbEco \in Rows(EcoCreds)
  BY DEF RegistryInit, Rows
<1>2. RegistryTypeOK
  BY <1>1, NoGap DEF RegistryInit, RegistryTypeOK
<1>3. DownIsEmpty /\ InstalledIsStored
  BY DEF RegistryInit, DownIsEmpty, InstalledIsStored
<1> QED
  BY <1>2, <1>3 DEF RegistryInv

\* scheduleUURetry stays within the cap.
LEMMA GapBounded == \A g \in 0 .. RetryCap : NextGap(g) \in 0 .. RetryCap
BY RegistryAssumption DEF NextGap

\* A readable row keeps its token when it is sealed.
LEMMA SealLegacyStep ==
  ASSUME dbUU \in Rows(UUTokens), dbUU # None, box' \in Keys \cup {None}, Readable(dbUU), SealLegacy
  PROVE  dbUU' \in Rows(UUTokens) /\ dbUU' # None /\ dbUU'.secret = dbUU.secret /\ dbUU.secret \in UUTokens
<1>1. dbUU \in [secret : UUTokens, seal : Keys \cup {"plain"}]
  BY DEF Rows
<1>2. CASE UNCHANGED dbUU
  BY <1>1, <1>2
<1>3. CASE dbUU' = UURowFor(dbUU.secret)
  <2>1. dbUU' = [secret |-> dbUU.secret, seal |-> box'] /\ box' \in Keys
    BY <1>3 DEF UURowFor, Readable
  <2>2. dbUU' \in [secret : UUTokens, seal : Keys \cup {"plain"}] /\ dbUU'.secret = dbUU.secret
    BY <1>1, <2>1
  <2>3. dbUU' # None
    BY <2>1, <2>2, RegistryAssumption
  <2> QED
    BY <1>1, <2>2, <2>3 DEF Rows
<1> QED
  BY <1>2, <1>3 DEF SealLegacy

\* refreshUU, over the key the step leaves: what is installed is what is stored,
\* or nothing was touched.
LEMMA RefreshUUStep ==
  ASSUME RegistryTypeOK, box' \in Keys \cup {None}, RefreshUU
  PROVE  /\ dbUU' \in Rows(UUTokens) /\ uuClient' \in UUTokens \cup {None}
         /\ retryGap' \in 0 .. RetryCap /\ retryLeft' \in 0 .. RetryCap \cup {None}
         /\ \/ uuClient' = None
            \/ dbUU' # None /\ dbUU'.secret = uuClient'
            \/ UNCHANGED <<dbUU, uuClient>>
<1> USE DEF RegistryTypeOK
<1>1. ASSUME ScheduleUURetry PROVE retryGap' \in 0 .. RetryCap /\ retryLeft' \in 0 .. RetryCap \cup {None}
  BY <1>1, GapBounded DEF ScheduleUURetry
<1>2. ASSUME ClearUURetry PROVE retryGap' \in 0 .. RetryCap /\ retryLeft' \in 0 .. RetryCap \cup {None}
  BY <1>2, RegistryAssumption DEF ClearUURetry
<1>3. CASE LookupFails
  BY <1>1, <1>3 DEF LookupFails
<1>4. CASE NoUURow
  BY <1>2, <1>4 DEF NoUURow
<1>5. CASE UnreadableUURow
  BY <1>1, <1>5 DEF UnreadableUURow
<1>6. CASE ValidationFails
  <2>1. dbUU' \in Rows(UUTokens) /\ dbUU' # None /\ dbUU'.secret = dbUU.secret
    BY <1>6, SealLegacyStep DEF ValidationFails
  <2> QED
    BY <1>1, <1>6, <2>1 DEF ValidationFails
<1>7. CASE ValidationSucceeds
  <2>1. dbUU' \in Rows(UUTokens) /\ dbUU' # None /\ dbUU'.secret = dbUU.secret /\ dbUU.secret \in UUTokens
    BY <1>7, SealLegacyStep DEF ValidationSucceeds
  <2> QED
    BY <1>2, <1>7, <2>1 DEF ValidationSucceeds
<1> QED
  BY <1>3, <1>4, <1>5, <1>6, <1>7 DEF RefreshUU

\* refreshECO, over the rows the step leaves.
LEMMA RefreshECOStep ==
  ASSUME RegistryTypeOK, dbEco' \in Rows(EcoCreds), dbEcoSteam' \in SteamIds \cup {None},
         RefreshECOSucceeds \/ RefreshECOFails
  PROVE  /\ ecoClient' \in EcoCreds \cup {None} /\ ecoSteamID' \in SteamIds \cup {None}
         /\ \/ /\ ecoClient' # None => dbEco' # None /\ dbEco'.secret = ecoClient'
               /\ ecoSteamID' # None => ecoSteamID' = dbEcoSteam'
            \/ RefreshECOFails /\ UNCHANGED <<ecoClient, ecoSteamID>>
<1> USE DEF RegistryTypeOK
<1>1. CASE ecoClient' = None /\ ecoSteamID' = None
  BY <1>1
<1>2. CASE UNCHANGED <<ecoClient, ecoSteamID>> /\ RefreshECOFails
  BY <1>2
<1>3. CASE dbEco' # None /\ ecoClient' = dbEco'.secret /\ ecoSteamID' \in {None, dbEcoSteam'}
  <2>1. dbEco'.secret \in EcoCreds
    BY <1>3 DEF Rows
  <2> QED
    BY <1>3, <2>1
<1> QED
  BY <1>1, <1>2, <1>3 DEF RefreshECOSucceeds, RefreshECOFails, DropECO, InstallECO, ecoMem

\* A stored token: the row is the one the panel entered.
LEMMA SetUUTokenStep ==
  ASSUME RegistryInv, NEW t \in UUTokens, SetUUToken(t)
  PROVE  RegistryInv'
<1>1. box \in Keys /\ dbUU' = [secret |-> t, seal |-> box] /\ regUp /\ regUp' /\ box' = box
  BY DEF SetUUToken, RegistryInv, RegistryTypeOK
<1>2. dbUU' \in [secret : UUTokens, seal : Keys \cup {"plain"}] /\ dbUU'.secret = t
  BY <1>1
<1>3. dbUU' \in Rows(UUTokens) /\ dbUU' # None
  BY <1>1, <1>2, RegistryAssumption DEF Rows
<1>4. /\ uuClient' \in UUTokens \cup {None} /\ retryGap' \in 0 .. RetryCap
      /\ retryLeft' \in 0 .. RetryCap \cup {None} /\ unacked' \in BOOLEAN
      /\ uuClient' = t \/ unacked'
  BY NoGap DEF SetUUToken, uuMem, ClearUURetry, RegistryInv, RegistryTypeOK
<1>5. /\ sms' = "idle"
      /\ UNCHANGED <<regUp, box, dbEco, dbEcoSteam, ecoClient, ecoSteamID, ecoTorn>>
  BY DEF SetUUToken, ecoAll, ecoMem
<1>6. RegistryTypeOK'
  BY <1>3, <1>4, <1>5 DEF RegistryInv, RegistryTypeOK
<1> QED
  BY <1>1, <1>2, <1>3, <1>4, <1>5, <1>6 DEF RegistryInv, DownIsEmpty, InstalledIsStored

\* Every step keeps the invariant.
LEMMA RegistryInvStep == RegistryInv /\ [RegistryNext]_registryVars => RegistryInv'
<1> SUFFICES ASSUME RegistryInv, [RegistryNext]_registryVars PROVE RegistryInv'
  OBVIOUS
<1>1. CASE RegistryStart
  <2>1. /\ regUp' = TRUE /\ box' \in Keys \cup {None} /\ unacked' = FALSE /\ ecoTorn' = FALSE
        /\ UNCHANGED <<dbEco, dbEcoSteam, sms>> /\ ~regUp
    BY <1>1 DEF RegistryStart
  <2>2. uuClient = None /\ ecoClient = None /\ ecoSteamID = None /\ RegistryTypeOK
    BY <2>1 DEF RegistryInv, DownIsEmpty
  <2>3. /\ dbUU' \in Rows(UUTokens) /\ uuClient' \in UUTokens \cup {None}
        /\ retryGap' \in 0 .. RetryCap /\ retryLeft' \in 0 .. RetryCap \cup {None}
        /\ uuClient' # None => dbUU' # None /\ dbUU'.secret = uuClient'
    BY <1>1, <2>1, <2>2, RefreshUUStep DEF RegistryStart
  <2>4. /\ ecoClient' \in EcoCreds \cup {None} /\ ecoSteamID' \in SteamIds \cup {None}
        /\ ecoClient' # None => dbEco' # None /\ dbEco'.secret = ecoClient'
        /\ ecoSteamID' # None => ecoSteamID' = dbEcoSteam'
    <3>1. dbEco' \in Rows(EcoCreds) /\ dbEcoSteam' \in SteamIds \cup {None}
      BY <2>1, <2>2 DEF RegistryTypeOK
    <3> QED
      BY <1>1, <2>2, <3>1, RefreshECOStep DEF RegistryStart, RefreshECO
  <2>5. RegistryTypeOK'
    BY <2>1, <2>2, <2>3, <2>4 DEF RegistryTypeOK
  <2> QED
    BY <2>1, <2>3, <2>4, <2>5 DEF RegistryInv, DownIsEmpty, InstalledIsStored
<1>2. CASE Recover
  <2>1. /\ regUp /\ UNCHANGED <<regUp, box, unacked, sms, dbEco, dbEcoSteam, ecoClient, ecoSteamID, ecoTorn>>
        /\ RefreshUU /\ RegistryTypeOK /\ box' \in Keys \cup {None}
    BY <1>2 DEF Recover, RetryDue, ecoAll, ecoMem, RegistryInv, RegistryTypeOK
  <2>2. /\ dbUU' \in Rows(UUTokens) /\ uuClient' \in UUTokens \cup {None}
        /\ retryGap' \in 0 .. RetryCap /\ retryLeft' \in 0 .. RetryCap \cup {None}
        /\ \/ uuClient' = None
           \/ dbUU' # None /\ dbUU'.secret = uuClient'
           \/ UNCHANGED <<dbUU, uuClient>>
    BY <2>1, RefreshUUStep
  <2>3. RegistryTypeOK'
    BY <2>1, <2>2 DEF RegistryTypeOK
  <2> QED
    BY <2>1, <2>2, <2>3 DEF RegistryInv, DownIsEmpty, InstalledIsStored
<1>3. CASE Minute
  <2>1. retryLeft' \in 0 .. RetryCap \cup {None}
    BY <1>3, RegistryAssumption DEF Minute, RegistryInv, RegistryTypeOK
  <2> QED
    BY <1>3, <2>1 DEF Minute, ecoAll, ecoMem, RegistryInv, RegistryTypeOK, DownIsEmpty, InstalledIsStored
<1>4. ASSUME NEW t \in UUTokens, SetUUToken(t) PROVE RegistryInv'
  BY <1>4, SetUUTokenStep
<1>5. CASE SendLoginSmsCode
  BY <1>5 DEF SendLoginSmsCode, uuMem, ecoAll, ecoMem, RegistryInv, RegistryTypeOK, DownIsEmpty, InstalledIsStored
<1>6. CASE VerifyUUSms
  BY <1>6, SetUUTokenStep DEF VerifyUUSms
<1>7. ASSUME NEW c \in EcoCreds, NEW sid \in SteamIds \cup {None}, SetECOCreds(c, sid) PROVE RegistryInv'
  <2>1. /\ regUp /\ box \in Keys /\ RegistryTypeOK
        /\ UNCHANGED <<regUp, box, dbUU, uuClient, retryLeft, retryGap, unacked, sms>>
        /\ dbEcoSteam' \in SteamIds \cup {None}
    BY <1>7 DEF SetECOCreds, uuAll, uuMem, RegistryInv, RegistryTypeOK
  <2>2. dbEco' \in Rows(EcoCreds)
    BY <1>7, <2>1 DEF SetECOCreds, RegistryTypeOK, Rows
  <2>3. CASE ecoTorn' = TRUE /\ ecoClient' \in EcoCreds \cup {None} /\ ecoSteamID' \in SteamIds \cup {None}
    <3>1. RegistryTypeOK'
      BY <2>1, <2>2, <2>3 DEF RegistryTypeOK
    <3> QED
      BY <2>1, <2>3, <3>1 DEF RegistryInv, DownIsEmpty, InstalledIsStored
  <2>4. CASE RefreshECOSucceeds /\ ecoTorn' = FALSE /\ dbEco' = [secret |-> c, seal |-> box]
    <3>1. dbEco' # None
      <4>1. [secret |-> c, seal |-> box] \in [secret : UUTokens \cup EcoCreds, seal : Keys \cup {"plain"}]
        BY <2>1
      <4> QED
        BY <2>4, <4>1, RegistryAssumption
    <3>2. ecoClient' = dbEco'.secret /\ ecoSteamID' \in {None, dbEcoSteam'} /\ dbEco'.secret = c
      BY <2>4, <3>1 DEF RefreshECOSucceeds, InstallECO
    <3>3. RegistryTypeOK'
      BY <2>1, <2>2, <2>4, <3>2 DEF RegistryTypeOK
    <3> QED
      BY <2>1, <2>4, <3>1, <3>2, <3>3 DEF RegistryInv, DownIsEmpty, InstalledIsStored
  <2>5. CASE RefreshECOFails /\ ecoTorn' = TRUE
    BY <2>1, <2>2, <2>3, <2>5, RefreshECOStep
  <2>6. CASE UNCHANGED ecoMem /\ ecoTorn' = TRUE
    BY <2>1, <2>3, <2>6 DEF ecoMem, RegistryTypeOK
  <2> QED
    BY <1>7, <2>4, <2>5, <2>6 DEF SetECOCreds
<1>8. CASE RegistryCrash
  BY <1>8, NoGap DEF RegistryCrash, RegistryInv, RegistryTypeOK, DownIsEmpty, InstalledIsStored
<1>9. CASE UNCHANGED registryVars
  BY <1>9 DEF registryVars, RegistryInv, RegistryTypeOK, DownIsEmpty, InstalledIsStored
<1> QED
  BY <1>1, <1>2, <1>3, <1>4, <1>5, <1>6, <1>7, <1>8, <1>9 DEF RegistryNext

\* Registry.Refresh, Recover, SetUUToken, SetECOCreds: no channel acts with
\* credentials a restart would not restore, unless an update reported an error.
THEOREM ClientsAreStored == RegistrySpec => []InstalledIsStored
<1>1. RegistryInv => InstalledIsStored
  BY DEF RegistryInv
<1> QED
  BY <1>1, RegistryInvInit, RegistryInvStep, PTL DEF RegistrySpec

\* The registry's rows, clients and retry gap keep their types; the gap never
\* passes its cap.
THEOREM RegistryTypeCorrect == RegistrySpec => []RegistryTypeOK
<1>1. RegistryInv => RegistryTypeOK
  BY DEF RegistryInv
<1> QED
  BY <1>1, RegistryInvInit, RegistryInvStep, PTL DEF RegistrySpec

-----------------------------------------------------------------------------
(* Delivery: what one acceptTradeOffer may touch *)

OfferStates == {"none", "active", "confirm", "accepted", "dead"}

\* confirmTradeOffer touches the offer it was asked for and no other.
LEMMA ConfirmTouchesOne ==
  ASSUME NEW x \in AllOffers, NEW offs \in [AllOffers -> OfferStates], NEW r \in ConfirmOutcomes(x, offs)
  PROVE  /\ r[1] \in [AllOffers -> OfferStates] /\ r[2] \in BOOLEAN
         /\ \A y \in AllOffers : y # x => r[1][y] = offs[y]
<1>1. CASE r = <<offs, FALSE>>
  BY <1>1
<1>2. CASE r \in {Allowed(y, offs) : y \in MatchingConfirmation(x, offs)} \X BOOLEAN
  <2>1. PICK y \in MatchingConfirmation(x, offs) : r[1] = Allowed(y, offs)
    BY <1>2
  <2>2. y = x
    BY DEF MatchingConfirmation
  <2>3. r[1] = [offs EXCEPT ![x] = "accepted"] /\ r[2] \in BOOLEAN
    BY <1>2, <2>1, <2>2 DEF Allowed
  <2> QED
    BY <2>3 DEF OfferStates
<1> QED
  BY <1>1, <1>2 DEF ConfirmOutcomes

\* acceptTradeOffer touches the offer it was asked for and no other, whatever
\* confirmations are pending.
LEMMA AcceptTouchesOne ==
  ASSUME NEW x \in AllOffers, offer \in [AllOffers -> OfferStates], NEW r \in AcceptOutcomes(x)
  PROVE  /\ r[1] \in [AllOffers -> OfferStates] /\ r[2] \in BOOLEAN
         /\ \A y \in AllOffers : y # x => r[1][y] = offer[y]
<1>1. CASE r \in {<<offer, TRUE>>, <<offer, FALSE>>}
  <2>1. r = <<offer, TRUE>> \/ r = <<offer, FALSE>>
    BY <1>1, Zenon
  <2>2. CASE r = <<offer, TRUE>>
    BY <2>2
  <2>3. CASE r = <<offer, FALSE>>
    BY <2>3
  <2> QED
    BY <2>1, <2>2, <2>3
<1>2. CASE r \in ConfirmOutcomes(x, offer)
  BY <1>2, ConfirmTouchesOne
<1>3. CASE \E ok \in BOOLEAN : r = <<[offer EXCEPT ![x] = "accepted"], ok>>
  BY <1>3 DEF OfferStates
<1>4. CASE r \in ConfirmOutcomes(x, [offer EXCEPT ![x] = "confirm"])
  <2> DEFINE offs == [offer EXCEPT ![x] = "confirm"]
  <2>1. offs \in [AllOffers -> OfferStates] /\ \A y \in AllOffers : y # x => offs[y] = offer[y]
    BY DEF OfferStates
  <2>2. r \in ConfirmOutcomes(x, offs)
    BY <1>4
  <2> HIDE DEF offs
  <2> QED
    BY <2>1, <2>2, ConfirmTouchesOne
<1>5. \/ r \in {<<offer, TRUE>>, <<offer, FALSE>>}
      \/ r \in ConfirmOutcomes(x, offer)
      \/ \E ok \in BOOLEAN : r = <<[offer EXCEPT ![x] = "accepted"], ok>>
      \/ r \in ConfirmOutcomes(x, [offer EXCEPT ![x] = "confirm"])
  <2>1. CASE offer[x] = "accepted"
    BY <2>1 DEF AcceptOutcomes
  <2>2. CASE offer[x] = "confirm"
    BY <2>2 DEF AcceptOutcomes
  <2>3. CASE offer[x] = "active"
    BY <2>3 DEF AcceptOutcomes
  <2>4. CASE offer[x] \notin {"accepted", "confirm", "active"}
    BY <2>4 DEF AcceptOutcomes
  <2> QED
    BY <2>1, <2>2, <2>3, <2>4
<1> QED
  BY <1>1, <1>2, <1>3, <1>4, <1>5

\* What the program brings to acceptance is at most the offer it asked for.
LEMMA GivesAtMostOne ==
  ASSUME NEW x \in AllOffers, offer \in [AllOffers -> OfferStates], NEW r \in AcceptOutcomes(x)
  PROVE  Given(r[1]) \subseteq given \cup {x}
BY AcceptTouchesOne DEF Given

-----------------------------------------------------------------------------
(* Delivery: the inductive invariant *)

\* The run's own variables.
RunTypeOK ==
  /\ pass \in {"idle", "sale", "rent"} /\ stage \in {"next", "send", "detail", "accept"}
  /\ todoSet \subseteq Orders /\ unsentSeen \subseteq Orders /\ curOrder \in Orders \cup {NoOrder}
  /\ failed \in BOOLEAN

\* Orders, offers and what the program remembers of them.
WorldTypeOK ==
  /\ ordState \in [Orders -> {"unsent", "sent", "ready", "gone"}]
  /\ offer \in [AllOffers -> OfferStates]
  /\ costly \subseteq Foreign /\ given \subseteq AllOffers /\ zeroList \subseteq Foreign \ costly
  /\ accepted \subseteq Orders /\ recorded \subseteq Orders /\ IsFiniteSet(accepted)
  /\ Cardinality(accepted) <= AcceptedMax \/ Cardinality(accepted) = 1
  /\ given \cap costly = {}

CoolTypeOK ==
  /\ cool \in {0} \cup UNION {0 .. p : p \in Penalties}
  /\ risks \in Nat /\ restarts \in Nat /\ risks + restarts <= MaxFaults

DeliveryInv == RunTypeOK /\ WorldTypeOK /\ CoolTypeOK

\* markAccepted never lets the set outgrow its cap by more than the order at hand.
LEMMA MarkAcceptedBounded ==
  ASSUME WorldTypeOK, NEW o \in Orders, MarkAccepted(o)
  PROVE  /\ IsFiniteSet(accepted') /\ accepted' \subseteq Orders /\ recorded' \subseteq Orders
         /\ Cardinality(accepted') <= AcceptedMax \/ Cardinality(accepted') = 1
<1> DEFINE more == accepted \cup {o}
<1>1. IsFiniteSet(more) /\ Cardinality(more) \in Nat
  BY FS_AddElement, FS_CardinalityType DEF WorldTypeOK
<1>2. IsFiniteSet({o}) /\ Cardinality({o}) = 1
  BY FS_Singleton
<1>3. recorded' \subseteq Orders /\ more \subseteq Orders
  BY DEF MarkAccepted, WorldTypeOK
<1>4. accepted' = IF Cardinality(more) > AcceptedMax THEN {o} ELSE more
  BY DEF MarkAccepted
<1> HIDE DEF more
<1> QED
  BY <1>1, <1>2, <1>3, <1>4, DeliveryAssumption

\* Continue, Resolve and RunReturns keep the run's shape.
LEMMA RunReturnsTypes == RunReturns => RunTypeOK'
BY DEF RunReturns, RunTypeOK

\* Continue keeps it.
LEMMA ContinueTypes ==
  ASSUME RunTypeOK, NEW o, NEW err \in BOOLEAN, Continue(o, err)
  PROVE  RunTypeOK'
<1>1. failed' \in BOOLEAN
  BY Zenon DEF Continue, RunTypeOK
<1> QED
  BY <1>1 DEF Continue, RunTypeOK

\* Resolve keeps it.
LEMMA ResolveTypes ==
  ASSUME RunTypeOK, NEW o \in Orders, Resolve(o)
  PROVE  RunTypeOK'
<1>1. CASE o \in accepted
  BY <1>1, ContinueTypes DEF Resolve
<1>2. CASE o \notin accepted
  BY <1>2 DEF Resolve, RunTypeOK
<1> QED
  BY <1>1, <1>2

\* penalize keeps the cooldown within the penalties.
LEMMA PenalizeTypes ==
  ASSUME CoolTypeOK, NEW p \in Penalties, Penalize(p), UNCHANGED restarts
  PROVE  CoolTypeOK' /\ cool' >= cool
<1>1. p \in Nat /\ p \in 0 .. p
  BY DeliveryAssumption
<1>2. cool \in Nat
  BY DeliveryAssumption DEF CoolTypeOK
<1>3. cool' \in {0} \cup UNION {0 .. q : q \in Penalties} /\ cool' >= cool
  BY <1>1, <1>2 DEF Penalize, CoolTypeOK
<1>4. risks' \in Nat /\ restarts' \in Nat /\ risks' + restarts' <= MaxFaults
  BY DeliveryAssumption DEF Penalize, CoolTypeOK
<1> QED
  BY <1>3, <1>4 DEF CoolTypeOK

\* The initial states satisfy the invariant.
LEMMA DeliveryInvInit == DeliveryInit => DeliveryInv
<1> SUFFICES ASSUME DeliveryInit PROVE DeliveryInv
  OBVIOUS
<1>1. IsFiniteSet(accepted) /\ Cardinality(accepted) = 0
  BY FS_EmptySet DEF DeliveryInit
<1>2. offer \in [AllOffers -> OfferStates] /\ ordState \in [Orders -> {"unsent", "sent", "ready", "gone"}]
  BY DEF DeliveryInit, OfferStates
<1>3. RunTypeOK
  BY DEF DeliveryInit, RunTypeOK
<1>4. WorldTypeOK
  BY <1>1, <1>2, DeliveryAssumption DEF DeliveryInit, WorldTypeOK
<1>5. CoolTypeOK
  BY DeliveryAssumption DEF DeliveryInit, CoolTypeOK
<1> QED
  BY <1>3, <1>4, <1>5 DEF DeliveryInv

\* SendOffer changes the offer and the order's state, and gives nothing away.
LEMMA OfferSentTypes ==
  ASSUME WorldTypeOK, NEW o \in Orders, OfferSent(o),
         UNCHANGED <<costly, given, accepted, recorded, zeroList>>
  PROVE  WorldTypeOK'
<1>1. PICK s \in {"active", "confirm"} : offer' = [offer EXCEPT ![o] = s]
  BY DEF OfferSent
<1>2. offer' \in [AllOffers -> OfferStates]
  BY <1>1 DEF WorldTypeOK, OfferStates
<1>3. ordState' \in [Orders -> {"unsent", "sent", "ready", "gone"}]
  BY DEF OfferSent, WorldTypeOK
<1> QED
  BY <1>2, <1>3 DEF WorldTypeOK

\* Every step keeps the invariant.
LEMMA DeliveryInvStep == DeliveryInv /\ [DeliveryNext]_deliveryVars => DeliveryInv'
<1> SUFFICES ASSUME DeliveryInv, [DeliveryNext]_deliveryVars PROVE RunTypeOK' /\ WorldTypeOK' /\ CoolTypeOK'
  BY DEF DeliveryInv
<1>a. RunTypeOK /\ WorldTypeOK /\ CoolTypeOK
  BY DEF DeliveryInv
<1>b. ASSUME UNCHANGED <<ordState, offer, costly, given, accepted, recorded, zeroList>> PROVE WorldTypeOK'
  BY <1>a, <1>b DEF WorldTypeOK
<1>c. ASSUME UNCHANGED <<cool, risks, restarts>> PROVE CoolTypeOK'
  BY <1>a, <1>c DEF CoolTypeOK
<1>d. ASSUME UNCHANGED <<pass, todoSet, unsentSeen, curOrder, stage, failed>> PROVE RunTypeOK'
  BY <1>a, <1>d DEF RunTypeOK
<1>1. CASE ListSaleOrders
  <2>1. RunTypeOK'
    BY <1>1, <1>a DEF ListSaleOrders, Listed, RunTypeOK, Orders
  <2> QED
    BY <1>1, <1>b, <1>c, <2>1 DEF ListSaleOrders, riskVars
<1>2. CASE ListRentOrders
  <2>1. failed' \in BOOLEAN
    BY <1>2, <1>a DEF ListRentOrders, RunTypeOK
  <2>2. RunTypeOK'
    BY <1>2, <1>a, <2>1 DEF ListRentOrders, Listed, RunTypeOK, Orders
  <2> QED
    BY <1>2, <1>b, <1>c, <2>2 DEF ListRentOrders, riskVars
<1>3. CASE FinishRun
  <2>1. RunTypeOK' /\ CoolTypeOK'
    BY <1>3, <1>c, RunReturnsTypes DEF FinishRun, riskVars
  <2>2. offer' \in [AllOffers -> OfferStates] /\ ordState' \in [Orders -> {"unsent", "sent", "ready", "gone"}]
    BY <1>3, <1>a DEF FinishRun, WorldTypeOK, OfferStates
  <2> QED
    BY <1>3, <1>a, <2>1, <2>2 DEF FinishRun, WorldTypeOK
<1>4. CASE RiskEndsRun
  <2>1. RunTypeOK' /\ WorldTypeOK'
    BY <1>4, <1>b, RunReturnsTypes DEF RiskEndsRun
  <2>2. CoolTypeOK'
    BY <1>4, <1>a, <1>c, PenalizeTypes DEF RiskEndsRun, riskVars
  <2> QED
    BY <2>1, <2>2
<1>5. ASSUME NEW o \in Orders, SaleSend(o) PROVE RunTypeOK' /\ WorldTypeOK' /\ CoolTypeOK'
  <2>1. CoolTypeOK'
    BY <1>5, <1>c DEF SaleSend, riskVars
  <2>2. WorldTypeOK'
    BY <1>5, <1>a, <1>b, OfferSentTypes DEF SaleSend
  <2>3. CASE Continue(o, TRUE)
    BY <1>a, <2>1, <2>2, <2>3, ContinueTypes
  <2>4. CASE curOrder' = o /\ stage' = "detail" /\ UNCHANGED <<pass, todoSet, unsentSeen, failed>>
    BY <1>a, <2>1, <2>2, <2>4 DEF RunTypeOK
  <2> QED
    BY <1>5, <2>3, <2>4 DEF SaleSend
<1>6. ASSUME NEW o \in Orders, SaleDetail(o) \/ RentDetail(o) PROVE RunTypeOK' /\ WorldTypeOK' /\ CoolTypeOK'
  <2>1. CoolTypeOK' /\ WorldTypeOK'
    BY <1>6, <1>b, <1>c DEF SaleDetail, RentDetail, riskVars
  <2>2. CASE Continue(o, TRUE) \/ Continue(o, FALSE)
    BY <1>a, <2>1, <2>2, ContinueTypes
  <2>3. CASE Resolve(o)
    BY <1>a, <2>1, <2>3, ResolveTypes
  <2>4. CASE curOrder' = o /\ stage' = "send" /\ UNCHANGED <<pass, todoSet, unsentSeen, failed>>
    BY <1>a, <2>1, <2>4 DEF RunTypeOK
  <2> QED
    BY <1>6, <2>2, <2>3, <2>4 DEF SaleDetail, RentDetail
<1>7. ASSUME NEW o \in Orders, RentSend(o) PROVE RunTypeOK' /\ WorldTypeOK' /\ CoolTypeOK'
  <2>1. CoolTypeOK'
    BY <1>7, <1>c DEF RentSend, riskVars
  <2>2. WorldTypeOK'
    BY <1>7, <1>a, <1>b, OfferSentTypes DEF RentSend
  <2>3. RunTypeOK'
    BY <1>7, <1>a, ContinueTypes DEF RentSend
  <2> QED
    BY <2>1, <2>2, <2>3
<1>8. ASSUME NEW o \in Orders, AcceptOrder(o) PROVE RunTypeOK' /\ WorldTypeOK' /\ CoolTypeOK'
  <2>1. CoolTypeOK' /\ UNCHANGED <<ordState, costly, zeroList>>
    BY <1>8, <1>c DEF AcceptOrder, riskVars
  <2>2. PICK r \in AcceptOutcomes(o) :
           /\ offer' = r[1] /\ given' = Given(r[1])
           /\ IF r[2] THEN MarkAccepted(o) ELSE NotMarked(o) /\ UNCHANGED recorded
           /\ Continue(o, ~r[2])
    BY <1>8 DEF AcceptOrder
  <2>3. offer \in [AllOffers -> OfferStates] /\ o \in AllOffers
    BY <1>a DEF WorldTypeOK, AllOffers
  <2>4. offer' \in [AllOffers -> OfferStates] /\ given' \subseteq given \cup {o} /\ r[2] \in BOOLEAN
    BY <2>2, <2>3, AcceptTouchesOne, GivesAtMostOne
  <2>5. RunTypeOK'
    <3>1. (~r[2]) \in BOOLEAN
      OBVIOUS
    <3> HIDE DEF Continue
    <3> QED
      BY <1>a, <2>2, <3>1, ContinueTypes
  <2>6. /\ IsFiniteSet(accepted') /\ accepted' \subseteq Orders /\ recorded' \subseteq Orders
        /\ Cardinality(accepted') <= AcceptedMax \/ Cardinality(accepted') = 1
    <3>1. CASE r[2]
      BY <1>a, <2>2, <3>1, MarkAcceptedBounded
    <3>2. CASE ~r[2]
      BY <1>a, <2>2, <3>2 DEF NotMarked, WorldTypeOK
    <3> QED
      BY <3>1, <3>2
  <2>7. given' \subseteq AllOffers /\ given' \cap costly = {}
    BY <1>a, <2>3, <2>4, DeliveryAssumption DEF WorldTypeOK
  <2> QED
    BY <1>a, <2>1, <2>4, <2>5, <2>6, <2>7 DEF WorldTypeOK
<1>9. CASE ListReceivedOffers
  <2>1. WorldTypeOK'
    BY <1>9, <1>a DEF ListReceivedOffers, WorldTypeOK
  <2> QED
    BY <1>9, <1>c, <1>d, <2>1 DEF ListReceivedOffers, riskVars, runVars
<1>10. ASSUME NEW f \in Foreign, AcceptZeroCost(f) PROVE RunTypeOK' /\ WorldTypeOK' /\ CoolTypeOK'
  <2>1. RunTypeOK' /\ CoolTypeOK' /\ UNCHANGED <<ordState, costly, accepted, recorded>> /\ f \in zeroList
    BY <1>10, <1>c, <1>d DEF AcceptZeroCost, riskVars, runVars
  <2>2. PICK r \in AcceptOutcomes(f) :
           /\ offer' = r[1] /\ given' = Given(r[1])
           /\ zeroList' = IF r[2] THEN zeroList \ {f} ELSE {}
    BY <1>10 DEF AcceptZeroCost
  <2>3. offer \in [AllOffers -> OfferStates] /\ f \in AllOffers
    BY <1>a DEF WorldTypeOK, AllOffers
  <2>4. offer' \in [AllOffers -> OfferStates] /\ given' \subseteq given \cup {f}
    BY <2>2, <2>3, AcceptTouchesOne, GivesAtMostOne
  <2>5. f \notin costly /\ zeroList' \subseteq zeroList
    BY <1>a, <2>1, <2>2 DEF WorldTypeOK
  <2> QED
    BY <1>a, <2>1, <2>3, <2>4, <2>5 DEF WorldTypeOK
<1>11. ASSUME NEW p \in Penalties, OtherJobPenalizes(p) PROVE RunTypeOK' /\ WorldTypeOK' /\ CoolTypeOK'
  BY <1>11, <1>a, <1>b, <1>d, PenalizeTypes DEF OtherJobPenalizes, runVars
<1>12. CASE TimePasses
  <2>1. CoolTypeOK'
    <3>1. cool' \in {0} \cup UNION {0 .. q : q \in Penalties}
      <4>1. PICK q \in Penalties : cool \in 0 .. q
        BY <1>12, <1>a DEF TimePasses, CoolTypeOK
      <4>2. cool' \in 0 .. q
        BY <1>12, <4>1, DeliveryAssumption DEF TimePasses
      <4> QED
        BY <4>2
    <3> QED
      BY <1>12, <1>a, <3>1 DEF TimePasses, CoolTypeOK
  <2> QED
    BY <1>12, <1>b, <1>d, <2>1 DEF TimePasses, runVars
<1>13. CASE Restart
  <2>1. RunTypeOK'
    BY <1>13, RunReturnsTypes DEF Restart
  <2>2. IsFiniteSet(accepted') /\ Cardinality(accepted') = 0
    BY <1>13, FS_EmptySet DEF Restart
  <2>3. WorldTypeOK'
    BY <1>13, <1>a, <2>2, DeliveryAssumption DEF Restart, WorldTypeOK
  <2>4. CoolTypeOK'
    BY <1>13, <1>a, DeliveryAssumption DEF Restart, CoolTypeOK
  <2> QED
    BY <2>1, <2>3, <2>4
<1>14. ASSUME NEW o \in Orders, OfferIdVisible(o) \/ OrderLeaves(o) PROVE RunTypeOK' /\ WorldTypeOK' /\ CoolTypeOK'
  <2>1. RunTypeOK' /\ CoolTypeOK'
    BY <1>14, <1>c, <1>d DEF OfferIdVisible, OrderLeaves, runVars, riskVars
  <2>2. offer' \in [AllOffers -> OfferStates] /\ ordState' \in [Orders -> {"unsent", "sent", "ready", "gone"}]
    BY <1>14, <1>a DEF OfferIdVisible, OrderLeaves, WorldTypeOK, OfferStates
  <2> QED
    BY <1>14, <1>a, <2>1, <2>2 DEF OfferIdVisible, OrderLeaves, WorldTypeOK
<1>15. CASE UNCHANGED deliveryVars
  BY <1>15, <1>b, <1>c, <1>d DEF deliveryVars
<1> QED
  BY <1>1, <1>2, <1>3, <1>4, <1>5, <1>6, <1>7, <1>8, <1>9, <1>10, <1>11, <1>12, <1>13, <1>14, <1>15
     DEF DeliveryNext

\* acceptTradeOffer, confirmTradeOffer, AcceptZeroCostOffers: whatever runs at the
\* same time, an offer that takes something from us is accepted only when ECO
\* named it.
THEOREM NothingGivenAway == DeliverySpec => []OnlyAuthorisedGiven
<1>1. DeliveryInv => OnlyAuthorisedGiven
  BY DEF DeliveryInv, WorldTypeOK, OnlyAuthorisedGiven
<1> QED
  BY <1>1, DeliveryInvInit, DeliveryInvStep, PTL DEF DeliverySpec

\* The run, the offers and the cooldown keep their types, and the accepted set
\* stays within acceptedSetMax.
THEOREM DeliveryTypeCorrect == DeliverySpec => []DeliveryTypeOK
<1>1. DeliveryInv => DeliveryTypeOK
  BY DEF DeliveryInv, DeliveryTypeOK, RunTypeOK, WorldTypeOK, CoolTypeOK, OfferStates
<1> QED
  BY <1>1, DeliveryInvInit, DeliveryInvStep, PTL DEF DeliverySpec

\* acceptTradeOffer reports success only of an offer that is accepted, and leaves
\* an offer that is not there, accepted or dead as it is.
LEMMA AcceptReports ==
  ASSUME NEW x \in AllOffers, offer \in [AllOffers -> OfferStates], NEW r \in AcceptOutcomes(x)
  PROVE  /\ offer[x] \in {"none", "accepted", "dead"} => r[1] = offer
         /\ r[2] => r[1][x] = "accepted"
<1>1. ASSUME NEW offs \in [AllOffers -> OfferStates], r \in ConfirmOutcomes(x, offs)
      PROVE  r[2] => r[1][x] = "accepted"
  <2>1. CASE r = <<offs, FALSE>>
    BY <2>1
  <2>2. CASE r \in {Allowed(y, offs) : y \in MatchingConfirmation(x, offs)} \X BOOLEAN
    <3>1. PICK y \in MatchingConfirmation(x, offs) : r[1] = Allowed(y, offs)
      BY <2>2
    <3>2. r[1] = [offs EXCEPT ![x] = "accepted"]
      BY <3>1 DEF MatchingConfirmation, Allowed
    <3> QED
      BY <3>2
  <2> QED
    BY <1>1, <2>1, <2>2 DEF ConfirmOutcomes
<1>2. CASE offer[x] = "accepted"
  <2>1. r = <<offer, TRUE>> \/ r = <<offer, FALSE>>
    BY <1>2, Zenon DEF AcceptOutcomes
  <2>2. r[1] = offer
    <3>1. CASE r = <<offer, TRUE>>
      BY <3>1
    <3>2. CASE r = <<offer, FALSE>>
      BY <3>2
    <3> QED
      BY <2>1, <3>1, <3>2
  <2> QED
    BY <1>2, <2>2
<1>3. CASE offer[x] = "confirm"
  <2>1. r \in ConfirmOutcomes(x, offer)
    BY <1>3 DEF AcceptOutcomes
  <2> QED
    BY <1>1, <1>3, <2>1
<1>4. CASE offer[x] = "active"
  <2> DEFINE offs == [offer EXCEPT ![x] = "confirm"]
  <2>1. \/ r = <<offer, FALSE>>
        \/ \E ok \in BOOLEAN : r = <<[offer EXCEPT ![x] = "accepted"], ok>>
        \/ r \in ConfirmOutcomes(x, offs)
    BY <1>4 DEF AcceptOutcomes
  <2>2. CASE r = <<offer, FALSE>>
    BY <1>4, <2>2
  <2>3. CASE \E ok \in BOOLEAN : r = <<[offer EXCEPT ![x] = "accepted"], ok>>
    BY <1>4, <2>3
  <2>4. CASE r \in ConfirmOutcomes(x, offs)
    <3>1. offs \in [AllOffers -> OfferStates]
      BY DEF OfferStates
    <3> HIDE DEF offs
    <3> QED
      BY <1>1, <1>4, <2>4, <3>1
  <2> QED
    BY <2>1, <2>2, <2>3, <2>4
<1>5. CASE offer[x] \notin {"accepted", "confirm", "active"}
  <2>1. r = <<offer, FALSE>>
    BY <1>5 DEF AcceptOutcomes
  <2> QED
    BY <2>1
<1> QED
  BY <1>2, <1>3, <1>4, <1>5

\* An order that ECO has not sent has no offer, which OneClickResolveOffer and a
\* repeated SendOffer could otherwise replace after it was accepted.
UnsentHasNoOffer == \A o \in Orders : ordState[o] = "unsent" => offer[o] = "none"

\* Every step keeps it, and what is marked delivered.
LEMMA MarkedStep ==
  DeliveryInv /\ UnsentHasNoOffer /\ MarkedIsDelivered /\ [DeliveryNext]_deliveryVars
    => UnsentHasNoOffer' /\ MarkedIsDelivered'
<1> SUFFICES ASSUME DeliveryInv, UnsentHasNoOffer, MarkedIsDelivered, [DeliveryNext]_deliveryVars
             PROVE  UnsentHasNoOffer' /\ MarkedIsDelivered'
  OBVIOUS
<1>a. /\ ordState \in [Orders -> {"unsent", "sent", "ready", "gone"}]
      /\ offer \in [AllOffers -> OfferStates] /\ recorded \subseteq Orders /\ Orders \subseteq AllOffers
  BY DEF DeliveryInv, WorldTypeOK, AllOffers
<1>b. ASSUME UNCHANGED <<ordState, offer, recorded>>, accepted' \subseteq accepted
      PROVE  UnsentHasNoOffer' /\ MarkedIsDelivered'
  BY <1>b DEF UnsentHasNoOffer, MarkedIsDelivered
<1>c. ASSUME NEW o \in Orders, OfferSent(o), UNCHANGED <<accepted, recorded>>
      PROVE  UnsentHasNoOffer' /\ MarkedIsDelivered'
  <2>1. PICK s \in {"active", "confirm"} : offer' = [offer EXCEPT ![o] = s]
    BY <1>c DEF OfferSent
  <2>2. ordState' = [ordState EXCEPT ![o] = "sent"] /\ o \notin recorded
    BY <1>c DEF OfferSent, UnsentHasNoOffer, MarkedIsDelivered
  <2> QED
    BY <1>a, <1>c, <2>1, <2>2 DEF UnsentHasNoOffer, MarkedIsDelivered
<1>1. CASE \/ ListSaleOrders \/ ListRentOrders \/ RiskEndsRun \/ ListReceivedOffers \/ TimePasses \/ Restart
           \/ \E p \in Penalties : OtherJobPenalizes(p)
           \/ \E o \in Orders : SaleDetail(o) \/ RentDetail(o)
           \/ UNCHANGED deliveryVars
  <2>1. UNCHANGED <<ordState, offer, recorded>> /\ accepted' \subseteq accepted
    BY <1>1 DEF ListSaleOrders, ListRentOrders, RiskEndsRun, ListReceivedOffers, TimePasses, Restart,
                OtherJobPenalizes, SaleDetail, RentDetail, deliveryVars
  <2> QED
    BY <1>b, <2>1
<1>2. CASE FinishRun
  <2>1. accepted' = accepted /\ recorded' = recorded
    BY <1>2 DEF FinishRun
  <2>2. CASE UNCHANGED <<ordState, offer>>
    BY <1>b, <2>1, <2>2
  <2>3. ASSUME NEW os \in SUBSET {o \in Orders : ordState[o] = "unsent"},
               ordState' = [o \in Orders |-> IF o \in os THEN "sent" ELSE ordState[o]],
               offer' = [x \in AllOffers |-> IF x \in os THEN "active" ELSE offer[x]]
        PROVE  UnsentHasNoOffer' /\ MarkedIsDelivered'
    <3>1. os \cap recorded = {}
      BY DEF UnsentHasNoOffer, MarkedIsDelivered
    <3> QED
      BY <1>a, <2>1, <2>3, <3>1 DEF UnsentHasNoOffer, MarkedIsDelivered
  <2> QED
    BY <1>2, <2>2, <2>3 DEF FinishRun
<1>3. ASSUME NEW o \in Orders, SaleSend(o) \/ RentSend(o) PROVE UnsentHasNoOffer' /\ MarkedIsDelivered'
  <2>1. accepted' = accepted /\ recorded' = recorded /\ (OfferSent(o) \/ UNCHANGED <<ordState, offer>>)
    BY <1>3 DEF SaleSend, RentSend
  <2> QED
    BY <1>b, <1>c, <2>1
<1>4. ASSUME NEW o \in Orders, AcceptOrder(o) PROVE UnsentHasNoOffer' /\ MarkedIsDelivered'
  <2>1. PICK r \in AcceptOutcomes(o) :
           /\ offer' = r[1]
           /\ IF r[2] THEN MarkAccepted(o) ELSE NotMarked(o) /\ UNCHANGED recorded
    BY <1>4 DEF AcceptOrder
  <2>2. /\ \A y \in AllOffers : y # o => offer'[y] = offer[y]
        /\ offer[o] \in {"none", "accepted", "dead"} => offer' = offer
        /\ r[2] => offer'[o] = "accepted"
    BY <1>a, <2>1, AcceptTouchesOne, AcceptReports
  <2>3. UnsentHasNoOffer'
    <3>1. ordState' = ordState
      BY <1>4 DEF AcceptOrder
    <3> QED
      BY <1>a, <2>2, <3>1 DEF UnsentHasNoOffer
  <2>4. \A x \in recorded : offer'[x] = "accepted"
    BY <1>a, <2>2 DEF MarkedIsDelivered
  <2>5. CASE r[2]
    <3>1. recorded' = recorded \cup {o} /\ accepted' \subseteq accepted \cup {o}
      BY <2>1, <2>5 DEF MarkAccepted
    <3> QED
      BY <2>2, <2>3, <2>4, <2>5, <3>1 DEF MarkedIsDelivered
  <2>6. CASE ~r[2]
    BY <2>1, <2>3, <2>4, <2>6 DEF NotMarked, MarkedIsDelivered
  <2> QED
    BY <2>5, <2>6
<1>5. ASSUME NEW f \in Foreign, AcceptZeroCost(f) PROVE UnsentHasNoOffer' /\ MarkedIsDelivered'
  <2>1. PICK r \in AcceptOutcomes(f) : offer' = r[1]
    BY <1>5 DEF AcceptZeroCost
  <2>2. \A y \in Orders : offer'[y] = offer[y]
    BY <1>a, <2>1, AcceptTouchesOne, DeliveryAssumption DEF AllOffers
  <2>3. UNCHANGED <<ordState, accepted, recorded>>
    BY <1>5 DEF AcceptZeroCost
  <2> QED
    BY <1>a, <2>2, <2>3 DEF UnsentHasNoOffer, MarkedIsDelivered
<1>6. ASSUME NEW o \in Orders, OfferIdVisible(o) PROVE UnsentHasNoOffer' /\ MarkedIsDelivered'
  BY <1>a, <1>6 DEF OfferIdVisible, UnsentHasNoOffer, MarkedIsDelivered
<1>7. ASSUME NEW o \in Orders, OrderLeaves(o) PROVE UnsentHasNoOffer' /\ MarkedIsDelivered'
  <2>1. /\ ordState' = [ordState EXCEPT ![o] = "gone"] /\ UNCHANGED <<accepted, recorded>>
        /\ offer' = [offer EXCEPT ![o] = IF @ = "accepted" THEN @ ELSE "dead"]
    BY <1>7 DEF OrderLeaves
  <2> QED
    BY <1>a, <2>1 DEF UnsentHasNoOffer, MarkedIsDelivered
<1> QED
  BY <1>1, <1>2, <1>3, <1>4, <1>5, <1>6, <1>7 DEF DeliveryNext

\* RunECODelivery, markAccepted: an order that is skipped as handled, or whose
\* delivery is on record, has its own offer accepted on Steam, for any orders,
\* cap of the accepted set, lost answers and restarts.
THEOREM DeliveryIsReal == DeliverySpec => []MarkedIsDelivered
<1>1. DeliveryInit => UnsentHasNoOffer /\ MarkedIsDelivered
  BY DEF DeliveryInit, UnsentHasNoOffer, MarkedIsDelivered
<1> QED
  BY <1>1, DeliveryInvInit, DeliveryInvStep, MarkedStep, PTL DEF DeliverySpec

\* penalize: no job shortens the cooldown another job has set; it only runs out
\* with time or ends with the process.
THEOREM CooldownNeverShortened == DeliverySpec => CooldownIsKept
<1> DEFINE Kept == cool' < cool => (cool' = cool - 1 /\ risks' = risks) \/ restarts' > restarts
<1>1. DeliveryInv /\ [DeliveryNext]_deliveryVars => [Kept]_deliveryVars
  <2> SUFFICES ASSUME DeliveryInv, [DeliveryNext]_deliveryVars PROVE Kept
    OBVIOUS
  <2>1. CoolTypeOK /\ cool \in Nat
    BY DeliveryAssumption DEF DeliveryInv, CoolTypeOK
  <2>2. CASE UNCHANGED cool
    BY <2>1, <2>2
  <2>3. ASSUME NEW p \in Penalties, Penalize(p), UNCHANGED restarts PROVE Kept
    <3>1. cool' >= cool /\ CoolTypeOK'
      BY <2>1, <2>3, PenalizeTypes
    <3>2. cool' \in Nat
      BY <3>1, DeliveryAssumption DEF CoolTypeOK
    <3> QED
      BY <2>1, <3>1, <3>2
  <2>4. CASE RiskEndsRun
    BY <2>2, <2>3, <2>4 DEF RiskEndsRun, riskVars
  <2>5. ASSUME NEW p \in Penalties, OtherJobPenalizes(p) PROVE Kept
    BY <2>3, <2>5 DEF OtherJobPenalizes
  <2>6. CASE TimePasses
    BY <2>6 DEF TimePasses
  <2>7. CASE Restart
    BY <2>1, <2>7 DEF Restart, CoolTypeOK
  <2>8. CASE ListSaleOrders \/ ListRentOrders \/ FinishRun \/ ListReceivedOffers
    BY <2>2, <2>8 DEF ListSaleOrders, ListRentOrders, FinishRun, ListReceivedOffers, riskVars
  <2>9. ASSUME NEW o \in Orders, SaleSend(o) \/ SaleDetail(o) \/ RentDetail(o) \/ RentSend(o) \/ AcceptOrder(o)
        PROVE  Kept
    <3>1. UNCHANGED cool
      BY <2>9 DEF SaleSend, SaleDetail, RentDetail, RentSend, AcceptOrder, riskVars
    <3> QED
      BY <2>2, <3>1
  <2>10. CASE UNCHANGED deliveryVars
    BY <2>2, <2>10 DEF deliveryVars
  <2>11. ASSUME NEW o \in Orders, OfferIdVisible(o) \/ OrderLeaves(o) PROVE Kept
    BY <2>2, <2>11 DEF OfferIdVisible, OrderLeaves, riskVars
  <2>12. ASSUME NEW f \in Foreign, AcceptZeroCost(f) PROVE Kept
    BY <2>2, <2>12 DEF AcceptZeroCost, riskVars
  <2> HIDE DEF Kept
  <2> QED
    BY <2>4, <2>5, <2>6, <2>7, <2>8, <2>9, <2>10, <2>11, <2>12 DEF DeliveryNext
<1> QED
  BY <1>1, DeliveryInvInit, DeliveryInvStep, PTL DEF DeliverySpec, CooldownIsKept
=============================================================================
