------------------------------ MODULE Bootstrap ------------------------------
(***************************************************************************)
(* The first administrator password: resolveAdminPassword hands a random   *)
(* password to the operator in a file and its hash to app_settings.  The   *)
(* instance lock admits one process at a time; it may crash anywhere, and  *)
(* every start begins again from what the file and the database hold.      *)
(***************************************************************************)
CONSTANTS
  Generated,   \* passwords config.BootstrapPassword may draw
  NoPassword, Torn

ASSUME BootstrapAssumption == {NoPassword, Torn} \cap Generated = {} /\ NoPassword # Torn

VARIABLES
  bootPc,      \* down, fresh, created, store, serving
  bootPw,      \* the password in the process's memory
  bootFile,    \* the file: absent, torn (created, not completely written), or whole
  bootHash,    \* app_settings admin_password_hash, by its password
  known        \* passwords the operator has read

bootVars == <<bootPc, bootPw, bootFile, bootHash, known>>

BootTypeOK ==
  /\ bootPc \in {"down", "fresh", "created", "store", "serving"}
  /\ bootPw \in Generated \cup {NoPassword} /\ bootHash \in Generated \cup {NoPassword}
  /\ bootFile \in Generated \cup {NoPassword, Torn} /\ known \subseteq Generated

BootInit ==
  /\ bootPc = "down" /\ bootPw = NoPassword /\ bootHash = NoPassword
  /\ bootFile = NoPassword /\ known = {}

-----------------------------------------------------------------------------
\* ADMIN_PASS_HASH is set, or the database has a hash.
StartWithHash ==
  /\ bootPc = "down" /\ bootPc' = "serving"
  /\ UNCHANGED <<bootPw, bootFile, bootHash, known>>

\* ReadBootstrapPassword: the file an earlier start left is used; one that holds
\* no generated password ends the start.
StartFromFile ==
  /\ bootPc = "down" /\ bootHash = NoPassword /\ bootFile \in Generated
  /\ bootPw' = bootFile /\ bootPc' = "store"
  /\ UNCHANGED <<bootFile, bootHash, known>>

StartFresh(p) ==
  /\ bootPc = "down" /\ bootHash = NoPassword /\ bootFile = NoPassword
  /\ bootPw' = p /\ bootPc' = "fresh"
  /\ UNCHANGED <<bootFile, bootHash, known>>

Exits == bootPc' = "down" /\ bootPw' = NoPassword

\* WriteBootstrapPassword: O_EXCL, then write and sync.
CreateFile ==
  /\ bootPc = "fresh"
  /\ IF bootFile = NoPassword
     THEN bootFile' = Torn /\ bootPc' = "created" /\ UNCHANGED bootPw
     ELSE Exits /\ UNCHANGED bootFile
  /\ UNCHANGED <<bootHash, known>>

WriteFile ==
  /\ bootPc = "created" /\ bootFile' = bootPw /\ bootPc' = "store"
  /\ UNCHANGED <<bootPw, bootHash, known>>

\* Fault: a failed write or sync is ignored.
WriteFailsUnnoticed ==
  /\ bootPc = "created" /\ bootFile' \in {Torn, bootPw} /\ bootPc' = "store"
  /\ UNCHANGED <<bootPw, bootHash, known>>

\* The write or the sync fails; what was written may be there.
WriteFails ==
  /\ bootPc = "created" /\ bootFile' \in {Torn, bootPw} /\ Exits
  /\ UNCHANGED <<bootHash, known>>

\* UpsertSettingEnc; with an error the row may be there all the same.
StoreHash ==
  /\ bootPc = "store"
  /\ \/ bootHash' = bootPw /\ bootPc' = "serving" /\ UNCHANGED bootPw
     \/ bootHash' \in {bootHash, bootPw} /\ Exits
  /\ UNCHANGED <<bootFile, known>>

BootCrash ==
  /\ bootPc # "down" /\ Exits
  /\ bootFile' \in (IF bootPc = "created" THEN {Torn, bootPw} ELSE {bootFile})
  /\ UNCHANGED <<bootHash, known>>

\* The operator reads the file, and removes it once read or when it is useless.
OperatorReads ==
  /\ bootFile \in Generated /\ known' = known \cup {bootFile}
  /\ UNCHANGED <<bootPc, bootPw, bootFile, bootHash>>

OperatorRemoves ==
  /\ bootFile \in known \/ (bootFile = Torn /\ bootPc = "down")
  /\ bootFile' = NoPassword
  /\ UNCHANGED <<bootPc, bootPw, bootHash, known>>

BootNext ==
  \/ StartWithHash \/ StartFromFile \/ \E p \in Generated : StartFresh(p)
  \/ CreateFile \/ WriteFile \/ WriteFails \/ StoreHash \/ BootCrash
  \/ OperatorReads \/ OperatorRemoves

BootSpec == BootInit /\ [][BootNext]_bootVars

-----------------------------------------------------------------------------
(* Properties *)

\* ReadBootstrapPassword "recovers the file-to-database bootstrap handoff after a
\* crash": however often a start was cut short, the stored hash is the one of a
\* password that is in the file or that the operator has read.  Nobody is locked
\* out of a fresh installation.
PasswordIsDelivered ==
  bootHash # NoPassword => bootHash = bootFile \/ bootHash \in known
=============================================================================
