CONSTANTS
  Accounts = {acctA, acctB}
  NoAccount = NoAccount
SPECIFICATION SteamSpec
INVARIANT HandedSessionIsWhole
