SPECIFICATION Spec
CONSTANTS
    YubikeyOtpLen = 2
    YubikeyIdLen = 1
    TotpLen = 1
    GenuineOtps <- Genuine
    None = None
    BadHex = BadHex
    Attributes <- AllAttributes
    Names <- AllNames
    Configs <- AllConfigs
    Lower <- Capitals
    Binds <- AllBinds
    Requests <- AllRequests
INVARIANTS OnlyCredentialsBind CredentialsBind OnlyWrongPasswordsCount SearchesAreAllowed EntriesCanBeLookedUp ListedAccountsCanBind FiltersSelect SubtreeHoldsLevels NothingCutOff
