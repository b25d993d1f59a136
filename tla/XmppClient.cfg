SPECIFICATION FairSpec
CONSTANTS
  ExplicitHost = FALSE
  SupportsSsl = TRUE
  LocalSecurity = "TLSRequired"
  UseSasl = TRUE
  KeepAliveInterval = 60
  KeepAliveTimeout = 20
  VersionOffers = {TRUE, FALSE}
  TlsOffers = {"Disabled", "Enabled", "Required"}
  SaslOffers = {"none", "unsupported", "common"}
  NonSaslOffers = {TRUE, FALSE}
  SessionOffers = {TRUE, FALSE}
  Refusals = {"auth", "response", "bind", "session", "nonSaslQuery", "nonSasl"}
  LinkMayDie = TRUE
  AutoReconnect = TRUE
INVARIANTS TypeOK SessionBacked NegotiatedMeansEncrypted SessionOwned
PROPERTIES ImplementsSession AttemptsSettle
