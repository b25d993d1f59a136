SPECIFICATION Spec
CONSTANTS
  ExplicitHost = FALSE
  SupportsSsl = TRUE
  LocalSecurity = "TLSEnabled"
  UseSasl = TRUE
  KeepAliveInterval = 60
  KeepAliveTimeout = 20
  VersionOffers = {TRUE}
  TlsOffers = {"Enabled"}
  SaslOffers = {"common"}
  NonSaslOffers = {FALSE}
  SessionOffers = {TRUE}
  Refusals = {"session"}
  LinkMayDie = TRUE
  AutoReconnect = TRUE
PROPERTY ConnectedAfterSession
