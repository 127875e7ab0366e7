SPECIFICATION ConnectingSpec
CONSTANTS
  ClientOptions <- MCOptions
  ServerOptions <- MCServerOptions
  Headers <- MCHeaders
  ProxyUrls <- MCProxyUrls
  Targets <- MCTargets
  Methods <- MCMethods
  Statuses <- MCStatuses
  Replies <- MCReplies
  TargetBytes = 1
  Values = {1, 2}
  MaxCalls = 3
  Plans <- PlansInUse
  Responses <- MCResponses
INVARIANTS
  RequestInsideTunnel TunnelClean CredentialsAsked VerdictsAgree PushedArrive
  SettingsAsAsked ContextsAgree AnswerKeepsOffer
CHECK_DEADLOCK FALSE
