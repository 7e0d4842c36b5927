\* Notifications: every environment outcome, no subscribers.
CONSTANTS
  u1 = u1
  u2 = u2
  a1 = a1
  sSys = sSys
  sHap = sHap
  user1 = user1
  user2 = user2
  NoKey = NoKey
  Uids <- MCUids
  Abilities <- MCAbilities
  InnerModes <- MCInnerModes
  Configured <- MCConfigured
  RequestModes <- NotifyRequestModes
  UpdateModes <- NotifyUpdateModes
  SystemApps = {u2}
  Users <- MCUsers
  UserOf <- MCUserOf
  Subs = {}
  SubHap <- MCSubHap
  SubUid <- MCSubUid
  SubSuspendFlag <- MCSubSuspendFlag
  Rank <- MCRank
  MaxTaskId = 2
  PromptOutcomes = {"none", "main", "all"}
  AppNameOutcomes = {TRUE, FALSE}
  PublishOutcomes = {TRUE, FALSE}
  ApiKinds = {TRUE, FALSE}
  CarParams = {TRUE, FALSE}
  Restarts = FALSE
  ProcessOutcomes = {TRUE}
SPECIFICATION Spec
VIEW StateView
INVARIANTS
  TypeOK
  NotificationTracked
