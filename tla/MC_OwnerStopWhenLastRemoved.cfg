\* Removing an app's last task tells the system subscribers.
CONSTANTS
  u1 = u1
  u2 = u2
  a1 = a1
  sSys = sSys
  sHap = sHap
  user1 = user1
  user2 = user2
  NoKey = NoKey
  Uids <- MCUids
  Abilities <- MCAbilities
  InnerModes <- MCInnerModes
  Configured <- MCConfigured
  RequestModes <- ViewRequestModes
  UpdateModes <- ViewUpdateModes
  SystemApps = {}
  Users <- MCUsers
  UserOf <- MCUserOf
  Subs <- MCSubs
  SubHap <- MCSubHap
  SubUid <- MCSubUid
  SubSuspendFlag <- MCSubSuspendFlag
  Rank <- MCRank
  MaxTaskId = 2
  PromptOutcomes = {"all"}
  AppNameOutcomes = {TRUE}
  PublishOutcomes = {TRUE}
  ApiKinds = {TRUE}
  CarParams = {FALSE}
  Restarts = FALSE
  ProcessOutcomes = {TRUE}
SPECIFICATION Spec
VIEW StateView
PROPERTIES
  OwnerStopWhenLastRemoved
