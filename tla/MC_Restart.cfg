\* Restart: the service may die at any point and restore its snapshot.
CONSTANTS
  u1 = u1
  u2 = u2
  a1 = a1
  sSys = sSys
  sHap = sHap
  user1 = user1
  user2 = user2
  NoKey = NoKey
  Uids <- MCUids
  Abilities <- MCAbilities
  InnerModes <- ViewInnerModes
  Configured <- MCConfigured
  RequestModes <- ViewRequestModes
  UpdateModes <- ViewUpdateModes
  SystemApps = {u2}
  Users <- MCUsers
  UserOf <- MCUserOf
  Subs = {}
  SubHap <- MCSubHap
  SubUid <- MCSubUid
  SubSuspendFlag <- MCSubSuspendFlag
  Rank <- MCRank
  MaxTaskId = 2
  PromptOutcomes = {"none", "all"}
  AppNameOutcomes = {TRUE}
  PublishOutcomes = {TRUE}
  ApiKinds = {TRUE}
  CarParams = {FALSE}
  Restarts = TRUE
  ProcessOutcomes = {TRUE}
SPECIFICATION Spec
VIEW StateView
INVARIANTS
  TaskIdsUnique
  SnapshotCurrent
PROPERTIES
  TaskLifecycleRefined
