SPECIFICATION Spec
CONSTANTS
  ListProfiles = {"a", "b"}
  ListSessions = {"a1", "b1"}
  ListOwner <- Owners
  ListFirst = "a"
  ListKinds = {"chat", "load"}
  ListBudget = 3
  ListDeletes = 1
  EvChanges = 2
  EvErrors = 2
  EvWindows = 3
  BusPublishers = {"p", "q"}
  BusViewers = {"v", "w"}
  BusChanges = 4
INVARIANTS
  FetchedRowsAreActive
  
  SkeletonOwed
  
  GatewayWatched
  NoChangeLost
PROPERTIES
  SkeletonGoes
  
  BackgroundReleases
CHECK_DEADLOCK FALSE
