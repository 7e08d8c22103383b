CONSTANTS
  ann = ann
  bob = bob
  eve = eve
  film = film
  trailer = trailer
  missing = missing
  NoNumber = NoNumber
  None = None
  Unset = Unset
  MutexHandle = MutexHandle
  Clients <- MCClients
  Request <- MCRequest
  Names <- MCNames
  Files <- MCFiles
  Unruly <- MCUnruly
  Slots = 2
  Memory = 8
  Backlog = 2
  MaxFiles = 4
  MaxThreads = 3
SPECIFICATION Spec
INVARIANT MutexReleased
CHECK_DEADLOCK FALSE
