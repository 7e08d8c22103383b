CONSTANTS
  ann = ann
  bob = bob
  eve = eve
  film = film
  trailer = trailer
  missing = missing
  NoNumber = NoNumber
  None = None
  Unset = Unset
  MutexHandle = MutexHandle
  Clients <- MCClients
  Request <- MCRequest
  Names <- MCNames
  Files <- MCFiles
  Unruly <- MCUnruly
  Slots = 3
  Memory = 11
  Backlog = 2
  MaxFiles = 2
  MaxThreads = 2
SPECIFICATION Spec
INVARIANTS TypeOK OneWorkerPerConnection MembersIntact MutexReleased AnswersOwnRequest 
PROPERTIES Answered ImplementsService
CHECK_DEADLOCK FALSE
