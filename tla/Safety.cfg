SPECIFICATION SafetySpec
CONSTANTS
  laptop = laptop
  desk = desk
  phone = phone
  tablet = tablet
  Transfers = {batch}
  Computers = {laptop, desk}
  Phones = {phone, tablet}
  Exchanges <- Batches
  MaxFiles = 2
  MaxSize = 2
  MaxTouches = 1
  MaxFaults = 1
  Arrivals = {"t1", "t2"}
  Asked <- Asking
  OldFiles <- NamesBefore
  MaxHistory = 1
  User = "user"
  MaxEdits = 1
  None = None
  Ends = {"a", "b"}
  Letters <- LinkEnds
  MaxRequests <- Requests
  MaxPings = 1
  Parts <- ContactParts
  MaxLinks = 2
  MaxSyncs = 2
  MaxStarts = 1
  Signers = {1}
  Users = {"me", "other"}
  Me = "me"
  Services <- UnlockServices
  Attempts <- UnlockAttempts
  Service <- UnlockService
  MaxKeys = 2
  Desks = {"a", "b"}
  Texts = {"x", "y"}
  NoText = NoText
  MaxCopies = 3
  Mobiles = {"a", "b"}
  Callers = {"a", "b"}
  Notes = {1}
  Players = {"m1", "m2"}
  MaxEvents <- EventBounds
  MaxMoves = 1
  Timers = {1, 2, 3}
INVARIANT TypesOK
INVARIANT RepliesMatch
INVARIANT BooksUnmixed
INVARIANT PassedWasTouched
INVARIANT LinesHaveKey
INVARIANT AfterCalls
INVARIANT NoticesTrue
INVARIANT ClipsFollow
INVARIANT PhoneKeepsWhole
INVARIANT ComputerKeepsWhole
INVARIANT RightBytes
PROPERTY KeepsPromise
PROPERTY FilesKept
PROPERTY EntriesKept
PROPERTY Delivered
PROPERTY SavingEnds
CHECK_DEADLOCK FALSE
