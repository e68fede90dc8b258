SPECIFICATION DialogSpec
CONSTANTS
  Threads = {main, loader}
  Main = main
  MemoryEntries = 2
  MaxMessages = 2
CHECK_DEADLOCK FALSE
INVARIANTS
  NoMessageLost
  ImportantIsOnDisk
  HeardIsShown
  OwnRowsInOrder
PROPERTIES
  MessagesReachTheFile
