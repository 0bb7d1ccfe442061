\* A prompt core with traffic both ways, and a slow one that only sends.
CONSTANTS
  TxLens = {1, 3}
  RxLens = {2, 4, 6}
  MinWords = 2
  CoreWords = 2
  MaxWords = 4
  BankWords = 4
  Loads <- PromptOrQuiet
  NSend = 3
  Flips = 1
SPECIFICATION FairSpec
INVARIANTS SentIntact ReceivedIntact
PROPERTIES Drains Departs
