CONSTANTS
  mnStartedSize = 1
  MaxThreads = 3
  Mails = {m1, m2, m3}
  MaxStarts = 2
SPECIFICATION PartsSpec
INVARIANTS
  TypeOK
  QueuesConsistent
  NoStrandedThread
  StartedAtMostOneAbove
  RunningThreadIsJoined
  EntriesAccounted
  MailTypeOK
  NoLostWakening
  MailsInOrder
  AtMostOneAfterStop
  AtMostOneAfterShutdown
PROPERTIES
  NoStartWhileSuspended
  RetrievalEnds
  ResumeReturns
  ShutdownEndsThread
  WaitingMailTaken
