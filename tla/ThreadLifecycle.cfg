SPECIFICATION FairSpec
INVARIANTS
  FlagsTrackThread
  NoCallOnReapedThread
  LockLostOnlyByTerminate
PROPERTY
  BlockedCallsReturn
