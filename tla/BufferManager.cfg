\* Three pages compete for two frames, two objects hold pages, and both kinds
\* of system call may fail.
SPECIFICATION FairSpec
CONSTANTS
  Files = {f1}
  MaxPages = 3
  FrameCount = 2
  Content = {zero, a}
  Zero = zero
  Handles = {h1, h2}
  NoPage = NoPage
  NoHandle = NoHandle
  FailingIO = {"write", "read"}
INVARIANTS TypeOK HandleSound PinAccounting ReassignAsserts StrandedIsNextVictim
  CleanMatchesDisk AppendIsFresh IInv
PROPERTIES ImplementsPageStore GetPageReturns
