SPECIFICATION FairSpec
CONSTANTS
  None = None
  Goroutines = {g1, g2, g3, g4}
  Addr = {readerSem, writerSem}
  ReaderSem = readerSem
  WriterSem = writerSem
  MaxReaders = 5
INVARIANTS IInv
PROPERTIES ImplementsRWLock WriterGetsLock
