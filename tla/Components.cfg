CONSTANTS
  CPUs = {c1, c2}
  Procs = {p}
  Locks = {ptable, kmem}
  ptable = ptable
SPECIFICATION AllSpec
CHECK_DEADLOCK FALSE
INVARIANTS
  AgreesWithTests
  AdmittedFits
  PipeSafe
  MemorySafe
  FilesSound
  ConsoleSafe
  HeapSound
  ParsesGrammar
  PipelinesEnd
  SpinlockSafe
PROPERTIES
  BytesWakeReaders
  PipeIsQueue
  EofSeen
  
