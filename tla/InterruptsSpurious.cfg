SPECIFICATION FairSpec
CONSTANTS
  Exceptions = {0, 2, 8, 11, 14}
  IrqLines = {0, 1}
  SpuriousLine = 7
  CpuInterruptList = {0, 6, 13, 14}
  Contributory = {0, 10, 11, 12, 13, 14}
  ExceptionMax = 3
  PicMax = 15
  KernelRawStack = 2
  InterruptRawStack = 2
  Preamble = 2
  Overhead = 1
INVARIANT UnhandledIrqReturns
