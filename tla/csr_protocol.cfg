\* Bits 0 and 1 are the ones the block treats specially (START and SOFT_RST, done
\* and error): a word without them and one with both cover what the logic
\* distinguishes, and two words are enough to tell the accepted one from another.
\* One register of each kind is written: self-clearing, plain, write-one-to-clear
\* and read-only; IRQ_EN behaves as SCRATCH.
CONSTANTS
  Words = {{}, {0, 1}}
  WriteAddrs = {"CTRL", "IRQ_STATUS", "SCRATCH", "STATUS"}
  ReadAddrs = {"SCRATCH"}
  Events = {0}
  HoldData = TRUE
SPECIFICATION AxiFairSpec
INVARIANT OneWriteInFlight
PROPERTIES ImplementsCsrBus StartIsAPulse WriteIsCommitted
