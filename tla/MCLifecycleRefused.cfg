SPECIFICATION LifecycleSpec
CONSTANTS
  Copies = {c1, c2}
  Others = {o}
INVARIANT
  RefusalLeavesVectors
