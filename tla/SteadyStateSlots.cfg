SPECIFICATION Spec
CONSTANTS
  Mutants = {m1, m2, m3, m4}
  Parents = {1}
  NumParents = 1
  Nobody = Nobody
  MaxInFlight = 2
  MaxMutants = 2
  Coalesce = TRUE
  MayStop = TRUE
  AddsMayRaise = FALSE
  MaxFaults = 1
SYMMETRY MutantSymmetry
INVARIANT ProducerSlotsConserved
INVARIANT BufferSlotsConserved
INVARIANT NoOrphanWhileDispatching
INVARIANT CapOvershoot
PROPERTY PipelineSpec
CHECK_DEADLOCK FALSE
