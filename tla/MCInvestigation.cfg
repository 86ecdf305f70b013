\* Two contracts, so that one can be taken for another.
SPECIFICATION Spec
CONSTANTS
  Contract = {c1, c2}
  NoContract = NoContract
INVARIANTS
  CheckpointComplete
  ContainersEndWithCall
  UnexpectedErrorsEnd
PROPERTY
  ImplementsGate
