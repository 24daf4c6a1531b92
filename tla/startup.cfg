CONSTANTS
  Deployment <- MCDeployment
  Unset = Unset
SPECIFICATION Spec
INVARIANTS RunsSoundly OneRepairSuffices
