SPECIFICATION Spec
CONSTANTS
  Versions = {1, 2}
  ManualScopes = {"workspace"}
  MaxRequests = 3
  MaxEdits = 2
  MaxFaults = 1
  MaxRestarts = 1
INVARIANT OneActivePerGate
PROPERTY NoApprovalUnderBlocker
PROPERTY NoApprovalOverStaleSpec
PROPERTY ContractRestsOnActivePlan
