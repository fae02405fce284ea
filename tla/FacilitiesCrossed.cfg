\* A repayment of one facility tied to a drawdown of another.
\* A cancelled facility ends the system: nothing can be asked of it.
CHECK_DEADLOCK FALSE
SPECIFICATION Spec
CONSTANTS
  F1 = F1
  F2 = F2
  SL = SL
  D1 = D1
  D2 = D2
  D3 = D3
  R1 = R1
  R2 = R2
  U1 = U1
  U2 = U2
  None = None
  Facility <- TwoFacilities
  FacilitySubLimit <- OneSubLimit
  FacilityDrawdown <- TwoDrawdowns
  FacilityRepayment <- TwoRepayments
  Principal <- TwoRepayments
  Uncommitted = {}
  Users <- TwoUsers
  facility_id <- FacilityId
  sub_limit_id <- SubLimitId
  drawdown_id <- DrawdownId
  amount <- Amount
  Limits = {4}
  Payments = {1}
  LeastPaid = 0
  MaxVersions = 1
SYMMETRY UserSymmetry
PROPERTY SubLimitsAreAccounted
