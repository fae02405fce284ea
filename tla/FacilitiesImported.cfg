\* An imported facility, whose limit changes.
SPECIFICATION Spec
CONSTANTS
  F1 = F1
  F2 = F2
  SL = SL
  D1 = D1
  D2 = D2
  D3 = D3
  R1 = R1
  R2 = R2
  U1 = U1
  U2 = U2
  None = None
  Facility <- OneFacility
  FacilitySubLimit <- OneSubLimit
  FacilityDrawdown <- TwoDrawdowns
  FacilityRepayment <- OneRepayment
  Principal <- OneRepayment
  Uncommitted = {}
  Users <- TwoUsers
  facility_id <- FacilityId
  sub_limit_id <- SubLimitId
  drawdown_id <- DrawdownId
  amount <- Amount
  Limits = {3, 4}
  Payments <- OneOrMinusOne
  LeastPaid <- MinusOne
  MaxVersions = 2
SYMMETRY UserSymmetry
PROPERTIES EarlierTermsAreKept NeverPastLimit
\* A cancelled facility ends the system: nothing can be asked of it.
CHECK_DEADLOCK FALSE
