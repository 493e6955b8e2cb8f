SPECIFICATION FairSpec
CONSTANTS
  Handlers = {h1}
  Tenants = {t1}
  Payments = {p1}
  Gateways = {"razorpay", "stripe", "paypal"}
  MaxOthers = 3
  MaxCrashes = 1
INVARIANTS PaidTenantIsOpen SuspensionIsEarned
PROPERTIES CaptureIsInvoiced
CHECK_DEADLOCK FALSE
