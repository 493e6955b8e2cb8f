SPECIFICATION Spec
CONSTANTS
  Tenants = {t1, t2}
  Ids = {i1, i2}
  Handlers = {h1}
  MaxEmployees = 3
  MaxSerial = 0
  MaxCrashes = 0
PROPERTY RequestsStayInTheirTenant
