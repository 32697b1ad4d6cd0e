\* Two employers approved for one company activate together.
CONSTANTS
  ann = ann
  bob = bob
  a1 = a1
  b1 = b1
  b2 = b2
  acme = acme
  other = other
  acmes = acmes
  others = others
  t1 = t1
  t2 = t2
  c1 = c1
  c2 = c2
  Ticket = {t1, t2}
  Email = {ann, bob}
  Applicant = {ann, bob}
  Account = {a1, b1, b2}
  AddressOf <- Addresses
  Seeded = {}
  Company = {acme}
  Legacy <- Nobody
  Domain = {acmes, others}
  DomainOf <- Domains
  Listed <- Acmes
  Call = {c1, c2}
  MaxCodes = 2
  Reviews = {"REVIEWING", "REJECTED"}
  Deletable = {b1}
  Edits <- Nobody
SPECIFICATION Spec
SYMMETRY Symmetry
CHECK_DEADLOCK FALSE
INVARIANTS OneEmployerPerCompany
