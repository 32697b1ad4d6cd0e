\* A self-service employer, and another who gets in by one of two tickets or was in before
\* activation linked companies.
CONSTANTS
  ann = ann
  bob = bob
  a1 = a1
  b1 = b1
  b2 = b2
  acme = acme
  other = other
  acmes = acmes
  others = others
  t1 = t1
  t2 = t2
  c1 = c1
  c2 = c2
  Ticket = {t1, t2}
  Email = {ann, bob}
  Applicant = {bob}
  Account = {a1, b1, b2}
  AddressOf <- Addresses
  Seeded = {a1}
  Company = {acme, other}
  Legacy <- LegacyBob
  Domain = {acmes, others}
  DomainOf <- Domains
  Listed <- Websites
  Call = {c1, c2}
  MaxCodes = 2
  Reviews = {"REVIEWING", "REJECTED"}
  Deletable = {b1}
  Edits <- Moves
SPECIFICATION Spec
SYMMETRY Symmetry
CHECK_DEADLOCK FALSE
INVARIANTS OneApprovalPerAddress LinkedAsApproved VerificationIsEarned
PROPERTY ActivatedMeansLinked
