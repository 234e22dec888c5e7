SPECIFICATION Spec
CONSTANTS
  one = one
  other = other
  again = again
  light = light
  heavy = heavy
  weight = weight
  price = price
  Workers = {w1, w2}
  Findings <- MCFindings
  Content <- MCContent
  Claim <- MCClaim
  Subject <- MCSubject
  Packages <- MCPackages
  MaxReviews = 3
  MaxOverlaps = 2
INVARIANTS PackageIsBacked StoredOnce
CHECK_DEADLOCK FALSE
