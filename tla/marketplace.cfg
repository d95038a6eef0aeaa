CONSTANTS
  u1 = u1
  u2 = u2
  h1 = h1
  h2 = h2
  seeded = seeded
  owned = owned
  fresh = fresh
  r1 = r1
  r2 = r2
  r3 = r3
  s1 = s1
  s2 = s2
  s3 = s3
  s4 = s4
  s5 = s5
  None = None
  Users = {u1, u2}
  Handles = {h1, h2}
  Models = {fresh, owned, seeded}
  Registrations = {r1, r2, r3}
  UserOf <- MCUserOf
  HandleOf <- MCHandleOf
  Submissions = {s1, s2, s3, s4, s5}
  AuthorOf <- MCAuthorOf
  ModelOf <- MCModelOf
  OwnerAtStart <- MCOwnerAtStart
  MaxBuilds <- MCMaxBuilds
  RootArtifacts = {0, 1}
SPECIFICATION FairSpec
INVARIANTS UploadsKeptApart DeclaredIsUploaded OwnerKeepsModel ListedOnEvidence ApprovedIsListed
PROPERTY ReviewsEnd
CONSTRAINT Scenario
CHECK_DEADLOCK FALSE
