SPECIFICATION Spec
CONSTANTS
  web = web
  db = db
  pod = pod
  vpc = vpc
  s1 = s1
  s2 = s2
  Managed = {web, db}
  Child = {pod}
  Dependency = {vpc}
  Owner <- OwnerOfPod
  Stack = {s1, s2}
  StackOf <- TwoStacks
  MaxVersion = 2
  MaxChanges = 1
INVARIANTS ProposalsAreGrounded AllClearIsComplete
