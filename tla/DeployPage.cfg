SPECIFICATION Spec
CONSTANTS
  None = None
  Value <- ValuesHere
  Blank = "plain"
  InRelease = "plain"
  Accepted <- GoodValues
  Renders <- ValuesHere
  KindsOf <- KindsHere
  Cluster = {"c1", "c2"}
  Namespace = {"default"}
  Granted <- GrantedHere
  MaxPost = 1
  MaxCheck = 2
INVARIANTS ApprovalIsTrue CreatesOnListed
 
