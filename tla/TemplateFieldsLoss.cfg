SPECIFICATION Spec
CONSTANTS
  Text = {"", "0", "1", "0.5", "a"}
  NumberOf <- NumberHere
  Option = {"", "a"}
  Pattern = {"a"}
  Documents <- LossyHere
  Identifier <- IdentifierHere
  SchemaDocs <- PlainSchema
  Kind = "Deployment"
  Focus <- FocusHere
INVARIANT LossIsWarned
