SPECIFICATION Spec
CONSTANTS
  Text = {"", "0", "1", "0.5", "a"}
  NumberOf <- NumberHere
  Option = {"", "a"}
  Pattern = {"a"}
  Documents <- DocumentsHere
  Identifier <- IdentifierHere
  SchemaDocs <- SchemaDocsHere
  Kind = "Deployment"
  Focus <- FocusHere
INVARIANTS AcceptedRenders EnteredIsDeployed Completable RoundTripsPlain RowsAreDeclared
CHECK_DEADLOCK FALSE
