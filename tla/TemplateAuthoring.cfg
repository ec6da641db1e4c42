SPECIFICATION AuthoringSpec
CONSTANTS
  None = None
  Nothing = Nothing
  Template = {"web"}
  Row = {1, 2}
  Text = {"a"}
  Body <- BodyHere
  Meta = {"m", "n"}
  MaxCalls = 2
  Cluster = {"c1", "c2"}
  Kind = {"Deployment"}
  Serves <- ServesHere
  Tag = {"t"}
  MaxResources = 2
  MaxPosts = 1
INVARIANTS NamesAreFresh EditsLandWhereSelected DisabledIsRefused
PROPERTIES  SavingEnds
