CONSTANTS
  metadata = metadata
  name = name
  labels = labels
  release = release
  spec = spec
  template = template
  jobTemplate = jobTemplate
  containers = containers
  image = image
  Key <- Keys
  Names <- TwoNames
  Slot <- Slots
  MaxFields = 3
  MaxIndex = 2
SPECIFICATION Spec
INVARIANTS SerializesDeclared Labelled ManifestIsFaithful FailsForAReason
CHECK_DEADLOCK FALSE
