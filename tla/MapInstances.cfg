SPECIFICATION Spec
CONSTANTS
  ann = ann
  bea = bea
  bob = bob
  alice = alice
  other = other
  Admins = {alice, bob}
  Names = {ann, bea}
  Arguments = {other}
  OtherIds <- Overmap
  Resources <- Deployments
  MaxCount = 3
  MaxCommands = 4
  None = None
PROPERTIES InstancesSound NamesSound
CHECK_DEADLOCK FALSE
