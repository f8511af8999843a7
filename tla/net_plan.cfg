CONSTANTS
  Width = 4
  Blank = Blank
  Cidrs <- MCCidrs
  Physical <- MCPhysical
  LanSelectors <- MCLanSelectors
  HostSelectors <- MCHostSelectors
  Extras = {"none", "reserved"}
SPECIFICATION Spec
CHECK_DEADLOCK FALSE
INVARIANTS
  PlannedBoots
  AddressesApart
  
