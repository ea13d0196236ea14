SPECIFICATION FairSpec
CONSTANTS
  Space <- MCSpace
  MaxWire = 4
  MaxSent = 2
INVARIANTS WellFramed SpacesAgree
PROPERTIES ImplementsLink
