SPECIFICATION FairSpec
CONSTANTS
  ControlQueue = 2
  CommandQueue = 1
  EventQueue = 1
  OutputQueue = 2
PROPERTY EofExits
