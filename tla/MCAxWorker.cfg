SPECIFICATION AxSpec
CONSTANTS
  mail = mail
  web = web
  field = field
  button = button
  NoApp = NoApp
  NoElement = NoElement
  Apps <- MCApps
  Elements <- MCElements
  MaxSteps = 2
  MaxQueue = 2
  MaxFaults = 1
INVARIANTS
  NothingLeaks
PROPERTIES
  BindingFollowsTheUser
  FocusIsTold
  TeardownEnds
CHECK_DEADLOCK FALSE
