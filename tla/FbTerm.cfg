SPECIFICATION Spec
CONSTANTS
  Screens <- MCScreens
  Slack = 1
INVARIANTS QueueMatchesMap
PROPERTIES ImplementsScreen
