SPECIFICATION Spec
CONSTANTS
  Legs <- MCLegs
  TimeoutSeconds = 120
  PullSeconds = {0, 45}
  SlowSeconds = 30
INVARIANTS TypeOK VerdictSound PromptLogJudged PageSound
PROPERTY ImplementsAlert
