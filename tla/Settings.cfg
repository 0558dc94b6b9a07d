SPECIFICATION SettingsSpec
CONSTANTS
  MenuSlots <- MCMenuSlots
  Valid <- MCValid
  Max <- MCMax
  Default <- MCDefault
  Leftovers <- MCLeftovers
  Mantissa = 10
  Scale = 60
  TunedGain = 79
  Requests <- MCRequests
  MaxAsked = 4
  MaxTroubles = 2
INVARIANTS
  EditStands
  SavedSurvives
CHECK_DEADLOCK FALSE
