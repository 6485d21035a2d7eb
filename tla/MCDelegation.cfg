SPECIFICATION BothSpec
CONSTANTS
  n1 = n1
  n2 = n2
  a = a
  b = b
  Nodes <- MCNodes
  Names <- MCNames
  NameOf <- MCNameOf
  Plans <- MCPlans
  TokenIsETH = TRUE
  MaxRounds = 2
  MaxCancels = 1
  MaxRestarts = 1
  none = none
  Missing = none
  MinPoolMembers = 2
  Alike <- MCAlike
  Profile = "balanced"
  GateEnabled = TRUE
  Confidences = {0, 90}
  HasVerifier = TRUE
  Connected <- MCConnected
  Listed <- MCListed
  Strategies = {"organizer_llm", "scoring"}
  PlanAnswers <- MCPlanAnswers
  Prompts <- MCPrompts
  Texts <- MCTexts
INVARIANTS BothTypeOK PaymentsAgree ExecutionsMatchStatus ResultIsNew
  PlanIsSound OutcomeJustified
CHECK_DEADLOCK FALSE
