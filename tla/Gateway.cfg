CONSTANTS
 MaxEvents = 2
 MaxFields = 1
SPECIFICATION Spec
INVARIANTS MarkedIffPassedOn RunIsSound RuleKeysKept ParamsObeyed
CHECK_DEADLOCK FALSE
