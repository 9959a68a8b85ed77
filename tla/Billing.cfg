CONSTANTS
 Starts = {"new", "unbilled", "orphaned"}
 Handlers = {"api"}
 SoftFailLimit = 1
 MaxTokens = 2
 MaxEvents = 1
SPECIFICATION FairSpec
INVARIANTS BillingTypeOK NotOvercharged SummaryAddsUp SucceededIsCharged
PROPERTIES KeepsTheLedger FinishedIsNoted BillsSettle
CHECK_DEADLOCK FALSE
