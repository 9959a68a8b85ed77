CONSTANTS
 Requests = {r1, r2}
 Limit = 2
 MaxActive = 1
 MaxUploads = 2
 Size <- MCSize
 MaxEvents = 2
 Parts <- MCParts
 FirstParts = {1}
SYMMETRY Symmetric
SPECIFICATION BatchSpec
INVARIANTS OneJobPerUpload NoInputLost NoStrayInput QuotasKept ManifestComplete JoinKeepsAnswers
CHECK_DEADLOCK FALSE
