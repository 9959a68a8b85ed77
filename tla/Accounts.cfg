CONSTANTS
 u1 = u1
 u2 = u2
 r1 = r1
 r2 = r2
 Users = {u1, u2}
 Root = u1
 AdminGroup = TRUE
 NumProjects = 4
 Jobs = {1}
 Slots = {r1, r2}
 MaxTokens = 1
 MaxRequests = 4
 NoUser = NoUser
SPECIFICATION Spec
SYMMETRY Symmetric
INVARIANTS LastAdminKept OneDefault JobsHaveProject
PROPERTIES ActiveJobsKept
CHECK_DEADLOCK FALSE
