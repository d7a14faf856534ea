\* Documents of up to three names and a directive.
CONSTANTS
    q1 = q1
    q2 = q2
    t1 = t1
    Requests = {q1, q2}
    Tenants = {t1}
    tenantOf <- MCTenantOf
    rolesOf <- MCRolesOf
    MaxPageSize = 3
    DefaultPageSize = 2
    MaxDepth = 3
    MaxComplexity = 6
    MaxLength = 14
    AllowIntrospection = FALSE
    IntLimit = 50
    Syntax = {"directives"}
    MaxTokens = 4
    MaxFields = 2
    MaxVersion = 2
SPECIFICATION Spec
CHECK_DEADLOCK FALSE
INVARIANTS
    LimitIsALimit
