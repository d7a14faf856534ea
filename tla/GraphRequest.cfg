\* Two requests, documents of up to four names, integers below 40: a document of
\* full pages nested four deep wraps, one within MaxLength * MaxPageSize does not.
CONSTANTS
    q1 = q1
    q2 = q2
    t1 = t1
    Requests = {q1, q2}
    Tenants = {t1}
    tenantOf <- MCTenantOf
    rolesOf <- MCRolesOf
    MaxPageSize = 3
    DefaultPageSize = 2
    MaxDepth = 3
    MaxComplexity = 8
    MaxLength = 13
    AllowIntrospection = FALSE
    IntLimit = 40
    Syntax = {"directives", "fragments", "texts"}
    MaxTokens = 4
    MaxFields = 2
    MaxVersion = 2
SPECIFICATION Spec
CHECK_DEADLOCK FALSE
INVARIANTS
    TypeOK
    AnalysisIsExact
    
    AnswersWereCurrent
    AnswersAgree
PROPERTIES
    NoWeakerThanRest
