---------------------------- MODULE DefaultPolicy ---------------------------
(***************************************************************************)
(* The tables of policy.Default() and Policy.scopeRoles(), by the names    *)
(* the code uses.  "none" stands for every department, title or capability *)
(* the tables do not mention.  Model-checking modules take their policy    *)
(* constants from here.                                                    *)
(***************************************************************************)

DefaultRoles ==
    {"dev-access", "k8s-staging", "k8s-prod", "db-readonly", "auditor",
     "it-admin", "device-admin", "crm-access", "finance-app",
     "access-reviewer", "break-glass-eligible"}

DefaultDepartments ==
    {"Engineering", "SRE", "Security", "IT", "Sales", "Finance", "none"}

DefaultTitles == {"Manager", "Director", "VP", "Incident Commander", "none"}

DefaultCapabilities == {"kyra-memory", "kyra-calendar", "mcp-gateway", "none"}

DefaultDepartmentRoles ==
    [d \in DefaultDepartments |->
        CASE d = "Engineering" -> {"dev-access", "k8s-staging"}
          [] d = "SRE"         -> {"dev-access", "k8s-prod", "db-readonly"}
          [] d = "Security"    -> {"auditor", "db-readonly"}
          [] d = "IT"          -> {"it-admin", "device-admin"}
          [] d = "Sales"       -> {"crm-access"}
          [] d = "Finance"     -> {"finance-app", "db-readonly"}
          [] d = "none"        -> {}]

DefaultTitleRoles ==
    [t \in DefaultTitles |->
        CASE t \in {"Manager", "Director", "VP"} -> {"access-reviewer"}
          [] t = "Incident Commander"            -> {"break-glass-eligible"}
          [] t = "none"                          -> {}]

DefaultAutoApprovable ==
    [r \in DefaultRoles |->
        CASE r = "dev-access" -> {"k8s-staging"}
          [] r = "k8s-prod"   -> {"db-readonly"}
          [] OTHER            -> {}]

DefaultScopeRoles ==
    [c \in DefaultCapabilities |->
        CASE c = "kyra-memory"   -> {"db-readonly"}
          [] c = "kyra-calendar" -> {"crm-access"}
          [] c = "mcp-gateway"   -> {"k8s-staging"}
          [] c = "none"          -> {}]

=============================================================================
