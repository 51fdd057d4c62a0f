SPECIFICATION Spec
CONSTANTS
    w1 = w1  w2 = w2  c1 = c1  c2 = c2  c3 = c3  v1 = v1
    hook = hook  job = job  other = other  ws = ws
    Runs = {w1, c1, c2}
    Routes = {hook, job, other}
    Workspaces = {ws}
    RouteOf <- MCRouteOf
    WorkspaceOf <- MCWorkspaceOf
    Overlap <- MCOverlap
    GlobalQueueCapacity = 2
    PerWorkspaceConcurrency = 2
    FinishChanCapacity = 1
    LedgerMayFail = TRUE
INVARIANT CronOverlap
PROPERTIES LedgerIsAppendOnly ImplementsLifecycle
