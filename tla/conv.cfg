SPECIFICATION FairSpec
CONSTANTS
    c1 = c1
    CallIds <- MCCallIds
    TextCosts <- MCTextCosts
    ToolCosts <- MCToolCosts
    Agents <- MCAgents
    SysCost = 1
    NoteCost = 1
    CallBound = 2
    TurnBound = 1
    SendBound = 2
INVARIANTS NoOrphanTool TotalExact BudgetMet
PROPERTIES PinnedKept LatestKept CallReturns
