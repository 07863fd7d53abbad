SPECIFICATION Spec
CONSTANTS
    c1 = c1
    CallIds <- MCCallIds
    TextCosts <- MCTextCosts
    ToolCosts <- MCToolCosts
    Agents <- MCWindowAgents
    SysCost = 1
    NoteCost = 1
    CallBound = 3
    TurnBound = 1
    SendBound = 1
INVARIANTS NoOrphanTool
