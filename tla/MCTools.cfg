SPECIFICATION Spec
CONSTANTS
  Asked = {"navigate", "back", "snapshot", "screenshot", "click", "click_zero", "hover", "type",
           "select", "press", "eval", "tabs", "console", "plan"}
  MaxTools = 2
  MaxRestarts = 3
  MaxDeaths = 3
INVARIANT SuccessWasCarriedOut TwiceOnlyAfterFailure
PROPERTY OwnToolAnswer EveryToolAnswered
CHECK_DEADLOCK FALSE
