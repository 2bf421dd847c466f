CONSTANTS
    Quotes <- MCQuotes
    Gap = 0
    Recent = 2
    MaxTicks = 3
SPECIFICATION Spec
INVARIANT
    ReplyDecodes
