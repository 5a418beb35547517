SPECIFICATION StackSpec
CONSTANTS
    Stacks = {web}
    Members = {m1, m2}
    None = None
    Own = Own
    Down = Down
INVARIANT GroupCountersUsed
