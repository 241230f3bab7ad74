\* Growth, deletion, unalias -a and subshells, against the map.
CONSTANTS
    a = a
    b = b
    c = c
    v = v
    Name = {a, b, c}
    Type = {"word", "alias"}
    Value = {v, w}
    Hash <- MCHash
    DefaultCapacity = 2
    SizeLimit = 4096
    MaxCapacity = 4
    MaxPairs = 3
    MaxTables = 2
    SubshellPairs <- MCSubshellPairs
SPECIFICATION Spec
ACTION_CONSTRAINT FewKinds
INVARIANTS TypeOK Placed Unique
PROPERTIES ImplementsMap EffectOfCalls CallsReturn
CHECK_DEADLOCK FALSE
