SPECIFICATION FairSpec
CONSTANTS
    LabelBits = 24
    a = a
    b = b
    c = c
    d = d
    Slots = {0, 8, 33}
    MaxHops = 3
    Nodes = {a, b, c}
    Table <- MCTable
    Newcomers = {d}
    SentLabels <- MCSentLabels
    MaxChanges = 2
INVARIANTS
    AnswersReachSender
PROPERTIES
    PacketsEnd
    LabelsStay
