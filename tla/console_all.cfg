SPECIFICATION Spec
CONSTANTS
    Heights = {5, 7, 9, 12}
    Bodies = {0, 1, 2}
    HelpLines = 4
    MaxMessages = 4
    MaxInput = 2
INVARIANT TypeOK
INVARIANT ScreenIsWindow
INVARIANT StampOnFirstLine
