SPECIFICATION Spec
CONSTANTS
    Writers = {w1, w2}
    Messages <- SmallMessages
    Glyphs <- FontGlyphs
    MaxMessages = 2
    FbHeight = 5
    ConsWidth = 3
    FONT_HEIGHT = 2
    PRINTK_BUF_SIZE = 6
    INT_BITS = 16
    MaxGarbage = 2
    SwitchInside = FALSE
INVARIANTS OverrunByPointer CursorInside NumeralsExact
PROPERTIES PrintkReturns ScreenShowsText
