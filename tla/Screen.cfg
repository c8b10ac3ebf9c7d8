SPECIFICATION Spec
CONSTANTS
    Writers = {Shell, Keyboard}
    Keyboard = Keyboard
    Width = 2
    Height = 2
    ByteMod = 5
    WordSize = 256
INVARIANT QuietOnScreen
INVARIANT StoresInside
INVARIANT NumeralsRight
INVARIANT ClockRight
