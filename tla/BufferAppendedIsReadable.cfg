CONSTANTS
    Bytes = {x, Zero0}
    Zero = Zero0
    kCheapPrepend = 1
    kInitialiSize = 2
    ExtraSize = 2
    MaxSize = 5
SPECIFICATION Spec
PROPERTIES AppendedIsReadable
