CONSTANTS
  Bits = 8
  FractionalBits = 16
  Layers <- AllLayers
  Others <- OtherLayers
SPECIFICATION RequantSpec
INVARIANTS HardwareIsInterpreter SymmetricLayersKeepMeaning
