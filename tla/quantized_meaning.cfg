CONSTANTS
  Bits = 8
  FractionalBits = 16
  Layers <- PixelLayers
  Others <- PixelLayers
SPECIFICATION RequantSpec
INVARIANT QuantizationKeepsMeaning
