SPECIFICATION RendererSpec
CONSTANTS
  Commands = {c1, c2}
  MaxRenders = 1
PROPERTY EveryRenderEnds
