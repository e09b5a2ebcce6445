SPECIFICATION RendererSpec
CONSTANTS
  Commands = {c1, c2}
  MaxRenders = 1
INVARIANT RendersBounded
PROPERTY SlotsReturn
PROPERTY ResultShown
