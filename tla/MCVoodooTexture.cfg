\* Two render threads, two slots for three textures.
SPECIFICATION Spec
CONSTANTS
  brick = brick
  sky = sky
  moss = moss
  RENDER_THREADS = 2
  PARAM_SIZE = 3
  TEX_CACHE_MAX = 2
  Textures <- MCTextures
  TEX_PAGE = 4
  TEX_PAGES = 2
  Ranges <- MCRanges
INVARIANTS RightTexture CacheConsistent
PROPERTY SearchEnds
