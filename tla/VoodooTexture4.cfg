\* Four render threads: only the counts of two are compared.
SPECIFICATION Spec
CONSTANTS
  brick = brick
  sky = sky
  moss = moss
  RENDER_THREADS = 4
  PARAM_SIZE = 2
  TEX_CACHE_MAX = 2
  Textures <- MCTextures
  TEX_PAGE = 4
  TEX_PAGES = 2
  Ranges <- MCRanges
INVARIANT RightTexture
