SPECIFICATION Spec
CONSTANTS
  letter = letter
  unprintable = unprintable
  Glyph <- MCGlyph
  ByteBits = 2
  GlyphWidth = 2
  GlyphHeight = 1
  CharWidth = 3
  CharHeight = 2
  MaxChars = 3
  MaxInt16 = 10
  Width = 4
  TotalPages = 3
  PagesPerBuffer = 2
  MaxCalls = 1
  Xs <- MCXs
  Ys <- MCYs
  Sizes <- MCSizes
  Centres <- MCCentres
  Radii <- MCRadii
  Ends <- MCEnds
  Starts <- MCStarts
  Texts <- MCTexts
  Bands <- MCBands
CHECK_DEADLOCK FALSE
INVARIANTS LineIsTheSegment CirclesAreRound TextIsCoherent BitmapReadInBounds
PROPERTIES DrawsWhatWasAsked ChangesAreDirty
