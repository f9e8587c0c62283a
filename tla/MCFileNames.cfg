\* Every name and text of up to three pieces, through every conversion.
SPECIFICATION NamesSpec
CONSTANTS
  JavaTexts <- MCJavaTexts
  NativeTexts <- MCNativeTexts
  Urls <- MCUrls
  Titles <- MCTitles
  Exts <- MCExts
  Items <- MCItems
INVARIANTS
  VmTakesIt
  CrossesUnchanged
  NameConfined
  LinkFindsFile
