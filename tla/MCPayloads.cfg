SPECIFICATION Spec
CONSTANTS
  Depth = 3
  GenericIndex <- MCGenerics
  Calls <- MCCalls
  TypeArguments <- MCTypeArguments
  ValuesOf <- MCValuesOf
  RivalsOf <- MCRivalsOf
  PropertyTexts <- MCPropertyTexts
  Variations <- MCVariations
  Kinds = {"entry", "script", "multisig"}
INVARIANTS TextsRead ArgumentMeant ConvertersAgree  MessageDetermines SignedExactly
CHECK_DEADLOCK FALSE
