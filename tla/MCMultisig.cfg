SPECIFICATION Spec
CONSTANTS
  Depth = 3
  GenericIndex <- MCGenerics
  Calls <- MultisigCalls
  TypeArguments <- MCTypeArguments
  ValuesOf <- MCValuesOf
  RivalsOf <- MCRivalsOf
  PropertyTexts = {}
  Variations <- MCVariations
  Kinds = {"multisig"}
INVARIANT PayloadSigned
CHECK_DEADLOCK FALSE
