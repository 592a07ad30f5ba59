SPECIFICATION Spec
CONSTANTS
  Forms <- MCForms
  Texts <- MCTexts
INVARIANTS
  ReadsBack
  RestIsVerbatim
