\* Guarded calls that do not nest, and every exception; the nested setting is
\* in the module.
CONSTANTS
  Limits <- MCFlatLimits
  MaxDepth = 1
  FnRaisesOther = TRUE
  FnCatches = FALSE
  SleekCount = 2
SPECIFICATION MCSpec
INVARIANTS TypeOK WithinLimit AlarmHandled
PROPERTIES CallEnds NestedTimeoutIsDue
