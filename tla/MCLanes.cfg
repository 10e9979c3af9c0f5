SPECIFICATION Spec
INVARIANTS QuotesKeepThePrice IndexerIsTold UndoIsExact
 
CHECK_DEADLOCK FALSE
