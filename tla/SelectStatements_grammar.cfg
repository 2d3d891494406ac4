SPECIFICATION SelectSpec
CONSTANTS
    Columns = {"a", "b"}
    MaxTokens = 7
    Tables <- SomeTables
    MaxOrder = 2
    MaxCut = 2
    MaxWhere = 1
    None = None
INVARIANTS
    SelectsByGrammar
    SelectAnswersExact
CHECK_DEADLOCK FALSE
