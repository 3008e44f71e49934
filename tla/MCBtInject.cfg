SPECIFICATION Spec
CONSTANTS
    Mails <- MCMails
    Fields = {"Compiler", "Build start"}
    LargeFiles = {"large"}
    SmallFiles = {"small"}
    Elsewhere = {"elsewhere"}
    MaxLines = 4
    MaxFields = 3
INVARIANTS TypeOK AnswerExplained FieldsAsReported
PROPERTIES PostEnds ExitsWhenIngested
CHECK_DEADLOCK FALSE
