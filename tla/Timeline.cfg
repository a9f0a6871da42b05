SPECIFICATION Spec
CONSTANTS
    Capacity = 3
    Offsets <- MCOffsets
    Watermarks <- MCWatermarks
INVARIANT AnswerWasPublished
PROPERTY AnswersNeverFall
