\* one component a behaviour; their bounds are in MCComponents
SPECIFICATION Spec
CONSTANT NoVersion = NoVersion
CHECK_DEADLOCK FALSE
INVARIANTS
    MergesAgree
    AnswersHold
    SearchHolds
    ReadsHold
    PanelHolds
    IndexesHold
    ContentsHold
    ConversionsHold
    OriginalsHold
    ImportsHold
