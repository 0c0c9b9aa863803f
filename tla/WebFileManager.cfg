SPECIFICATION FairSpec
CONSTANTS
    Errors <- MCErrors
    PageOps <- MCPageOps
    ScriptOps <- MCScriptOps
    Names <- MCNames
    PageForms <- MCPageForms
    ScriptForms <- MCScriptForms
INVARIANTS
    TypeOK
    EnabledOnlyWhenReady
    ClickRunsItsForm
    DisagreementExplained
PROPERTIES
    FsSuccessMeansDone
    PageComesBack
