SPECIFICATION Spec
CONSTANTS
    Errors <- MCErrors
    PageOps <- MCPageOps
    ScriptOps <- MCScriptOps
    Names <- MCNames
    PageForms <- MCPageForms
    ScriptForms <- MCScriptForms
INVARIANTS
    ConnectedUntilTransferFails
