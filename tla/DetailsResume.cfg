SPECIFICATION Spec
CONSTANTS
    KeptSections = {"redirection"}
    Menus <- MCMenus
PROPERTY TrustRetries
CHECK_DEADLOCK FALSE
