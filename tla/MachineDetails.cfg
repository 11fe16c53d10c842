SPECIFICATION FairSpec
CONSTANTS
    KeptSections = {"redirection"}
    Menus <- MCMenus
INVARIANTS OneStatusRead LatestShown
PROPERTIES ConsentFirst BusyEnds DeferredEnds
CHECK_DEADLOCK FALSE
