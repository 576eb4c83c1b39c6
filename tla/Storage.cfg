SPECIFICATION FairSpec
CONSTANTS
    Threads = {t1, t2}
    Names <- MCNames
    Images = {"old", "new"}
    Folders <- MCFolders
    FolderOf <- MCFolderOf
    Parent <- MCParent
    NoFolder = NoFolder
    Pieces = 2
    Missing = Missing
    Damaged = Damaged
INVARIANTS
    TypeOK
    SaversAreAlone
    LoadsAreWhole
    FilesAreWhole
PROPERTIES
    RefinesImageStore
    CallsReturn
