SPECIFICATION Spec
CONSTANTS
    Names <- MCNames
    Folders <- MCFolders
    Cwds <- MCCwds
    DirArgs <- MCDirArgs
    Trees <- MCTrees
    Split <- MCSplit
    Undrive <- MCUndrive
PROPERTIES
    SameCommandFinds
