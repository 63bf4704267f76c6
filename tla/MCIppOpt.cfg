\* Options of four services, set in any order to values they have and values
\* they do not have.
CONSTANTS
    Response <- Services
    MediaSize <- Sizes
    Word <- Words
    Dpi <- Dpis
SPECIFICATION Spec
INVARIANTS
    TypeOK
    RequestIsOffered
    RegionFitsTheDevice
    SavedAreaRestores
    CornerIsKept
    NearestResolution
    EstimateIsOfTheMode
PROPERTIES
    ReloadIsTold
