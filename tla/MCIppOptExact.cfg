\* A corner set to what is no whole number of hundredths of a millimetre.
CONSTANTS
    Response <- Services
    MediaSize <- Sizes
    Word <- Words
    Dpi <- Dpis
SPECIFICATION Spec
INVARIANTS
    CornerIsWhatWasTold
