\* An image of up to four rows of two bytes, read three bytes at a time at
\* most: reads end inside of rows, and the queue grows twice.
CONSTANTS
    RowBytes = 2
    MaxRows  = 4
    MaxRead  = 3
SPECIFICATION Spec
INVARIANTS
    TypeOK
    BytesInOrder
PROPERTIES
    Refines
