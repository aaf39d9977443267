SPECIFICATION Spec
CONSTANT
    MaxQueries = 4
INVARIANTS
    TypeOK
    NotifiedInOrder
    NothingForgotten
    ExecutedInOrder
