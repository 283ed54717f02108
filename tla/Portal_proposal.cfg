SPECIFICATION Spec
CONSTANTS
    Now = 150
    YearLength = 100
    Book <- MCBook
    PageSize = 3
INVARIANT
    ProposalIsOffered
