\* Any two passes at a time, one of which may die half-way.
SPECIFICATION Spec
CONSTANTS
    concept = concept
    entity = entity
    synthesis = synthesis
    one = one
    two = two
    Pages = {concept, entity, synthesis}
    Syntheses = {synthesis}
    Name <- NameOfPage
    LinkLists <- NoneOrAll
    Writers <- SomeWriters
    MaxReplies = 2
    MaxFaults = 1
    MaxDisturbances = 1
SYMMETRY Interchangeable
INVARIANTS
    LinksGoBothWays
    IndexesAreCurrent
    ChangesAreOnRecord
    ChangesAreCommitted
    ReviewComesFirst
CHECK_DEADLOCK FALSE
