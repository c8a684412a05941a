SPECIFICATION ArrangementSpec
CONSTANTS
    Ids = {1, 2, 3, 4}
    Vectors <- MCVectors
    Queries <- MCQueries
    m_neighbours = 1
    ef_construction = 1
    TopLevel = 1
    Answers = {1, 2}
    Resolution = 10
    MaxScore = 1
    None = None
    DocumentIds = {1, 2, 3}
    Texts <- MCTexts
    Alphanumeric = {"a", "A", "b"}
    LowerCase <- MCLowerCase
    Idf <- MCIdf
    ResultCounts = {0, 1, 2}
    Identities = {1, 2, 3}
    Rankings <- MCRankings
    MaxRankings = 3
    KConstants = {0, 1, 1024}
    NotFinite = NotFinite
    Precision = 8
    PublicPrecision = 5
    One = 2
    Unit = 32768
    MaxExponent = 16
INVARIANTS
    ArrangementIndependent
