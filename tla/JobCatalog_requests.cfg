CONSTANTS
    a = a  u = u  n1 = n1  n2 = n2  c1 = c1  c2 = c2
    NULL = NULL
    Unset = Unset
    NoRow = NoRow
    Users = {a, u}
    Admins = {a}
    Names = {n1, n2}
    MaxJobs = 3
    MaxRuns = 2
    Clients = {c1, c2}
    RefSets <- SmallRefSets
SPECIFICATION Spec
SYMMETRY SwapClientsAndNames
INVARIANTS
    TypeOK
    NamesUnique
    RowsJoin
    SavedDependencies
    RunsOpenTheirJobs
