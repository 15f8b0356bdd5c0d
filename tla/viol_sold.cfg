CONSTANTS
    Cars = {1, 2}
    Projects = {p1, p2}
    Prices = {1, 2}
    Specs = {1, 2}
    Minor <- NewlyKnown
    Vehicle <- OneVehicle
    Narrow = {2}
    PageSize = 1
    MaxPages = 3
    MaxScans = 3
    MaxChanges = 1
    None = None
SYMMETRY EitherProject
SPECIFICATION Spec
INVARIANT SoldReachesEveryProject
CHECK_DEADLOCK FALSE
