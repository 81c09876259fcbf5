SPECIFICATION Spec
CONSTANTS
    r1 = r1
    r2 = r2
    p1 = p1
    p2 = p2
    Runs = {r1, r2}
    Projects = {p1, p2}
    ProjectOf <- OneEach
    MaxAge = 2
    Horizon = 2
INVARIANT TypeOK
PROPERTIES
    SparesYoung
    SweepCollects
SYMMETRY Symmetry
