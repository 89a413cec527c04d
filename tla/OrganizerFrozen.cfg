SPECIFICATION OrganizerSpec
CONSTANTS
    s1 = s1  s2 = s2  s3 = s3  x1 = x1  x2 = x2
    Null = Null
    Venues = {v1}
    Organizers = {o1}
    Events = {e1}
    Sections = {x1, x2}
    Seats = {s1, s2, s3}
    SectionOf <- MCSectionOf
    Adders = {a1}
    Publishers = {p1}
    MaxVersion = 2
PROPERTY SeatsFrozen
SYMMETRY Symmetry
CHECK_DEADLOCK FALSE
