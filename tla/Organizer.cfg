SPECIFICATION OrganizerSpec
CONSTANTS
    s1 = s1  s2 = s2  s3 = s3  x1 = x1  x2 = x2
    Null = Null
    Venues = {v1}
    Organizers = {o1}
    Events = {e1, e2}
    Sections = {x1, x2}
    Seats = {s1, s2, s3}
    SectionOf <- MCSectionOf
    Adders = {a1, a2}
    Publishers = {p1, p2}
    MaxVersion = 3
INVARIANTS OrganizerTypeOK PublishedWhole
PROPERTIES PublishedOnce VersionNamesContents
SYMMETRY Symmetry
CHECK_DEADLOCK FALSE
