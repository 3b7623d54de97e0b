CONSTANTS
    primary = primary  secondary = secondary
    x = x  y = y  z = z  office = office  a = a  b = b  f = f  g = g
    sub = sub  python = python  twin = twin  java = java  other = other
    shadow = shadow  pub = pub
    Clients <- MCClients
    Who = {sub, python, twin, java, other, shadow, pub}
    Groups <- MCGroups
    Publications <- MCPublications
    Order <- MCOrder
    Names = {x, y, z}
    Networks = {office}
    Addresses = {a, b}
    CacheName <- MCCacheName
    MaxChanges = 2
    Initial <- MCInitial
    Empty = Empty
    None = None
SPECIFICATION FairSpec
INVARIANTS TypeOK FailoverReaches OwnAnswer
PROPERTIES SubFinds
CHECK_DEADLOCK FALSE
