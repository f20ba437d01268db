\* Two components, three generations, two writes, any number of requests.
CONSTANTS
    Components = {entrance, parking}
    Facts = {a, b}
    Child = child
    Parent = parent
    Grandparent = grandparent
    None = None
    Missing = Missing
    MaxWrites = 2
SPECIFICATION Spec
INVARIANTS OwnComponentsWin OnlyStoredMarksMislead
