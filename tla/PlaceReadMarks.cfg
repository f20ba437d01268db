\* One component; a client that sends back what it was answered.
CONSTANTS
    Components = {entrance}
    Facts = {a, b}
    Child = child
    Parent = parent
    Grandparent = grandparent
    None = None
    Missing = Missing
    MaxWrites = 2
SPECIFICATION Spec
INVARIANTS AnsweredFactsWereStored
