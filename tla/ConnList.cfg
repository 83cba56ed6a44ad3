CONSTANTS
  Names   = {default, at1, at2}
  Handles = {h1, h2, h3, h4}
  MaxId   = 5
SPECIFICATION Spec
SYMMETRY Sym
INVARIANTS TypeOK HandlesOwned NodesUnique
PROPERTY ImplementsRegistry
