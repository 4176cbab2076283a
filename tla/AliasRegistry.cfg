\* Three aliases, killed commands, --interactive.
SPECIFICATION Spec
SYMMETRY Symmetry
CONSTANTS
    a = a
    b = b
    x = x
    y = y
    z = z
    Real = Real
    NoLink = NoLink
    Apps = {a, b}
    Aliases = {x, y, z}
    HasDefaults = {a}
    Habits = {"interactive", "kill"}
INVARIANT RegistryMatchesLinks
INVARIANT OfOneTarget
PROPERTY CreatedWorks
