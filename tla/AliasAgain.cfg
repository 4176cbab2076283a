\* An alias is created again, as after a killed create.
SPECIFICATION Spec
CONSTANTS
    a = a
    b = b
    x = x
    y = y
    z = z
    Real = Real
    NoLink = NoLink
    Apps = {a, b}
    Aliases = {x, y, z}
    HasDefaults = {a}
    Habits = {"again"}
PROPERTY AliasesStay
