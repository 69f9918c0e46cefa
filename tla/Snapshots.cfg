\* One entity other than ships, so that three are cut to two.
SPECIFICATION FairSpec
CONSTANTS
    Players = {1, 2}
    Bodies = {3}
    BodyTypes = {grub, ball}
    MaxEntities = 2
    Locals = {l1, l2, l3, l4, l5, l6}
    Slots = {s1, s2}
INVARIANTS
    ScreenIsASnapshot
    FoundersAreSent
PROPERTIES
    ScreenFollows
