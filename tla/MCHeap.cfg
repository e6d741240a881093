CONSTANTS
    Width = 2
    Slots = 3
    Rest = 3
    Pages = 3
    Lengths = {2, 3, 6, 11, 12, 14}
    Leftovers = {{}, {4}, {4, 5}}
SPECIFICATION Spec
INVARIANTS ListsTrue BitmapTrue NothingLeaks NoFailure
PROPERTIES Implements
\* The kernel stops, or does what cannot be foretold, after a write outside _head.entry.
CHECK_DEADLOCK FALSE
