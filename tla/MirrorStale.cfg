CONSTANTS
    c1 = c1
    c2 = c2
    c3 = c3
    hr = hr
    Command = {c1, c2, c3}
    Dest = {hr}
    Pairs <- OneSchema
    Impl <- OneShell
    Parent <- ParentOf
    Editable = {}
    NoDest = NoDest
    NoCommand = NoCommand

SPECIFICATION Spec

INVARIANT SameShellExcludes

CHECK_DEADLOCK FALSE
