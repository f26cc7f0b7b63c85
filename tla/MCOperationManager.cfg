\* Two error codes that map to one RPC code, two bodies, metadata and a clock
\* that ticks for one name; no body and one instant for the pair.  The store is
\* state.Store, whose first failure refuses every later Save.  Fairness is that
\* of RunAsync's goroutine.
SPECIFICATION MCSpec
CONSTANTS
    n1 = n1  n2 = n2
    Names = {n1, n2}
    ScopedNames = {n1}
    TypedNames = {n1}
    Bodies = {none, msg}
    NoBody = none
    Interruption = Interruption
    Codes = {0, 13, 500}
    Metas = {noMeta, meta}
    NoMeta = noMeta
    EndTimes = {1, 2}
    StickyStore = TRUE
    NoOp = NoOp
    NoName = NoName
    Unknown = Unknown
    Active = Active
INVARIANTS PublishedIsDurable AckedDurable BarrierOrder
PROPERTIES ImplementsContract AsyncCompletes
