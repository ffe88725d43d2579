CONSTANTS
    Declarations <- MCDeclarations
    Rank <- MCRank
    Unset = Unset
    Schemas <- MCSchemas
    Casts <- MCCasts
    ExtensionOf <- MCExtensionOf
    Timescale <- MCTimescale
    Initial = {"graphs"}
    MaxPending <- MCMaxPending
    None = None
SPECIFICATION Spec
INVARIANTS PlanIsWellFormed OrderIndependent OneKeyPerRelation LoadersMatchPlan Converges
