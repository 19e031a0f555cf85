CONSTANTS
    d1 = d1
    d2 = d2
    mtu = mtu
    vlan = vlan
    l2 = l2
    l3 = l3
    Null = Null
    Names <- MCNames
    Tests <- MCTests
    Categories <- MCCategories
    CategoriesOf <- MCCategoriesOf
    Pool <- MCPool
    MaxResults = 3
    Atomics <- MCAtomics
    Hides <- MCHides
SPECIFICATION ReportSpec
INVARIANTS
    StatusIsWorst
    StatsAreExact
    GroupingIsCurrent
    ReportsAgree
