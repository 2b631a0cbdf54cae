SPECIFICATION Spec
CONSTANTS
    q1 = q1
    q2 = q2
    cat = cat
    tag = tag
    badge = badge
    Queries = {q1, q2}
    NoQuery = noQuery
    Categories = {cat}
    Tags = {tag}
    Badges = {badge}
    Counts <- MCCounts
    Total <- MCTotal
    Withheld = {q1}
    Addresses <- MCAddresses
    Sizes = {1, 4}
    DefaultSize = 1
    MaxRemoved = 2
INVARIANT
    PageInRange
PROPERTY
    SearchTakesEffect
