\* One to three time partitions, every trajectory shape of the fixture.
SPECIFICATION Spec
INVARIANT SegmentsFollowLayout
PROPERTY ConvergesWithinBudget
