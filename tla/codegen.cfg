SPECIFICATION Spec
CONSTANTS
  Programs <- MCPrograms
  Values <- MCValues
INVARIANT FollowsSource
INVARIANT EndsWithSource
