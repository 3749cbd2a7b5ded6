SPECIFICATION Spec
CONSTANTS
  FirstDay <- MCFirstDay
  Days = 400
INVARIANT RoundTrips
