------------------------------ MODULE MCUsage ------------------------------
EXTENDS Usage, TLC

\* Every window, on no day; limits at any time of day.
MCPolicies ==
    [days: {{}}, start: 0..MinutesPerDay - 1, end: 1..MinutesPerDay,
     limit: {0}, max: {0}]
    \cup [days: {{0, 1}}, start: {0}, end: {MinutesPerDay}, limit: {1, 2}, max: {0, 1}]
    \cup [days: {{1}}, start: {0}, end: {MinutesPerDay}, limit: {1}, max: {0}]

Symmetry == Permutations(Ticket)
=============================================================================
