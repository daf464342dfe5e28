------------------------------ MODULE MCPowerPlan ------------------------------
EXTENDS PowerPlan, TLC

CONSTANTS p1, p2, p3

\* The plans of the user and of the rules are interchangeable.
PlanSymmetry == Permutations({p1, p2, p3})
================================================================================
