----------------------------- MODULE MCStaking ------------------------------
EXTENDS Staking

\* The instances have the tokens that NothingRetroactive speaks about.
ASSUME SupplyAssumption == SupplyFits

Schedule(start, duration, cliff) ==
  [start |-> start, vesting_duration |-> duration, cliff_duration |-> cliff]

\* Two schedules with a linear part, and two that create_vesting_plan refuses: a cliff as long
\* as the schedule, no start.
MCSchedules == {Schedule(2, 3, 1), Schedule(1, 4, 2), Schedule(1, 2, 2), Schedule(0, 3, 1)}
=============================================================================
