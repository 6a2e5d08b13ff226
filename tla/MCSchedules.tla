---------------------------- MODULE MCSchedules -----------------------------
EXTENDS Schedules

CONSTANTS hourly, daily, bad

MCCron == {hourly, daily, bad}
MCBadCron == {bad}
=============================================================================
