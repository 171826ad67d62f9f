---------------------------- MODULE MC_GpioSwitch ----------------------------
EXTENDS GpioSwitch, TLC

\* Model values for the configured devices.
CONSTANTS g1, g2
=============================================================================
