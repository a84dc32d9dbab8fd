-------------------------- MODULE MCMicArbitrator --------------------------
\* Two candidates: a two-channel array and a device used for channel 1 only.
EXTENDS MicArbitrator

TwoMics == <<{0, 1}, {1}>>
============================================================================
