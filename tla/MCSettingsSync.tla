---------------------------- MODULE MCSettingsSync ----------------------------
EXTENDS SettingsSync

CONSTANTS factory, mine, w1, w2

MCPrefs == {factory, mine}
MCWaiters == {w1, w2}
=============================================================================
