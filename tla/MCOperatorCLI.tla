---------------------------- MODULE MCOperatorCLI ----------------------------
EXTENDS OperatorCLI

CONSTANTS a1, a2

ConfiguredA1 == <<a1>>

=============================================================================
