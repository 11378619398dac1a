------------------------------ MODULE MCStage0 ------------------------------
EXTENDS Stage0

CONSTANTS MIN_COUNT, MAX_COUNT   \* of reserved sectors

MCCounts == MIN_COUNT .. MAX_COUNT
=============================================================================
