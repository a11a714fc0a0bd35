---------------------------- MODULE MCUiBindings ----------------------------
EXTENDS UiBindings
CONSTANTS first, second, early, later, kept, brief
MCCaller == [c \in {early} |-> first]
MCKeepAlive == [r \in {kept, brief} |-> IF r = kept THEN 2 ELSE 0]
=============================================================================
