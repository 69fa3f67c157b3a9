---- MODULE MCIommuMemory ----
\* Two regions with a hole between them; one may be plugged into the hole,
\* another candidate overlaps.  Three IOVAs, mapped across the hole.
EXTENDS IommuMemory, TLC

MCRegions == <<[start |-> 1, len |-> 2], [start |-> 5, len |-> 2]>>
MCHotplug == {[start |-> 3, len |-> 2], [start |-> 2, len |-> 2]}
MCTable == (0 :> [to |-> 2, perm |-> {"r", "w"}]) @@ (1 :> [to |-> 3, perm |-> {"r", "w"}])
           @@ (2 :> [to |-> 1, perm |-> {"r"}])

====
