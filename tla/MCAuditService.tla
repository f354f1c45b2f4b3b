--------------------------- MODULE MCAuditService ---------------------------
(* AuditService with mixes of what may happen; every behaviour starts with *)
(* one of them.                                                            *)
EXTENDS AuditService

CONSTANTS d1, d2

Mix(f, h, c, r, l) == [faults |-> f, changes |-> h, crashes |-> c,
                       requests |-> r, entries |-> l]
MCBudgets == {Mix(1, 0, 1, {d1}, 0),       \* a restart and a failure
              Mix(1, 1, 0, {d1}, 0),       \* an outage that cannot be recorded
              Mix(0, 0, 0, {d1}, 1),       \* a log entry against a resolution
              Mix(0, 0, 0, {d1, d2}, 0),   \* two requests for one ticket
              Mix(0, 1, 0, {}, 1)}
=============================================================================
