-------------------------- MODULE MCTimeBaseState --------------------------
(* Instances of TimeBaseState for TLC. *)
EXTENDS TimeBaseState, TLC

Threads == Permutations(App)

Sub(mask, composite, threshold, sysMask) ==
  [clocks |-> {"PTP", "Sys"}, mask |-> mask, composite |-> composite,
   threshold |-> threshold, sysMask |-> sysMask, sysThreshold |-> threshold]

Ptp(offset_, gm_, ready) ==
  [offset |-> offset_, gm |-> gm_, synced |-> ready, capable |-> ready,
   interval |-> TRUE]

\* The overflow is computed in 32 bits.
Wraps == -8

\* Offsets zero, on a limit of a threshold of 1 and beyond the other; either of
\* two grandmasters; a clock that is ready or not.
MCPtpData == {NoPtpData, Ptp(0, 1, TRUE), Ptp(1, 1, FALSE), Ptp(1, 0, TRUE),
              Ptp(-3, 1, TRUE)}
MCSysData == {NoSysData, [offset |-> 2, source |-> TRUE]}
\* Everything, with a composite event; one event of the PTP clock alone; a threshold
\* that is negative as a signed number.
MCSubscription ==
  {Sub(EventIndex, {"OffsetInRange", "AsCapable"}, 1, {"OffsetInRange"}),
   [Sub({"SyncedWithGm"}, {"SyncedWithGm"}, 1, {}) EXCEPT !.clocks = {"PTP"}],
   [Sub({"OffsetInRange"}, {}, 2 * Half - 1, {}) EXCEPT !.clocks = {"PTP"}]}
============================================================================
