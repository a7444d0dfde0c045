----------------------------- MODULE TimeSource -----------------------------
(***************************************************************************)
(* What a thread of the proxy that watches a time daemon promises to those *)
(* it notifies, whichever daemon it is: what it learns it tells before it  *)
(* learns more, and a lost connection has been told of before another one  *)
(* is used.  Asked to end, it completes at most the step it is in the      *)
(* middle of.  Ptp4lSource and ChronySource implement it.                  *)
(***************************************************************************)
CONSTANTS Data, Empty  \* what can be known of a daemon; nothing

VARIABLES
  known,  \* what the thread knows of the daemon
  told,   \* what clients are told
  lost,   \* the thread has lost the daemon
  phase   \* "running"; asked to end in the middle of a step ("last") or between
          \* two ("stopping"); "ended"

vars == <<known, told, lost, phase>>

Init == known = Empty /\ told = Empty /\ lost = FALSE /\ phase = "running"

\* A step: any number of them while running, one more when asked to end during it.
Step ==
  \/ phase = "running" /\ phase' = "running"
  \/ phase = "last" /\ phase' = "stopping"

\* Nothing is learned of a lost daemon, nor before what is known is told.
Learn(d) ==
  /\ Step /\ ~lost /\ told = known
  /\ known' = d
  /\ UNCHANGED <<told, lost>>

Tell ==
  /\ Step
  /\ told' = known
  /\ UNCHANGED <<known, lost>>

\* All that is known is void at once.
Lose ==
  /\ Step /\ ~lost /\ told = known
  /\ lost' = TRUE /\ known' = Empty
  /\ UNCHANGED told

\* Only after the loss was told.
Regain ==
  /\ Step /\ lost /\ told = Empty
  /\ lost' = FALSE
  /\ UNCHANGED <<known, told>>

\* The last step has nothing to show.
Skip == phase = "last" /\ phase' = "stopping" /\ UNCHANGED <<known, told, lost>>

Stop ==
  /\ phase = "running" /\ phase' \in {"last", "stopping"}
  /\ UNCHANGED <<known, told, lost>>

\* What has not been told is dropped.
End ==
  /\ phase = "stopping" /\ phase' = "ended"
  /\ known' = told /\ lost' = FALSE
  /\ UNCHANGED told

Next == (\E d \in Data : Learn(d)) \/ Tell \/ Lose \/ Regain \/ Skip \/ Stop \/ End

Spec == Init /\ [][Next]_vars

=============================================================================
