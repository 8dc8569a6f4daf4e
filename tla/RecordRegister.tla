--------------------------- MODULE RecordRegister ---------------------------
(***************************************************************************)
(* What the egress alert record promises (notify.py, "What holds once the  *)
(* queue has run"): a register on disk, written late.  It is told values;  *)
(* it shows nothing it was not told since it last caught up; and when it   *)
(* has caught up it shows, and keeps through a power loss, the last value  *)
(* told.  Only when it is closed may a value be lost.                      *)
(***************************************************************************)
CONSTANTS Values,   \* what a record may say
          Nothing   \* there is no record

VARIABLES news,     \* the last value told
          owed,     \* the values it may still come to show
          shown,    \* what a reader finds
          lasting,  \* what a power loss may bring back
          open      \* it is to catch up
vars == <<news, owed, shown, lasting, open>>

Any == Values \cup {Nothing}

Init == /\ shown \in Any /\ lasting = shown
        /\ news = shown /\ owed = {} /\ open = FALSE

\* A run begins with what it finds, or by being told a value.
Open ==
  /\ ~open /\ open' = TRUE
  /\ \/ UNCHANGED <<news, owed>>
     \/ news' \in Any /\ owed' = {news'}
  /\ UNCHANGED <<shown, lasting>>

\* Being told a value may make others, not yet shown, void.
Tell == \E v \in Any :
  /\ open /\ news' = v
  /\ owed' \subseteq owed \cup {v} /\ v \in owed'
  /\ UNCHANGED <<shown, lasting, open>>

\* A change attempted may be seen and not last.  The last one does both.
Work ==
  /\ owed # {} /\ owed' \subseteq owed
  /\ shown' \in {shown} \cup owed /\ lasting' \in {lasting, shown'}
  /\ open /\ owed' = {} => news = shown' /\ news = lasting'
  /\ UNCHANGED <<news, open>>

Close == open /\ open' = FALSE /\ UNCHANGED <<news, owed, shown, lasting>>

\* The process ends, or the power fails.
End ==
  /\ shown' \in {shown, lasting} \cup owed /\ lasting' \in {lasting, shown'}
  /\ open' = FALSE /\ owed' = {} /\ news' = shown'

Next == Open \/ Tell \/ Work \/ Close \/ End

Spec == Init /\ [][Next]_vars
=============================================================================
