--------------------------- MODULE MCQueueProgress ---------------------------
(* One car and its device.                                                 *)
EXTENDS QueueProgress, TLC

CONSTANTS c1, d1

OneCarOf == d1 :> c1

\* To keep the instance small: a heartbeat's statements run in one go (those of
\* the run queue overlap its transactions).
HeartbeatsInOneGo == \A d \in Devices : beat[d] # None => beat'[d] # beat[d]

PromptSpec == Init /\ [][PatientNext /\ HeartbeatsInOneGo]_vars /\ PatientFairness
==============================================================================
