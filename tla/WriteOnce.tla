------------------------------ MODULE WriteOnce ------------------------------
(***************************************************************************)
(* What src/dispatch.rs promises of the process dispatcher: it goes        *)
(* from absent to one installer's pointer and never changes again, that    *)
(* installer and no other is told Ok, and an installer is only refused when*)
(* another has won or is about to.                                         *)
(***************************************************************************)
CONSTANTS Installers, None

VARIABLES value,     \* what a call site reads
          answers    \* what install_dispatcher returned

Init ==
    /\ value = None
    /\ answers = [i \in Installers |-> "pending"]

Install(i) ==
    /\ value = None /\ answers[i] = "pending"
    /\ value' = i
    /\ answers' = [answers EXCEPT ![i] = "ok"]

Refuse(i) ==
    /\ answers[i] = "pending"
    /\ \E j \in Installers \ {i} : answers[j] # "refused"
    /\ answers' = [answers EXCEPT ![i] = "refused"]
    /\ UNCHANGED value

Next == \E i \in Installers : Install(i) \/ Refuse(i)

Spec == Init /\ [][Next]_<<value, answers>>
==============================================================================
