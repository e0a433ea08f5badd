---------------------------- MODULE DispatchSlot ----------------------------
(***************************************************************************)
(* The process-wide dispatcher of src/dispatch.rs: a state word and        *)
(* a fat pointer that is written in two words, once, by the installer whose*)
(* swap of the word succeeded.  Call sites read both without a lock.       *)
(***************************************************************************)
CONSTANTS Installers,   \* callers of install_dispatcher, each with a dispatcher
          None

ASSUME InstallersAssumption == None \notin Installers

VARIABLES state,      \* global::STATE
          slot,       \* global::DISPATCHER: the data and the vtable word
          installing  \* how far each call of install_dispatcher has come

slotVars == <<state, slot, installing>>

UNINSTALLED == "UNINSTALLED"
INSTALLING == "INSTALLING"
INSTALLED == "INSTALLED"

Halves == {"data", "vtable"}

SlotTypeOK ==
    /\ state \in {UNINSTALLED, INSTALLING, INSTALLED}
    /\ slot \in [Halves -> Installers \cup {None}]
    /\ installing \in [Installers -> {"pending", "writing", "written", "ok", "refused"}]

SlotInit ==
    /\ state = UNINSTALLED
    /\ slot = [h \in Halves |-> None]
    /\ installing = [i \in Installers |-> "pending"]

\* Variant: the word is tested and set in two accesses, so both may pass.
ClaimableRacy == state # INSTALLED
Claimable == state = UNINSTALLED

Claim(i) ==
    /\ installing[i] = "pending" /\ Claimable
    /\ state' = INSTALLING
    /\ installing' = [installing EXCEPT ![i] = "writing"]
    /\ UNCHANGED slot

\* AlreadyInstalled: also while the winner has not published yet.
Refuse(i) ==
    /\ installing[i] = "pending" /\ ~Claimable
    /\ installing' = [installing EXCEPT ![i] = "refused"]
    /\ UNCHANGED <<state, slot>>

\* One word of the pointer: the write of both is not one access.
WriteHalf(i, half) ==
    /\ installing[i] = "writing" /\ slot[half] # i
    /\ slot' = [slot EXCEPT ![half] = i]
    /\ installing' = [installing EXCEPT ![i] =
                        IF \A h \in Halves : slot'[h] = i THEN "written" ELSE "writing"]
    /\ UNCHANGED state

Publish(i) ==
    /\ installing[i] = "written"
    /\ state' = INSTALLED
    /\ installing' = [installing EXCEPT ![i] = "ok"]
    /\ UNCHANGED slot

Install(i) == Claim(i) \/ Refuse(i) \/ Publish(i) \/ \E h \in Halves : WriteHalf(i, h)

SlotNext == \E i \in Installers : Install(i)

SlotSpec == SlotInit /\ [][SlotNext]_slotVars

\* Variant: any word but UNINSTALLED lets the pointer be read.
VisibleEarly == state # UNINSTALLED
Visible == state = INSTALLED

\* What global::dispatcher() reads: a torn pointer is no installer's.
Dispatcher ==
    IF ~Visible THEN None
    ELSE IF slot["data"] = slot["vtable"] THEN slot["data"] ELSE "torn"

Answer(i) ==
    CASE installing[i] = "ok" -> "ok"
      [] installing[i] = "refused" -> "refused"
      [] OTHER -> "pending"

Promise == INSTANCE WriteOnce WITH
    value <- Dispatcher, answers <- [i \in Installers |-> Answer(i)]

\* Two racing installers and call sites that read while one writes: a reader
\* sees no dispatcher or a whole one, the same for ever after, and exactly its
\* installer was told Ok.
ImplementsSlot == Promise!Spec
==============================================================================
