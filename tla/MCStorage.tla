----------------------------- MODULE MCStorage -----------------------------
(***************************************************************************)
(* What the product keeps in flash, and the bytes that come over the line, *)
(* for TLC: the settings, the leads, the ends of an installation, the      *)
(* receiver.  A behaviour chooses one of them, whose steps it takes; the   *)
(* others keep still where they start, so that what holds of the whole is  *)
(* what holds of each.                                                     *)
(***************************************************************************)
EXTENDS PcReceiver, FlashSlots

CONSTANT Default        \* of the settings, and of the leads

VARIABLES which, set, request, setdev, setsaved, settries, prof, profdev, profsaved, proftries,
          inst, cal, owner, image, capturing, safety, insdev, inssaved, instries, older
settings == <<set, request, setdev, setsaved, settries>>
leads == <<prof, profdev, profsaved, proftries>>
install == <<inst, cal, owner, image, capturing, safety, insdev, inssaved, instries, older>>

S == INSTANCE SettingsStore WITH
        Failures <- Failures \ {"BOOT_READ"},
        s <- set, dev <- setdev, saved <- setsaved, attempts <- settries
L == INSTANCE LeadStore WITH
        Absent <- Default,
        s <- prof, dev <- profdev, saved <- profsaved, attempts <- proftries
I == INSTANCE CalInstall WITH
        Values <- {"x"}, Chunks <- 2, Pages <- 2, SequenceModulus <- 4, Failures <- {"BUS", "SLOW"},
        dev <- insdev, saved <- inssaved, attempts <- instries
ASSUME ValuesAssumption == Default \in Values

StorageInit ==
    /\ which \in {"settings", "leads", "install", "receiver"}
    /\ S!Init /\ L!Init /\ I!Init /\ Init
    /\ which # "install" => safety = "SAFE"
OfSettings == which = "settings" /\ S!Next /\ UNCHANGED <<which, leads, install, vars>>
OfLeads == which = "leads" /\ L!Next /\ UNCHANGED <<which, settings, install, vars>>
OfInstall == which = "install" /\ I!Next /\ UNCHANGED <<which, settings, leads, vars>>
OfReceiver == which = "receiver" /\ Next /\ UNCHANGED <<which, settings, leads, install>>
StorageNext == OfSettings \/ OfLeads \/ OfInstall \/ OfReceiver
(* The fairness of each, as its module justifies it.                       *)
StorageSpec ==
    /\ StorageInit /\ [][StorageNext]_<<which, settings, leads, install, vars>>
    /\ WF_settings(which = "settings" /\ S!Pass(FALSE)) /\ WF_settings(which = "settings" /\ S!Expire)
    /\ WF_install(which = "install" /\ inst.late /\ I!Step)
    /\ WF_install(which = "install" /\ I!Expire) /\ WF_install(which = "install" /\ I!ChipDone)
-----------------------------------------------------------------------------
(* Whatever step the power is lost in, and also when slots cannot be read  *)
(* at boot, a reboot restores a value that was whole: the last one saved,  *)
(* or one whose save was started since; and a save is reported only when a *)
(* reboot restores it.  The settings say "not dirty", with no save started *)
(* since the last one reported, only when a reboot gives what the user     *)
(* sees (app_settings_service.c, lead_profile_store.c).                    *)
StoresImplement == S!ImplementsRegister /\ L!ImplementsRegister /\ S!CleanIsDurable

(* The slot in use is never touched by a save, nor by what a failed one    *)
(* left in the chip.                                                       *)
SlotsUntouched == S!ActiveSlotUntouched /\ L!ActiveSlotUntouched

(* An installation ends, and an edit whose save was asked for is saved,    *)
(* superseded or reported as failed: I!InstallEnds and S!EditSaved at once, *)
(* as only one of the two has anything to do in a behaviour.               *)
Edited == CHOOSE v \in Values : v # Default
WritesEnd ==
    I!Installing \/ S!Asked(Edited) ~> ~I!Installing /\ S!Answered(Edited)
=============================================================================
