----------------------------- MODULE Discovery ------------------------------
(***************************************************************************)
(* How Home Assistant comes by a panel's Bluetooth scanner:                *)
(* ScannerEnrollment of custom_components/pi_panel/discovery.py runs the   *)
(* config flow of the ESPHome integration for it, gives the new entry its  *)
(* options and its device an area, and leaves what it did not create       *)
(* alone.  One scanner; the entries and flows are Home Assistant's.        *)
(*                                                                         *)
(* enroll is cut off after 45 seconds, at any of its awaits, and what it   *)
(* asked Home Assistant for may be done all the same.                      *)
(***************************************************************************)
CONSTANT NoEntry

ASSUME DiscoveryAssumption == NoEntry \notin {"ours", "theirs", "ignored"}

VARIABLES
    candidate,  \* scanner_candidate finds the panel fit
    \* ScannerEnrollment
    enrolling,  \* the await enroll is in
    due,        \* retry_at is over
    finished,   \* in self.done
    created,    \* in self.created
    \* Home Assistant
    entry,      \* the ESPHome entry with the scanner's address
    device,     \* its device is registered
    area,       \* it has its area
    room,       \* exactly one area matches the panel's room
    flow        \* a config flow for the scanner is in progress

enrollMemory == <<enrolling, due, finished, created>>
discoveryVars == <<candidate, enrollMemory, entry, device, area, room, flow>>

----------------------------------------------------------------------------
(* assign_area: no guess if there is no single match.                      *)
AreaDue == room /\ ~device

(* There is an entry: assign its area if it is new, and be done.           *)
Recognises ==
    /\ candidate /\ enrolling = "no" /\ due /\ ~finished
    /\ entry # NoEntry
    /\ IF created /\ entry # "ignored"
       THEN /\ area' = (area \/ (room /\ device))
            /\ finished' = ~AreaDue
       ELSE finished' = TRUE /\ UNCHANGED area
    /\ due' = FALSE
    /\ UNCHANGED <<candidate, enrolling, created, entry, device, room, flow>>

(* There is none: async_init opens a flow, which shows its form, unless    *)
(* another flow has it.                                                    *)
OpensFlow ==
    /\ candidate /\ enrolling = "no" /\ due /\ ~finished
    /\ entry = NoEntry
    /\ due' = FALSE
    /\ enrolling' = IF flow THEN "no" ELSE "form"
    /\ flow' = TRUE
    /\ UNCHANGED <<candidate, finished, created, entry, device, area, room>>

FlowAfter_Left == flow

(* The finally clause aborts a flow that is still in progress.             *)
FlowAfter == FALSE

(* async_configure creates the entry; its options follow without an await. *)
Creates ==
    /\ enrolling = "form" /\ entry = NoEntry
    /\ entry' = "ours" /\ device' = FALSE /\ area' = FALSE
    /\ created' = TRUE
    /\ enrolling' = "no" /\ flow' = FALSE
    /\ UNCHANGED <<candidate, due, finished, room>>

(* Somebody else was faster.                                               *)
AlreadyThere ==
    /\ enrolling = "form" /\ entry # NoEntry
    /\ finished' = TRUE
    /\ enrolling' = "no" /\ flow' = FALSE
    /\ UNCHANGED <<candidate, due, created, entry, device, area, room>>

(* The scanner cannot be reached, Home Assistant raises, or the 45 seconds *)
(* are over, perhaps after the entry was made.                             *)
GivesUpEnrolling ==
    /\ enrolling = "form"
    /\ \/ UNCHANGED <<entry, device, area>>
       \/ entry = NoEntry /\ entry' = "ours" /\ device' = FALSE /\ area' = FALSE
    /\ enrolling' = "no"
    /\ flow' = FlowAfter
    /\ UNCHANGED <<candidate, due, finished, created, room>>

RetryDue ==
    /\ ~due
    /\ due' = TRUE
    /\ UNCHANGED <<candidate, enrolling, finished, created, entry, device, area, room, flow>>

----------------------------------------------------------------------------
(* Home Assistant and its users.                                           *)

DeviceAppears ==
    /\ entry \notin {NoEntry, "ignored"} /\ ~device
    /\ device' = TRUE
    /\ UNCHANGED <<candidate, enrollMemory, entry, area, room, flow>>

EntryChanges(e) ==
    /\ entry' = e /\ device' = FALSE /\ area' = FALSE
    /\ UNCHANGED <<candidate, enrollMemory, room, flow>>

CandidateChanges ==
    /\ candidate' = ~candidate
    /\ UNCHANGED <<enrollMemory, entry, device, area, room, flow>>

RoomChanges ==
    /\ room' = ~room
    /\ UNCHANGED <<candidate, enrollMemory, entry, device, area, flow>>

(* What the enrolment remembers and the flows are gone, entries are kept.  *)
HomeAssistantRestarts ==
    /\ enrolling' = "no" /\ due' = TRUE /\ finished' = FALSE /\ created' = FALSE
    /\ flow' = FALSE
    /\ UNCHANGED <<candidate, entry, device, area, room>>

----------------------------------------------------------------------------
DiscoveryInit ==
    /\ candidate = FALSE
    /\ enrolling = "no" /\ due = TRUE /\ finished = FALSE /\ created = FALSE
    /\ entry = NoEntry /\ device = FALSE /\ area = FALSE /\ room = TRUE
    /\ flow = FALSE

Enrolment == Recognises \/ OpensFlow \/ Creates \/ AlreadyThere

DiscoveryTrouble ==
    \/ GivesUpEnrolling \/ CandidateChanges \/ RoomChanges \/ HomeAssistantRestarts
    \/ \E e \in {NoEntry, "theirs", "ignored"} : EntryChanges(e)

DiscoveryTypes ==
    /\ candidate \in BOOLEAN /\ enrolling \in {"no", "form"}
    /\ due \in BOOLEAN /\ finished \in BOOLEAN /\ created \in BOOLEAN
    /\ entry \in {NoEntry, "ours", "theirs", "ignored"}
    /\ device \in BOOLEAN /\ area \in BOOLEAN /\ room \in BOOLEAN /\ flow \in BOOLEAN
=============================================================================
