--------------------------- MODULE VtdSession ---------------------------
(***************************************************************************)
(* Sessions that also take a network card away from the host: class        *)
(* DeviceOwnership and run() of experiments/virt-vtd/_run.py, composed     *)
(* with the session that stops the collectors and the virtual machine.     *)
(* The card is one PCI function with a driver, a driver_override and,      *)
(* where NetworkManager configures it, an active profile.                  *)
(***************************************************************************)
EXTENDS Session

VARIABLES
    driver,          \* "host", "vfio" or None
    override,        \* driver_override: as the machine has it, or "vfio"
    profile,         \* the NetworkManager profile of the card is up
    connection,      \* self.connection_uuid: audit() found a profile to take down
    original,        \* self.original_override
    driver_touched, vfio_acquired, profile_down,
    before           \* history: the card when the attempt began

device_vars == <<driver, override, profile, connection, original,
                 driver_touched, vfio_acquired, profile_down, before>>
vtd_vars == <<session_vars, device_vars>>

Card == <<driver, override, profile>>

(***************************************************************************)
(* run() of virt-vtd audits once and before it owns, owns before it binds  *)
(* and before it starts the virtual machine, and stops the virtual machine *)
(* before it restores.                                                     *)
(***************************************************************************)
ASSUME CardAssumption == \A w \in Workflows : \A i \in DOMAIN w :
    LET Earlier(steps) == \E j \in 1..(i - 1) : w[j] \in steps
    IN  /\ w[i] \in {"own", "bind", "restore"} => Earlier({"audit"})
        /\ w[i] = "bind" => Earlier({"own"})
        /\ w[i] = "audit" => ~Earlier({"audit", "own", "bind", "restore"})
        /\ w[i] = "own" => ~Earlier({"workload", "vm"})
        /\ w[i] = "restore" =>
              \A j \in 1..(i - 1) :
                 w[j] \in {"workload", "vm"} => \E k \in j..(i - 1) : w[k] = "vmstop"

VtdInit ==
    /\ SessionInit
    /\ driver = "host" /\ override = "default" /\ profile = ("profile" \notin lost)
    /\ connection = FALSE /\ original = "default"
    /\ driver_touched = FALSE /\ vfio_acquired = FALSE /\ profile_down = FALSE
    /\ before = Card

VtdBegin ==
    /\ Begin
    /\ before' = Card
    /\ UNCHANGED <<driver, override, profile, connection, original,
                   driver_touched, vfio_acquired, profile_down>>

-----------------------------------------------------------------------------
(***************************************************************************)
(* audit() and DeviceOwnership.__init__(): a card that is not with its     *)
(* host driver is no candidate; one without addresses needs no profile     *)
(* taken down.                                                             *)
(***************************************************************************)
Audit ==
    /\ At("audit", "begin") /\ driver = "host"
    /\ connection' = profile /\ original' = override
    /\ driver_touched' = FALSE /\ vfio_acquired' = FALSE /\ profile_down' = FALSE
    /\ NextStep
    /\ UNCHANGED <<driver, override, profile, before>>
    /\ UNCHANGED <<observer_vars, workload_vars, module, trace_vars, capture, file_vars>>

\* restore is registered before the first change and after the observer.
Own ==
    /\ At("own", "begin")
    /\ stack' = Append(stack, "restore") /\ at' = at + 1 /\ phase' = "begin"
    /\ UNCHANGED <<attempt, workflow, pc, cb, raised, signals, lost>>
    /\ UNCHANGED device_vars
    /\ UNCHANGED <<observer_vars, workload_vars, module, trace_vars, capture, file_vars>>

(***************************************************************************)
(* bind_vfio(), one external effect at a time.                             *)
(***************************************************************************)
BindDown ==
    /\ At("bind", "begin")
    /\ profile' = (profile /\ ~connection)
    /\ Phase(IF connection THEN "downed" ELSE "touch")
    /\ UNCHANGED <<driver, override, connection, original,
                   driver_touched, vfio_acquired, profile_down, before>>

BindDowned ==
    /\ At("bind", "downed")
    /\ profile_down' = TRUE
    /\ Phase("touch")
    /\ UNCHANGED <<driver, override, profile, connection, original,
                   driver_touched, vfio_acquired, before>>

\* nmcli reports a failure or a timeout although the profile went down.
BindDownUnnoticed ==
    /\ At("bind", "begin") /\ connection
    /\ profile' = FALSE
    /\ Raise({"profile"})
    /\ UNCHANGED <<driver, override, connection, original,
                   driver_touched, vfio_acquired, profile_down, before>>

\* driver_touched is forgotten.
BindTouchUnflagged ==
    /\ At("bind", "touch")
    /\ override' = "vfio"
    /\ Phase("unbind")
    /\ UNCHANGED <<driver, profile, connection, original, driver_touched,
                   vfio_acquired, profile_down, before>>

BindTouch ==
    /\ At("bind", "touch")
    /\ driver_touched' = TRUE /\ override' = "vfio"
    /\ Phase("unbind")
    /\ UNCHANGED <<driver, profile, connection, original, vfio_acquired, profile_down, before>>

BindUnbind ==
    /\ At("bind", "unbind")
    /\ driver' = None
    /\ Phase("bindvfio")
    /\ UNCHANGED <<override, profile, connection, original,
                   driver_touched, vfio_acquired, profile_down, before>>

BindVfio ==
    /\ At("bind", "bindvfio")
    /\ driver' = "vfio"
    /\ Phase("bound")
    /\ UNCHANGED <<override, profile, connection, original,
                   driver_touched, vfio_acquired, profile_down, before>>

BindDone ==
    /\ At("bind", "bound")
    /\ vfio_acquired' = TRUE
    /\ NextStep
    /\ UNCHANGED <<driver, override, profile, connection, original,
                   driver_touched, profile_down, before>>

Bind ==
    /\ \/ BindDown
       \/ BindDowned
       \/ BindDownUnnoticed
       \/ BindTouch
       \/ BindUnbind
       \/ BindVfio
       \/ BindDone
    /\ UNCHANGED <<observer_vars, workload_vars, module, trace_vars, capture, file_vars>>

-----------------------------------------------------------------------------
(***************************************************************************)
(* restore(), called by run() and once more by the stack.  The write that  *)
(* takes the card from vfio-pci does not return, and no signal interrupts  *)
(* it, while QEMU has the device open.                                     *)
(***************************************************************************)
Restoring(ph) == At("restore", ph) \/ (Closing /\ cb = "restore" /\ phase = ph)

Held == driver = "vfio" /\ WorkloadAlive
Blocked == Restoring("unbind") /\ Held

RestoreStart ==
    /\ Restoring("begin") /\ (driver_touched \/ profile_down)
    /\ Phase(IF driver_touched THEN "unbind" ELSE "profile")
    /\ UNCHANGED device_vars

RestoreUnbind ==
    /\ Restoring("unbind") /\ ~Held
    /\ driver' = IF driver = "vfio" THEN None ELSE driver
    /\ Phase("override")
    /\ UNCHANGED <<override, profile, connection, original,
                   driver_touched, vfio_acquired, profile_down, before>>

RestoreOverride ==
    /\ Restoring("override")
    /\ override' = original
    /\ Phase("bind")
    /\ UNCHANGED <<driver, profile, connection, original,
                   driver_touched, vfio_acquired, profile_down, before>>

\* The host driver takes no device that is reserved for another driver.
RestoreBind ==
    /\ Restoring("bind")
    /\ driver = "host" \/ override = "default"
    /\ driver' = "host"
    /\ driver_touched' = FALSE /\ vfio_acquired' = FALSE
    /\ Phase("profile")
    /\ UNCHANGED <<override, profile, connection, original, profile_down, before>>

RestoreProfile ==
    /\ Restoring("profile")
    /\ profile' = (profile \/ profile_down)
    /\ profile_down' = FALSE
    /\ Phase("done")
    /\ UNCHANGED <<driver, override, connection, original, driver_touched, vfio_acquired, before>>

RestoreDone ==
    /\ \/ Restoring("done")
       \/ Restoring("begin") /\ ~driver_touched /\ ~profile_down
    /\ IF cb = "restore" THEN Returns ELSE NextStep
    /\ UNCHANGED device_vars

\* A command or a write fails, or the card or the management route is not as expected.
RestoreFails ==
    /\ Closing /\ cb = "restore" /\ phase # "begin" /\ ~Blocked
    /\ Raises({"restore"})
    /\ UNCHANGED device_vars

Restore ==
    /\ \/ RestoreStart
       \/ RestoreUnbind
       \/ RestoreOverride
       \/ RestoreBind
       \/ RestoreProfile
       \/ RestoreDone
       \/ RestoreFails
    /\ UNCHANGED <<observer_vars, workload_vars, module, trace_vars, capture, file_vars>>

\* A signal after nmcli and before profile_down is set.
SignalInBind ==
    /\ At("bind", "downed")
    /\ Delivered
    /\ pc' = "xclose" /\ phase' = "begin" /\ lost' = lost \union {"profile"}
    /\ UNCHANGED <<attempt, workflow, at, stack, cb, raised>>
    /\ UNCHANGED <<observer_vars, workload_vars, module, trace_vars, capture, file_vars>>
    /\ UNCHANGED device_vars

-----------------------------------------------------------------------------
VtdController == (Controller /\ UNCHANGED device_vars) \/ Audit \/ Own \/ Bind \/ Restore

VtdSignal == ~Blocked /\ ((Signal /\ UNCHANGED device_vars) \/ SignalInBind)

VtdNext ==
    \/ VtdBegin
    \/ VtdController
    \/ (Environment /\ UNCHANGED device_vars)
    \/ VtdSignal

VtdSpec == VtdInit /\ [][VtdNext]_vtd_vars

(***************************************************************************)
(* Only the controller is fair: each of its waits has a timeout.  Nothing  *)
(* is assumed of the processes, the reader of the trace or the user.       *)
(***************************************************************************)
VtdFairSpec == VtdSpec /\ WF_vtd_vars(VtdController)

-----------------------------------------------------------------------------
(***************************************************************************)
(* After an attempt the card is where it was, bound as it was and with its *)
(* network profile up, unless a signal cut the restore short or the        *)
(* restore itself failed (then "restore" is lost), or bind_vfio() did not  *)
(* get to note that the profile is down: nmcli took it down and said       *)
(* otherwise, or a signal came between nmcli and profile_down = True (then *)
(* "profile" is lost, and restore() leaves the profile down for good).     *)
(***************************************************************************)
CardComesBack ==
    pc = "idle" /\ lost \intersect {"restore", "profile"} = {} => Card = before

(***************************************************************************)
(* capture_finished says "restored": when a capture is published nothing   *)
(* the attempt brought into the machine is still there and the card is     *)
(* where it was, except for the tracefs mount, the vfio modules and the    *)
(* swap, which no code takes away again.                                   *)
(***************************************************************************)
RestoredIsTrue ==
    Fresh => /\ {r \in Resources \union Kept : Present(r)} \subseteq Kept
             /\ Card = before

(***************************************************************************)
(* The undo of the card never waits for a virtual machine the session      *)
(* still has to stop itself: that would be for ever.                       *)
(***************************************************************************)
RestoreNeverWaitsForQemu == Blocked => "workload" \in lost

(***************************************************************************)
(* Every attempt ends, published or failed, whatever hangs; only a virtual *)
(* machine nobody knows of can hold the restore up.                        *)
(***************************************************************************)
AttemptEnds == pc # "idle" ~> pc = "idle" \/ "workload" \in lost
=============================================================================
